--------------------------- MODULE ClientSession ---------------------------
(***************************************************************************)
(* The session as the browser keeps it: AuthProvider, the sign-in and      *)
(* callback pages, the guards of the protected pages, and the stores those *)
(* pages fill, over SessionService and JwtAuthGuard.                       *)
(*                                                                         *)
(* localStorage (the session token) is shared by all tabs; sessionStorage  *)
(* (the zkLogin state) is a tab's own and outlives a page load; AuthContext*)
(* and the stores are a tab's own and do not.  Every request carries the   *)
(* token found in localStorage when it is SENT, whatever user the tab      *)
(* shows, and its answer is used in whatever state the tab is in by then.  *)
(***************************************************************************)
EXTENDS Naturals, FiniteSets

CONSTANTS
    Tab, User,
    Session,   \* bound: session rows ever created
    Faults,    \* which of "net", "expire" may happen
    MaxFaults, \* bound: requests lost and sessions expired
    MaxLoads,  \* bound: page loads by hand
    Nil

ASSUME ClientAssumption ==
    /\ Faults \subseteq {"net", "expire"}
    /\ MaxFaults \in Nat /\ MaxLoads \in Nat
    /\ User \cap Session = {} /\ Nil \notin {"refused", "lost", "revoked"}
    /\ {Nil, "refused", "lost", "revoked"} \cap (User \cup Session) = {}

VARIABLES
    owner,     \* session rows: whose, Nil if not created
    dead,      \* sessions revoked or expired
    stored,    \* localStorage: SESSION_KEY
    page,      \* where each tab is
    user,      \* AuthContext: user
    loading,   \* AuthContext: isLoading
    account,   \* callback page: the Google account of the id_token
    zk,        \* sessionStorage: whose proof is in ZK_PROOF_KEY
    store,     \* whose data each store of a tab holds
    wire,      \* requests in flight, with the server's answer once there is one
    lost, loads,      \* counters for the bounds
    leftover,         \* history: tabs whose user was signed out in another tab
    switched, cutOff, \* history: a sign-in beside an older token or another tab's
                      \* user, or over the proof left over in this tab; a token
                      \* dropped because it could not be verified
    strayed           \* history: good sessions that left localStorage, or never
                      \* got there, without the server being told

server == <<owner, dead>>
shown  == <<page, user, loading, account>>
hist   == <<switched, cutOff, leftover, strayed>>
bounds == <<lost, loads>>
clientVars == <<server, stored, shown, zk, store, wire, bounds, hist>>

-----------------------------------------------------------------------------
\* A store that signOut resets (ink, reading, passport, journal, badges, creator),
\* and one it forgets (payments, submissions with the user's own vote, AI chat).
ResetStore == {"reset"}
Store      == ResetStore \cup {"kept"}

NoData == [s \in Store |-> Nil]
RequestKind == {"me", "complete", "proof", "logout"} \cup Store

ClientInit ==
    /\ owner = [s \in Session |-> Nil] /\ dead = {}
    /\ stored = Nil
    /\ page = [t \in Tab |-> "closed"]
    /\ user = [t \in Tab |-> Nil] /\ loading = [t \in Tab |-> FALSE]
    /\ account = [t \in Tab |-> Nil] /\ zk = [t \in Tab |-> Nil]
    /\ store = [t \in Tab |-> NoData]
    /\ wire = [t \in Tab |-> {}]
    /\ lost = 0 /\ loads = 0
    /\ switched = FALSE /\ cutOff = FALSE /\ leftover = {} /\ strayed = {}

Sent(t, k)     == \E r \in wire[t] : r.kind = k
\* The interceptor of apiClient: the token is read at the request.
Request(k)     == [kind |-> k, token |-> stored, answer |-> Nil]
SignIn(k, u)   == [kind |-> k, token |-> u, answer |-> Nil]   \* with the id_token
Send(t, ks)    == wire' = [wire EXCEPT ![t] = @ \cup {Request(k) : k \in ks}]
Receive(t, r)  == wire' = [wire EXCEPT ![t] = @ \ {r}]
Answered(r)    == r.answer # Nil
Refused(r)     == r.answer \in {"refused", "lost"}
live(s)        == s # Nil /\ s \notin dead
Live(S)        == {s \in S : live(s)}

-----------------------------------------------------------------------------
(***************************************************************************)
(* A page load: the tab's JavaScript starts afresh.                        *)
(***************************************************************************)

\* AuthProvider's effect: with a stored token, GET /auth/me decides; without one
\* there is nothing to load.  What was in flight is nobody's any more.
mount(t, p, signIn) ==
    /\ page' = [page EXCEPT ![t] = p]
    /\ user' = [user EXCEPT ![t] = Nil]
    /\ loading' = [loading EXCEPT ![t] = stored # Nil]
    /\ store' = [store EXCEPT ![t] = NoData]
    /\ wire' = [wire EXCEPT ![t] = signIn \cup (IF stored # Nil THEN {Request("me")} ELSE {})]

\* The sessions of sign-ins whose answer nobody awaits any more.
Abandoned(t) == {r.answer : r \in {q \in wire[t] : q.kind = "complete"}} \cap Session

\* A tab is opened, or reloaded, on a protected page.
openTab(t) ==
    /\ page[t] \in {"closed", "home", "signin"} /\ loads < MaxLoads
    /\ mount(t, "home", {})
    /\ loads' = loads + 1
    /\ strayed' = strayed \cup Live(Abandoned(t))
    /\ UNCHANGED <<server, stored, account, zk, lost, switched, cutOff, leftover>>

\* /auth/me answered.  A failure of any kind wipes whatever token is stored now.
verified(t) ==
    \E r \in wire[t] :
       /\ r.kind = "me" /\ Answered(r)
       /\ Receive(t, r)
       /\ loading' = [loading EXCEPT ![t] = FALSE]
       /\ IF Refused(r)
          THEN /\ stored' = Nil /\ cutOff' = TRUE
               /\ strayed' = strayed \cup Live({stored})
               /\ UNCHANGED user
          ELSE /\ user' = [user EXCEPT ![t] = r.answer]
               /\ UNCHANGED <<stored, cutOff, strayed>>
       /\ UNCHANGED <<server, page, account, zk, store, bounds, switched, leftover>>

\* ProtectedLayout sends guests to the sign-in page (except on /read/), and the
\* sign-in page sends users to the dashboard.
redirected(t) ==
    /\ ~loading[t]
    /\ \/ page[t] = "home" /\ user[t] = Nil /\ page' = [page EXCEPT ![t] = "signin"]
       \/ page[t] = "signin" /\ user[t] # Nil /\ page' = [page EXCEPT ![t] = "home"]
    /\ UNCHANGED <<server, stored, user, loading, account, zk, store, wire, bounds, hist>>

-----------------------------------------------------------------------------
(***************************************************************************)
(* Sign-in.                                                                *)
(***************************************************************************)

\* buildGoogleOAuthUrl stores a fresh ephemeral key and leaves the site; it does
\* not wait for the verification of a stored token.
handleGoogleSignIn(t) ==
    /\ page[t] = "signin" /\ ~Sent(t, "logout")
    /\ page' = [page EXCEPT ![t] = "google"]
    /\ user' = [user EXCEPT ![t] = Nil] /\ loading' = [loading EXCEPT ![t] = FALSE]
    /\ store' = [store EXCEPT ![t] = NoData]
    /\ wire' = [wire EXCEPT ![t] = {}]
    /\ strayed' = strayed \cup Live(Abandoned(t))
    /\ UNCHANGED <<server, stored, account, zk, bounds, switched, cutOff, leftover>>

\* Google comes back with an id_token: the page starts both requests at once, and
\* AuthProvider, mounted with it, verifies the stored token beside them.
handleCallback(t, u) ==
    /\ page[t] = "google"
    /\ mount(t, "callback", {SignIn(k, u) : k \in {"complete", "proof"}})
    /\ account' = [account EXCEPT ![t] = u]
    /\ switched' = (switched \/ stored # Nil)
    /\ UNCHANGED <<server, stored, zk, bounds, cutOff, leftover, strayed>>

\* Google comes back with an error, or without a token.
oauthError(t) ==
    /\ page[t] = "google"
    /\ mount(t, "signin", {})
    /\ UNCHANGED <<server, stored, account, zk, bounds, hist>>

\* Another tab shows somebody else, can sign for them, has requests in flight with
\* their token, or is signing in.
Beside(t, u) ==
    \E x \in Tab \ {t} :
       \/ page[x] = "callback"
       \/ ({user[x], zk[x]} \cup {owner[r.token] : r \in {q \in wire[x] : q.token \in Session}})
             \ {Nil, u} # {}

\* The tab still has the proof of somebody whom another tab signed out.
Over(t, u) == t \in leftover /\ zk[t] \notin {Nil, u}

\* completeSignIn answered: the token is stored and the user shown, whether or not
\* the callback page still waits.
completeSignIn(t) ==
    \E r \in wire[t] :
       /\ r.kind = "complete" /\ r.answer \in Session
       /\ Receive(t, r)
       /\ stored' = r.answer
       /\ user' = [user EXCEPT ![t] = owner[r.answer]]
       /\ switched' = (switched \/ Beside(t, owner[r.answer]) \/ Over(t, owner[r.answer]))
       /\ strayed' = strayed \cup Live({stored})
       /\ UNCHANGED <<server, page, loading, account, zk, store, bounds, cutOff, leftover>>

\* The proof has come (the proxy keeps nothing); the page stores it once both have.
requestZkProof(t) ==
    \E r \in wire[t] :
       /\ r.kind = "proof" /\ ~Answered(r)
       /\ Receive(t, r)
       /\ UNCHANGED <<server, stored, shown, zk, store, bounds, hist>>

\* Promise.all is fulfilled: storeZkState, and on to the site.
signedIn(t) ==
    /\ page[t] = "callback" /\ ~Sent(t, "complete") /\ ~Sent(t, "proof")
    /\ zk' = [zk EXCEPT ![t] = account[t]]
    /\ page' = [page EXCEPT ![t] = "home"]
    /\ account' = [account EXCEPT ![t] = Nil]
    /\ UNCHANGED <<server, stored, user, loading, store, wire, bounds, hist>>

\* Either failed: /sign-in?error=auth_failed.  The other runs on, and a session it
\* brings later is still stored: the user is then signed in without a proof.
signInFailed(t) ==
    \E r \in wire[t] :
       /\ r.kind \in {"complete", "proof"} /\ Refused(r)
       /\ Receive(t, r)
       /\ page' = [page EXCEPT ![t] = IF @ = "callback" THEN "signin" ELSE @]
       /\ account' = [account EXCEPT ![t] = Nil]
       /\ UNCHANGED <<server, stored, user, loading, zk, store, bounds, hist>>

-----------------------------------------------------------------------------
(***************************************************************************)
(* Sign-out.                                                               *)
(***************************************************************************)
signOut(t) ==
    /\ page[t] = "home" /\ user[t] # Nil /\ ~Sent(t, "logout")
    /\ Send(t, {"logout"})
    /\ UNCHANGED <<server, stored, shown, zk, store, bounds, hist>>

clearStoredAuth == stored' = Nil
\* (mutant) the proof stays in sessionStorage.
clearZkState_kept(t) == zk' = zk
clearZkState(t) == zk' = [zk EXCEPT ![t] = Nil]

\* Whatever the server said, this tab forgets its user and the token now stored;
\* the other tabs keep showing theirs.
signedOut(t) ==
    \E r \in wire[t] :
       /\ r.kind = "logout" /\ Answered(r)
       /\ Receive(t, r)
       /\ clearStoredAuth /\ clearZkState(t)
       /\ user' = [user EXCEPT ![t] = Nil]
       /\ store' = [store EXCEPT ![t] = [s \in Store |-> IF s \in ResetStore THEN Nil ELSE @[s]]]
       /\ strayed' = strayed \cup (IF stored = r.token /\ r.answer # "lost" THEN {} ELSE Live({stored}))
       /\ leftover' = {x \in Tab \ {t} : x \in leftover \/ {user[x], zk[x]} # {Nil}}
       /\ UNCHANGED <<server, page, loading, account, bounds, switched, cutOff>>

-----------------------------------------------------------------------------
(***************************************************************************)
(* The pages' own requests.                                                *)
(***************************************************************************)

\* A protected page's effect fetches into a store.
fetch(t, s) ==
    /\ page[t] = "home" /\ user[t] # Nil /\ ~Sent(t, s)
    /\ Send(t, {s})
    /\ UNCHANGED <<server, stored, shown, zk, store, bounds, hist>>

\* The answer goes into the store, also after a sign-out; an error leaves it.
fetched(t) ==
    \E r \in wire[t] :
       /\ r.kind \in Store /\ Answered(r)
       /\ Receive(t, r)
       /\ store' = [store EXCEPT ![t][r.kind] = IF Refused(r) THEN @ ELSE r.answer]
       /\ UNCHANGED <<server, stored, shown, zk, bounds, hist>>

-----------------------------------------------------------------------------
(***************************************************************************)
(* The server.                                                             *)
(***************************************************************************)

\* JwtAuthGuard: the row must be there, not revoked and not expired.
canActivate(s) == live(s)

Reply(t, r, a) == wire' = [wire EXCEPT ![t] = (@ \ {r}) \cup {[r EXCEPT !.answer = a]}]
Pending(t, ks) == {r \in wire[t] : r.kind \in ks /\ ~Answered(r)}

\* completeZkLogin ends in SessionService.issue: a new row for the account's user.
issue(t) ==
    \E r \in Pending(t, {"complete"}), s \in Session :
       /\ owner[s] = Nil
       /\ owner' = [owner EXCEPT ![s] = r.token]
       /\ Reply(t, r, s)
       /\ UNCHANGED <<dead, stored, shown, zk, store, bounds, hist>>

\* SessionService.revoke, behind the guard: the row the guard found for the token.
revoked(s) == {s}

logout(t) ==
    \E r \in Pending(t, {"logout"}) :
       /\ dead' = dead \cup (IF canActivate(r.token) THEN revoked(r.token) ELSE {})
       /\ Reply(t, r, IF canActivate(r.token) THEN "revoked" ELSE "refused")
       /\ UNCHANGED <<owner, stored, shown, zk, store, bounds, hist>>

\* GET /auth/me, and the reads behind the guard: the token's user's own data.
serve(t) ==
    \E r \in Pending(t, {"me"} \cup Store) :
       /\ Reply(t, r, IF canActivate(r.token) THEN owner[r.token] ELSE "refused")
       /\ UNCHANGED <<server, stored, shown, zk, store, bounds, hist>>

\* Faults: a request is not served or its answer not heard (15 s); a session's
\* seven days are over.
loseRequest(t) ==
    /\ "net" \in Faults /\ lost < MaxFaults
    /\ \E r \in wire[t] :
          /\ r.answer # "lost"
          /\ Reply(t, r, "lost")
          /\ strayed' = strayed \cup Live({r.answer} \cap Session)
    /\ lost' = lost + 1
    /\ UNCHANGED <<server, stored, shown, zk, store, loads, switched, cutOff, leftover>>

expire(s) ==
    /\ "expire" \in Faults /\ lost < MaxFaults
    /\ owner[s] # Nil /\ s \notin dead
    /\ dead' = dead \cup {s} /\ strayed' = strayed \ {s}
    /\ lost' = lost + 1
    /\ UNCHANGED <<owner, stored, shown, zk, store, wire, loads, switched, cutOff, leftover>>

-----------------------------------------------------------------------------
Answers(t) == \/ verified(t) \/ completeSignIn(t) \/ requestZkProof(t) \/ signInFailed(t)
              \/ signedOut(t) \/ fetched(t)
Served(t)  == \/ issue(t) \/ logout(t) \/ serve(t)

ClientNext ==
    \/ \E t \in Tab :
          \/ openTab(t) \/ redirected(t) \/ handleGoogleSignIn(t) \/ oauthError(t)
          \/ signedIn(t) \/ signOut(t)
          \/ \E u \in User : handleCallback(t, u)
          \/ \E s \in Store : fetch(t, s)
          \/ Answers(t) \/ Served(t) \/ loseRequest(t)
    \/ \E s \in Session : expire(s)

ClientSpec == ClientInit /\ [][ClientNext]_clientVars

-----------------------------------------------------------------------------
\* A session request is shaped as the code sends and answers it.
ClientTypeOK ==
    /\ owner \in [Session -> User \cup {Nil}] /\ dead \subseteq Session
    /\ stored \in Session \cup {Nil}
    /\ page \in [Tab -> {"closed", "home", "signin", "google", "callback"}]
    /\ user \in [Tab -> User \cup {Nil}] /\ zk \in [Tab -> User \cup {Nil}]
    /\ store \in [Tab -> [Store -> User \cup {Nil}]]
    /\ \A t \in Tab : \A r \in wire[t] : r.kind \in RequestKind

\* What a tab shows is one user's: the proof it signs with, the data in its stores
\* and the token its requests carry all belong to the user named at its top (the
\* reset stores of signOut, auth-context.tsx 110-116).  Only a sign-in beside
\* another tab's user, beside the check of an older token or over the proof of a
\* user whom another tab signed out, or a token that could not be verified while its
\* proof stayed, mixes two users.
TabIsOneUser ==
    /\ ClientTypeOK
    /\ ~switched /\ ~cutOff =>
       \A t \in Tab : user[t] # Nil =>
          /\ zk[t] \in {Nil, user[t]}
          /\ \A s \in Store : store[t][s] \in {Nil, user[t]}
          /\ stored # Nil => owner[stored] = user[t]

\* No session outlives its user's sign-out: one that is still good is stored in
\* the browser or about to be, unless it was displaced by another sign-in, wiped
\* by a failed check or by another tab's sign-out, or its answer was lost.
LiveSessionIsHeld ==
    \A s \in Session : owner[s] # Nil /\ live(s) =>
       \/ s = stored \/ s \in strayed
       \/ \E t \in Tab : \E r \in wire[t] : r.kind = "complete" /\ r.answer = s

\* What a browser holds of its users, and a user of its sessions.
SessionSound == TabIsOneUser /\ LiveSessionIsHeld
=============================================================================
