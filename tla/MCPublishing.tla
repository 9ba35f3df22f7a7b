---------------------------- MODULE MCPublishing ----------------------------
(* Small instances of Publishing: the source has one chapter in each of two *)
(* languages, and the creator two page images.                              *)
EXTENDS Publishing, TLC

CONSTANTS en, ja, a, b, c

MCListed == en :> (1 :> a @@ 2 :> None) @@ ja :> (1 :> c @@ 2 :> None)
MCFile   == <<"page 1", "page 2">>

\* The cache and the studio share no table row: to explore each beside the other
\* at rest is to explore both.
OneAtATime ==
    \/ /\ req = [j \in Job |-> NoJob] /\ changes = 0
       /\ \A l \in Language : cachedNumbers(l) = {}
    \/ /\ visit = [j \in Job |-> NoVisit]
       /\ \A t \in Tab : listing[t] = None
       /\ \E t \in Tab : ownSeries[t] = None

\* Jobs, and tabs, are interchangeable.
Interchangeable == Permutations(Job) \cup Permutations(Tab)
=============================================================================
