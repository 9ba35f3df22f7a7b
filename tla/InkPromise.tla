----------------------------- MODULE InkPromise -----------------------------
(***************************************************************************)
(* What the INK subsystem promises, independently of how it is built: an   *)
(* idempotency key is minted on chain at most once and never un-minted,    *)
(* and the Postgres ledger records a key at most once, never forgets it    *)
(* and never records a key the chain has not minted.                       *)
(*                                                                         *)
(* Module InkEarning (InkService.mintEarning and ink_earning::earn) is     *)
(* shown to implement this specification.                                  *)
(***************************************************************************)
CONSTANT Key

VARIABLES minted,    \* keys that have been minted on chain
          recorded   \* keys credited in Postgres

Init == minted = {} /\ recorded = {}

\* The chain mints the INK of k.
Mint(k) ==
    /\ k \notin minted
    /\ minted' = minted \cup {k}
    /\ UNCHANGED recorded

\* Postgres credits k.
Record(k) ==
    /\ k \in minted \ recorded
    /\ recorded' = recorded \cup {k}
    /\ UNCHANGED minted

Next == \E k \in Key : Mint(k) \/ Record(k)

Spec == Init /\ [][Next]_<<minted, recorded>>
=============================================================================
