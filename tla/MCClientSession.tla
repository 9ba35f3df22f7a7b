-------------------------- MODULE MCClientSession --------------------------
(* Small instances of ClientSession. *)
EXTENDS ClientSession, TLC

\* Bound: requests in flight at once, and those of the pages among them.
InFlight  == UNION {{<<t, r>> : r \in wire[t]} : t \in Tab}
OfPages   == {f \in InFlight : f[2].kind \in Store}
FewRequests == Cardinality(InFlight) <= 3 /\ Cardinality(OfPages) <= 1

\* After both hazards of a mix there is nothing left to hold; after one, fewer loads do.
Explored == /\ FewRequests /\ ~(switched /\ cutOff)
            /\ switched \/ cutOff => loads + lost < MaxLoads

\* Tabs, users and sessions are interchangeable.
Interchangeable == Permutations(Tab) \cup Permutations(User) \cup Permutations(Session)
=============================================================================
