--------------------------- MODULE MCClientPages ---------------------------
(* Instances of the page models for TLC.  The pages share no state, so a behaviour here is *)
(* that of one page, which Init chooses; the others rest.                                  *)
EXTENDS ClientPages, FiniteSetsExt, TLC

CONSTANTS Scenes, a, b, a1, a2, b1, small, large, tab1, tab2

VARIABLE scene

MCSeriesOf == (a1 :> a) @@ (a2 :> a) @@ (b1 :> b)
MCNumber   == (a1 :> 1) @@ (a2 :> 2) @@ (b1 :> 1)

Init == /\ scene \in Scenes
        /\ PagesInit
        /\ scene = "shelf" \/ rows = Empty
        /\ scene = "dao" \/ (proposed = {} /\ ink = CHOOSE w \in Weight : TRUE)

Next == UNCHANGED scene /\ Turn(scene)

Spec == Init /\ [][Next]_<<scene, pagesVars>>

\* Bounds: requests in flight, one form filled in at a time; and what the invariants say
\* nothing more about is not followed (crossed, disturbed and apart only grow).
Few == /\ MapThenSumSet(LAMBDA k : Len(asked[k]), Kind) <= 6
       /\ Cardinality(requests) <= 3 /\ ~crossed
       /\ Cardinality(sent) <= 3 /\ ~disturbed
       /\ Cardinality(wire) <= 3 /\ apart # Proposal
       /\ Cardinality(posted) <= 2 /\ Cardinality({t \in AppTab : entered[t] # NoDraft}) <= 1

\* Tabs have no order, nor have pitches.
AppSymmetry == Permutations({tab1, tab2}) \cup Permutations({small, large})
=============================================================================
