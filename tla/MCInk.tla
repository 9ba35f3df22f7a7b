------------------------------- MODULE MCInk -------------------------------
(* Instances for TLC of what mints INK: the server's service with the chain behind it, and *)
(* the package as anybody may call it, its objects that pay or those a reader owns.  They  *)
(* share no state, so a behaviour is that of the one Init chooses; the others rest.        *)
EXTENDS InkEarning, ChainObjects, TLC

CONSTANTS u1, u2, k1, k2, k3, op, reader, s1, s2, e1, e2, l1, j1, x1, x2

VARIABLE scene

\* One user has a chapter and a completion key, the other a chapter key.
MCUserOf    == k1 :> u1 @@ k2 :> u1 @@ k3 :> u2
MCTriggerOf == k1 :> CHAPTER_READ @@ k2 :> SERIES_COMPLETE @@ k3 :> CHAPTER_READ

SceneInit == /\ scene \in {"service", "rewards", "shelves"}
             /\ Init /\ ObjectsInit
             /\ scene = "service" \/ keyOf = [c \in Call |-> k1]

SceneNext ==
    /\ UNCHANGED scene
    /\ \/ scene = "service" /\ Next /\ UNCHANGED objectsVars
       \/ scene = "rewards" /\ RewardsNext /\ UNCHANGED <<vars, shelvesVars>>
       \/ scene = "shelves" /\ ShelvesNext /\ UNCHANGED <<vars, rewardsVars>>

SceneSpec == SceneInit /\ [][SceneNext]_<<scene, vars, objectsVars>>

\* Bounds: one hand-over, direct mint or burn to a behaviour, and the AdminCaps.
Bounded == direct + burned + 10 * handovers <= 10 /\ caps[op] + caps[reader] <= 2

Sym == Permutations({s1, s2}) \cup Permutations({e1, e2}) \cup Permutations({x1, x2})
=============================================================================
