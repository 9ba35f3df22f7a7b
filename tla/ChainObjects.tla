---------------------------- MODULE ChainObjects ----------------------------
(***************************************************************************)
(* The Move package's objects together: those that authorise and pay       *)
(* (ChainRewards) and those a reader owns (ChainShelves).  A transaction   *)
(* calls entries of the one or of the other; they share no object.         *)
(***************************************************************************)
EXTENDS ChainRewards, ChainShelves, InkTotals

objectsVars == <<rewardsVars, shelvesVars>>

ObjectsInit == RewardsInit /\ ShelvesInit

ObjectsNext == \/ RewardsNext /\ UNCHANGED shelvesVars
               \/ ShelvesNext /\ UNCHANGED rewardsVars

ObjectsSpec == ObjectsInit /\ [][ObjectsNext]_objectsVars

-----------------------------------------------------------------------------
\* INK is what the records and direct mints account for, less what was burned, and all of
\* it is somewhere.
InkAccounted ==
    LET locked == {k \in RecordKey : earning[k] # NoRecord}
    IN  /\ supply = Total(wallet)
        /\ supply + burned = direct + Total([k \in locked |-> amount(earning[k].trigger)])

\* What the books of either kind of object say: INK is accounted for, readings are dated.
ObjectsSound == InkAccounted /\ RecordsDated

\* As an action property: what neither kind of object may lose.
ObjectsKept == [][RewardsKept /\ ShelvesKept]_objectsVars
=============================================================================
