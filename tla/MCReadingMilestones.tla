------------------------ MODULE MCReadingMilestones ------------------------
(* Small instances of ReadingMilestones.  From chapter 1 to 60 a reader passes *)
(* two milestones; a series ends at 30 until a sync extends it.                *)
EXTENDS ReadingMilestones, TLC

MCInitialLast == [s \in Series |-> 30]

Symmetry == Permutations(Request)
=============================================================================
