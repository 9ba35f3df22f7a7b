-------------------------- MODULE MCSubmissionDao --------------------------
(* Small instances of SubmissionDao: alice submits; alice and bob vote.  Bob   *)
(* alone misses the quorum of 500 INK; with 50 INK of alice's first reward, or *)
(* 100 INK he earns by reading, it is reached.                                 *)
EXTENDS SubmissionDao, TLC

CONSTANTS alice, bob

MCSubmitterOf == [s \in Submission |-> alice]
MCInitialInk  == alice :> 0 @@ bob :> 450

MCReading == alice :> 0 @@ bob :> 1
MCNoReading == [u \in User |-> 0]

\* Decisive on his own: bob's vote always meets the quorum.
MCDecisiveInk == alice :> 0 @@ bob :> 500

Symmetry == Permutations(Request) \cup Permutations(Submission)
=============================================================================
