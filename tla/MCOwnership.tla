---------------------------- MODULE MCOwnership ----------------------------
(***************************************************************************)
(* Instances of Ownership for TLC.                                         *)
(***************************************************************************)
EXTENDS Ownership

\* Two calls in one process, one in another.
ThreeCalls == 1 .. 3
TwoHomes == [a \in ThreeCalls |-> IF a = 3 THEN "q" ELSE "p"]
\* Each job meets each other job, within a process or across processes.
Work == [a \in ThreeCalls |-> CASE a = 1 -> {"get"}
                               [] a = 2 -> {"overwrite", "discard"}
                               [] a = 3 -> {"overwrite", "discard"}]
TwoProcs == {"p", "q"}

=============================================================================
