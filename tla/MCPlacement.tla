---------------------------- MODULE MCPlacement ----------------------------
(***************************************************************************)
(* Instances of Placement for TLC: two workers, two addresses, and which   *)
(* of the rarer events meet in one run.  Everything else happens in all.   *)
(***************************************************************************)
EXTENDS Placement, TLC

\* A later resolution returns the election's address alone, or both.
AllOrElection == {{1}, {1, 2}}

SymW == Permutations(Workers)

\* Workers, dials, the resolver and the election's connection, all going wrong; and
\* the culler, in a run that ends before a cooldown does or in a longer one.
Encounters ==
    {{"initial", "late", "redirect", "fail", "stall", "clock"},
     {"late", "fail", "stall", "refresh", "clock"},
     {"cull", "initial", "refresh"},
     {"cull", "clock"}}

\* The culler, its verdicts remembered.
Windows == {{"cull", "clock", "verdicts"}}

=============================================================================
