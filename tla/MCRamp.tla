------------------------------- MODULE MCRamp -------------------------------
(***************************************************************************)
(* Instances of Ramp for TLC.                                              *)
(***************************************************************************)
EXTENDS Ramp

\* Runs started with MinParts = 1, 2 or 3 workers, and with all of them.
AnyFloor == 1 .. Parts

=============================================================================
