----------------------------- MODULE DialOutcome -----------------------------
(***************************************************************************)
(* What a preferred-address dial may report to its caller                  *)
(* (dial_preferred.go).  DialRace shows that the race of goroutines        *)
(* reports nothing else; Placement builds on it.                           *)
(***************************************************************************)

CONSTANT None       \* no address

\* The addresses a race between p and f may dial.
Dialled(p, f) == {p, f} \ {None}

\* dialOutcome: the address that won, or None once every address dialled has
\* failed, and the addresses that failed before it ended.
DialOutcomes(p, f) ==
    {o \in [winner : Dialled(p, f) \cup {None}, failed : SUBSET Dialled(p, f)] :
        /\ o.winner \notin o.failed
        /\ o.winner = None => o.failed = Dialled(p, f)}

\* The outcome of a race whose caller gave up: what had failed by then.
Abandoned(p, f) == [winner : {None}, failed : SUBSET Dialled(p, f)]

\* The addresses nodePlacement.dialPreferred parks: those that failed, and the
\* preferred one when it lost.
ParkedBy(o, p) == o.failed \cup (IF o.winner \in {p, None} THEN {} ELSE {p})

=============================================================================
