------------------------------ MODULE DialRace ------------------------------
(***************************************************************************)
(* The race of dial_preferred.go: the preferred address is dialled at      *)
(* once, a fallback when it fails or is still pending after a delay.       *)
(* Every dial is a goroutine that hands its result over an unbuffered      *)
(* channel or, once the race is cancelled, closes the connection it got.   *)
(*                                                                         *)
(* The caller may give up at any time (race.ctx); the timer and each dial  *)
(* move on their own.                                                      *)
(***************************************************************************)
EXTENDS Integers, Sequences, DialOutcome

CONSTANT Addrs

ASSUME RaceAssumption == None \notin Addrs

VARIABLE race       \* the loop's local variables, and its dials in the order started

\* A dial is under way, has a result to hand over ("conn", "error"), has handed
\* it over ("sent"), or has dropped it after the race.
DialStates == {"dialing", "conn", "error", "sent", "closed"}
OverStates == {"sent", "closed"}

NoOutcome == [winner |-> None, failed |-> {}]

\* dialPreferred's locals before the first dial; due is the timer's pending tick,
\* which only a fallback has.
NewRace(p, f) ==
    [primary |-> p, fallback |-> f, due |-> f # None, fallbackStarted |-> FALSE,
     dials |-> <<>>, finished |-> 0, failed |-> {}, ctx |-> FALSE, ended |-> FALSE,
     out |-> NoOutcome]

\* start: one more dial's goroutine.
With(r, a) == [r EXCEPT !.dials = Append(@, [addr |-> a, st |-> "dialing"])]

DialsOver == \A i \in DOMAIN race.dials : race.dials[i].st \in OverStates

\* The goroutine's dial returns a connection or an error.
DialReturns(i) ==
    /\ race.dials[i].st = "dialing"
    /\ \E st \in {"conn", "error"} : race' = [race EXCEPT !.dials[i].st = st]

\* A plausible slip: a goroutine that lost the race keeps waiting for the loop.
QuitNever(i) ==
    /\ race.dials[i].st \in {"conn", "error"}
    /\ race.ctx /\ ~race.ended
    /\ race' = [race EXCEPT !.dials[i].st = "closed"]

\* The goroutine's select takes raceCtx.Done and closes what it obtained.
Quit(i) ==
    /\ race.dials[i].st \in {"conn", "error"}
    /\ race.ctx \/ race.ended
    /\ race' = [race EXCEPT !.dials[i].st = "closed"]

End(r, winner) == [r EXCEPT !.ended = TRUE, !.due = FALSE,
                            !.out = [winner |-> winner, failed |-> r.failed]]

\* case <-ctx.Done()
RaceCancelled ==
    /\ ~race.ended /\ race.ctx
    /\ race' = End(race, None)

\* A plausible slip: the timer starts the fallback without asking whether the
\* primary's failure has.
FallbackAgain ==
    /\ ~race.ended /\ race.due
    /\ race' = With([race EXCEPT !.due = FALSE, !.fallbackStarted = TRUE], race.fallback)

\* case <-fallbackDue
FallbackDue ==
    /\ ~race.ended /\ race.due
    /\ race' = IF race.fallbackStarted THEN [race EXCEPT !.due = FALSE]
               ELSE With([race EXCEPT !.due = FALSE, !.fallbackStarted = TRUE], race.fallback)

\* A plausible slip: the race is over once every dial so far has finished.
ReceiveEarly(i) ==
    /\ ~race.ended
    /\ race.dials[i].st \in {"conn", "error"}
    /\ LET a == race.dials[i].addr
           r == [race EXCEPT !.dials[i].st = "sent", !.finished = @ + 1]
           lost == [r EXCEPT !.failed = @ \cup {a}]
       IN  race' = IF race.dials[i].st = "conn" THEN End(r, a)
                   ELSE IF lost.finished = Len(lost.dials) THEN End(lost, None)
                   ELSE lost

\* case result := <-results.  The primary's failure starts the fallback; the
\* last failure ends the race.
Receive(i) ==
    /\ ~race.ended
    /\ race.dials[i].st \in {"conn", "error"}
    /\ LET a == race.dials[i].addr
           r == [race EXCEPT !.dials[i].st = "sent", !.finished = @ + 1]
           lost == [r EXCEPT !.failed = @ \cup {a}]
           next == IF a = lost.primary /\ lost.fallback # None /\ ~lost.fallbackStarted
                   THEN With([lost EXCEPT !.fallbackStarted = TRUE], lost.fallback)
                   ELSE lost
       IN  race' = IF race.dials[i].st = "conn" THEN End(r, a)
                   ELSE IF next.finished = Len(next.dials) THEN End(next, None)
                   ELSE next

Init ==
    \E p \in Addrs : \E f \in (Addrs \ {p}) \cup {None} : race = With(NewRace(p, f), p)

\* The caller's context is done.
GiveUp ==
    /\ ~race.ctx
    /\ race' = [race EXCEPT !.ctx = TRUE]

Step ==
    \/ RaceCancelled \/ FallbackDue
    \/ \E i \in DOMAIN race.dials : DialReturns(i) \/ Quit(i) \/ Receive(i)

Next == Step \/ GiveUp

Spec == Init /\ [][Next]_race

\* Goroutines run, timers fire, and a dial returns: its dialer's or its
\* context's deadline ends it at the latest.
FairSpec == Spec /\ WF_race(Step)

-----------------------------------------------------------------------------

\* The race dials each address at most once, though the timer and the primary's
\* failure may both start the fallback, and reports what Placement builds on: a
\* winner, or that every address it has failed; less only when its caller gave
\* up (dialPreferred's comment, dial_preferred.go:25-28).
RaceSound ==
    /\ \A i, j \in DOMAIN race.dials : race.dials[i].addr = race.dials[j].addr => i = j
    /\ race.ended =>
          \/ race.out \in DialOutcomes(race.primary, race.fallback)
          \/ race.ctx /\ race.out \in Abandoned(race.primary, race.fallback)

\* "A race-losing dial observes cancellation and closes any connection it
\* obtained instead of leaking it" (dial_preferred.go:26-28): every dial's
\* goroutine ends, its connection handed over or closed, and the race with them.
DialsEnd == <>[](DialsOver /\ race.ended)

=============================================================================
