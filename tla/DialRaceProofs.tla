--------------------------- MODULE DialRaceProofs ---------------------------
(***************************************************************************)
(* The dial race reports what Placement builds on, for any set of          *)
(* addresses: whichever of the timer and the primary's failure starts the  *)
(* fallback, in whatever order the dials report, and whenever the caller   *)
(* gives up.                                                               *)
(***************************************************************************)
EXTENDS DialRace, FiniteSetTheorems, SequenceTheorems, TLAPS

DialType == [addr : Addrs, st : DialStates]
OutcomeType == [winner : Addrs \cup {None}, failed : SUBSET Addrs]

\* The loop's locals and the dials have their types; there is a fallback to be
\* started wherever one is due or has been started.
TypeOK ==
    /\ race \in [primary : Addrs, fallback : Addrs \cup {None}, due : BOOLEAN,
                 fallbackStarted : BOOLEAN, dials : Seq(DialType),
                 finished : Nat, failed : SUBSET Addrs, ctx : BOOLEAN, ended : BOOLEAN,
                 out : OutcomeType]
    /\ race.fallback # race.primary
    /\ race.due \/ race.fallbackStarted => race.fallback # None

\* The first dial is the primary's, the second, once it is started, the fallback's.
InTurn ==
    /\ Len(race.dials) = IF race.fallbackStarted THEN 2 ELSE 1
    /\ race.dials[1].addr = race.primary
    /\ race.fallbackStarted => race.dials[2].addr = race.fallback

Handed == {i \in DOMAIN race.dials : race.dials[i].st = "sent"}

\* Until the race ends, what has been handed over are failures, and the loop has
\* counted them.
FailuresCounted ==
    ~race.ended =>
        /\ race.finished = Cardinality(Handed)
        /\ race.failed = {race.dials[i].addr : i \in Handed}

\* The loop does not go on after the primary's failure without a fallback.
FallbackFollows == ~race.ended /\ 1 \in Handed => race.fallbackStarted

Outcome ==
    race.ended =>
        \/ race.out \in DialOutcomes(race.primary, race.fallback)
        \/ race.ctx /\ race.out \in Abandoned(race.primary, race.fallback)

Inv == TypeOK /\ InTurn /\ FailuresCounted /\ FallbackFollows /\ Outcome

-----------------------------------------------------------------------------

\* A sequence's elements are of its set.
LEMMA SeqElements ==
    ASSUME NEW S, NEW s \in Seq(S)
    PROVE  DOMAIN s = 1 .. Len(s) /\ Len(s) \in Nat /\ \A i \in DOMAIN s : s[i] \in S
OBVIOUS

\* A sequence one of whose elements is replaced by another of the set.
LEMMA SeqReplaced ==
    ASSUME NEW S, NEW s \in Seq(S), NEW i \in 1 .. Len(s), NEW e \in S
    PROVE  /\ [s EXCEPT ![i] = e] \in Seq(S)
           /\ Len([s EXCEPT ![i] = e]) = Len(s)
OBVIOUS

\* A sequence of one with another appended.
LEMMA SeqOfTwo ==
    ASSUME NEW S, NEW s \in Seq(S), Len(s) = 1, NEW e \in S
    PROVE  /\ Append(s, e) \in Seq(S) /\ Len(Append(s, e)) = 2
           /\ DOMAIN s = {1} /\ DOMAIN Append(s, e) = {1, 2}
           /\ Append(s, e)[1] = s[1] /\ Append(s, e)[2] = e
<1>1. Append(s, e) \in Seq(S) /\ Len(Append(s, e)) = 2
  OBVIOUS
<1>2. DOMAIN s = 1 .. 1 /\ DOMAIN Append(s, e) = 1 .. 2
  BY <1>1
<1>3. 1 .. 1 = {1} /\ 1 .. 2 = {1, 2}
  OBVIOUS
<1>4. Append(s, e)[1] = s[1] /\ Append(s, e)[2] = e
  <2>1. \A k \in 1 .. Len(s) : Append(s, e)[k] = s[k]
    BY AppendProperties
  <2>2. Append(s, e)[Len(s) + 1] = e
    BY AppendProperties
  <2> QED BY <2>1, <2>2
<1> QED BY <1>1, <1>2, <1>3, <1>4

\* One dial or two, by their numbers.
LEMMA DialNumbers ==
    ASSUME TypeOK, InTurn
    PROVE  /\ DOMAIN race.dials = IF race.fallbackStarted THEN {1, 2} ELSE {1}
           /\ IsFiniteSet(Handed)
           /\ \A i \in DOMAIN race.dials :
                 /\ race.dials[i] \in DialType
                 /\ i = 1 \/ (i = 2 /\ race.fallbackStarted)
<1>1. /\ DOMAIN race.dials = 1 .. Len(race.dials)
      /\ \A i \in DOMAIN race.dials : race.dials[i] \in DialType
  <2> race.dials \in Seq(DialType)
    BY DEF TypeOK
  <2> QED BY SeqElements
<1>2. DOMAIN race.dials = IF race.fallbackStarted THEN {1, 2} ELSE {1}
  BY <1>1 DEF InTurn, TypeOK
<1>3. IsFiniteSet(Handed)
  <2>1. IsFiniteSet(DOMAIN race.dials)
    <3>1. IsFiniteSet({1}) /\ IsFiniteSet({1} \cup {2})
      BY FS_Singleton, FS_AddElement
    <3>2. {1, 2} = {1} \cup {2}
      OBVIOUS
    <3> QED BY <1>2, <3>1, <3>2
  <2> QED BY <2>1, FS_Subset DEF Handed
<1> QED BY <1>1, <1>2, <1>3

\* The addresses that have failed are among those the race may dial.
LEMMA FailedWereDialled ==
    ASSUME Inv, ~race.ended
    PROVE  race.failed \subseteq Dialled(race.primary, race.fallback)
<1> USE DEF Inv
<1>1. \A i \in Handed : race.dials[i].addr \in Dialled(race.primary, race.fallback)
  BY DialNumbers, RaceAssumption DEF Handed, InTurn, TypeOK, Dialled
<1> QED BY <1>1 DEF FailuresCounted

-----------------------------------------------------------------------------
(* Steps that leave the loop's count alone. *)

\* A dial that returns, or is dropped, was not handed over and is not now.
LEMMA DialMoves ==
    ASSUME Inv, NEW i \in DOMAIN race.dials, NEW st \in DialStates,
           race.dials[i].st # "sent", st # "sent",
           race' = [race EXCEPT !.dials[i].st = st]
    PROVE  Inv'
<1> USE DEF Inv
<1>1. race.dials \in Seq(DialType) /\ i \in 1 .. Len(race.dials)
  <2>1. race.dials \in Seq(DialType)
    BY DEF TypeOK
  <2> QED BY <2>1, SeqElements
<1>2. race'.dials = [race.dials EXCEPT ![i].st = st]
  BY DEF TypeOK
<1>3. /\ race'.dials \in Seq(DialType)
      /\ Len(race'.dials) = Len(race.dials)
      /\ DOMAIN race'.dials = DOMAIN race.dials
  <2>1. [race.dials[i] EXCEPT !.st = st] \in DialType
    BY DialNumbers DEF DialType
  <2>2. race'.dials = [race.dials EXCEPT ![i] = [race.dials[i] EXCEPT !.st = st]]
    BY <1>2
  <2>3. DOMAIN race'.dials = DOMAIN race.dials
    BY <2>2
  <2> QED BY <1>1, <2>1, <2>2, <2>3, SeqReplaced
<1>4. \A j \in DOMAIN race.dials :
         /\ race'.dials[j].addr = race.dials[j].addr
         /\ race'.dials[j].st = IF j = i THEN st ELSE race.dials[j].st
  BY <1>1, <1>2, DialNumbers DEF DialType
<1>5. /\ race'.primary = race.primary /\ race'.fallback = race.fallback
      /\ race'.due = race.due /\ race'.fallbackStarted = race.fallbackStarted
      /\ race'.finished = race.finished /\ race'.failed = race.failed
      /\ race'.ctx = race.ctx /\ race'.ended = race.ended /\ race'.out = race.out
  BY DEF TypeOK
<1>6. Handed' = Handed
  BY <1>3, <1>4 DEF Handed
<1>7. {race'.dials[j].addr : j \in Handed'} = {race.dials[j].addr : j \in Handed}
  BY <1>4, <1>6 DEF Handed
<1>8. TypeOK'
  BY <1>3, <1>5 DEF TypeOK
<1>9. InTurn'
  BY <1>3, <1>4, <1>5, DialNumbers DEF InTurn
<1>10. FailuresCounted'
  BY <1>5, <1>6, <1>7 DEF FailuresCounted
<1>11. FallbackFollows' /\ Outcome'
  BY <1>5, <1>6 DEF FallbackFollows, Outcome
<1> QED BY <1>8, <1>9, <1>10, <1>11

\* A dial's connection or error is not handed over yet.
LEMMA DialReturnsStep ==
    ASSUME Inv, NEW i \in DOMAIN race.dials, DialReturns(i)
    PROVE  Inv'
<1>1. PICK st \in {"conn", "error"} : race' = [race EXCEPT !.dials[i].st = st]
  BY DEF DialReturns
<1>2. race.dials[i].st # "sent" /\ st # "sent" /\ st \in DialStates
  BY DEF DialReturns, DialStates
<1> QED BY <1>1, <1>2, DialMoves

\* What is dropped after the race was never handed over.
LEMMA QuitStep ==
    ASSUME Inv, NEW i \in DOMAIN race.dials, Quit(i)
    PROVE  Inv'
<1>1. race.dials[i].st # "sent" /\ "closed" # "sent" /\ "closed" \in DialStates
  BY DEF Quit, DialStates
<1> QED BY <1>1, DialMoves DEF Quit

\* A cancelled race reports what has failed so far.
LEMMA CancelledStep ==
    ASSUME Inv, RaceCancelled
    PROVE  Inv'
<1> USE DEF Inv
<1>1. /\ race'.primary = race.primary /\ race'.fallback = race.fallback
      /\ race'.due = FALSE /\ race'.fallbackStarted = race.fallbackStarted
      /\ race'.dials = race.dials
      /\ race'.finished = race.finished /\ race'.failed = race.failed
      /\ race'.ctx /\ race'.ended
      /\ race'.out = [winner |-> None, failed |-> race.failed]
  BY DEF RaceCancelled, End, TypeOK
<1>2. TypeOK'
  <2> DEFINE o == [winner |-> None, failed |-> race.failed]
  <2>1. o \in OutcomeType
    BY DEF OutcomeType, TypeOK
  <2>2. race' = [race EXCEPT !.ended = TRUE, !.due = FALSE, !.out = o]
    BY DEF RaceCancelled, End
  <2> HIDE DEF o
  <2>3. race' \in [primary : Addrs, fallback : Addrs \cup {None}, due : BOOLEAN,
                   fallbackStarted : BOOLEAN, dials : Seq(DialType),
                   finished : Nat, failed : SUBSET Addrs, ctx : BOOLEAN, ended : BOOLEAN,
                   out : OutcomeType]
    BY <2>1, <2>2 DEF TypeOK
  <2> QED BY <1>1, <2>3 DEF TypeOK
<1>3. InTurn' /\ FailuresCounted' /\ FallbackFollows'
  BY <1>1 DEF InTurn, FailuresCounted, FallbackFollows
<1>4. Outcome'
  BY <1>1, FailedWereDialled DEF Outcome, Abandoned, RaceCancelled
<1> QED BY <1>2, <1>3, <1>4

\* The caller gives up; a race that has ended has its outcome.
LEMMA GiveUpStep ==
    ASSUME Inv, GiveUp
    PROVE  Inv'
<1> USE DEF Inv
<1>1. /\ race'.primary = race.primary /\ race'.fallback = race.fallback
      /\ race'.due = race.due /\ race'.fallbackStarted = race.fallbackStarted
      /\ race'.dials = race.dials
      /\ race'.finished = race.finished /\ race'.failed = race.failed
      /\ race'.ended = race.ended /\ race'.out = race.out
  BY DEF GiveUp, TypeOK
<1>2. TypeOK'
  BY DEF GiveUp, TypeOK
<1>3. Handed' = Handed
  BY <1>1 DEF Handed
<1>4. InTurn' /\ FailuresCounted' /\ FallbackFollows'
  BY <1>1, <1>3 DEF InTurn, FailuresCounted, FallbackFollows
<1>5. Outcome'
  BY <1>1 DEF Outcome, GiveUp
<1> QED BY <1>2, <1>4, <1>5

-----------------------------------------------------------------------------
(* The fallback *)

\* One more dial, which has nothing to hand over yet: the counts stay.
LEMMA FallbackDialled ==
    ASSUME Inv, ~race.ended, race.fallback # None, ~race.fallbackStarted,
           NEW due \in BOOLEAN,
           race' = With([race EXCEPT !.due = due, !.fallbackStarted = TRUE], race.fallback)
    PROVE  Inv'
<1> USE DEF Inv
<1> DEFINE d == [addr |-> race.fallback, st |-> "dialing"]
<1>1. /\ race'.primary = race.primary /\ race'.fallback = race.fallback
      /\ race'.due = due /\ race'.fallbackStarted
      /\ race'.dials = Append(race.dials, d)
      /\ race'.finished = race.finished /\ race'.failed = race.failed
      /\ race'.ctx = race.ctx /\ race'.ended = race.ended /\ race'.out = race.out
  BY DEF With, TypeOK
<1>2. d \in DialType /\ d.st # "sent" /\ d.addr = race.fallback
  BY DEF TypeOK, DialStates, DialType
<1>3. Len(race.dials) = 1
  BY DEF InTurn
<1> HIDE DEF d
<1>4. /\ race'.dials \in Seq(DialType)
      /\ Len(race'.dials) = 2
      /\ DOMAIN race.dials = {1} /\ DOMAIN race'.dials = {1, 2}
      /\ race'.dials[1] = race.dials[1] /\ race'.dials[2] = d
  <2>1. race.dials \in Seq(DialType)
    BY DEF TypeOK
  <2>2. d \in DialType
    BY <1>2
  <2>3. /\ Append(race.dials, d) \in Seq(DialType) /\ Len(Append(race.dials, d)) = 2
        /\ DOMAIN race.dials = {1} /\ DOMAIN Append(race.dials, d) = {1, 2}
        /\ Append(race.dials, d)[1] = race.dials[1] /\ Append(race.dials, d)[2] = d
    BY <1>3, <2>1, <2>2, SeqOfTwo
  <2> QED BY <1>1, <2>3
<1>5. Handed' = Handed
  BY <1>2, <1>4 DEF Handed
<1>6. {race'.dials[j].addr : j \in Handed'} = {race.dials[j].addr : j \in Handed}
  BY <1>4, <1>5 DEF Handed
<1>7. TypeOK'
  <2>1. race' = [race EXCEPT !.due = due, !.fallbackStarted = TRUE,
                             !.dials = Append(race.dials, d)]
    BY DEF With, TypeOK, d
  <2> QED BY <2>1, <1>1, <1>4 DEF TypeOK
<1>8. InTurn'
  BY <1>1, <1>2, <1>4 DEF InTurn
<1>9. FailuresCounted' /\ FallbackFollows' /\ Outcome'
  BY <1>1, <1>5, <1>6 DEF FailuresCounted, FallbackFollows, Outcome
<1> QED BY <1>7, <1>8, <1>9

\* The timer asks whether the primary's failure was first.
LEMMA FallbackDueStep ==
    ASSUME Inv, FallbackDue
    PROVE  Inv'
<1> USE DEF Inv
<1>1. CASE ~race.fallbackStarted
  BY <1>1, FallbackDialled DEF FallbackDue, TypeOK
<1>2. CASE race.fallbackStarted
  <2>1. race' = [race EXCEPT !.due = FALSE]
    BY <1>2 DEF FallbackDue
  <2>2. /\ race'.primary = race.primary /\ race'.fallback = race.fallback
        /\ race'.due = FALSE /\ race'.fallbackStarted = race.fallbackStarted
        /\ race'.dials = race.dials
        /\ race'.finished = race.finished /\ race'.failed = race.failed
        /\ race'.ctx = race.ctx /\ race'.ended = race.ended /\ race'.out = race.out
    BY <2>1 DEF TypeOK
  <2>3. TypeOK'
    BY <2>1 DEF TypeOK
  <2>4. Handed' = Handed
    BY <2>2 DEF Handed
  <2> QED BY <2>2, <2>3, <2>4 DEF InTurn, FailuresCounted, FallbackFollows, Outcome
<1> QED BY <1>1, <1>2

-----------------------------------------------------------------------------
(* A dial hands over its result. *)

Marked(i) == [race.dials EXCEPT ![i].st = "sent"]
MarkedHanded(i) == {j \in DOMAIN Marked(i) : Marked(i)[j].st = "sent"}

\* What the loop has counted with one more failure is what has been handed over.
LEMMA MarkedCounts ==
    ASSUME Inv, ~race.ended, NEW i \in DOMAIN race.dials, race.dials[i].st # "sent"
    PROVE  /\ Marked(i) \in Seq(DialType)
           /\ Len(Marked(i)) = Len(race.dials) /\ DOMAIN Marked(i) = DOMAIN race.dials
           /\ \A j \in DOMAIN race.dials : Marked(i)[j].addr = race.dials[j].addr
           /\ MarkedHanded(i) = Handed \cup {i}
           /\ race.finished + 1 = Cardinality(MarkedHanded(i))
           /\ race.failed \cup {race.dials[i].addr} = {Marked(i)[j].addr : j \in MarkedHanded(i)}
<1> USE DEF Inv
<1>1. race.dials \in Seq(DialType) /\ i \in 1 .. Len(race.dials)
  <2>1. race.dials \in Seq(DialType)
    BY DEF TypeOK
  <2> QED BY <2>1, SeqElements
<1>2. /\ Marked(i) \in Seq(DialType)
      /\ Len(Marked(i)) = Len(race.dials) /\ DOMAIN Marked(i) = DOMAIN race.dials
  <2>1. [race.dials[i] EXCEPT !.st = "sent"] \in DialType
    BY DialNumbers DEF DialType, DialStates
  <2>2. Marked(i) = [race.dials EXCEPT ![i] = [race.dials[i] EXCEPT !.st = "sent"]]
    BY DEF Marked
  <2>3. DOMAIN Marked(i) = DOMAIN race.dials
    BY <2>2
  <2> QED BY <1>1, <2>1, <2>2, <2>3, SeqReplaced
<1>3. \A j \in DOMAIN race.dials :
         /\ Marked(i)[j].addr = race.dials[j].addr
         /\ Marked(i)[j].st = IF j = i THEN "sent" ELSE race.dials[j].st
  BY DialNumbers DEF DialType, Marked
<1>4. MarkedHanded(i) = Handed \cup {i}
  BY <1>2, <1>3 DEF MarkedHanded, Handed
<1>5. race.finished + 1 = Cardinality(MarkedHanded(i))
  <2>1. i \notin Handed
    BY DEF Handed
  <2>2. Cardinality(Handed \cup {i}) = Cardinality(Handed) + 1
    BY <2>1, DialNumbers, FS_AddElement
  <2> QED BY <1>4, <2>2 DEF FailuresCounted
<1>6. race.failed \cup {race.dials[i].addr} = {Marked(i)[j].addr : j \in MarkedHanded(i)}
  BY <1>3, <1>4 DEF FailuresCounted, Handed
<1> QED BY <1>2, <1>3, <1>4, <1>5, <1>6

\* What makes an outcome.
LEMMA OutcomeIs ==
    ASSUME NEW p, NEW f, NEW F \in SUBSET Dialled(p, f), NEW a \in Dialled(p, f) \cup {None},
           a \notin F, a = None => F = Dialled(p, f)
    PROVE  [winner |-> a, failed |-> F] \in DialOutcomes(p, f)
BY DEF DialOutcomes

\* A connection wins: its address is not among those that failed.
LEMMA ConnReceived ==
    ASSUME Inv, ~race.ended, NEW i \in DOMAIN race.dials, race.dials[i].st # "sent",
           race' = End([race EXCEPT !.dials[i].st = "sent", !.finished = @ + 1],
                       race.dials[i].addr)
    PROVE  Inv'
<1> USE DEF Inv
<1> DEFINE a == race.dials[i].addr
<1>1. race' = [race EXCEPT !.dials = Marked(i), !.finished = race.finished + 1,
                           !.ended = TRUE, !.due = FALSE,
                           !.out = [winner |-> a, failed |-> race.failed]]
  BY DEF End, Marked, TypeOK
<1>2. /\ race'.primary = race.primary /\ race'.fallback = race.fallback
      /\ race'.due = FALSE /\ race'.fallbackStarted = race.fallbackStarted
      /\ race'.dials = Marked(i)
      /\ race'.ctx = race.ctx /\ race'.ended
      /\ race'.out = [winner |-> a, failed |-> race.failed]
  BY <1>1 DEF TypeOK
<1>3. a \in Addrs
  BY DialNumbers DEF DialType
<1>4. TypeOK'
  <2> DEFINE o == [winner |-> a, failed |-> race.failed]
  <2>1. o \in OutcomeType
    BY <1>3 DEF OutcomeType, TypeOK
  <2>2. race' = [race EXCEPT !.dials = Marked(i), !.finished = race.finished + 1,
                             !.ended = TRUE, !.due = FALSE, !.out = o]
    BY <1>1
  <2> HIDE DEF o
  <2>3. race.finished + 1 \in Nat /\ Marked(i) \in Seq(DialType)
    BY MarkedCounts DEF TypeOK
  <2>4. race' \in [primary : Addrs, fallback : Addrs \cup {None}, due : BOOLEAN,
                   fallbackStarted : BOOLEAN, dials : Seq(DialType),
                   finished : Nat, failed : SUBSET Addrs, ctx : BOOLEAN, ended : BOOLEAN,
                   out : OutcomeType]
    BY <2>1, <2>2, <2>3 DEF TypeOK
  <2> QED BY <1>2, <2>4 DEF TypeOK
<1>5. InTurn'
  BY <1>2, MarkedCounts, DialNumbers DEF InTurn
<1>6. FailuresCounted' /\ FallbackFollows'
  BY <1>2 DEF FailuresCounted, FallbackFollows
<1>7. race.failed \subseteq Dialled(race.primary, race.fallback)
  BY FailedWereDialled
<1>8. a \in Dialled(race.primary, race.fallback)
  BY <1>3, DialNumbers, RaceAssumption DEF InTurn, Dialled
<1>9. a \notin race.failed
  <2>1. \A j \in DOMAIN race.dials : race.dials[j].addr = a => j = i
    BY DialNumbers DEF InTurn, TypeOK
  <2> QED BY <2>1 DEF FailuresCounted, Handed
<1>10. Outcome'
  <2>1. a # None
    BY <1>3, RaceAssumption
  <2>2. [winner |-> a, failed |-> race.failed] \in DialOutcomes(race.primary, race.fallback)
    BY <1>7, <1>8, <1>9, <2>1, OutcomeIs
  <2> QED BY <1>2, <2>2 DEF Outcome
<1> QED BY <1>4, <1>5, <1>6, <1>10

\* A failure that leaves a dial under way, the fallback's or the primary's.
LEMMA FailureWaits ==
    ASSUME Inv, ~race.ended, NEW i \in DOMAIN race.dials, race.dials[i].st # "sent",
           race.dials[i].addr = race.primary => race.fallbackStarted,
           race' = [race EXCEPT !.dials = Marked(i), !.finished = race.finished + 1,
                                !.failed = race.failed \cup {race.dials[i].addr}]
    PROVE  Inv'
<1> USE DEF Inv
<1>1. /\ race'.primary = race.primary /\ race'.fallback = race.fallback
      /\ race'.due = race.due /\ race'.fallbackStarted = race.fallbackStarted
      /\ race'.dials = Marked(i) /\ race'.finished = race.finished + 1
      /\ race'.failed = race.failed \cup {race.dials[i].addr}
      /\ race'.ctx = race.ctx /\ race'.ended = race.ended /\ race'.out = race.out
  BY DEF TypeOK
<1>2. TypeOK'
  <2>1. race.dials[i].addr \in Addrs
    BY DialNumbers DEF DialType
  <2>2. race.failed \cup {race.dials[i].addr} \in SUBSET Addrs /\ race.finished + 1 \in Nat
    BY <2>1 DEF TypeOK
  <2>3. Marked(i) \in Seq(DialType)
    BY MarkedCounts
  <2>4. race' \in [primary : Addrs, fallback : Addrs \cup {None}, due : BOOLEAN,
                   fallbackStarted : BOOLEAN, dials : Seq(DialType),
                   finished : Nat, failed : SUBSET Addrs, ctx : BOOLEAN, ended : BOOLEAN,
                   out : OutcomeType]
    BY <2>2, <2>3 DEF TypeOK
  <2> QED BY <1>1, <2>4 DEF TypeOK
<1>3. Handed' = MarkedHanded(i)
  BY <1>1 DEF Handed, MarkedHanded
<1>4. InTurn'
  BY <1>1, MarkedCounts, DialNumbers DEF InTurn
<1>5. FailuresCounted'
  BY <1>1, <1>3, MarkedCounts DEF FailuresCounted
<1>6. FallbackFollows'
  BY <1>1, <1>3, MarkedCounts DEF FallbackFollows, InTurn
<1>7. Outcome'
  BY <1>1 DEF Outcome
<1> QED BY <1>2, <1>4, <1>5, <1>6, <1>7

\* The last failure: every address the race may dial has failed.
LEMMA LastFailure ==
    ASSUME Inv, ~race.ended, NEW i \in DOMAIN race.dials, race.dials[i].st # "sent",
           race.dials[i].addr = race.primary =>
               race.fallbackStarted \/ race.fallback = None,
           race.finished + 1 = Len(race.dials),
           race' = End([race EXCEPT !.dials = Marked(i), !.finished = race.finished + 1,
                                    !.failed = race.failed \cup {race.dials[i].addr}], None)
    PROVE  Inv'
<1> USE DEF Inv
<1> DEFINE lost == race.failed \cup {race.dials[i].addr}
<1>1. race' = [race EXCEPT !.dials = Marked(i), !.finished = race.finished + 1,
                           !.failed = lost, !.ended = TRUE, !.due = FALSE,
                           !.out = [winner |-> None, failed |-> lost]]
  BY DEF End, TypeOK
<1>2. /\ race'.primary = race.primary /\ race'.fallback = race.fallback
      /\ race'.due = FALSE /\ race'.fallbackStarted = race.fallbackStarted
      /\ race'.dials = Marked(i)
      /\ race'.ctx = race.ctx /\ race'.ended
      /\ race'.out = [winner |-> None, failed |-> lost]
  BY <1>1 DEF TypeOK
<1>3. TypeOK'
  <2>1. race.dials[i].addr \in Addrs
    BY DialNumbers DEF DialType
  <2>2. lost \in SUBSET Addrs /\ race.finished + 1 \in Nat
    BY <2>1 DEF TypeOK
  <2>3. Marked(i) \in Seq(DialType)
    BY MarkedCounts
  <2> DEFINE o == [winner |-> None, failed |-> lost]
  <2>5. o \in OutcomeType
    BY <2>2 DEF OutcomeType
  <2>6. race' = [race EXCEPT !.dials = Marked(i), !.finished = race.finished + 1,
                             !.failed = lost, !.ended = TRUE, !.due = FALSE, !.out = o]
    BY <1>1
  <2> HIDE DEF lost, o
  <2>4. race' \in [primary : Addrs, fallback : Addrs \cup {None}, due : BOOLEAN,
                   fallbackStarted : BOOLEAN, dials : Seq(DialType),
                   finished : Nat, failed : SUBSET Addrs, ctx : BOOLEAN, ended : BOOLEAN,
                   out : OutcomeType]
    BY <2>2, <2>3, <2>5, <2>6 DEF TypeOK
  <2> QED BY <1>2, <2>4 DEF TypeOK
<1>4. InTurn'
  BY <1>2, MarkedCounts, DialNumbers DEF InTurn
<1>5. FailuresCounted' /\ FallbackFollows'
  BY <1>2 DEF FailuresCounted, FallbackFollows
<1>6. MarkedHanded(i) = DOMAIN race.dials
  <2>1. race.dials \in Seq(DialType)
    BY DEF TypeOK
  <2>2. DOMAIN race.dials = 1 .. Len(race.dials) /\ Len(race.dials) \in Nat
    BY <2>1, SeqElements
  <2>3. IsFiniteSet(1 .. Len(race.dials)) /\ Cardinality(1 .. Len(race.dials)) = Len(race.dials)
    <3> DEFINE n == Len(race.dials)
    <3>1. n \in Nat /\ n \in Int /\ 1 \in Int
      BY <2>2
    <3> HIDE DEF n
    <3>2. IsFiniteSet(1 .. n) /\ Cardinality(1 .. n) = IF 1 > n THEN 0 ELSE n - 1 + 1
      BY <3>1, FS_Interval
    <3>3. Cardinality(1 .. n) = n
      BY <3>1, <3>2
    <3> QED BY <3>2, <3>3 DEF n
  <2>4. MarkedHanded(i) \subseteq 1 .. Len(race.dials)
    BY <2>2, MarkedCounts DEF Handed
  <2>5. Cardinality(MarkedHanded(i)) = Cardinality(1 .. Len(race.dials))
    BY <2>3, MarkedCounts
  <2>6. MarkedHanded(i) = 1 .. Len(race.dials)
    BY <2>3, <2>4, <2>5, FS_Subset
  <2> QED BY <2>2, <2>6
<1>7. race.fallbackStarted \/ race.fallback = None
  <2>1. 1 \in DOMAIN race.dials
    BY DialNumbers
  <2>2. i = 1 \/ 1 \in Handed
    BY <1>6, <2>1, MarkedCounts
  <2> QED BY <2>2 DEF InTurn, FallbackFollows
<1>8. lost = {race.dials[j].addr : j \in DOMAIN race.dials}
  BY <1>6, MarkedCounts
<1>9. lost = Dialled(race.primary, race.fallback)
  <2>1. CASE race.fallbackStarted
    BY <1>8, <2>1, DialNumbers, RaceAssumption DEF InTurn, Dialled, TypeOK
  <2>2. CASE ~race.fallbackStarted
    BY <1>7, <1>8, <2>2, DialNumbers, RaceAssumption DEF InTurn, Dialled, TypeOK
  <2> QED BY <2>1, <2>2
<1>10. Outcome'
  <2>1. None \notin lost
    BY <1>9 DEF Dialled
  <2>2. [winner |-> None, failed |-> lost] \in DialOutcomes(race.primary, race.fallback)
    BY <1>9, <2>1, OutcomeIs
  <2> QED BY <1>2, <2>2 DEF Outcome
<1> QED BY <1>3, <1>4, <1>5, <1>10

\* The primary's failure starts the fallback, so that the race goes on.
LEMMA FailureStartsFallback ==
    ASSUME Inv, ~race.ended, NEW i \in DOMAIN race.dials, race.dials[i].st # "sent",
           race.dials[i].addr = race.primary, race.fallback # None, ~race.fallbackStarted
    PROVE  /\ race.finished + 1 = 1 /\ i = 1
           /\ \A q : q = With([race EXCEPT !.dials = Marked(i), !.finished = race.finished + 1,
                                    !.failed = race.failed \cup {race.dials[i].addr},
                                    !.fallbackStarted = TRUE], race.fallback)
                     => Len(q.dials) = 2 /\ (race' = q => Inv')
<1> USE DEF Inv
<1> DEFINE d == [addr |-> race.fallback, st |-> "dialing"]
           lost == race.failed \cup {race.dials[i].addr}
           nd == Append(Marked(i), d)
<1>1. i = 1 /\ DOMAIN race.dials = {1} /\ Len(race.dials) = 1
  BY DialNumbers DEF InTurn
<1>2. race.finished + 1 = 1
  <2>1. Handed = {}
    BY <1>1 DEF Handed
  <2> QED BY <2>1, FS_EmptySet DEF FailuresCounted
<1>3. d \in DialType /\ d.st # "sent" /\ d.addr = race.fallback
  BY DEF TypeOK, DialStates, DialType
<1>4. lost \in SUBSET Addrs
  <2>1. race.dials[i].addr \in Addrs
    BY DialNumbers DEF DialType
  <2> QED BY <2>1 DEF TypeOK
<1> HIDE DEF d
<1>5. /\ nd \in Seq(DialType) /\ Len(nd) = 2 /\ DOMAIN nd = {1, 2} /\ DOMAIN Marked(i) = {1}
      /\ nd[1] = Marked(i)[1] /\ nd[2] = d
  BY <1>1, <1>3, MarkedCounts, SeqOfTwo
<1> SUFFICES ASSUME NEW q,
                    q = With([race EXCEPT !.dials = Marked(i), !.finished = race.finished + 1,
                                    !.failed = lost, !.fallbackStarted = TRUE], race.fallback)
             PROVE  Len(q.dials) = 2 /\ (race' = q => Inv')
  BY <1>1, <1>2
<1>6. q = [race EXCEPT !.dials = nd, !.finished = race.finished + 1,
                       !.failed = lost, !.fallbackStarted = TRUE]
  BY DEF With, TypeOK, d
<1>7. q.dials = nd
  BY <1>6 DEF TypeOK
<1>8. ASSUME race' = q PROVE Inv'
  <2> HIDE DEF lost, nd
  <2>1. /\ race'.primary = race.primary /\ race'.fallback = race.fallback
        /\ race'.due = race.due /\ race'.fallbackStarted
        /\ race'.dials = nd /\ race'.finished = race.finished + 1 /\ race'.failed = lost
        /\ race'.ctx = race.ctx /\ race'.ended = race.ended /\ race'.out = race.out
    BY <1>6, <1>8 DEF TypeOK
  <2>2. race' \in [primary : Addrs, fallback : Addrs \cup {None}, due : BOOLEAN,
                   fallbackStarted : BOOLEAN, dials : Seq(DialType),
                   finished : Nat, failed : SUBSET Addrs, ctx : BOOLEAN, ended : BOOLEAN,
                   out : OutcomeType]
    <3>1. race' = [race EXCEPT !.dials = nd, !.finished = race.finished + 1,
                               !.failed = lost, !.fallbackStarted = TRUE]
      BY <1>6, <1>8
    <3>2. nd \in Seq(DialType) /\ race.finished + 1 \in Nat
      BY <1>2, <1>5
    <3> QED BY <1>4, <3>1, <3>2 DEF TypeOK
  <2>3. TypeOK'
    BY <2>1, <2>2 DEF TypeOK
  <2>4. InTurn'
    BY <1>1, <1>3, <1>5, <2>1, MarkedCounts DEF InTurn
  <2>5. Handed' = MarkedHanded(i)
    BY <1>3, <1>5, <2>1 DEF Handed, MarkedHanded
  <2>6. {nd[j].addr : j \in MarkedHanded(i)} = {Marked(i)[j].addr : j \in MarkedHanded(i)}
    BY <1>5 DEF MarkedHanded
  <2>7. FailuresCounted'
    <3>1. lost = {Marked(i)[j].addr : j \in MarkedHanded(i)}
      BY MarkedCounts DEF lost
    <3>2. {race'.dials[j].addr : j \in Handed'} = {nd[j].addr : j \in MarkedHanded(i)}
      BY <2>1, <2>5
    <3>3. race.finished + 1 = Cardinality(MarkedHanded(i))
      BY MarkedCounts
    <3> QED BY <2>1, <2>5, <2>6, <3>1, <3>2, <3>3 DEF FailuresCounted
  <2>8. FallbackFollows' /\ Outcome'
    BY <2>1 DEF FallbackFollows, Outcome
  <2> QED BY <2>3, <2>4, <2>7, <2>8
<1> QED BY <1>5, <1>7, <1>8

\* A result is received: a connection ends the race, the primary's failure starts
\* the fallback unless the timer has, the last failure ends the race.
LEMMA ReceiveStep ==
    ASSUME Inv, NEW i \in DOMAIN race.dials, Receive(i)
    PROVE  Inv'
<1> USE DEF Inv
<1> DEFINE a == race.dials[i].addr
           r == [race EXCEPT !.dials[i].st = "sent", !.finished = @ + 1]
           lost == [r EXCEPT !.failed = @ \cup {a}]
           starts == a = race.primary /\ race.fallback # None /\ ~race.fallbackStarted
<1>1. ~race.ended /\ race.dials[i].st # "sent"
  BY DEF Receive
<1>2. lost = [race EXCEPT !.dials = Marked(i), !.finished = race.finished + 1,
                          !.failed = race.failed \cup {a}]
  BY DEF Marked, TypeOK
<1>3. /\ lost.primary = race.primary /\ lost.fallback = race.fallback
      /\ lost.fallbackStarted = race.fallbackStarted
      /\ lost.dials = Marked(i) /\ lost.finished = race.finished + 1
  BY <1>2 DEF TypeOK
<1>4. CASE race.dials[i].st = "conn"
  <2>1. race' = End(r, a)
    BY <1>4 DEF Receive
  <2> QED BY <1>1, <2>1, ConnReceived
<1>5. CASE race.dials[i].st # "conn" /\ starts
  <2> DEFINE q == With([lost EXCEPT !.fallbackStarted = TRUE], race.fallback)
  <2>1. race' = IF lost.finished = Len(q.dials) THEN End(q, None) ELSE q
    <3>1. /\ q.finished = lost.finished
      BY <1>2 DEF With, TypeOK
    <3> QED BY <1>3, <1>5, <3>1 DEF Receive
  <2>2. q = With([race EXCEPT !.dials = Marked(i), !.finished = race.finished + 1,
                              !.failed = race.failed \cup {race.dials[i].addr},
                              !.fallbackStarted = TRUE], race.fallback)
    BY <1>2 DEF TypeOK
  <2>3. race.finished + 1 = 1 /\ Len(q.dials) = 2 /\ (race' = q => Inv')
    <3> HIDE DEF q
    <3> QED BY <1>1, <1>5, <2>2, FailureStartsFallback
  <2> QED BY <1>3, <2>1, <2>3
<1>6. CASE race.dials[i].st # "conn" /\ ~starts
  <2>1. race' = IF lost.finished = Len(lost.dials) THEN End(lost, None) ELSE lost
    BY <1>3, <1>6 DEF Receive
  <2>2. CASE lost.finished = Len(lost.dials)
    <3>1. race.finished + 1 = Len(race.dials)
      BY <1>1, <1>3, <2>2, MarkedCounts
    <3>2. race' = End(lost, None)
      BY <2>1, <2>2
    <3> QED BY <1>1, <1>2, <1>6, <3>1, <3>2, LastFailure
  <2>3. CASE lost.finished # Len(lost.dials)
    <3>1. race' = lost
      BY <2>1, <2>3
    <3>2. a = race.primary => race.fallbackStarted
      <4> SUFFICES ASSUME a = race.primary, ~race.fallbackStarted PROVE FALSE
        OBVIOUS
      <4>1. Len(race.dials) = 1 /\ DOMAIN race.dials = {1} /\ i = 1
        BY DialNumbers DEF InTurn
      <4>2. Handed = {}
        BY <1>1, <4>1 DEF Handed
      <4>3. race.finished = 0
        BY <1>1, <4>2, FS_EmptySet DEF FailuresCounted
      <4> QED BY <1>1, <1>3, <2>3, <4>1, <4>3, MarkedCounts
    <3> QED BY <1>1, <1>2, <3>1, <3>2, FailureWaits
  <2> QED BY <2>2, <2>3
<1> QED BY <1>4, <1>5, <1>6

-----------------------------------------------------------------------------

\* The race begins with the primary's dial.
LEMMA RaceBegins == Init => Inv
<1> SUFFICES ASSUME Init PROVE Inv
  OBVIOUS
<1> USE DEF Inv
<1>1. PICK p \in Addrs : \E f \in (Addrs \ {p}) \cup {None} : race = With(NewRace(p, f), p)
  BY DEF Init
<1>0. PICK f \in (Addrs \ {p}) \cup {None} : race = With(NewRace(p, f), p)
  BY <1>1
<1> DEFINE d == [addr |-> p, st |-> "dialing"]
           o == [winner |-> None, failed |-> {}]
<1>2. race = [primary |-> p, fallback |-> f, due |-> f # None, fallbackStarted |-> FALSE,
              dials |-> <<d>>, finished |-> 0, failed |-> {}, ctx |-> FALSE, ended |-> FALSE,
              out |-> o]
  <2>1. Append(<<>>, d) = <<d>>
    OBVIOUS
  <2> QED BY <1>0, <2>1 DEF With, NewRace, NoOutcome
<1>3. d \in DialType /\ o \in OutcomeType
  BY DEF DialType, OutcomeType, DialStates
<1>4. <<d>> \in Seq(DialType) /\ Len(<<d>>) = 1 /\ <<d>>[1] = d /\ DOMAIN <<d>> = {1}
  <2>1. <<d>> \in Seq(DialType) /\ Len(<<d>>) = 1 /\ <<d>>[1] = d
    BY <1>3
  <2>2. DOMAIN <<d>> = 1 .. 1 /\ 1 .. 1 = {1}
    BY <2>1
  <2> QED BY <2>1, <2>2
<1>5. d.addr = p /\ d.st # "sent"
  OBVIOUS
<1> HIDE DEF d, o
<1>6. race.primary = p /\ race.dials = <<d>> /\ ~race.fallbackStarted /\ ~race.ended
      /\ race.finished = 0 /\ race.failed = {}
  BY <1>2
<1>7. TypeOK
  BY <1>2, <1>3, <1>4, RaceAssumption DEF TypeOK
<1>8. InTurn
  BY <1>4, <1>5, <1>6 DEF InTurn
<1>9. Handed = {}
  BY <1>4, <1>5, <1>6 DEF Handed
<1>10. FailuresCounted /\ FallbackFollows /\ Outcome
  BY <1>6, <1>9, FS_EmptySet DEF FailuresCounted, FallbackFollows, Outcome
<1> QED BY <1>7, <1>8, <1>10

\* The inductive invariant: the loop's count is of the dials handed over, and the
\* primary's failure is never the last word while there is a fallback.
THEOREM RaceInvariant == Spec => []Inv
<1>1. Inv /\ [Next]_race => Inv'
  <2> SUFFICES ASSUME Inv, [Next]_race PROVE Inv'
    OBVIOUS
  <2>1. CASE UNCHANGED race
    BY <2>1 DEF Inv, TypeOK, InTurn, FailuresCounted, FallbackFollows, Outcome, Handed
  <2>2. CASE RaceCancelled \/ FallbackDue \/ GiveUp
    BY <2>2, CancelledStep, FallbackDueStep, GiveUpStep
  <2>3. ASSUME NEW i \in DOMAIN race.dials, DialReturns(i) \/ Quit(i) \/ Receive(i)
        PROVE  Inv'
    BY <2>3, DialReturnsStep, QuitStep, ReceiveStep
  <2> QED BY <2>1, <2>2, <2>3 DEF Next, Step
<1> QED BY <1>1, RaceBegins, PTL DEF Spec

\* The race dials each address at most once and reports what Placement builds on:
\* a winner, or that every address has failed; less only when its caller gave up.
THEOREM RaceIsSound == Spec => []RaceSound
<1>1. Inv => RaceSound
  <2> SUFFICES ASSUME Inv PROVE RaceSound
    OBVIOUS
  <2>1. \A i, j \in DOMAIN race.dials : race.dials[i].addr = race.dials[j].addr => i = j
    BY DialNumbers DEF Inv, InTurn, TypeOK
  <2> QED BY <2>1 DEF RaceSound, Inv, Outcome
<1> QED BY <1>1, RaceInvariant, PTL

=============================================================================
