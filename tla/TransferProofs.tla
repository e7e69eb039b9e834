--------------------------- MODULE TransferProofs ---------------------------
(***************************************************************************)
(* What a transfer counts as done is right, for any representations, any   *)
(* addresses and any budgets: whatever the server answers, wherever a body *)
(* breaks off, and whenever the object is replaced.                        *)
(***************************************************************************)
EXTENDS Transfer, FiniteSetTheorems, TLAPS

\* A chunk is under way in a multipart run, the stream in a single one.
InMode ==
    /\ pc = "elect" => r.mode = "none"
    /\ pc \in {"attempt", "sent", "decide"} => r.mode = "multi"
    /\ pc = "stream" => r.mode = "single"
    /\ pc = "body" => r.mode = IF body.whole THEN "single" ELSE "multi"
    /\ r.mode = "multi" => 0 < r.total

\* Whoever is still trying has an attempt left.
TriesLeft ==
    pc \in {"lock", "begin", "attempt", "sent", "body", "decide", "stream"} =>
        w.tries < MaxRetries

\* An unfinished chunk has a byte left, though siblings take its tail.
ChunkAhead == r.mode = "multi" /\ pc \in {"attempt", "sent", "body", "decide"} => w.cursor < w.end

\* The election's response, while it is kept, is of the version and the length
\* the run goes by.
InitialKnown ==
    /\ r.v # 0 => remote.validator
    /\ initial.open =>
          /\ initial.v \in Versions
          /\ r.v # 0 => initial.v = r.v
          /\ r.total >= 0 => r.total = Len0[initial.v]
          /\ initial.status = 416 => r.total = 0

\* Before the run takes the staging file over, a sidecar vouches for its first byte.
SidecarVouches ==
    pc \in {"elect", "lock", "begin"} /\ part.sidecar # 0 =>
        /\ part.bytes[0].v = part.sidecar
        /\ part.bytes[0].i = 0

\* The file holds the first n bytes of version v and nothing else.
StagedUpTo(v, n) ==
    \A k \in Places : part.bytes[k] = IF k < n THEN [v |-> v, i |-> k] ELSE NoByte

\* A chunk's body continues at the cursor, with the version the run names; a
\* stream's body has been staged so far, and ends where its version does.
BodyRight ==
    pc = "body" =>
        /\ body.v \in Versions
        /\ ~body.whole => body.at = w.cursor /\ (r.v # 0 => body.v = r.v)
        /\ body.whole => /\ body.at <= Len0[body.v]
                         /\ body.lim = -1 \/ body.lim = Len0[body.v]
                         /\ StagedUpTo(body.v, body.at)
                         /\ ~initial.open

\* Every free rotation has used up an address or the refresh.
FreeCounted ==
    w.free <= Cardinality(w.budget.tried) + (IF w.budget.refreshed THEN 1 ELSE 0)

Inv ==
    /\ TypeOK /\ InMode /\ TriesLeft /\ ChunkAhead
    /\ InitialKnown /\ SidecarVouches /\ BodyRight
    /\ PlacedRight /\ WholeStream /\ FreeCounted

-----------------------------------------------------------------------------
(* Lengths *)

\* A set of naturals has a least element.
LEMMA LeastIn ==
    ASSUME NEW S \in SUBSET Nat, S # {}
    PROVE  \E m \in S : \A y \in S : m <= y
<1>1. \A x, y \in Nat : x < y => <<x, y>> \in OpToRel(<, Nat)
  BY Zenon DEF OpToRel
<1>2. S \subseteq Nat
  OBVIOUS
<1>3. \E m \in S : \A y \in S : ~ (<<y, m>> \in OpToRel(<, Nat))
  BY <1>2, NatLessThanWellFounded, WFMin, Zenon
<1>4. PICK m \in S : \A y \in S : ~ (y < m)
  BY <1>1, <1>2, <1>3, Zenon
<1> QED BY <1>2, <1>4

HasBound(s, k) == \E m \in Nat : \A i \in 1 .. k : s[i] <= m

\* One more element raises the bound.
LEMMA BoundRaised ==
    ASSUME NEW s, NEW k \in Nat, \A i \in 1 .. k + 1 : s[i] \in Nat, HasBound(s, k)
    PROVE  HasBound(s, k + 1)
<1>1. PICK m \in Nat : \A i \in 1 .. k : s[i] <= m
  BY DEF HasBound
<1>2. PICK x \in Nat : x = s[k + 1]
  OBVIOUS
<1>3. PICK n \in Nat : m <= n /\ x <= n
  <2>1. m <= x \/ x <= m
    OBVIOUS
  <2> QED BY <2>1
<1>4. ASSUME NEW i \in 1 .. k + 1 PROVE s[i] <= n
  <2>1. CASE i = k + 1
    BY <1>2, <1>3, <2>1
  <2>2. CASE i # k + 1
    <3>1. i \in 1 .. k /\ s[i] \in Nat
      BY <2>2
    <3>2. s[i] <= m
      BY <1>1, <3>1
    <3> QED BY <1>3, <3>1, <3>2
  <2> QED BY <2>1, <2>2
<1> QED BY <1>4 DEF HasBound

\* A sequence of naturals has a bound.
LEMMA Bounded ==
    ASSUME NEW s \in Seq(Nat)
    PROVE  \E m \in Nat : \A i \in DOMAIN s : s[i] <= m
<1> DEFINE C == {k \in 0 .. Len(s) : ~HasBound(s, k)}
<1>1. DOMAIN s = 1 .. Len(s) /\ Len(s) \in Nat /\ \A i \in 1 .. Len(s) : s[i] \in Nat
  OBVIOUS
<1>2. HasBound(s, 0)
  BY DEF HasBound
<1>3. C = {}
  <2> SUFFICES ASSUME C # {} PROVE FALSE
    OBVIOUS
  <2>1. C \in SUBSET Nat
    BY <1>1
  <2>2. PICK k \in C : \A y \in C : k <= y
    <3> HIDE DEF C
    <3> QED BY <2>1, LeastIn
  <2>3. k \in 0 .. Len(s) /\ ~HasBound(s, k)
    BY <2>2
  <2>4. k # 0
    BY <1>2, <2>3
  <2>5. PICK l \in Nat : k = l + 1
    BY <1>1, <2>3, <2>4
  <2>6. ~(k <= l) /\ l \in 0 .. Len(s) /\ 1 .. l + 1 \subseteq 1 .. Len(s)
    BY <1>1, <2>3, <2>5
  <2>7. HasBound(s, l)
    BY <2>2, <2>6
  <2>8. HasBound(s, l + 1)
    BY <1>1, <2>6, <2>7, BoundRaised
  <2> QED BY <2>3, <2>5, <2>8
<1>4. HasBound(s, Len(s))
  BY <1>1, <1>3
<1> QED BY <1>1, <1>4 DEF HasBound

\* Longest is the length of the longest version, and the versions are not 0.
LEMMA Lengths ==
    /\ Longest \in Nat /\ 0 \notin Versions /\ -1 \notin Versions
    /\ \A v \in Versions : Len0[v] \in Nat /\ Len0[v] <= Longest
    /\ MaxRetries \in Nat /\ MaxRetries > 0
    /\ {MaxCulls, MaxProgress, MaxChanges} \subseteq Nat
    /\ IsFiniteSet(Addrs) /\ None \notin Addrs
<1>1. /\ Len0 \in Seq(Nat) /\ Len0 # <<>>
      /\ MaxRetries \in Nat /\ MaxRetries > 0
      /\ {MaxCulls, MaxProgress, MaxChanges} \subseteq Nat
      /\ IsFiniteSet(Addrs) /\ None \notin Addrs
  BY TransferAssumption
<1>2. Versions = 1 .. Len(Len0) /\ Len(Len0) \in Nat /\ \A v \in Versions : Len0[v] \in Nat
  BY <1>1 DEF Versions
<1>3. 1 \in Versions /\ 0 \notin Versions /\ -1 \notin Versions
  BY <1>1, <1>2
<1> DEFINE U == {m \in Nat : \A v \in Versions : Len0[v] <= m}
<1>4. U \in SUBSET Nat /\ U # {}
  BY <1>1, Bounded DEF Versions
<1>5. PICK m \in U : \A y \in U : m <= y
  <2> HIDE DEF U
  <2> QED BY <1>4, LeastIn
<1>6. \E v \in Versions : Len0[v] = m
  <2> SUFFICES ASSUME \A v \in Versions : Len0[v] # m PROVE FALSE
    OBVIOUS
  <2>1. m \in Nat /\ \A v \in Versions : Len0[v] \in Nat /\ Len0[v] < m
    BY <1>2, <1>5
  <2>2. m > 0
    BY <1>3, <2>1
  <2>3. m - 1 \in U
    BY <2>1, <2>2
  <2> QED BY <1>5, <2>1, <2>3
<1>7. \E n \in {Len0[v] : v \in Versions} : \A v \in Versions : Len0[v] <= n
  BY <1>5, <1>6
<1>8. /\ Longest \in {Len0[v] : v \in Versions}
      /\ \A v \in Versions : Len0[v] <= Longest
  BY <1>7 DEF Longest
<1> QED BY <1>1, <1>2, <1>3, <1>8

-----------------------------------------------------------------------------
(* Types *)

Labels == {"elect", "lock", "begin", "attempt", "sent", "body", "decide", "stream",
           "ok", "failed"}
RemoteType == [ver : Versions, validator : BOOLEAN, changes : 0 .. MaxChanges,
               culls : 0 .. MaxCulls, progress : 0 .. MaxProgress]
RunType == [mode : {"none", "multi", "single"}, total : Bound, v : {0} \cup Versions]
InitialType == [open : BOOLEAN, status : {0, 200, 206, 416},
                e : {0} \cup Places, v : {0} \cup Versions]
PartType == [bytes : [Places -> Bytes], sidecar : {0} \cup Versions]
BudgetType == [tried : SUBSET Addrs, refreshed : BOOLEAN, permanent : BOOLEAN]
ErrorType == [kind : Kinds, addrs : SUBSET Addrs, permanent : BOOLEAN]
WorkerType == [cursor : 0 .. Longest, end : 0 .. Longest, ask : 0 .. Longest,
               conn : Addrs \cup {None}, tries : Nat, moved : BOOLEAN,
               budget : BudgetType, free : Nat, err : ErrorType]
BodyType == [v : {0} \cup Versions, at : 0 .. Longest, lim : Bound, capped : BOOLEAN,
             whole : BOOLEAN]

TriesOK == w.tries <= IF pc = "elect" THEN 2 ELSE MaxRetries

\* The types by their names.
LEMMA TypesByName ==
    TypeOK <=> /\ pc \in Labels /\ remote \in RemoteType /\ r \in RunType
               /\ initial \in InitialType /\ part \in PartType /\ w \in WorkerType
               /\ TriesOK /\ body \in BodyType
BY DEF TypeOK, Labels, RemoteType, RunType, InitialType, PartType, WorkerType, BudgetType,
       ErrorType, BodyType, TriesOK

\* The same of the next state.
LEMMA TypesByNameNext ==
    TypeOK' <=> /\ pc' \in Labels /\ remote' \in RemoteType /\ r' \in RunType
                /\ initial' \in InitialType /\ part' \in PartType /\ w' \in WorkerType
                /\ TriesOK' /\ body' \in BodyType
BY DEF TypeOK, Labels, RemoteType, RunType, InitialType, PartType, WorkerType, BudgetType,
       ErrorType, BodyType, TriesOK

\* What a worker's fields are.
LEMMA WorkerFields ==
    ASSUME NEW u \in WorkerType
    PROVE  /\ u.cursor \in 0 .. Longest /\ u.end \in 0 .. Longest /\ u.ask \in 0 .. Longest
           /\ u.cursor \in Nat /\ u.end \in Nat /\ u.ask \in Nat
           /\ u.conn \in Addrs \cup {None} /\ u.tries \in Nat /\ u.moved \in BOOLEAN
           /\ u.budget \in BudgetType /\ u.free \in Nat /\ u.err \in ErrorType
BY Lengths DEF WorkerType

\* No body is a body, and no response a response.
LEMMA Nothing ==
    /\ NoBody \in BodyType /\ NoInitial \in InitialType /\ NoError \in ErrorType
    /\ NoByte \in Bytes /\ Empty \in [Places -> Bytes]
BY Lengths DEF NoBody, BodyType, NoInitial, InitialType, NoError, ErrorType, NoByte, Bytes,
    Empty, Bound, Kinds

-----------------------------------------------------------------------------
(* Steps of a chunk between two bytes *)

Chunking == {"attempt", "sent", "body", "decide"}

\* The chunk's worker goes on, or gives up, and has neither moved its cursor nor
\* touched the file; the body it may have begun to read continues at the cursor.
LEMMA ChunkStep ==
    ASSUME Inv, pc \in Chunking, r.mode = "multi",
           pc' \in Chunking \cup {"failed"},
           remote' \in RemoteType, remote'.validator = remote.validator,
           UNCHANGED <<r, part>>, initial' \in {initial, NoInitial},
           w' \in WorkerType, w'.cursor = w.cursor, w'.tries <= MaxRetries, FreeCounted',
           pc' # "failed" => w.cursor < w'.end /\ w'.tries < MaxRetries,
           body' \in BodyType,
           pc' = "body" => /\ body'.at = w.cursor /\ ~body'.whole
                           /\ body'.v \in Versions /\ (r.v # 0 => body'.v = r.v)
    PROVE  Inv'
<1> USE DEF Inv
<1>1. TypeOK'
  <2>1. initial' \in InitialType
    BY TypesByName, Nothing
  <2>2. pc' \in Labels /\ TriesOK'
    BY DEF Chunking, Labels, TriesOK
  <2>3. r' \in RunType /\ part' \in PartType
    BY TypesByName
  <2> QED BY <2>1, <2>2, <2>3, TypesByNameNext
<1>2. InMode' /\ TriesLeft' /\ ChunkAhead'
  BY DEF InMode, TriesLeft, ChunkAhead, Chunking
<1>3. InitialKnown'
  <2>1. CASE initial' = initial
    BY <2>1 DEF InitialKnown
  <2>2. CASE initial' = NoInitial
    BY <2>2 DEF InitialKnown, NoInitial
  <2> QED BY <2>1, <2>2
<1>4. SidecarVouches' /\ BodyRight' /\ WholeStream'
  BY DEF SidecarVouches, BodyRight, WholeStream, Chunking
<1>5. PlacedRight'
  <2>1. PlacedUpTo(w.cursor)
    BY DEF PlacedRight, Chunking
  <2>2. PlacedUpTo(w.cursor)'
    BY <2>1 DEF PlacedUpTo
  <2> QED BY <2>2 DEF PlacedRight, Chunking
<1> QED BY <1>1, <1>2, <1>3, <1>4, <1>5

\* An attempt ends with an error.
LEMMA AttemptFails ==
    ASSUME Inv, pc \in Chunking, r.mode = "multi",
           NEW kind \in Kinds, NEW addrs \in SUBSET Addrs, NEW permanent \in BOOLEAN,
           Fails(kind, addrs, permanent),
           UNCHANGED <<r, initial, part>>,
           remote' \in RemoteType, remote'.validator = remote.validator
    PROVE  Inv'
<1> DEFINE e == [kind |-> kind, addrs |-> addrs, permanent |-> permanent]
           c == IF kind \in {"slow", "stall", "rotation"} THEN None ELSE w.conn
<1>1. w \in WorkerType /\ body' \in BodyType
  BY TypesByName, Nothing DEF Inv, Fails
<1>2. e \in ErrorType /\ c \in Addrs \cup {None} /\ 0 \in 0 .. Longest
  BY <1>1, WorkerFields, Lengths DEF ErrorType
<1>3. w' = [w EXCEPT !.err = e, !.conn = c, !.ask = 0]
  BY <1>1 DEF Fails, WorkerType
<1> HIDE DEF e, c
<1>4. w' \in WorkerType
  BY <1>1, <1>2, <1>3 DEF WorkerType
<1>5. /\ w'.cursor = w.cursor /\ w'.end = w.end /\ w'.tries = w.tries
      /\ w'.budget = w.budget /\ w'.free = w.free
  BY <1>1, <1>3 DEF WorkerType
<1>6. w.cursor < w.end /\ w.tries < MaxRetries /\ w.tries <= MaxRetries
  BY <1>1, WorkerFields, Lengths DEF Inv, ChunkAhead, TriesLeft, Chunking
<1>7. FreeCounted'
  BY <1>5 DEF Inv, FreeCounted
<1>8. pc' = "decide"
  BY DEF Fails
<1> QED BY <1>1, <1>4, <1>5, <1>6, <1>7, <1>8, ChunkStep DEF Chunking

\* Only the worker changes, and not where its chunk is.
LEMMA WorkerChanges ==
    ASSUME Inv, pc \in Chunking, r.mode = "multi",
           pc' \in (Chunking \ {"body"}) \cup {"failed"},
           UNCHANGED <<r, initial, part, body>>,
           remote' \in RemoteType, remote'.validator = remote.validator,
           w' \in WorkerType, w'.cursor = w.cursor, w'.end = w.end,
           w'.tries <= MaxRetries, pc' # "failed" => w'.tries < MaxRetries, FreeCounted'
    PROVE  Inv'
<1>1. body' \in BodyType
  BY TypesByName DEF Inv
<1>2. w.cursor < w.end
  BY DEF Inv, ChunkAhead, Chunking
<1> QED BY <1>1, <1>2, ChunkStep DEF Chunking

\* What a step that leaves remote alone may assume of it.
LEMMA RemoteRests ==
    Inv /\ UNCHANGED remote => remote' \in RemoteType /\ remote'.validator = remote.validator
BY TypesByName DEF Inv

\* NoAddress, Stall, Cull and BodyEnds end an attempt with an error.
LEMMA EndedAttempt ==
    ASSUME Inv, NoAddress \/ Stall \/ Cull \/ BodyEnds
    PROVE  Inv'
<1>1. CASE NoAddress
  <2>1. /\ pc \in Chunking /\ r.mode = "multi" /\ Fails("rotation", {}, FALSE)
        /\ UNCHANGED <<r, initial, part>> /\ UNCHANGED remote /\ "rotation" \in Kinds
    BY <1>1 DEF NoAddress, NeedsRequest, Chunking, Kinds, Inv, InMode
  <2> QED BY <2>1, RemoteRests, AttemptFails
<1>2. CASE Stall
  <2>1. /\ pc \in Chunking /\ r.mode = "multi" /\ Fails("stall", {}, FALSE)
        /\ UNCHANGED <<r, initial, part>> /\ UNCHANGED remote /\ "stall" \in Kinds
    BY <1>2 DEF Stall, Aborted, NeedsRequest, Chunking, Kinds
  <2> QED BY <2>1, RemoteRests, AttemptFails
<1>3. CASE Cull
  <2>1. /\ pc \in Chunking /\ r.mode = "multi" /\ Fails("slow", {}, FALSE)
        /\ UNCHANGED <<r, initial, part>> /\ "slow" \in Kinds
        /\ remote.culls > 0 /\ remote' = [remote EXCEPT !.culls = @ - 1]
    BY <1>3 DEF Cull, Aborted, NeedsRequest, Chunking, Kinds
  <2>2. remote \in RemoteType /\ MaxCulls \in Nat
    BY TypesByName, Lengths DEF Inv
  <2>3. remote' \in RemoteType /\ remote'.validator = remote.validator
    BY <2>1, <2>2 DEF RemoteType
  <2> QED BY <2>1, <2>3, AttemptFails
<1>4. CASE BodyEnds
  <2> DEFINE k == IF body.capped /\ w.cursor >= body.lim THEN "capped" ELSE "short"
  <2>1. /\ pc \in Chunking /\ r.mode = "multi" /\ Fails(k, {}, FALSE)
        /\ UNCHANGED <<r, initial, part>> /\ UNCHANGED remote /\ k \in Kinds
    BY <1>4 DEF BodyEnds, Chunking, Kinds, Inv, InMode
  <2> HIDE DEF k
  <2> QED BY <2>1, RemoteRests, AttemptFails
<1> QED BY <1>1, <1>2, <1>3, <1>4

\* A response is read from the cursor on, or refused: ReadRange's two ways.
LEMMA RangeRead ==
    ASSUME Inv, pc \in Chunking, r.mode = "multi",
           NEW v \in Versions, r.v # 0 => v = r.v,
           NEW s, NEW e \in {0} \cup Places, NEW total, NEW requested, NEW end \in 0 .. Longest,
           ReadRange(v, s, e, total, requested, end),
           UNCHANGED <<remote, r, part, w>>, initial' \in {initial, NoInitial}
    PROVE  Inv'
<1>1. w \in WorkerType /\ end \in Nat /\ Longest \in Nat /\ e \in Nat
      /\ w.cursor < w.end /\ w.tries < MaxRetries /\ w.tries <= MaxRetries
  BY TypesByName, WorkerFields, Lengths DEF Inv, ChunkAhead, TriesLeft, Chunking, Places
<1>2. FreeCounted'
  BY DEF Inv, FreeCounted
<1>3. remote' \in RemoteType /\ remote'.validator = remote.validator
  BY RemoteRests
<1>4. CASE Accepts(w.cursor, requested, s, e, total)
  <2> DEFINE lim == IF e + 1 < end THEN e + 1 ELSE end
  <2>1. s = w.cursor
    BY <1>4 DEF Accepts
  <2>2. /\ body' = [v |-> v, at |-> s, lim |-> lim, capped |-> lim < end, whole |-> FALSE]
        /\ pc' = "body"
    BY <1>4 DEF ReadRange
  <2>3. lim \in Bound /\ (lim < end) \in BOOLEAN
    BY <1>1 DEF Bound
  <2>4. s \in 0 .. Longest
    BY <1>1, <2>1, WorkerFields
  <2> HIDE DEF lim
  <2>5. body' \in BodyType
    BY <2>2, <2>3, <2>4 DEF BodyType
  <2>6. body'.at = w.cursor /\ ~body'.whole /\ body'.v = v
    BY <2>1, <2>2
  <2> QED BY <1>1, <1>2, <1>3, <2>2, <2>5, <2>6, ChunkStep DEF Chunking
<1>5. CASE ~Accepts(w.cursor, requested, s, e, total)
  <2>1. pc' = "failed" /\ body' = NoBody
    BY <1>5 DEF ReadRange
  <2> QED BY <1>1, <1>2, <1>3, <2>1, Nothing, ChunkStep
<1> QED BY <1>4, <1>5

\* The chunk at byte zero reads the election's response.
LEMMA UseInitialStep ==
    ASSUME Inv, UseInitial
    PROVE  Inv'
<1>1. /\ pc \in Chunking /\ r.mode = "multi" /\ initial.open
      /\ initial' = NoInitial /\ UNCHANGED <<remote, r, part, w>>
      /\ ReadRange(initial.v, 0, initial.e, r.total, r.total, w.end)
  BY DEF UseInitial, Chunking, Inv, InMode
<1>2. initial.v \in Versions /\ (r.v # 0 => initial.v = r.v)
  BY <1>1 DEF Inv, InitialKnown
<1>3. initial.e \in {0} \cup Places /\ w.end \in 0 .. Longest
  BY TypesByName, WorkerFields DEF Inv, InitialType
<1> QED BY <1>1, <1>2, <1>3, RangeRead

\* What a worker stands on when it goes on without moving its cursor.
LEMMA WorkerNow ==
    ASSUME Inv, pc \in Chunking, r.mode = "multi"
    PROVE  /\ w \in WorkerType /\ w.cursor < w.end
           /\ w.tries \in Nat /\ w.tries < MaxRetries /\ w.tries <= MaxRetries
           /\ MaxRetries \in Nat
           /\ w.free <= Cardinality(w.budget.tried) + (IF w.budget.refreshed THEN 1 ELSE 0)
BY TypesByName, WorkerFields, Lengths
DEF Inv, ChunkAhead, TriesLeft, Chunking, FreeCounted

\* A dial has no winner, or one whose handshake fails, or one that is used.
LEMMA DialStep ==
    ASSUME Inv, Dial
    PROVE  Inv'
<1>1. pc \in Chunking /\ r.mode = "multi" /\ UNCHANGED remote /\ UNCHANGED <<r, initial, part>>
  BY DEF Dial, NeedsRequest, Chunking, Inv, InMode
<1>2. PICK p \in Addrs : \E f \in (Addrs \ {p}) \cup {None} : \E o \in DialOutcomes(p, f) :
         IF o.winner = None THEN Fails("rotation", o.failed, FALSE)
         ELSE \/ /\ w' = [w EXCEPT !.conn = o.winner, !.ask = w.end]
                 /\ pc' = "sent" /\ body' = body
              \/ \E certificate \in BOOLEAN : Fails("rotation", {o.winner}, certificate)
  BY DEF Dial
<1>3. PICK f \in (Addrs \ {p}) \cup {None} : \E o \in DialOutcomes(p, f) :
         IF o.winner = None THEN Fails("rotation", o.failed, FALSE)
         ELSE \/ /\ w' = [w EXCEPT !.conn = o.winner, !.ask = w.end]
                 /\ pc' = "sent" /\ body' = body
              \/ \E certificate \in BOOLEAN : Fails("rotation", {o.winner}, certificate)
  BY <1>2
<1>4. PICK o \in DialOutcomes(p, f) :
         IF o.winner = None THEN Fails("rotation", o.failed, FALSE)
         ELSE \/ /\ w' = [w EXCEPT !.conn = o.winner, !.ask = w.end]
                 /\ pc' = "sent" /\ body' = body
              \/ \E certificate \in BOOLEAN : Fails("rotation", {o.winner}, certificate)
  BY <1>3
<1>5. o.failed \in SUBSET Addrs /\ (o.winner # None => o.winner \in Addrs)
  BY DEF DialOutcomes, Dialled
<1>6. "rotation" \in Kinds
  BY DEF Kinds
<1>7. CASE o.winner = None
  BY <1>1, <1>4, <1>5, <1>6, <1>7, RemoteRests, AttemptFails
<1>8. CASE o.winner # None /\ w' = [w EXCEPT !.conn = o.winner, !.ask = w.end]
                           /\ pc' = "sent" /\ body' = body
  <2>1. w' \in WorkerType
    BY <1>1, <1>5, <1>8, WorkerNow DEF WorkerType
  <2>2. /\ w'.cursor = w.cursor /\ w'.end = w.end /\ w'.tries = w.tries
        /\ w'.budget = w.budget /\ w'.free = w.free
    BY <1>1, <1>8, WorkerNow DEF WorkerType
  <2>3. FreeCounted'
    BY <2>2 DEF Inv, FreeCounted
  <2> QED BY <1>1, <1>8, <2>1, <2>2, <2>3, WorkerNow, RemoteRests, WorkerChanges DEF Chunking
<1>9. CASE o.winner # None /\ \E certificate \in BOOLEAN : Fails("rotation", {o.winner}, certificate)
  <2>1. PICK certificate \in BOOLEAN : Fails("rotation", {o.winner}, certificate)
    BY <1>9
  <2>2. {o.winner} \in SUBSET Addrs
    BY <1>5, <1>9
  <2> QED BY <1>1, <1>6, <2>1, <2>2, RemoteRests, AttemptFails
<1> QED BY <1>4, <1>7, <1>8, <1>9

\* A request on the connection there is.
LEMMA ReuseStep ==
    ASSUME Inv, Reuse
    PROVE  Inv'
<1>1. /\ pc \in Chunking /\ r.mode = "multi" /\ UNCHANGED remote
      /\ UNCHANGED <<r, initial, part, body>>
      /\ w' = [w EXCEPT !.ask = w.end] /\ pc' = "sent"
  BY DEF Reuse, NeedsRequest, Chunking, Inv, InMode
<1>2. w' \in WorkerType
  BY <1>1, WorkerNow DEF WorkerType
<1>3. /\ w'.cursor = w.cursor /\ w'.end = w.end /\ w'.tries = w.tries
      /\ w'.budget = w.budget /\ w'.free = w.free
  BY <1>1, WorkerNow DEF WorkerType
<1>4. FreeCounted'
  BY <1>3 DEF Inv, FreeCounted
<1> QED BY <1>1, <1>2, <1>3, <1>4, WorkerNow, RemoteRests, WorkerChanges DEF Chunking

\* The server answers with a range of what it has, or not as it was asked.
LEMMA AnswerStep ==
    ASSUME Inv, Answer
    PROVE  Inv'
<1>1. pc \in Chunking /\ r.mode = "multi" /\ UNCHANGED remote /\ UNCHANGED <<r, initial, part>>
  BY DEF Answer, Chunking, Inv, InMode
<1>2. CASE pc' = "failed" /\ UNCHANGED <<w, body>>
  <2>1. FreeCounted'
    BY <1>2 DEF Inv, FreeCounted
  <2> QED BY <1>1, <1>2, <2>1, WorkerNow, RemoteRests, WorkerChanges
<1>3. ASSUME NEW kind \in {"ignored", "throttled", "status"}, Fails(kind, {}, FALSE)
      PROVE  Inv'
  <2>1. kind \in Kinds
    BY DEF Kinds
  <2> QED BY <1>1, <1>3, <2>1, RemoteRests, AttemptFails
<1>4. ASSUME remote.validator => r.v = remote.ver, w' = w,
             NEW s \in Places, NEW e \in Places, NEW total,
             ReadRange(remote.ver, s, e, total, w.ask, w.ask)
      PROVE  Inv'
  <2>1. remote.ver \in Versions /\ w.ask \in 0 .. Longest
    BY TypesByName, WorkerFields DEF Inv, RemoteType
  <2>2. r.v # 0 => remote.ver = r.v
    BY <1>4 DEF Inv, InitialKnown
  <2> QED BY <1>1, <1>4, <2>1, <2>2, RangeRead
<1> QED BY <1>2, <1>3, <1>4 DEF Answer

-----------------------------------------------------------------------------
(* What an attempt's error costs *)

\* An attempt that costs nothing.
LEMMA FreeRetryStep ==
    ASSUME Inv, FreeRetry
    PROVE  Inv'
<1>1. /\ pc \in Chunking /\ r.mode = "multi" /\ UNCHANGED remote
      /\ UNCHANGED <<r, initial, part, body>>
      /\ w' = [w EXCEPT !.err = NoError] /\ pc' = "attempt"
  BY DEF FreeRetry, Again, Chunking, Inv, InMode
<1>2. w' \in WorkerType
  BY <1>1, WorkerNow, Nothing DEF WorkerType
<1>3. /\ w'.cursor = w.cursor /\ w'.end = w.end /\ w'.tries = w.tries
      /\ w'.budget = w.budget /\ w'.free = w.free
  BY <1>1, WorkerNow DEF WorkerType
<1>4. FreeCounted'
  BY <1>3 DEF Inv, FreeCounted
<1> QED BY <1>1, <1>2, <1>3, <1>4, WorkerNow, RemoteRests, WorkerChanges DEF Chunking

\* A free rotation uses up an address that was not tried, or the refresh.
LEMMA RotateStep ==
    ASSUME Inv, Rotate
    PROVE  Inv'
<1> DEFINE b == w.budget
           a == w.err.addrs
           n == Rotates(b)
<1>1. /\ pc \in Chunking /\ r.mode = "multi" /\ UNCHANGED remote
      /\ UNCHANGED <<r, initial, part, body>>
      /\ ~(a \subseteq b.tried) \/ ~b.refreshed
      /\ pc' = "attempt"
  BY DEF Rotate, Admits, Chunking, Inv, InMode
<1>2. w \in WorkerType /\ b \in BudgetType /\ w.err \in ErrorType /\ w.free \in Nat
  BY <1>1, WorkerNow, WorkerFields
<1>3. /\ a \subseteq Addrs /\ b.tried \subseteq Addrs /\ b.refreshed \in BOOLEAN
      /\ w.err.permanent \in BOOLEAN /\ b.permanent \in BOOLEAN
  BY <1>2 DEF BudgetType, ErrorType
<1>4. /\ n \in BudgetType /\ n.tried = b.tried \cup a
      /\ n.refreshed = (b.refreshed \/ a \subseteq b.tried)
  BY <1>3 DEF Rotates, BudgetType
<1>5. w.free + 1 <= Cardinality(n.tried) + (IF n.refreshed THEN 1 ELSE 0)
  <2>1. IsFiniteSet(b.tried) /\ IsFiniteSet(b.tried \cup a)
    <3>1. IsFiniteSet(Addrs) /\ b.tried \cup a \subseteq Addrs
      BY <1>3, Lengths
    <3> QED BY <1>3, <3>1, FS_Subset
  <2>2. /\ Cardinality(b.tried) \in Nat /\ Cardinality(b.tried \cup a) \in Nat
    BY <2>1, FS_CardinalityType
  <2>3. /\ Cardinality(b.tried) <= Cardinality(b.tried \cup a)
        /\ Cardinality(b.tried \cup a) = Cardinality(b.tried) => b.tried \cup a = b.tried
    <3>1. b.tried \in SUBSET (b.tried \cup a)
      OBVIOUS
    <3>2. /\ Cardinality(b.tried) <= Cardinality(b.tried \cup a)
          /\ Cardinality(b.tried \cup a) = Cardinality(b.tried) => b.tried \cup a = b.tried
      BY <2>1, <3>1, FS_Subset
    <3> QED BY <3>2
  <2>4. w.free <= Cardinality(b.tried) + (IF b.refreshed THEN 1 ELSE 0)
    BY <1>1, WorkerNow
  <2>5. CASE a \subseteq b.tried
    <3>1. b.tried \cup a = b.tried /\ ~b.refreshed /\ n.refreshed
      BY <1>1, <1>4, <2>5
    <3>2. n.tried = b.tried
      BY <1>4, <3>1
    <3>3. w.free <= Cardinality(b.tried)
      BY <2>4, <2>2, <3>1
    <3> HIDE DEF n, a, b
    <3> QED BY <1>2, <2>2, <3>1, <3>2, <3>3
  <2>6. CASE ~(a \subseteq b.tried)
    <3>1. Cardinality(b.tried) < Cardinality(b.tried \cup a)
      <4>1. b.tried \cup a # b.tried
        BY <2>6
      <4> QED BY <2>2, <2>3, <4>1
    <3>2. n.refreshed = b.refreshed
      BY <1>3, <1>4, <2>6
    <3> HIDE DEF n, a, b
    <3> QED BY <1>2, <1>4, <2>2, <2>4, <3>1, <3>2
  <2> QED BY <2>5, <2>6
<1>6. w' = [w EXCEPT !.budget = n, !.free = w.free + 1, !.err = NoError]
  BY <1>2 DEF Rotate, Again, WorkerType
<1> HIDE DEF n, a, b
<1>7. w' \in WorkerType
  <2>1. w.free + 1 \in Nat
    BY <1>2
  <2> QED BY <1>2, <1>4, <1>6, <2>1, Nothing DEF WorkerType
<1>8. /\ w'.cursor = w.cursor /\ w'.end = w.end /\ w'.tries = w.tries
      /\ w'.budget = n /\ w'.free = w.free + 1
  BY <1>2, <1>6 DEF WorkerType
<1>9. FreeCounted'
  BY <1>5, <1>8 DEF FreeCounted
<1> QED BY <1>1, <1>7, <1>8, <1>9, WorkerNow, RemoteRests, WorkerChanges DEF Chunking

\* A bad certificate is final once every rotation is spent.
LEMMA RotateNoMoreStep ==
    ASSUME Inv, RotateNoMore
    PROVE  Inv'
<1>1. /\ pc \in Chunking /\ r.mode = "multi" /\ UNCHANGED remote
      /\ UNCHANGED <<r, initial, part, body>> /\ UNCHANGED w /\ pc' = "failed"
  BY DEF RotateNoMore, Chunking, Inv, InMode
<1>2. FreeCounted'
  BY <1>1 DEF Inv, FreeCounted
<1> QED BY <1>1, <1>2, WorkerNow, RemoteRests, WorkerChanges

\* A 429 that is waited out costs nothing.
LEMMA WaitOutStep ==
    ASSUME Inv, WaitOut
    PROVE  Inv'
<1>1. /\ pc \in Chunking /\ r.mode = "multi" /\ UNCHANGED remote
      /\ UNCHANGED <<r, initial, part, body>> /\ pc' = "attempt"
  BY DEF WaitOut, Chunking, Inv, InMode
<1>2. w' = [w EXCEPT !.moved = FALSE, !.err = NoError]
  BY <1>1, WorkerNow DEF WaitOut, Again, WorkerType
<1>3. w' \in WorkerType
  BY <1>1, <1>2, WorkerNow, Nothing DEF WorkerType
<1>4. /\ w'.cursor = w.cursor /\ w'.end = w.end /\ w'.tries = w.tries
      /\ w'.budget = w.budget /\ w'.free = w.free
  BY <1>1, <1>2, WorkerNow DEF WorkerType
<1>5. FreeCounted'
  BY <1>4 DEF Inv, FreeCounted
<1> QED BY <1>1, <1>3, <1>4, <1>5, WorkerNow, RemoteRests, WorkerChanges DEF Chunking

\* A charged attempt: the last one ends the chunk.
LEMMA ChargeStep ==
    ASSUME Inv, Charge
    PROVE  Inv'
<1>1. /\ pc \in Chunking /\ r.mode = "multi" /\ UNCHANGED remote
      /\ UNCHANGED <<r, initial, part, body>>
      /\ pc' = IF w.tries + 1 >= MaxRetries THEN "failed" ELSE "attempt"
  BY DEF Charge, Chunking, Inv, InMode
<1>2. w' = [w EXCEPT !.tries = w.tries + 1, !.moved = FALSE, !.err = NoError]
  BY <1>1, WorkerNow DEF Charge, Again, WorkerType
<1>3. w.tries + 1 \in Nat /\ w.tries + 1 <= MaxRetries
  BY <1>1, WorkerNow
<1>4. w' \in WorkerType
  BY <1>1, <1>2, <1>3, WorkerNow, Nothing DEF WorkerType
<1>5. /\ w'.cursor = w.cursor /\ w'.end = w.end /\ w'.tries = w.tries + 1
      /\ w'.budget = w.budget /\ w'.free = w.free
  BY <1>1, <1>2, WorkerNow DEF WorkerType
<1>6. FreeCounted'
  BY <1>5 DEF Inv, FreeCounted
<1>7. pc' # "failed" => w'.tries < MaxRetries
  BY <1>1, <1>3, <1>5, WorkerNow
<1>8. pc' \in (Chunking \ {"body"}) \cup {"failed"}
  BY <1>1 DEF Chunking
<1> QED BY <1>1, <1>3, <1>4, <1>5, <1>6, <1>7, <1>8, RemoteRests, WorkerChanges

-----------------------------------------------------------------------------
(* What others do *)

\* A sibling takes the tail: a byte is left.
LEMMA ShrinkStep ==
    ASSUME Inv, Shrink
    PROVE  Inv'
<1>1. /\ pc \in Chunking /\ r.mode = "multi" /\ UNCHANGED remote
      /\ UNCHANGED <<pc, r, initial, part, body>>
      /\ w.end > w.cursor + 1 /\ w' = [w EXCEPT !.end = w.end - 1]
  BY WorkerFields, TypesByName DEF Shrink, Chunking, Inv
<1>2. w \in WorkerType /\ w.end \in Nat /\ w.cursor \in Nat /\ w.end \in 0 .. Longest
      /\ Longest \in Nat
  BY TypesByName, WorkerFields, Lengths DEF Inv
<1>3. w.end - 1 \in 0 .. Longest /\ w.cursor < w.end - 1
  BY <1>1, <1>2
<1>4. w' \in WorkerType
  BY <1>1, <1>2, <1>3 DEF WorkerType
<1>5. /\ w'.cursor = w.cursor /\ w'.end = w.end - 1 /\ w'.tries = w.tries
      /\ w'.budget = w.budget /\ w'.free = w.free
  BY <1>1, <1>2 DEF WorkerType
<1>6. FreeCounted'
  BY <1>5 DEF Inv, FreeCounted
<1>7. body' \in BodyType
  BY <1>1, TypesByName DEF Inv
<1>8. pc' = "body" => /\ body'.at = w.cursor /\ ~body'.whole
                      /\ body'.v \in Versions /\ (r.v # 0 => body'.v = r.v)
  BY <1>1 DEF Inv, BodyRight, InMode
<1> QED BY <1>1, <1>3, <1>4, <1>5, <1>6, <1>7, <1>8, WorkerNow, RemoteRests, ChunkStep

\* Another worker reads.
LEMMA SiblingStep ==
    ASSUME Inv, Sibling
    PROVE  Inv'
<1>1. /\ pc \in Chunking /\ r.mode = "multi" /\ pc' = "decide" /\ remote.progress > 0
      /\ UNCHANGED <<r, initial, part, body>>
      /\ w' = [w EXCEPT !.moved = TRUE]
      /\ remote' = [remote EXCEPT !.progress = @ - 1]
  BY DEF Sibling, Chunking, Inv, InMode
<1>2. remote \in RemoteType /\ MaxProgress \in Nat
  BY TypesByName, Lengths DEF Inv
<1>3. remote' \in RemoteType /\ remote'.validator = remote.validator
  BY <1>1, <1>2 DEF RemoteType
<1>4. w' \in WorkerType
  BY <1>1, WorkerNow DEF WorkerType
<1>5. /\ w'.cursor = w.cursor /\ w'.end = w.end /\ w'.tries = w.tries
      /\ w'.budget = w.budget /\ w'.free = w.free
  BY <1>1, WorkerNow DEF WorkerType
<1>6. FreeCounted'
  BY <1>5 DEF Inv, FreeCounted
<1> QED BY <1>1, <1>3, <1>4, <1>5, <1>6, WorkerNow, WorkerChanges DEF Chunking

\* The object is replaced: what is being read stays what it is.
LEMMA ChangeStep ==
    ASSUME Inv, Change
    PROVE  Inv'
<1> USE DEF Inv
<1>1. remote \in RemoteType /\ MaxChanges \in Nat
  BY TypesByName, Lengths
<1>2. PICK v \in Versions : remote' = [remote EXCEPT !.ver = v, !.changes = @ - 1]
  BY DEF Change
<1>3. remote.changes > 0 /\ UNCHANGED <<pc, r, initial, part, w, body>>
  BY DEF Change
<1>4. remote' \in RemoteType /\ remote'.validator = remote.validator
  <2>1. remote' = [remote EXCEPT !.ver = v, !.changes = remote.changes - 1]
    BY <1>1, <1>2 DEF RemoteType
  <2>2. remote.changes - 1 \in 0 .. MaxChanges
    BY <1>1, <1>3 DEF RemoteType
  <2> QED BY <1>1, <2>1, <2>2 DEF RemoteType
<1>5. TypeOK'
  BY <1>3, <1>4, TypesByName, TypesByNameNext DEF TriesOK
<1>6. InMode' /\ TriesLeft' /\ ChunkAhead' /\ InitialKnown' /\ SidecarVouches'
  BY <1>3, <1>4 DEF InMode, TriesLeft, ChunkAhead, InitialKnown, SidecarVouches
<1>7. BodyRight'
  BY <1>3 DEF BodyRight, StagedUpTo
<1>8. PlacedRight' /\ WholeStream' /\ FreeCounted'
  BY <1>3 DEF PlacedRight, PlacedUpTo, WholeStream, FreeCounted
<1> QED BY <1>5, <1>6, <1>7, <1>8

-----------------------------------------------------------------------------
(* A byte of a chunk *)

\* A byte is written where it belongs, and the last one ends the chunk.
LEMMA ReadByteStep ==
    ASSUME Inv, ReadByte
    PROVE  Inv'
<1> USE DEF Inv
<1> DEFINE c == w.cursor
           b == [v |-> body.v, i |-> body.at]
<1>1. /\ pc = "body" /\ ~body.whole /\ r.mode = "multi" /\ body.at < body.lim
      /\ part' = [part EXCEPT !.bytes[c] = b]
      /\ w' = [w EXCEPT !.cursor = @ + 1, !.moved = TRUE]
      /\ pc' = IF c + 1 >= w.end THEN "ok" ELSE "body"
      /\ body' = [body EXCEPT !.at = @ + 1]
      /\ UNCHANGED <<remote, r, initial>>
  BY DEF ReadByte, InMode
<1>2. /\ part \in PartType /\ body \in BodyType /\ w \in WorkerType /\ Longest \in Nat
      /\ remote \in RemoteType /\ r \in RunType /\ initial \in InitialType
  BY TypesByName, Lengths
<1>3. /\ c \in Nat /\ w.end \in Nat /\ c < w.end /\ w.end <= Longest
      /\ w.tries < MaxRetries /\ w.tries \in Nat /\ MaxRetries \in Nat
  BY <1>1, <1>2, WorkerNow, WorkerFields, Lengths DEF Chunking
<1>4. c \in Places /\ c + 1 \in 0 .. Longest
  BY <1>2, <1>3 DEF Places
<1>5. body.at = c /\ body.v \in Versions /\ (r.v # 0 => body.v = r.v)
  BY <1>1 DEF BodyRight
<1>6. body.v # 0
  BY <1>5, Lengths
<1>7. b \in Bytes /\ b.v = body.v /\ b.i = c
  BY <1>4, <1>5 DEF Bytes
<1> HIDE DEF b
<1>8. /\ part' = [part EXCEPT !.bytes = [part.bytes EXCEPT ![c] = b]]
      /\ [part.bytes EXCEPT ![c] = b] \in [Places -> Bytes]
  BY <1>1, <1>2, <1>7 DEF PartType
<1>9. /\ part' \in PartType
      /\ part'.bytes = [part.bytes EXCEPT ![c] = b] /\ part'.sidecar = part.sidecar
      /\ part.bytes \in [Places -> Bytes]
  <2> DEFINE bs == [part.bytes EXCEPT ![c] = b]
  <2>1. part' = [part EXCEPT !.bytes = bs] /\ bs \in [Places -> Bytes]
    BY <1>8
  <2> HIDE DEF bs
  <2>2. part' \in PartType /\ part'.bytes = bs /\ part'.sidecar = part.sidecar
    BY <1>2, <2>1 DEF PartType
  <2>3. part.bytes \in [Places -> Bytes]
    BY <1>2 DEF PartType
  <2> QED BY <2>2, <2>3 DEF bs
<1>10. /\ w' \in WorkerType /\ w'.cursor = c + 1 /\ w'.end = w.end /\ w'.tries = w.tries
       /\ w'.budget = w.budget /\ w'.free = w.free
  BY <1>1, <1>2, <1>4 DEF WorkerType
<1>11. /\ body' \in BodyType /\ body'.at = c + 1 /\ body'.v = body.v /\ ~body'.whole
  <2>1. body' = [body EXCEPT !.at = c + 1]
    BY <1>1, <1>2, <1>5 DEF BodyType
  <2> QED BY <1>1, <1>2, <1>4, <2>1 DEF BodyType
<1>12. pc' \in {"ok", "body"}
  BY <1>1
<1>13. TypeOK'
  <2>1. TriesOK'
    BY <1>3, <1>10, <1>12 DEF TriesOK
  <2>2. pc' \in Labels /\ remote' \in RemoteType /\ r' \in RunType /\ initial' \in InitialType
    BY <1>1, <1>2, <1>12 DEF Labels
  <2> QED BY <1>9, <1>10, <1>11, <2>1, <2>2, TypesByNameNext
<1>14. InMode' /\ TriesLeft' /\ InitialKnown' /\ SidecarVouches'
  BY <1>1, <1>3, <1>10, <1>11, <1>12 DEF InMode, TriesLeft, InitialKnown, SidecarVouches
<1>15. ChunkAhead'
  BY <1>1, <1>3, <1>10, <1>12 DEF ChunkAhead
<1>16. BodyRight' /\ WholeStream' /\ FreeCounted'
  BY <1>1, <1>5, <1>10, <1>11 DEF BodyRight, WholeStream, FreeCounted
<1>17. PlacedRight'
  <2>1. PlacedUpTo(c)
    BY <1>1 DEF PlacedRight
  <2>2. ASSUME NEW k \in 0 .. c
        PROVE  /\ part'.bytes[k].v # 0 /\ part'.bytes[k].i = k
               /\ r.v # 0 => part'.bytes[k].v = r.v
    <3>1. CASE k = c
      <4>1. part'.bytes[k] = b
        BY <1>4, <1>9, <3>1
      <4> QED BY <1>5, <1>6, <1>7, <3>1, <4>1
    <3>2. CASE k # c
      <4>1. k \in 0 .. c - 1 /\ k \in Places
        BY <1>2, <1>3, <3>2 DEF Places
      <4>2. part'.bytes[k] = part.bytes[k]
        BY <1>9, <3>2, <4>1
      <4> QED BY <2>1, <4>1, <4>2 DEF PlacedUpTo
    <3> QED BY <3>1, <3>2
  <2>3. 0 .. w'.cursor - 1 = 0 .. c
    BY <1>3, <1>10
  <2>4. PlacedUpTo(w.cursor)'
    BY <1>1, <2>2, <2>3 DEF PlacedUpTo
  <2>5. pc' = "ok" => w'.cursor = w'.end
    BY <1>1, <1>3, <1>10
  <2> QED BY <2>4, <2>5 DEF PlacedRight
<1> QED BY <1>13, <1>14, <1>15, <1>16, <1>17

-----------------------------------------------------------------------------
(* Election and the start of the run *)

\* The election's response, of the version the server has: what the run makes of it.
LEMMA ElectedStep ==
    ASSUME Inv, pc = "elect",
           NEW status \in {200, 206, 416}, NEW e \in {0} \cup Places, NEW total \in Bound,
           total = -1 \/ total = Len0[remote.ver],
           status = 416 => total = 0, status = 206 => total # 0,
           Elected(status, e, total), UNCHANGED <<remote, part, body>>
    PROVE  Inv'
<1> USE DEF Inv
<1> DEFINE ranged == status = 206 /\ total > 0
           usable == status # 206 \/ ranged
<1>1. PICK checksum \in BOOLEAN :
         LET bound == remote.validator \/ checksum
             kept == usable /\ (ranged /\ e < total - 1 => bound)
         IN  /\ r' = [mode |-> IF ranged /\ bound THEN "multi" ELSE "single",
                      total |-> IF kept THEN total ELSE -1,
                      v |-> IF remote.validator THEN remote.ver ELSE 0]
             /\ initial' = IF kept
                  THEN [open |-> TRUE, status |-> status, e |-> e, v |-> remote.ver]
                  ELSE NoInitial
             /\ w' = [w EXCEPT !.tries = 0]
             /\ pc' = "lock"
  BY DEF Elected
<1> DEFINE bound == remote.validator \/ checksum
           kept == usable /\ (ranged /\ e < total - 1 => bound)
           mode == IF ranged /\ bound THEN "multi" ELSE "single"
           tot == IF kept THEN total ELSE -1
           ver == IF remote.validator THEN remote.ver ELSE 0
           ini == [open |-> TRUE, status |-> status, e |-> e, v |-> remote.ver]
<1>2. /\ r' = [mode |-> mode, total |-> tot, v |-> ver]
      /\ initial' = IF kept THEN ini ELSE NoInitial
      /\ w' = [w EXCEPT !.tries = 0] /\ pc' = "lock"
  BY <1>1
<1>3. /\ remote \in RemoteType /\ w \in WorkerType /\ part \in PartType /\ body \in BodyType
      /\ remote.ver \in Versions /\ remote.validator \in BOOLEAN
  BY TypesByName DEF RemoteType
<1>4. mode \in {"multi", "single"} /\ (mode = "multi" => kept /\ tot > 0)
  OBVIOUS
<1>5. /\ tot \in Bound /\ ver \in {0} \cup Versions
      /\ ver # 0 => remote.validator /\ ver = remote.ver
  BY <1>3, Lengths DEF Bound
<1>6. kept => tot = total
  OBVIOUS
<1>7. ini \in InitialType /\ ini.open /\ ini.v = remote.ver /\ ini.status = status
  BY <1>3 DEF InitialType
<1> HIDE DEF mode, kept, tot, ver, ini
<1>8. r' \in RunType /\ r'.mode = mode /\ r'.total = tot /\ r'.v = ver
  BY <1>2, <1>4, <1>5 DEF RunType
<1>9. initial' \in InitialType /\ (initial'.open => kept /\ initial' = ini)
  BY <1>2, <1>7, Nothing DEF NoInitial
<1>10. /\ w' \in WorkerType /\ w'.tries = 0 /\ w'.budget = w.budget /\ w'.free = w.free
  BY <1>2, <1>3 DEF WorkerType
<1>11. TypeOK'
  <2>1. TriesOK' /\ pc' \in Labels
    BY <1>2, <1>10, Lengths DEF TriesOK, Labels
  <2> QED BY <1>3, <1>8, <1>9, <1>10, <2>1, TypesByNameNext
<1>12. InMode' /\ TriesLeft' /\ ChunkAhead' /\ BodyRight' /\ PlacedRight' /\ WholeStream'
  BY <1>2, <1>4, <1>8, <1>10, Lengths
  DEF InMode, TriesLeft, ChunkAhead, BodyRight, PlacedRight, WholeStream
<1>13. InitialKnown'
  <2>1. r'.v # 0 => remote'.validator
    BY <1>5, <1>8
  <2>2. ASSUME initial'.open
        PROVE  /\ initial'.v \in Versions
               /\ r'.v # 0 => initial'.v = r'.v
               /\ r'.total >= 0 => r'.total = Len0[initial'.v]
               /\ initial'.status = 416 => r'.total = 0
    <3>1. initial'.v = remote.ver /\ initial'.status = status /\ r'.total = total
      BY <1>6, <1>7, <1>8, <1>9, <2>2
    <3> QED BY <1>3, <1>5, <1>8, <3>1
  <2> QED BY <2>1, <2>2 DEF InitialKnown
<1>14. SidecarVouches' /\ FreeCounted'
  BY <1>10 DEF SidecarVouches, FreeCounted
<1> QED BY <1>11, <1>12, <1>13, <1>14

\* A usable response, of whatever status and length.
LEMMA ElectGoodStep ==
    ASSUME Inv, ElectGood
    PROVE  Inv'
<1> DEFINE n == Len0[remote.ver]
<1>1. pc = "elect" /\ UNCHANGED <<remote, part, body>>
  BY DEF ElectGood
<1>2. n \in Nat /\ n <= Longest /\ Longest \in Nat
  BY TypesByName, Lengths DEF Inv, RemoteType
<1>3. n \in Bound /\ -1 \in Bound
  BY <1>2 DEF Bound
<1>4. ASSUME NEW total \in {n, -1}, Elected(200, 0, total) PROVE Inv'
  BY <1>1, <1>3, <1>4, ElectedStep
<1>5. ASSUME n > 0, NEW e \in 0 .. n - 1, Elected(206, e, n) PROVE Inv'
  <2>1. e \in Places /\ n # 0
    BY <1>2, <1>5 DEF Places
  <2> QED BY <1>1, <1>3, <1>5, <2>1, ElectedStep
<1>6. CASE Elected(206, 0, -1)
  BY <1>1, <1>3, <1>6, ElectedStep
<1>7. CASE n = 0 /\ Elected(416, 0, 0)
  BY <1>1, <1>3, <1>7, ElectedStep
<1> QED BY <1>4, <1>5, <1>6, <1>7 DEF ElectGood

\* A failed or refused election.
LEMMA ElectFails ==
    ASSUME Inv, ElectBad \/ ElectRefused
    PROVE  Inv'
<1> USE DEF Inv
<1>1. /\ pc = "elect" /\ pc' \in {"elect", "failed"} /\ UNCHANGED <<remote, r, initial, part, body>>
      /\ \E t \in {0, w.tries + 1} : w' = [w EXCEPT !.tries = t] /\ (t = 0 \/ w.tries + 1 < 3)
      /\ pc' = "failed" => w' = [w EXCEPT !.tries = 0]
  BY DEF ElectBad, ElectRefused
<1>2. PICK t \in {0, w.tries + 1} : w' = [w EXCEPT !.tries = t] /\ (t = 0 \/ w.tries + 1 < 3)
  BY <1>1
<1>3. w \in WorkerType /\ w.tries \in Nat
  BY TypesByName, WorkerFields
<1>4. /\ w' \in WorkerType /\ w'.tries <= 2 /\ w'.budget = w.budget /\ w'.free = w.free
      /\ pc' = "failed" => w'.tries = 0
  BY <1>1, <1>2, <1>3 DEF WorkerType
<1>5. TypeOK'
  <2>1. TriesOK' /\ pc' \in Labels
    BY <1>1, <1>4, Lengths DEF TriesOK, Labels
  <2> QED BY <1>1, <1>4, <2>1, TypesByName, TypesByNameNext
<1>6. InMode' /\ TriesLeft' /\ ChunkAhead' /\ BodyRight' /\ PlacedRight' /\ WholeStream'
  BY <1>1 DEF InMode, TriesLeft, ChunkAhead, BodyRight, PlacedRight, WholeStream
<1>7. InitialKnown' /\ SidecarVouches' /\ FreeCounted'
  BY <1>1, <1>4 DEF InitialKnown, SidecarVouches, FreeCounted
<1> QED BY <1>5, <1>6, <1>7

\* The destination's lock is waited for without the response.
LEMMA LockStep ==
    ASSUME Inv, Lock
    PROVE  Inv'
<1> USE DEF Inv
<1>1. /\ pc = "lock" /\ pc' = "begin" /\ initial' \in {initial, NoInitial}
      /\ UNCHANGED <<remote, r, part, w, body>>
  BY DEF Lock
<1>2. TypeOK'
  <2>1. initial' \in InitialType
    BY <1>1, TypesByName, Nothing
  <2>2. TriesOK' /\ pc' \in Labels
    BY <1>1, TypesByName DEF TriesOK, Labels
  <2> QED BY <1>1, <2>1, <2>2, TypesByName, TypesByNameNext
<1>3. InMode' /\ TriesLeft' /\ ChunkAhead' /\ BodyRight' /\ PlacedRight' /\ WholeStream'
  BY <1>1 DEF InMode, TriesLeft, ChunkAhead, BodyRight, PlacedRight, WholeStream
<1>4. InitialKnown'
  <2>1. CASE initial' = initial
    BY <1>1, <2>1 DEF InitialKnown
  <2>2. CASE initial' = NoInitial
    BY <1>1, <2>2 DEF InitialKnown, NoInitial
  <2> QED BY <1>1, <2>1, <2>2
<1>5. SidecarVouches' /\ FreeCounted'
  BY <1>1 DEF SidecarVouches, FreeCounted
<1> QED BY <1>2, <1>3, <1>4, <1>5

\* The run is a single stream.
LEMMA BeginSingleStep ==
    ASSUME Inv, BeginSingle
    PROVE  Inv'
<1> USE DEF Inv
<1>1. /\ pc = "begin" /\ r.mode = "single" /\ pc' = "stream"
      /\ UNCHANGED <<remote, r, initial, part, w, body>>
  BY DEF BeginSingle
<1>2. TypeOK'
  <2>1. TriesOK' /\ pc' \in Labels
    BY <1>1, TypesByName DEF TriesOK, Labels
  <2> QED BY <1>1, <2>1, TypesByName, TypesByNameNext
<1>3. InMode' /\ TriesLeft' /\ ChunkAhead' /\ BodyRight' /\ PlacedRight' /\ WholeStream'
  BY <1>1 DEF InMode, TriesLeft, ChunkAhead, BodyRight, PlacedRight, WholeStream
<1>4. InitialKnown' /\ SidecarVouches' /\ FreeCounted'
  BY <1>1 DEF InitialKnown, SidecarVouches, FreeCounted
<1> QED BY <1>2, <1>3, <1>4

\* A resume starts after the byte the sidecar vouches for, anything else at zero.
LEMMA BeginMultiStep ==
    ASSUME Inv, BeginMulti
    PROVE  Inv'
<1> USE DEF Inv
<1> DEFINE resumed == part.sidecar # 0 /\ part.sidecar = r.v
           from == IF resumed THEN 1 ELSE 0
           cut == [k \in Places |-> IF k < r.total THEN part.bytes[k] ELSE NoByte]
<1>1. /\ pc = "begin" /\ r.mode = "multi" /\ UNCHANGED <<remote, r, body>>
      /\ initial' \in {initial, NoInitial}
      /\ part' = IF resumed THEN part ELSE [bytes |-> cut, sidecar |-> 0]
      /\ IF from = r.total
         THEN w' = [w EXCEPT !.cursor = from, !.end = from] /\ pc' = "ok"
         ELSE /\ \E end \in from + 1 .. r.total : w' = [w EXCEPT !.cursor = from, !.end = end]
              /\ pc' = "attempt"
  BY DEF BeginMulti
<1>2. /\ part \in PartType /\ w \in WorkerType /\ initial \in InitialType /\ r \in RunType
      /\ remote \in RemoteType /\ body \in BodyType
  BY TypesByName
<1>3. /\ Longest \in Nat /\ r.total \in Int /\ 0 < r.total /\ r.total <= Longest
      /\ w.tries \in Nat /\ w.tries < MaxRetries /\ MaxRetries \in Nat
  <2>1. /\ 0 < r.total
        /\ w.tries < MaxRetries
    BY <1>1 DEF InMode, TriesLeft
  <2>2. r.total \in -1 .. Longest
    BY <1>2 DEF RunType, Bound
  <2>3. w.tries \in Nat
    BY <1>2, WorkerFields
  <2>4. Longest \in Nat /\ MaxRetries \in Nat
    BY Lengths
  <2> QED BY <2>1, <2>2, <2>3, <2>4
<1>4. from \in {0, 1} /\ from \in 0 .. Longest /\ from <= r.total
  BY <1>3
<1>5. PICK end \in from .. r.total :
         /\ w' = [w EXCEPT !.cursor = from, !.end = end]
         /\ (pc' = "ok" /\ from = end) \/ (pc' = "attempt" /\ from < end)
  <2>1. CASE from = r.total
    <3>1. w' = [w EXCEPT !.cursor = from, !.end = from] /\ pc' = "ok"
      BY <1>1, <2>1
    <3>2. from \in from .. r.total
      BY <1>3, <1>4, <2>1
    <3> HIDE DEF from
    <3> QED BY <3>1, <3>2
  <2>2. CASE from # r.total
    <3>1. PICK end \in from + 1 .. r.total : w' = [w EXCEPT !.cursor = from, !.end = end]
      BY <1>1, <2>2
    <3>2. end \in from .. r.total /\ from < end
      BY <1>3, <1>4, <3>1
    <3> QED BY <1>1, <2>2, <3>1, <3>2
  <2> QED BY <2>1, <2>2
<1>6. end \in 0 .. Longest
  BY <1>3, <1>4, <1>5
<1>7. cut \in [Places -> Bytes]
  BY <1>2, Nothing DEF PartType
<1> HIDE DEF from, cut
<1>8. /\ w' \in WorkerType /\ w'.cursor = from /\ w'.end = end /\ w'.tries = w.tries
      /\ w'.budget = w.budget /\ w'.free = w.free
  BY <1>2, <1>4, <1>5, <1>6 DEF WorkerType
<1>9. part' \in PartType
  BY <1>1, <1>2, <1>7 DEF PartType
<1>10. TypeOK'
  <2>1. TriesOK' /\ pc' \in Labels
    BY <1>3, <1>5, <1>8 DEF TriesOK, Labels
  <2>2. initial' \in InitialType
    BY <1>1, <1>2, Nothing
  <2> QED BY <1>1, <1>2, <1>8, <1>9, <2>1, <2>2, TypesByNameNext
<1>11. InMode' /\ TriesLeft' /\ ChunkAhead' /\ SidecarVouches' /\ BodyRight'
  BY <1>1, <1>3, <1>5, <1>8 DEF InMode, TriesLeft, ChunkAhead, SidecarVouches, BodyRight
<1>12. InitialKnown'
  <2>1. CASE initial' = initial
    BY <1>1, <2>1 DEF InitialKnown
  <2>2. CASE initial' = NoInitial
    BY <1>1, <2>2 DEF InitialKnown, NoInitial
  <2> QED BY <1>1, <2>1, <2>2
<1>13. PlacedRight'
  <2>1. CASE resumed
    <3>1. from = 1 /\ part' = part
      BY <1>1, <2>1 DEF from
    <3>2. part.bytes[0].v = r.v /\ part.bytes[0].i = 0 /\ r.v # 0
      BY <1>1, <2>1 DEF SidecarVouches
    <3>3. 0 .. w'.cursor - 1 = {0}
      BY <1>8, <3>1
    <3>4. PlacedUpTo(w.cursor)'
      BY <1>1, <3>1, <3>2, <3>3 DEF PlacedUpTo
    <3> QED BY <1>5, <1>8, <3>4 DEF PlacedRight
  <2>2. CASE ~resumed
    <3>1. from = 0
      BY <2>2 DEF from
    <3>2. 0 .. w'.cursor - 1 = {}
      BY <1>8, <3>1
    <3>3. PlacedUpTo(w.cursor)'
      BY <3>2 DEF PlacedUpTo
    <3> QED BY <1>5, <1>8, <3>3 DEF PlacedRight
  <2> QED BY <2>1, <2>2
<1>14. WholeStream' /\ FreeCounted'
  BY <1>1, <1>8 DEF WholeStream, FreeCounted
<1> QED BY <1>10, <1>11, <1>12, <1>13, <1>14

-----------------------------------------------------------------------------
(* The single stream *)

\* A usable response starts the file over.
LEMMA StageStep ==
    ASSUME Inv, pc = "stream",
           NEW v \in Versions, NEW total \in {-1, Len0[v]}, NEW length \in {-1, Len0[v]},
           Stage(v, total, length), UNCHANGED <<remote, w>>,
           initial' \in InitialType, ~initial'.open
    PROVE  Inv'
<1> USE DEF Inv
<1> DEFINE lim == IF total >= 0 THEN total ELSE length
<1>1. /\ r' = [r EXCEPT !.total = total]
      /\ part' = [bytes |-> Empty, sidecar |-> 0]
      /\ body' = [v |-> v, at |-> 0, lim |-> lim, capped |-> FALSE, whole |-> TRUE]
      /\ pc' = "body"
  BY DEF Stage
<1>2. /\ w \in WorkerType /\ r \in RunType /\ remote \in RemoteType
      /\ r.mode = "single" /\ Longest \in Nat
      /\ Len0[v] \in Nat /\ Len0[v] <= Longest
  BY TypesByName, Lengths DEF InMode
<1>3. total \in Bound /\ lim \in Bound /\ (lim = -1 \/ lim = Len0[v]) /\ 0 \in 0 .. Longest
  BY <1>2 DEF Bound
<1> HIDE DEF lim
<1>4. r' \in RunType /\ r'.mode = "single" /\ r'.v = r.v
  BY <1>1, <1>2, <1>3 DEF RunType
<1>5. /\ body' \in BodyType /\ body'.v = v /\ body'.at = 0 /\ body'.lim = lim /\ body'.whole
  BY <1>1, <1>3 DEF BodyType
<1>6. part' \in PartType /\ part'.bytes = Empty
  BY <1>1, Nothing DEF PartType
<1>7. TypeOK'
  <2>1. TriesOK' /\ pc' \in Labels
    BY <1>1, TypesByName DEF TriesOK, Labels
  <2> QED BY <1>2, <1>4, <1>5, <1>6, <2>1, TypesByNameNext
<1>8. InMode' /\ TriesLeft' /\ ChunkAhead' /\ SidecarVouches' /\ PlacedRight' /\ WholeStream'
  BY <1>1, <1>4, <1>5
  DEF InMode, TriesLeft, ChunkAhead, SidecarVouches, PlacedRight, WholeStream
<1>9. InitialKnown' /\ FreeCounted'
  BY <1>4 DEF InitialKnown, FreeCounted
<1>10. BodyRight'
  <2>1. StagedUpTo(v, 0)'
    <3>1. ASSUME NEW k \in Places PROVE part'.bytes[k] = NoByte /\ ~(k < 0)
      BY <1>2, <1>6 DEF Empty, Places
    <3> QED BY <3>1 DEF StagedUpTo
  <2>2. StagedUpTo(body.v, body.at)'
    BY <1>5, <2>1
  <2> QED BY <1>2, <1>3, <1>5, <2>2 DEF BodyRight
<1> QED BY <1>7, <1>8, <1>9, <1>10

\* The attempt at the stream failed, and is charged.
LEMMA StreamFailsStep ==
    ASSUME Inv, pc \in {"stream", "body"}, r.mode = "single",
           StreamFails, UNCHANGED <<remote, r, initial, part>>
    PROVE  Inv'
<1> USE DEF Inv
<1>1. /\ w' = [w EXCEPT !.tries = @ + 1] /\ body' = NoBody
      /\ pc' = IF w.tries + 1 >= MaxRetries THEN "failed" ELSE "stream"
  BY DEF StreamFails
<1>2. /\ w \in WorkerType /\ w.tries \in Nat /\ w.tries < MaxRetries /\ MaxRetries \in Nat
  BY TypesByName, WorkerFields, Lengths DEF TriesLeft
<1>3. /\ w' \in WorkerType /\ w'.tries = w.tries + 1
      /\ w'.budget = w.budget /\ w'.free = w.free
  BY <1>1, <1>2 DEF WorkerType
<1>4. pc' \in {"failed", "stream"} /\ (pc' = "stream" => w'.tries < MaxRetries)
      /\ w'.tries <= MaxRetries
  BY <1>1, <1>2, <1>3
<1>5. TypeOK'
  <2>1. TriesOK' /\ pc' \in Labels
    BY <1>4 DEF TriesOK, Labels
  <2> QED BY <1>1, <1>3, <2>1, TypesByName, TypesByNameNext, Nothing
<1>6. InMode' /\ TriesLeft' /\ ChunkAhead' /\ SidecarVouches' /\ PlacedRight' /\ WholeStream'
  BY <1>3, <1>4 DEF InMode, TriesLeft, ChunkAhead, SidecarVouches, PlacedRight, WholeStream
<1>7. InitialKnown' /\ FreeCounted' /\ BodyRight'
  BY <1>3, <1>4 DEF InitialKnown, FreeCounted, BodyRight
<1> QED BY <1>5, <1>6, <1>7

\* The stream is refused for good.
LEMMA StreamRefused ==
    ASSUME Inv, pc = "stream", pc' = "failed", UNCHANGED <<remote, r, part, w, body>>,
           initial' \in {initial, NoInitial}
    PROVE  Inv'
<1> USE DEF Inv
<1>1. TypeOK'
  <2>1. TriesOK' /\ pc' \in Labels /\ initial' \in InitialType
    BY TypesByName, Nothing DEF TriesOK, Labels
  <2> QED BY <2>1, TypesByName, TypesByNameNext
<1>2. InMode' /\ TriesLeft' /\ ChunkAhead' /\ SidecarVouches' /\ PlacedRight' /\ WholeStream'
  BY DEF InMode, TriesLeft, ChunkAhead, SidecarVouches, PlacedRight, WholeStream
<1>3. InitialKnown'
  <2>1. CASE initial' = initial
    BY <2>1 DEF InitialKnown
  <2>2. CASE initial' = NoInitial
    BY <2>2 DEF InitialKnown, NoInitial
  <2> QED BY <2>1, <2>2
<1>4. FreeCounted' /\ BodyRight'
  BY DEF FreeCounted, BodyRight
<1> QED BY <1>1, <1>2, <1>3, <1>4

\* The election's response, which may be that of an empty resource.
LEMMA StreamInitialStep ==
    ASSUME Inv, StreamInitial
    PROVE  Inv'
<1> USE DEF Inv
<1>1. pc = "stream" /\ initial.open /\ initial' = NoInitial /\ UNCHANGED <<remote, w>>
  BY DEF StreamInitial
<1>2. /\ initial.v \in Versions /\ r.total \in Bound
      /\ r.total >= 0 => r.total = Len0[initial.v]
      /\ initial.status = 416 => r.total = 0
      /\ r.mode = "single"
  BY <1>1, TypesByName DEF InitialKnown, InMode, RunType
<1>3. NoInitial \in InitialType /\ ~NoInitial.open
  BY Nothing DEF NoInitial
<1>4. CASE initial.status = 416
  <2>1. /\ part' = [bytes |-> Empty, sidecar |-> 0]
        /\ body' = [NoBody EXCEPT !.v = initial.v, !.whole = TRUE]
        /\ pc' = "ok" /\ r' = r
    BY <1>4 DEF StreamInitial
  <2>2. part' \in PartType /\ part'.bytes = Empty
    BY <2>1, Nothing DEF PartType
  <2>3. body' \in BodyType
    BY <1>2, <2>1, Nothing DEF BodyType
  <2>4. TypeOK'
    <3>1. TriesOK' /\ pc' \in Labels
      BY <1>1, <2>1, TypesByName DEF TriesOK, Labels
    <3> QED BY <1>1, <1>3, <2>1, <2>2, <2>3, <3>1, TypesByName, TypesByNameNext
  <2>5. InMode' /\ TriesLeft' /\ ChunkAhead' /\ SidecarVouches' /\ PlacedRight' /\ BodyRight'
    BY <1>2, <2>1 DEF InMode, TriesLeft, ChunkAhead, SidecarVouches, PlacedRight, BodyRight
  <2>6. InitialKnown' /\ FreeCounted'
    BY <1>1, <1>3, <2>1 DEF InitialKnown, FreeCounted
  <2>7. WholeStream'
    <3>1. r'.total = 0 /\ r'.total = Len0[initial.v]
      BY <1>2, <1>4, <2>1
    <3>2. ASSUME NEW k \in Places PROVE part'.bytes[k] = NoByte /\ ~(k < 0)
      BY <2>2, Lengths DEF Empty, Places
    <3> QED BY <1>2, <3>1, <3>2 DEF WholeStream
  <2> QED BY <2>4, <2>5, <2>6, <2>7
<1>5. CASE initial.status # 416 /\ initial.status = 206 /\ initial.e # r.total - 1
  <2>1. pc' = "failed" /\ UNCHANGED <<r, part, body>>
    BY <1>5 DEF StreamInitial
  <2> QED BY <1>1, <2>1, StreamRefused
<1>6. CASE initial.status # 416 /\ ~(initial.status = 206 /\ initial.e # r.total - 1)
  <2>1. Stage(initial.v, r.total, -1)
    BY <1>6 DEF StreamInitial
  <2>2. r.total \in {-1, Len0[initial.v]}
    BY <1>2, Lengths DEF Bound
  <2> QED BY <1>1, <1>2, <1>3, <2>1, <2>2, StageStep
<1> QED BY <1>4, <1>5, <1>6

\* A new request for the whole.
LEMMA StreamAgainStep ==
    ASSUME Inv, StreamAgain
    PROVE  Inv'
<1> USE DEF Inv
<1>1. pc = "stream" /\ ~initial.open /\ UNCHANGED <<remote, initial>> /\ r.mode = "single"
  BY DEF StreamAgain, InMode
<1>2. initial \in InitialType /\ remote.ver \in Versions
  BY TypesByName DEF RemoteType
<1>3. ASSUME NEW length \in {Len0[remote.ver], -1}, Stage(remote.ver, -1, length), w' = w
      PROVE  Inv'
  <2>1. -1 \in {-1, Len0[remote.ver]} /\ length \in {-1, Len0[remote.ver]}
    OBVIOUS
  <2> QED BY <1>1, <1>2, <1>3, <2>1, StageStep
<1>4. CASE pc' = "failed" /\ UNCHANGED <<r, part, w, body>>
  BY <1>1, <1>4, StreamRefused
<1>5. CASE StreamFails /\ UNCHANGED <<r, part>>
  BY <1>1, <1>5, StreamFailsStep
<1> QED BY <1>3, <1>4, <1>5 DEF StreamAgain

\* The body breaks off.
LEMMA StreamBreaksStep ==
    ASSUME Inv, StreamBreaks
    PROVE  Inv'
<1>1. pc \in {"stream", "body"} /\ r.mode = "single"
  BY DEF Inv, InMode, StreamBreaks
<1> QED BY <1>1, StreamFailsStep DEF StreamBreaks

\* One more byte of the version that is being staged.
LEMMA StreamByteStep ==
    ASSUME Inv, StreamByte
    PROVE  Inv'
<1> USE DEF Inv
<1> DEFINE n == body.at
           b == [v |-> body.v, i |-> body.at]
           bs == [part.bytes EXCEPT ![n] = b]
<1>1. /\ pc = "body" /\ body.whole /\ r.mode = "single" /\ n < Len0[body.v]
      /\ part' = [part EXCEPT !.bytes = bs]
      /\ body' = [body EXCEPT !.at = n + 1]
      /\ UNCHANGED <<pc, remote, r, initial, w>>
  BY TypesByName DEF StreamByte, InMode, BodyType, PartType
<1>2. /\ body \in BodyType /\ part \in PartType /\ Longest \in Nat
      /\ body.v \in Versions /\ Len0[body.v] \in Nat /\ Len0[body.v] <= Longest
      /\ StagedUpTo(body.v, n) /\ ~initial.open /\ n \in Nat
      /\ body.lim = -1 \/ body.lim = Len0[body.v]
  <2>1. body \in BodyType /\ part \in PartType /\ body.v \in Versions
    BY <1>1, TypesByName DEF BodyRight
  <2>2. Len0[body.v] \in Nat /\ Len0[body.v] <= Longest /\ Longest \in Nat
    BY <2>1, Lengths
  <2>3. n \in Nat
    BY <2>1, <2>2 DEF BodyType
  <2> QED BY <1>1, <2>1, <2>2, <2>3 DEF BodyRight
<1>3. n \in Places /\ n + 1 \in 0 .. Longest /\ n + 1 <= Len0[body.v]
  BY <1>1, <1>2 DEF Places
<1>4. b \in Bytes
  BY <1>2, <1>3 DEF Bytes
<1>5. part.bytes \in [Places -> Bytes]
  BY <1>2 DEF PartType
<1>6. bs \in [Places -> Bytes] /\ \A k \in Places : bs[k] = IF k = n THEN b ELSE part.bytes[k]
  <2> HIDE DEF b
  <2> QED BY <1>3, <1>4, <1>5
<1> HIDE DEF bs
<1>7. part' \in PartType /\ part'.bytes = bs
  BY <1>1, <1>2, <1>6 DEF PartType
<1>8. /\ body' \in BodyType /\ body'.at = n + 1 /\ body'.v = body.v
      /\ body'.lim = body.lim /\ body'.whole
  BY <1>1, <1>2, <1>3 DEF BodyType
<1>9. TypeOK'
  BY <1>1, <1>7, <1>8, TypesByName, TypesByNameNext DEF TriesOK
<1>10. InMode' /\ TriesLeft' /\ ChunkAhead' /\ SidecarVouches' /\ PlacedRight' /\ WholeStream'
  BY <1>1, <1>8 DEF InMode, TriesLeft, ChunkAhead, SidecarVouches, PlacedRight, WholeStream
<1>11. InitialKnown' /\ FreeCounted'
  BY <1>1 DEF InitialKnown, FreeCounted
<1>12. BodyRight'
  <2>1. ASSUME NEW k \in Places
        PROVE  part'.bytes[k] = IF k < n + 1 THEN [v |-> body.v, i |-> k] ELSE NoByte
    <3>1. k \in Int
      BY <1>2 DEF Places
    <3>2. part.bytes[k] = IF k < n THEN [v |-> body.v, i |-> k] ELSE NoByte
      BY <1>2 DEF StagedUpTo
    <3>3. CASE k = n
      BY <1>2, <1>6, <1>7, <3>3
    <3>4. CASE k # n
      <4>1. (k < n) <=> (k < n + 1)
        BY <1>2, <3>1, <3>4
      <4> QED BY <1>6, <1>7, <3>2, <3>4, <4>1
    <3> QED BY <3>3, <3>4
  <2>2. StagedUpTo(body.v, body.at)'
    BY <1>8, <2>1 DEF StagedUpTo
  <2> QED BY <1>1, <1>2, <1>3, <1>8, <2>2 DEF BodyRight
<1> QED BY <1>9, <1>10, <1>11, <1>12

\* The stream ends where its version does.
LEMMA StreamEndsStep ==
    ASSUME Inv, StreamEnds
    PROVE  Inv'
<1> USE DEF Inv
<1>1. /\ pc = "body" /\ body.whole /\ r.mode = "single"
      /\ body.at = IF body.lim >= 0 THEN body.lim ELSE Len0[body.v]
      /\ r' = [r EXCEPT !.total = body.at] /\ pc' = "ok"
      /\ UNCHANGED <<remote, initial, part, w, body>>
  BY DEF StreamEnds, InMode
<1>2. /\ body \in BodyType /\ r \in RunType /\ Longest \in Nat
      /\ body.v \in Versions /\ Len0[body.v] \in Nat /\ Len0[body.v] <= Longest
      /\ StagedUpTo(body.v, body.at) /\ ~initial.open
      /\ body.lim = -1 \/ body.lim = Len0[body.v]
  <2>1. body \in BodyType /\ r \in RunType /\ body.v \in Versions
    BY <1>1, TypesByName DEF BodyRight
  <2>2. Len0[body.v] \in Nat /\ Len0[body.v] <= Longest /\ Longest \in Nat
    BY <2>1, Lengths
  <2> QED BY <1>1, <2>1, <2>2 DEF BodyRight
<1>3. body.at = Len0[body.v]
  BY <1>1, <1>2
<1>4. body.at \in Bound
  BY <1>2, <1>3 DEF Bound
<1>5. r' \in RunType /\ r'.mode = "single" /\ r'.v = r.v /\ r'.total = Len0[body.v]
  BY <1>1, <1>2, <1>3, <1>4 DEF RunType
<1>6. TypeOK'
  <2>1. TriesOK' /\ pc' \in Labels
    BY <1>1, TypesByName DEF TriesOK, Labels
  <2> QED BY <1>1, <1>5, <2>1, TypesByName, TypesByNameNext
<1>7. InMode' /\ TriesLeft' /\ ChunkAhead' /\ SidecarVouches' /\ PlacedRight' /\ BodyRight'
  BY <1>1, <1>5 DEF InMode, TriesLeft, ChunkAhead, SidecarVouches, PlacedRight, BodyRight
<1>8. InitialKnown' /\ FreeCounted'
  BY <1>1, <1>2, <1>5 DEF InitialKnown, FreeCounted
<1>9. WholeStream'
  BY <1>1, <1>2, <1>3, <1>5 DEF WholeStream, StagedUpTo
<1> QED BY <1>6, <1>7, <1>8, <1>9

-----------------------------------------------------------------------------

\* Nothing is elected, and the staging file is what an earlier download left.
LEMMA TransferBegins == Init => Inv
<1> SUFFICES ASSUME Init PROVE Inv
  OBVIOUS
<1> USE DEF Inv
<1> DEFINE bud == [tried |-> {}, refreshed |-> FALSE, permanent |-> FALSE]
<1>1. /\ pc = "elect" /\ remote \in [ver : Versions, validator : BOOLEAN, changes : {MaxChanges},
                                     culls : {MaxCulls}, progress : {MaxProgress}]
      /\ r = [mode |-> "none", total |-> -1, v |-> 0] /\ initial = NoInitial /\ body = NoBody
      /\ w = [cursor |-> 0, end |-> 0, ask |-> 0, conn |-> None, tries |-> 0,
              moved |-> FALSE, budget |-> bud, free |-> 0, err |-> NoError]
  BY DEF Init
<1>2. PICK v \in {0} \cup {u \in Versions : Len0[u] > 0} :
         part = [bytes |-> [Empty EXCEPT ![0].v = v], sidecar |-> v]
  BY DEF Init
<1>3. remote \in RemoteType
  BY <1>1, Lengths DEF RemoteType
<1>4. r \in RunType
  BY <1>1, Lengths DEF RunType, Bound
<1>5. initial \in InitialType /\ body \in BodyType
  BY <1>1, Nothing
<1>6. bud \in BudgetType /\ bud.tried = {}
  BY DEF BudgetType
<1> HIDE DEF bud
<1>7. w \in WorkerType /\ w.free = 0 /\ w.tries = 0 /\ w.budget = bud
  BY <1>1, <1>6, Nothing, Lengths DEF WorkerType
<1> DEFINE bs == [Empty EXCEPT ![0].v = v]
<1>8. bs \in [Places -> Bytes] /\ (v # 0 => bs[0].v = v /\ bs[0].i = 0)
  <2>1. Empty \in [Places -> Bytes] /\ v \in {0} \cup Versions
    BY <1>2, Nothing
  <2>2. [NoByte EXCEPT !.v = v] \in Bytes
    BY <2>1 DEF NoByte, Bytes
  <2>3. CASE 0 \in Places
    <3>1. Empty[0] = NoByte
      BY <2>3 DEF Empty
    <3>2. bs = [Empty EXCEPT ![0] = [NoByte EXCEPT !.v = v]]
      BY <3>1
    <3>3. bs[0] = [NoByte EXCEPT !.v = v]
      BY <2>1, <2>3, <3>2
    <3>4. bs[0].v = v /\ bs[0].i = 0
      BY <3>3 DEF NoByte
    <3> QED BY <2>1, <2>2, <3>2, <3>4
  <2>4. CASE 0 \notin Places
    <3>1. Longest \in Nat /\ ~(Longest > 0)
      BY <2>4, Lengths DEF Places
    <3>2. v = 0
      BY <1>2, <3>1, Lengths
    <3>3. bs = Empty
      BY <2>4 DEF Empty
    <3> QED BY <2>1, <3>2, <3>3
  <2> QED BY <2>3, <2>4
<1> HIDE DEF bs
<1>9. part = [bytes |-> bs, sidecar |-> v] /\ v \in {0} \cup Versions
  BY <1>2 DEF bs
<1>10. part \in PartType
  BY <1>8, <1>9 DEF PartType
<1>11. TypeOK
  <2>1. TriesOK /\ pc \in Labels
    BY <1>1, <1>7 DEF TriesOK, Labels
  <2> QED BY <1>3, <1>4, <1>5, <1>7, <1>10, <2>1, TypesByName
<1>12. InMode /\ TriesLeft /\ ChunkAhead /\ BodyRight /\ PlacedRight /\ WholeStream
  BY <1>1 DEF InMode, TriesLeft, ChunkAhead, BodyRight, PlacedRight, WholeStream
<1>13. InitialKnown /\ SidecarVouches
  BY <1>1, <1>8, <1>9 DEF InitialKnown, SidecarVouches, NoInitial
<1>14. FreeCounted
  BY <1>6, <1>7, FS_EmptySet DEF FreeCounted
<1> QED BY <1>11, <1>12, <1>13, <1>14

\* Every step of the transfer, whoever takes it.
LEMMA TransferStep == Inv /\ [Next]_vars => Inv'
<1> SUFFICES ASSUME Inv, [Next]_vars PROVE Inv'
  OBVIOUS
<1>1. CASE UNCHANGED vars
  BY <1>1 DEF vars, Inv, TypeOK, InMode, TriesLeft, ChunkAhead, InitialKnown, SidecarVouches,
              BodyRight, StagedUpTo, PlacedRight, PlacedUpTo, WholeStream, FreeCounted
<1>2. CASE ElectGood \/ ElectBad \/ ElectRefused \/ Lock \/ BeginMulti \/ BeginSingle
  BY <1>2, ElectGoodStep, ElectFails, LockStep, BeginMultiStep, BeginSingleStep
<1>3. CASE UseInitial \/ NoAddress \/ Dial \/ Reuse \/ Answer \/ ReadByte \/ BodyEnds \/ Stall
  BY <1>3, UseInitialStep, EndedAttempt, DialStep, ReuseStep, AnswerStep, ReadByteStep
<1>4. CASE FreeRetry \/ Rotate \/ RotateNoMore \/ WaitOut \/ Charge
  BY <1>4, FreeRetryStep, RotateStep, RotateNoMoreStep, WaitOutStep, ChargeStep
<1>5. CASE StreamInitial \/ StreamAgain \/ StreamByte \/ StreamEnds \/ StreamBreaks
  BY <1>5, StreamInitialStep, StreamAgainStep, StreamByteStep, StreamEndsStep,
     StreamBreaksStep
<1>6. CASE Cull \/ Shrink \/ Sibling \/ Change
  BY <1>6, EndedAttempt, ShrinkStep, SiblingStep, ChangeStep
<1> QED BY <1>1, <1>2, <1>3, <1>4, <1>5, <1>6 DEF Next, Run

\* The inductive invariant of a transfer, for any lengths, addresses, budgets and
\* numbers of culls, replacements and reads of siblings.
THEOREM TransferInvariant == Spec => []Inv
BY TransferBegins, TransferStep, PTL DEF Spec

\* Every variable has its type, and no more attempts are charged than elect and
\* downloadChunk allow.
THEOREM TransferTypes == Spec => []TypeOK
<1>1. Inv => TypeOK
  BY DEF Inv
<1> QED BY <1>1, TransferInvariant, PTL

\* What a chunk counts as done is in its place and, with a validator, of the
\* version elected, whatever the server declares and wherever bodies break off.
THEOREM BytesArePlacedRight == Spec => []PlacedRight
<1>1. Inv => PlacedRight
  BY DEF Inv
<1> QED BY <1>1, TransferInvariant, PTL

\* A single stream that succeeds has staged the whole of one version and nothing
\* else, though an earlier attempt read from another.
THEOREM StreamIsWhole == Spec => []WholeStream
<1>1. Inv => WholeStream
  BY DEF Inv
<1> QED BY <1>1, TransferInvariant, PTL

\* A chunk has one free attempt for every address and one for a refresh.
THEOREM RotationsAreBounded == Spec => []RotationsBounded
<1>1. Inv => RotationsBounded
  <2> SUFFICES ASSUME Inv PROVE RotationsBounded
    OBVIOUS
  <2>1. w \in WorkerType /\ w.free \in Nat /\ w.budget \in BudgetType
    BY TypesByName, WorkerFields DEF Inv
  <2>2. w.budget.tried \in SUBSET Addrs /\ IsFiniteSet(Addrs)
    BY <2>1, Lengths DEF BudgetType
  <2>3. /\ Cardinality(w.budget.tried) <= Cardinality(Addrs)
        /\ IsFiniteSet(w.budget.tried)
    <3> DEFINE t == w.budget.tried
    <3>1. t \in SUBSET Addrs
      BY <2>2
    <3> HIDE DEF t
    <3>2. Cardinality(t) <= Cardinality(Addrs) /\ IsFiniteSet(t)
      BY <2>2, <3>1, FS_Subset
    <3> QED BY <3>2 DEF t
  <2>4. Cardinality(w.budget.tried) \in Nat /\ Cardinality(Addrs) \in Nat
    BY <2>2, <2>3, FS_CardinalityType
  <2> QED BY <2>1, <2>3, <2>4 DEF Inv, FreeCounted, RotationsBounded
<1> QED BY <1>1, TransferInvariant, PTL

=============================================================================
