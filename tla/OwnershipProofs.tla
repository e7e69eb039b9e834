--------------------------- MODULE OwnershipProofs ---------------------------
(***************************************************************************)
(* Whoever touches the staging file is alone in doing so, for any number   *)
(* of callers and processes, any jobs, and crashes, cancellations and      *)
(* removals at any step.  First the two locks apart: the registry of the   *)
(* path lock, then the flock and the names of the file.                    *)
(***************************************************************************)
EXTENDS Ownership, FiniteSetTheorems, TLAPS

TypeOK ==
    /\ pc \in [Calls -> Labels]
    /\ job \in [Calls -> Jobs]
    /\ ctx \in SUBSET Calls
    /\ mine \in [Calls -> Entries \cup {None}]
    /\ locks \in [Procs -> Entries \cup {None}]
    /\ refs \in [Entries -> Nat]
    /\ token \in SUBSET Entries
    /\ fd \in [Calls -> Inodes \cup {None}]
    /\ locked \in SUBSET Calls
    /\ part \in Inodes \cup {None} /\ dest \in Inodes \cup {None}

-----------------------------------------------------------------------------
(* The registry of the path lock *)

Users(e) == {a \in Calls : mine[a] = e}

\* A caller has its reference from refDestination to releaseDestinationRef.
Referenced == \A a \in Calls : mine[a] = None <=> pc[a] \in {"idle", "again"}

\* A referenced entry stays in its process's registry.
Registered == \A a \in Calls : mine[a] # None => locks[home[a]] = mine[a]

\* Processes have their own registries.
Apart == \A p, q \in Procs : locks[p] # None /\ locks[p] = locks[q] => p = q

\* An entry counts its users.
Counted == \A e \in Entries : refs[e] = Cardinality(Users(e))

\* A registered entry is used by some call of the process.
Used == \A p \in Procs : locks[p] # None => \E a \in Calls : mine[a] = locks[p]

\* The token is in the channel or with one call.
OneToken ==
    /\ \A a \in Calls : pc[a] \in Holding => mine[a] \notin token
    /\ \A a, b \in Calls :
         pc[a] \in Holding /\ pc[b] \in Holding /\ mine[a] = mine[b] => a = b

PathInv == Referenced /\ Registered /\ Apart /\ Counted /\ Used /\ OneToken /\ NoTokenLost

-----------------------------------------------------------------------------
(* The flock, and the names of the file *)

\* A descriptor is open from open to the deferred close, and a lock is held on
\* an open descriptor only.
Opened == {"opened", "flock", "check", "own", "unlink"}
Locking == {"check", "own", "unlink"}
Closing == {"rmside", "close"}

OpenInTime ==
    \A a \in Calls : /\ pc[a] \in Opened => fd[a] # None
                     /\ fd[a] # None => pc[a] \in Opened \cup Closing

LockInTime ==
    \A a \in Calls : /\ pc[a] \in Locking => a \in locked
                     /\ a \in locked => pc[a] \in Locking \cup Closing /\ fd[a] # None

\* A flock excludes on the inode.
Exclusive == \A a, b \in locked : fd[a] = fd[b] => a = b

\* The owner's file keeps its name until the owner takes it away.
OwnsName == \A a \in Owners : fd[a] = part

FileInv == OpenInTime /\ LockInTime /\ Exclusive /\ OwnsName

Inv == TypeOK /\ PathInv /\ FileInv

-----------------------------------------------------------------------------
(* Fresh entries and inodes *)

\* A set of naturals has a least element.
LEMMA MinIn ==
  ASSUME NEW S \in SUBSET Nat, S # {}
  PROVE  Min(S) \in S /\ \A y \in S : Min(S) <= y
<1>1. \A x, y \in Nat : x < y => <<x, y>> \in OpToRel(<, Nat)
  BY Zenon DEF OpToRel
<1>2. S \subseteq Nat
  OBVIOUS
<1>3. \E m \in S : \A y \in S : ~ (<<y, m>> \in OpToRel(<, Nat))
  BY <1>2, NatLessThanWellFounded, WFMin, Zenon
<1>4. PICK m \in S : \A y \in S : ~ (y < m)
  BY <1>1, <1>2, <1>3, Zenon
<1>5. \A y \in S : m <= y
  BY <1>2, <1>4
<1> QED
  BY <1>5 DEF Min

\* There are finitely many calls.
LEMMA CallsFinite == IsFiniteSet(Calls) /\ Cardinality(Calls) \in Nat
BY OwnershipAssumption, FS_CardinalityType

\* An entry's users are finitely many.
LEMMA UsersFinite ==
  ASSUME NEW e
  PROVE  IsFiniteSet(Users(e)) /\ Cardinality(Users(e)) \in Nat
<1>1. Users(e) \in SUBSET Calls
  BY DEF Users
<1> QED
  BY <1>1, CallsFinite, FS_Subset, FS_CardinalityType

\* An entry that somebody uses counts at least one.
LEMMA UsedCounts ==
  ASSUME TypeOK, Counted, NEW a \in Calls, mine[a] # None
  PROVE  mine[a] \in Entries /\ refs[mine[a]] # 0 /\ refs[mine[a]] \in Nat
<1>1. mine[a] \in Entries
  BY DEF TypeOK
<1>2. a \in Users(mine[a])
  BY DEF Users
<1>3. Cardinality(Users(mine[a])) # 0
  BY <1>2, UsersFinite, FS_EmptySet
<1> QED
  BY <1>1, <1>3 DEF Counted, TypeOK

\* An entry that counts something has a user.
LEMMA CountsUsed ==
  ASSUME TypeOK, Counted, NEW e \in Entries, refs[e] # 0
  PROVE  \E a \in Calls : mine[a] = e
<1>1. Users(e) # {}
  BY FS_EmptySet DEF Counted
<1> QED
  BY <1>1 DEF Users

\* A call without a reference leaves an entry free: there are as many entries
\* as calls, and each entry in use has a call of its own.
LEMMA FreshEntryIsFree ==
  ASSUME TypeOK, Counted, Used, NEW c \in Calls, mine[c] = None
  PROVE  /\ FreshEntry \in Entries
         /\ refs[FreshEntry] = 0
         /\ \A p \in Procs : locks[p] # FreshEntry
<1> DEFINE free == {e \in Entries : refs[e] = 0 /\ \A p \in Procs : locks[p] # e}
           others == Calls \ {c}
           user == [a \in others |-> IF mine[a] = None THEN 1 ELSE mine[a]]
<1>1. c \in Calls /\ IsFiniteSet(others) /\ Cardinality(others) = Cardinality(Calls) - 1
  BY CallsFinite, FS_RemoveElement
<1>2. Cardinality(Calls) # 0
  BY CallsFinite, FS_EmptySet
<1>3. IsFiniteSet(Entries) /\ Cardinality(Entries) = Cardinality(Calls) /\ 1 \in Entries
  BY CallsFinite, FS_Interval, <1>2 DEF Entries
<1>4. free # {}
  <2> SUFFICES ASSUME free = {} PROVE FALSE
    OBVIOUS
  <2>1. \A e \in Entries : \E a \in Calls : mine[a] = e
    <3> SUFFICES ASSUME NEW e \in Entries PROVE \E a \in Calls : mine[a] = e
      OBVIOUS
    <3>1. CASE refs[e] # 0
      BY <3>1, CountsUsed
    <3>2. CASE \E p \in Procs : locks[p] = e
      <4>1. e # None
        BY CallsFinite DEF Entries, None
      <4> QED
        BY <3>2, <4>1 DEF Used
    <3> QED
      BY <3>1, <3>2
  <2>2. \A e \in Entries : e # None
    BY CallsFinite DEF Entries, None
  <2>3. user \in [others -> Entries]
    BY <1>3 DEF TypeOK
  <2>4. \A e \in Entries : \E a \in others : user[a] = e
    BY <2>1, <2>2
  <2>5. user \in Surjection(others, Entries)
    BY <2>3, <2>4 DEF Surjection
  <2>6. Cardinality(Entries) <= Cardinality(others)
    BY <2>5, <1>1, FS_Surjection
  <2> QED
    BY <2>6, <1>1, <1>3, CallsFinite
<1>5. free \in SUBSET Nat
  BY CallsFinite DEF Entries
<1>6. Min(free) \in free
  BY <1>4, <1>5, MinIn
<1> QED
  BY <1>6 DEF FreshEntry

\* Names and descriptors leave an inode free.
LEMMA FreshInodeIsFree ==
  ASSUME TypeOK
  PROVE  /\ FreshInode \in Inodes
         /\ FreshInode # part /\ FreshInode # dest
         /\ \A a \in Calls : FreshInode # fd[a]
<1> DEFINE descs == {fd[a] : a \in Calls}
           names == {part, dest}
           used == names \cup descs
<1>1. fd \in Surjection(Calls, descs)
  BY DEF TypeOK, Surjection
<1>2. IsFiniteSet(descs) /\ Cardinality(descs) <= Cardinality(Calls) /\ Cardinality(descs) \in Nat
  BY <1>1, CallsFinite, FS_Surjection, FS_CardinalityType
<1>3. IsFiniteSet({part}) /\ Cardinality({part}) = 1
  BY FS_Singleton
<1>4. IsFiniteSet({part} \cup {dest}) /\ Cardinality({part} \cup {dest}) <= 2
  BY <1>3, FS_AddElement
<1>5. names = {part} \cup {dest}
  OBVIOUS
<1> HIDE DEF descs, names
<1>6. IsFiniteSet(names) /\ Cardinality(names) <= 2 /\ Cardinality(names) \in Nat
  BY <1>4, <1>5, FS_CardinalityType
<1>7. IsFiniteSet(names \cap descs) /\ Cardinality(names \cap descs) \in Nat
  BY <1>6, FS_Intersection, FS_CardinalityType
<1>8. /\ IsFiniteSet(used)
      /\ Cardinality(used) = Cardinality(names) + Cardinality(descs) - Cardinality(names \cap descs)
  BY <1>2, <1>6, FS_Union
<1> HIDE DEF used
<1>81. Cardinality(used) <= Cardinality(Calls) + 2
  BY <1>2, <1>6, <1>7, <1>8, CallsFinite
<1>9. IsFiniteSet(Inodes) /\ Cardinality(Inodes) = Cardinality(Calls) + 3
  BY CallsFinite, FS_Interval DEF Inodes
<1>10. Inodes \ used # {}
  <2> SUFFICES ASSUME Inodes \in SUBSET used PROVE FALSE
    OBVIOUS
  <2>1. Cardinality(Inodes) <= Cardinality(used)
    BY <1>8, FS_Subset
  <2>2. Cardinality(used) \in Nat
    BY <1>8, FS_CardinalityType
  <2> QED
    BY <2>1, <2>2, <1>81, <1>9, CallsFinite
<1>11. Inodes \ used \in SUBSET Nat
  BY CallsFinite DEF Inodes
<1>12. Min(Inodes \ used) \in Inodes \ used
  BY <1>10, <1>11, MinIn
<1>13. FreshInode \in Inodes \ used
  BY <1>12 DEF FreshInode, used, names, descs
<1> QED
  BY <1>13 DEF used, names, descs

-----------------------------------------------------------------------------
(* Each operation of the path lock keeps the registry's invariant *)

\* A call that goes on as a holder, or as one who is not, disturbs nobody.
LEMMA StayKeepsPath ==
  ASSUME TypeOK, PathInv, NEW a \in Calls, NEW l,
         pc' = [pc EXCEPT ![a] = l], UNCHANGED lockVars,
         \/ pc[a] \in Holding /\ l \in Holding
         \/ pc[a] \in {"try", "wait", "lost", "drop"} /\ l \in {"try", "wait", "lost", "drop"}
  PROVE  PathInv'
<1>1. /\ mine' = mine /\ locks' = locks /\ refs' = refs /\ token' = token
      /\ pc'[a] = l /\ \A b \in Calls : b # a => pc'[b] = pc[b]
  BY DEF TypeOK, lockVars
<1>2. \A b \in Calls : /\ pc'[b] \in Holding <=> pc[b] \in Holding
                       /\ pc'[b] \in {"idle", "again"} <=> pc[b] \in {"idle", "again"}
  BY <1>1 DEF Holding
<1>3. Referenced' /\ Registered' /\ Apart'
  BY <1>1, <1>2 DEF PathInv, Referenced, Registered, Apart
<1>4. Counted' /\ Used'
  BY <1>1 DEF PathInv, Counted, Users, Used
<1>5. OneToken' /\ NoTokenLost'
  BY <1>1, <1>2 DEF PathInv, OneToken, NoTokenLost
<1> QED
  BY <1>3, <1>4, <1>5 DEF PathInv

\* The token goes from the channel to the call that receives it.
LEMMA TakeKeepsPath ==
  ASSUME TypeOK, PathInv, NEW a \in Calls, pc[a] \in {"try", "wait"},
         Take(a), UNCHANGED <<mine, locks, refs>>
  PROVE  PathInv'
<1>1. /\ mine' = mine /\ locks' = locks /\ refs' = refs /\ token' = token \ {mine[a]}
      /\ pc'[a] = "got" /\ \A b \in Calls : b # a => pc'[b] = pc[b]
      /\ mine[a] \in token
  BY DEF TypeOK, Take, Goto
<1>2. Referenced' /\ Registered' /\ Apart'
  BY <1>1 DEF PathInv, Referenced, Registered, Apart
<1>3. Counted' /\ Used'
  BY <1>1 DEF PathInv, Counted, Users, Used
<1>4. OneToken'
  BY <1>1 DEF PathInv, OneToken
<1>5. pc'[a] \in Holding
  BY <1>1 DEF Holding
<1>6. \A b \in Calls : pc[b] \in Holding => b # a
  BY DEF Holding
<1>7. NoTokenLost'
  BY <1>1, <1>5, <1>6 DEF PathInv, NoTokenLost
<1> QED
  BY <1>2, <1>3, <1>4, <1>7 DEF PathInv

\* and back to the channel.
LEMMA GiveKeepsPath ==
  ASSUME TypeOK, PathInv, NEW a \in Calls, pc[a] \in Holding,
         token' = token \cup {mine[a]}, Goto(a, "drop"), UNCHANGED <<mine, locks, refs>>
  PROVE  PathInv'
<1>1. /\ mine' = mine /\ locks' = locks /\ refs' = refs
      /\ pc'[a] = "drop" /\ \A b \in Calls : b # a => pc'[b] = pc[b]
  BY DEF TypeOK, Goto
<1>2. Referenced' /\ Registered' /\ Apart'
  BY <1>1 DEF PathInv, Referenced, Registered, Apart, Holding
<1>3. Counted' /\ Used'
  BY <1>1 DEF PathInv, Counted, Users, Used
<1>4. \A b \in Calls : pc'[b] \in Holding => b # a /\ pc[b] \in Holding
  BY <1>1 DEF Holding
<1>5. OneToken'
  BY <1>1, <1>4 DEF PathInv, OneToken
<1>6. NoTokenLost'
  BY <1>1, <1>4 DEF PathInv, NoTokenLost
<1> QED
  BY <1>2, <1>3, <1>5, <1>6 DEF PathInv

\* refDestination adds a user to the registered entry.
LEMMA JoinKeepsPath ==
  ASSUME TypeOK, PathInv, NEW a \in Calls, pc[a] \in {"idle", "again"},
         NEW l \in {"try", "wait"}, Goto(a, l), Reference(a), locks[home[a]] # None
  PROVE  PathInv'
<1> DEFINE p == home[a]
           e == locks[p]
<1>1. mine[a] = None /\ p \in Procs /\ e \in Entries /\ e # None
  BY OwnershipAssumption DEF PathInv, Referenced, TypeOK
<1>2. /\ locks' = locks /\ token' = token
      /\ refs' = [refs EXCEPT ![e] = @ + 1]
      /\ mine'[a] = e /\ \A b \in Calls : b # a => mine'[b] = mine[b]
      /\ pc'[a] = l /\ \A b \in Calls : b # a => pc'[b] = pc[b]
  BY <1>1 DEF Reference, Goto, TypeOK
<1>3. Referenced' /\ Registered' /\ Apart'
  BY <1>1, <1>2 DEF PathInv, Referenced, Registered, Apart
<1>4. Counted'
  <2> SUFFICES ASSUME NEW x \in Entries PROVE refs'[x] = Cardinality(Users(x)')
    BY DEF Counted
  <2>1. CASE x = e
    <3>1. Users(x)' = Users(x) \cup {a} /\ a \notin Users(x)
      BY <1>1, <1>2, <2>1 DEF Users
    <3>2. Cardinality(Users(x)') = Cardinality(Users(x)) + 1
      BY <3>1, UsersFinite, FS_AddElement
    <3> QED
      BY <1>1, <1>2, <2>1, <3>2 DEF PathInv, Counted, TypeOK
  <2>2. CASE x # e
    <3>1. Users(x)' = Users(x)
      BY <1>1, <1>2, <2>2, CallsFinite DEF Users, Entries, None
    <3> QED
      BY <1>1, <1>2, <2>2, <3>1 DEF PathInv, Counted, TypeOK
  <2> QED
    BY <2>1, <2>2
<1>5. Used'
  <2>1. \A b \in Calls : mine[b] # None => mine'[b] = mine[b]
    BY <1>1, <1>2
  <2> QED
    BY <1>2, <2>1 DEF PathInv, Used
<1>6. \A b \in Calls : pc'[b] \in Holding => b # a /\ pc[b] \in Holding
  BY <1>2 DEF Holding
<1>7. \A b \in Calls : pc[b] \in Holding => pc'[b] = pc[b] /\ mine'[b] = mine[b]
  BY <1>2 DEF Holding
<1>8. OneToken'
  BY <1>2, <1>6 DEF PathInv, OneToken
<1>9. NoTokenLost'
  <2>1. PICK u \in Calls : mine[u] = e
    BY <1>1 DEF PathInv, Used
  <2> SUFFICES ASSUME NEW b \in Calls, mine'[b] # None, mine'[b] \notin token
               PROVE \E h \in Calls : mine'[h] = mine'[b] /\ pc'[h] \in Holding
    BY <1>2 DEF NoTokenLost
  <2>2. \E v \in Calls : mine[v] = mine'[b]
    BY <1>2, <2>1
  <2> QED
    BY <1>7, <2>2 DEF PathInv, NoTokenLost
<1> QED
  BY <1>3, <1>4, <1>5, <1>8, <1>9 DEF PathInv

\* or registers a new entry, with its token, for its only user.
LEMMA MakeKeepsPath ==
  ASSUME TypeOK, PathInv, NEW a \in Calls, pc[a] \in {"idle", "again"},
         NEW l \in {"try", "wait"}, Goto(a, l), Reference(a), locks[home[a]] = None
  PROVE  PathInv'
<1> DEFINE p == home[a]
           e == FreshEntry
<1>1. mine[a] = None /\ p \in Procs
  BY OwnershipAssumption DEF PathInv, Referenced
<1>2. e \in Entries /\ refs[e] = 0 /\ \A q \in Procs : locks[q] # e
  BY <1>1, FreshEntryIsFree DEF PathInv
<1>3. e # None
  BY <1>2, CallsFinite DEF Entries, None
<1> HIDE DEF e
<1>4. \A b \in Calls : mine[b] # e
  BY <1>2, <1>3, UsedCounts DEF PathInv
<1>5. /\ locks' = [locks EXCEPT ![p] = e] /\ token' = token \cup {e}
      /\ refs' = [refs EXCEPT ![e] = @ + 1]
      /\ mine'[a] = e /\ \A b \in Calls : b # a => mine'[b] = mine[b]
      /\ pc'[a] = l /\ \A b \in Calls : b # a => pc'[b] = pc[b]
  BY <1>1 DEF Reference, Goto, TypeOK, e
<1>6. locks'[p] = e /\ \A q \in Procs : q # p => locks'[q] = locks[q]
  BY <1>1, <1>5 DEF TypeOK
<1>7. \A b \in Calls : b # a /\ mine[b] # None => home[b] # p /\ home[b] \in Procs
  BY OwnershipAssumption DEF PathInv, Registered
<1>8. Referenced' /\ Registered'
  BY <1>3, <1>5, <1>6, <1>7 DEF PathInv, Referenced, Registered
<1>9. Apart'
  BY <1>2, <1>6 DEF PathInv, Apart
<1>10. Counted'
  <2> SUFFICES ASSUME NEW x \in Entries PROVE refs'[x] = Cardinality(Users(x)')
    BY DEF Counted
  <2>1. CASE x = e
    <3>1. Users(x)' = Users(x) \cup {a} /\ a \notin Users(x)
      BY <1>4, <1>5, <2>1 DEF Users
    <3>2. Cardinality(Users(x)') = Cardinality(Users(x)) + 1
      BY <3>1, UsersFinite, FS_AddElement
    <3> QED
      BY <1>2, <1>5, <2>1, <3>2 DEF PathInv, Counted, TypeOK
  <2>2. CASE x # e
    <3>1. Users(x)' = Users(x)
      BY <1>1, <1>5, <2>2, CallsFinite DEF Users, Entries, None
    <3> QED
      BY <1>2, <1>5, <2>2, <3>1 DEF PathInv, Counted, TypeOK
  <2> QED
    BY <2>1, <2>2
<1>11. Used'
  <2>1. \A b \in Calls : mine[b] # None => mine'[b] = mine[b]
    BY <1>1, <1>5
  <2> SUFFICES ASSUME NEW q \in Procs, locks'[q] # None
               PROVE \E b \in Calls : mine'[b] = locks'[q]
    BY DEF Used
  <2>2. CASE q = p
    BY <1>5, <1>6, <2>2
  <2>3. CASE q # p
    BY <1>6, <2>1, <2>3 DEF PathInv, Used
  <2> QED
    BY <2>2, <2>3
<1>12. \A b \in Calls : pc'[b] \in Holding => b # a /\ pc[b] \in Holding
  BY <1>5 DEF Holding
<1>13. \A b \in Calls : pc[b] \in Holding => pc'[b] = pc[b] /\ mine'[b] = mine[b]
  BY <1>5 DEF Holding
<1>14. OneToken'
  BY <1>4, <1>5, <1>12 DEF PathInv, OneToken
<1>15. NoTokenLost'
  <2> SUFFICES ASSUME NEW b \in Calls, mine'[b] # None, mine'[b] \notin token'
               PROVE \E h \in Calls : mine'[h] = mine'[b] /\ pc'[h] \in Holding
    BY DEF NoTokenLost
  <2>1. b # a
    BY <1>5
  <2> QED
    BY <1>5, <1>13, <2>1 DEF PathInv, NoTokenLost
<1> QED
  BY <1>8, <1>9, <1>10, <1>11, <1>14, <1>15 DEF PathInv

\* releaseDestinationRef takes a user from its entry, the last one with the
\* entry, unless it has made a new reference since.
LEMMA DropKeepsPath ==
  ASSUME TypeOK, PathInv, NEW a \in Calls, Drop(a)
  PROVE  PathInv'
<1> DEFINE p == home[a]
           e == mine[a]
<1>1. e # None /\ e \in Entries /\ refs[e] # 0 /\ refs[e] \in Nat /\ p \in Procs
  BY OwnershipAssumption, UsedCounts DEF PathInv, Referenced, Drop
<1>2. locks[p] = e
  BY <1>1 DEF PathInv, Registered
<1>3. /\ refs' = [refs EXCEPT ![e] = @ - 1]
      /\ token' = IF refs[e] = 1 THEN token \ {e} ELSE token
      /\ locks' = IF refs[e] = 1 THEN [locks EXCEPT ![p] = None] ELSE locks
      /\ mine'[a] = None /\ \A b \in Calls : b # a => mine'[b] = mine[b]
      /\ pc'[a] \in {"idle", "again"} /\ \A b \in Calls : b # a => pc'[b] = pc[b]
      /\ pc[a] \in {"lost", "drop"}
  BY <1>2 DEF Drop, Goto, TypeOK, LastRef
<1>4. \A b \in Calls : /\ pc[b] \in Holding => b # a
                       /\ pc'[b] \in Holding => b # a
  BY <1>3 DEF Holding
<1>5. Referenced'
  BY <1>3 DEF PathInv, Referenced
<1>6. Counted'
  <2> SUFFICES ASSUME NEW x \in Entries PROVE refs'[x] = Cardinality(Users(x)')
    BY DEF Counted
  <2>1. CASE x = e
    <3>1. Users(x)' = Users(x) \ {a} /\ a \in Users(x)
      BY <1>1, <1>3, <2>1 DEF Users
    <3>2. Cardinality(Users(x)') = Cardinality(Users(x)) - 1
      BY <3>1, UsersFinite, FS_RemoveElement
    <3> QED
      BY <1>1, <1>3, <2>1, <3>2 DEF PathInv, Counted, TypeOK
  <2>2. CASE x # e
    <3>1. Users(x)' = Users(x)
      BY <1>1, <1>3, <2>2, CallsFinite DEF Users, Entries, None
    <3> QED
      BY <1>1, <1>3, <2>2, <3>1 DEF PathInv, Counted, TypeOK
  <2> QED
    BY <2>1, <2>2
<1>7. CASE refs[e] = 1
  <2>1. \A b \in Calls : b # a => mine[b] # e
    <3>1. Cardinality(Users(e)) = 1
      BY <1>1, <1>7 DEF PathInv, Counted
    <3>2. PICK x : Users(e) = {x}
      BY <3>1, UsersFinite, FS_Singleton
    <3> QED
      BY <3>2 DEF Users
  <2>2. locks'[p] = None /\ \A q \in Procs : q # p => locks'[q] = locks[q] /\ locks[q] # e
    BY <1>1, <1>2, <1>3, <1>7 DEF TypeOK, PathInv, Apart
  <2>3. Registered'
    BY <1>2, <1>3, <2>1, <2>2, OwnershipAssumption DEF PathInv, Registered
  <2>4. Apart'
    BY <2>2 DEF PathInv, Apart
  <2>5. Used'
    BY <1>3, <2>2 DEF PathInv, Used
  <2>6. OneToken'
    BY <1>3, <1>4, <1>7 DEF PathInv, OneToken
  <2>7. NoTokenLost'
    BY <1>3, <1>4, <1>7, <2>1 DEF PathInv, NoTokenLost
  <2> QED
    BY <1>5, <1>6, <2>3, <2>4, <2>5, <2>6, <2>7 DEF PathInv
<1>8. CASE refs[e] # 1
  <2>1. locks' = locks /\ token' = token
    BY <1>3, <1>8
  <2>2. Registered' /\ Apart'
    BY <1>3, <2>1 DEF PathInv, Registered, Apart
  <2>3. \E b \in Calls : b # a /\ mine[b] = e
    <3>0. a \in Users(e) /\ Cardinality(Users(e)) = refs[e]
      BY <1>1 DEF PathInv, Counted, Users
    <3>1. Cardinality(Users(e) \ {a}) = refs[e] - 1 /\ IsFiniteSet(Users(e) \ {a})
      BY <3>0, UsersFinite, FS_RemoveElement
    <3>2. Users(e) \ {a} # {}
      BY <1>1, <1>8, <3>1, FS_EmptySet
    <3> QED
      BY <3>2 DEF Users
  <2>4. Used'
    BY <1>3, <2>1, <2>3 DEF PathInv, Used
  <2>5. OneToken'
    BY <1>3, <1>4, <2>1 DEF PathInv, OneToken
  <2>6. NoTokenLost'
    BY <1>3, <1>4, <2>1 DEF PathInv, NoTokenLost
  <2> QED
    BY <1>5, <1>6, <2>2, <2>4, <2>5, <2>6 DEF PathInv
<1> QED
  BY <1>7, <1>8

\* A crash takes a process's registry with the calls that use it, and no other.
LEMMA CrashKeepsPath ==
  ASSUME TypeOK, PathInv, NEW p \in Procs, Crash(p)
  PROVE  PathInv'
<1>1. \A a \in Calls : /\ home[a] = p => pc'[a] = "idle" /\ mine'[a] = None
                       /\ home[a] # p => pc'[a] = pc[a] /\ mine'[a] = mine[a]
  BY DEF Crash
<1>2. locks'[p] = None /\ \A q \in Procs : q # p => locks'[q] = locks[q]
  BY DEF Crash, TypeOK
<1>3. \A a, b \in Calls : mine[a] = mine[b] /\ mine[a] # None => home[a] = home[b]
  BY OwnershipAssumption DEF PathInv, Registered, Apart
<1>4. \A e \in Entries : refs'[e] = IF \E a \in Calls : home[a] = p /\ mine[a] = e THEN 0
                                    ELSE refs[e]
  BY DEF Crash
<1>5. \A e : e \in token' <=> e \in token /\ \A a \in Calls : home[a] = p => mine[a] # e
  BY DEF Crash
<1>6. Referenced'
  BY <1>1 DEF PathInv, Referenced
<1>7. Registered'
  BY <1>1, <1>2, OwnershipAssumption DEF PathInv, Registered
<1>8. Apart'
  BY <1>2 DEF PathInv, Apart
<1>9. Counted'
  <2> SUFFICES ASSUME NEW x \in Entries PROVE refs'[x] = Cardinality(Users(x)')
    BY DEF Counted
  <2>0. x # None
    BY CallsFinite DEF Entries, None
  <2>1. CASE \E a \in Calls : home[a] = p /\ mine[a] = x
    <3>1. \A b \in Calls : mine'[b] # x
      BY <1>1, <1>3, <2>0, <2>1
    <3>2. Users(x)' = {}
      BY <3>1 DEF Users
    <3> QED
      BY <1>4, <2>1, <3>2, FS_EmptySet
  <2>2. CASE ~ \E a \in Calls : home[a] = p /\ mine[a] = x
    <3>1. \A b \in Calls : mine'[b] = x <=> mine[b] = x
      BY <1>1, <2>0, <2>2
    <3>2. Users(x)' = Users(x)
      BY <3>1 DEF Users
    <3> QED
      BY <1>4, <2>2, <3>2 DEF PathInv, Counted
  <2> QED
    BY <2>1, <2>2
<1>10. Used'
  <2> SUFFICES ASSUME NEW q \in Procs, locks'[q] # None
               PROVE \E a \in Calls : mine'[a] = locks'[q]
    BY DEF Used
  <2>1. q # p /\ locks[q] # None /\ locks'[q] = locks[q]
    BY <1>2
  <2>2. PICK a \in Calls : mine[a] = locks[q]
    BY <2>1 DEF PathInv, Used
  <2>3. locks[home[a]] = locks[q]
    BY <2>1, <2>2 DEF PathInv, Registered
  <2>4. home[a] = q
    BY <2>1, <2>3, OwnershipAssumption DEF PathInv, Apart
  <2> QED
    BY <1>1, <2>1, <2>2, <2>4
<1>11. \A a \in Calls : pc'[a] \in Holding => home[a] # p /\ pc[a] \in Holding
  BY <1>1 DEF Holding
<1>12. OneToken'
  BY <1>1, <1>5, <1>11 DEF PathInv, OneToken
<1>13. NoTokenLost'
  <2> SUFFICES ASSUME NEW a \in Calls, mine'[a] # None, mine'[a] \notin token'
               PROVE \E b \in Calls : mine'[b] = mine'[a] /\ pc'[b] \in Holding
    BY DEF NoTokenLost
  <2>1. home[a] # p /\ mine'[a] = mine[a] /\ mine[a] # None
    BY <1>1
  <2>2. mine[a] \notin token
    BY <1>3, <1>5, <2>1
  <2>3. PICK b \in Calls : mine[b] = mine[a] /\ pc[b] \in Holding
    BY <2>1, <2>2 DEF PathInv, NoTokenLost
  <2>4. home[b] # p
    BY <1>3, <2>1, <2>3
  <2> QED
    BY <1>1, <2>1, <2>3, <2>4
<1> QED
  BY <1>6, <1>7, <1>8, <1>9, <1>10, <1>12, <1>13 DEF PathInv

-----------------------------------------------------------------------------
(* Each step of a staging file's user keeps the invariant of its file *)

\* A call away from the file disturbs nobody there.
LEMMA FarKeepsFile ==
  ASSUME TypeOK, FileInv, NEW a \in Calls, NEW l,
         pc' = [pc EXCEPT ![a] = l], UNCHANGED fileVars,
         pc[a] \notin Opened \cup Closing, l \notin Opened
  PROVE  FileInv'
<1>1. /\ fd' = fd /\ locked' = locked /\ part' = part
      /\ pc'[a] = l /\ \A b \in Calls : b # a => pc'[b] = pc[b]
  BY DEF TypeOK, fileVars
<1>2. fd[a] = None /\ a \notin locked
  BY DEF FileInv, OpenInTime, LockInTime, Opened, Locking
<1>3. OpenInTime'
  BY <1>1, <1>2 DEF FileInv, OpenInTime
<1>4. l \notin Locking
  BY DEF Opened, Locking
<1>5. LockInTime'
  BY <1>1, <1>2, <1>4 DEF FileInv, LockInTime
<1>6. Exclusive'
  BY <1>1 DEF FileInv, Exclusive
<1>7. OwnsName'
  BY <1>1, <1>4 DEF FileInv, OwnsName, Owners, Locking
<1> QED
  BY <1>3, <1>5, <1>6, <1>7 DEF FileInv

\* An owner's file is open and locked, and no other call has it locked.
LEMMA OwnerAlone ==
  ASSUME TypeOK, FileInv, NEW a \in Owners
  PROVE  /\ a \in locked /\ fd[a] = part /\ part # None
         /\ \A b \in locked : fd[b] = part => b = a
         /\ \A b \in Owners : b = a
<1>1. \A b \in Owners : b \in locked /\ fd[b] = part /\ fd[b] # None
  BY DEF FileInv, OpenInTime, LockInTime, OwnsName, Owners, Opened, Locking
<1> QED
  BY <1>1 DEF FileInv, Exclusive

\* Opening: the name gets a new inode only when it has none, and an owner's
\* file has one.
LEMMA OpenKeepsFile ==
  ASSUME TypeOK, FileInv, NEW a \in Calls, Open(a)
  PROVE  FileInv'
<1>1. fd[a] = None /\ a \notin locked /\ pc[a] = "open"
  BY DEF Open, FileInv, OpenInTime, LockInTime, Opened, Locking, Closing
<1>2. locked' = locked
  BY DEF Open
<1>3. CASE part = None /\ job[a] = "discard"
  <2>1. pc' = [pc EXCEPT ![a] = "rmside"] /\ UNCHANGED fileVars
    BY <1>3 DEF Open, Goto, fileVars
  <2> QED
    BY <1>1, <2>1, FarKeepsFile DEF Opened, Closing
<1>4. CASE ~ (part = None /\ job[a] = "discard")
  <2>1. /\ part' # None
        /\ part # None => part' = part
        /\ fd'[a] = part' /\ \A b \in Calls : b # a => fd'[b] = fd[b]
        /\ pc'[a] = "opened" /\ \A b \in Calls : b # a => pc'[b] = pc[b]
    <3>1. FreshInode # None
      BY FreshInodeIsFree, CallsFinite DEF Inodes, None
    <3> QED
      BY <1>4, <3>1 DEF Open, Goto, TypeOK
  <2>2. OpenInTime'
    BY <2>1 DEF FileInv, OpenInTime, Opened
  <2>3. LockInTime'
    BY <1>1, <1>2, <2>1 DEF FileInv, LockInTime, Locking
  <2>4. Exclusive'
    BY <1>1, <1>2, <2>1 DEF FileInv, Exclusive, TypeOK
  <2>5. OwnsName'
    BY <2>1, OwnerAlone DEF FileInv, OwnsName, Owners
  <2> QED
    BY <2>2, <2>3, <2>4, <2>5 DEF FileInv
<1> QED
  BY <1>3, <1>4

\* The second look at the name: the file stays open, or is closed unlocked.
LEMMA ReopenedKeepsFile ==
  ASSUME TypeOK, FileInv, NEW a \in Calls, Reopened(a)
  PROVE  FileInv'
<1>1. pc[a] = "opened" /\ a \notin locked /\ fd[a] # None
  BY DEF Reopened, FileInv, OpenInTime, LockInTime, Opened, Locking, Closing
<1>2. /\ locked' = locked /\ part' = part
      /\ \A b \in Calls : b # a => pc'[b] = pc[b] /\ fd'[b] = fd[b]
      /\ \/ pc'[a] = "flock" /\ fd'[a] = fd[a]
         \/ pc'[a] \in {"rmside", "close"} /\ fd'[a] = None
  <2>1. CASE part = fd[a]
    BY <2>1 DEF Reopened, Goto, TypeOK
  <2>2. CASE part # fd[a] /\ part = None /\ job[a] = "discard"
    BY <2>2 DEF Reopened, Goto, TypeOK
  <2>3. CASE part # fd[a] /\ ~ (part = None /\ job[a] = "discard")
    BY <2>3 DEF Reopened, Goto, TypeOK
  <2> QED
    BY <2>1, <2>2, <2>3
<1>3. OpenInTime'
  BY <1>1, <1>2 DEF FileInv, OpenInTime, Opened, Closing
<1>4. LockInTime'
  BY <1>1, <1>2 DEF FileInv, LockInTime, Locking, Closing
<1>5. Exclusive'
  BY <1>1, <1>2 DEF FileInv, Exclusive, TypeOK
<1>6. OwnsName'
  BY <1>1, <1>2 DEF FileInv, OwnsName, Owners
<1> QED
  BY <1>3, <1>4, <1>5, <1>6 DEF FileInv

\* flock refuses an inode that is locked.
LEMMA FlockKeepsFile ==
  ASSUME TypeOK, FileInv, NEW a \in Calls, Flock(a)
  PROVE  FileInv'
<1>1. pc[a] = "flock" /\ a \notin locked /\ fd[a] # None
  BY DEF Flock, FileInv, OpenInTime, LockInTime, Opened, Locking, Closing
<1>2. /\ fd' = fd /\ part' = part
      /\ \A b \in Calls : b # a => pc'[b] = pc[b]
      /\ \/ pc'[a] = "close" /\ locked' = locked
         \/ /\ pc'[a] = "check" /\ locked' = locked \cup {a}
            /\ \A b \in locked : fd[b] # fd[a]
  BY DEF Flock, Goto, TypeOK
<1>3. OpenInTime'
  BY <1>1, <1>2 DEF FileInv, OpenInTime, Opened, Closing
<1>4. LockInTime'
  BY <1>1, <1>2 DEF FileInv, LockInTime, Locking, Closing
<1>5. Exclusive'
  BY <1>2 DEF FileInv, Exclusive
<1>6. OwnsName'
  BY <1>2 DEF FileInv, OwnsName, Owners
<1> QED
  BY <1>3, <1>4, <1>5, <1>6 DEF FileInv

\* A call that holds its lock goes on without touching the names: it becomes
\* an owner only when its file has the name.
LEMMA OnKeepsFile ==
  ASSUME TypeOK, FileInv, NEW a \in Calls, NEW l \in Locking \cup Closing,
         pc[a] \in Locking \cup Closing, pc' = [pc EXCEPT ![a] = l],
         UNCHANGED <<fd, locked, part>>,
         l \in Locking => pc[a] \in Locking /\ (l # "check" => part = fd[a])
  PROVE  FileInv'
<1>1. /\ fd' = fd /\ locked' = locked /\ part' = part
      /\ pc'[a] = l /\ \A b \in Calls : b # a => pc'[b] = pc[b]
  BY DEF TypeOK
<1>2. OpenInTime'
  BY <1>1 DEF FileInv, OpenInTime, Opened, Closing, Locking
<1>3. LockInTime'
  BY <1>1 DEF FileInv, LockInTime, Locking, Closing
<1>4. Exclusive'
  BY <1>1 DEF FileInv, Exclusive
<1>5. OwnsName'
  BY <1>1 DEF FileInv, OwnsName, Owners, Locking, Closing
<1> QED
  BY <1>2, <1>3, <1>4, <1>5 DEF FileInv

\* The owner takes the staging name away, and is done with it.
LEMMA NameGoneKeepsFile ==
  ASSUME TypeOK, FileInv, NEW a \in Owners, pc' = [pc EXCEPT ![a] = "rmside"],
         UNCHANGED <<fd, locked>>
  PROVE  FileInv'
<1>1. a \in Calls /\ pc[a] \in {"own", "unlink"}
  BY DEF Owners
<1>2. /\ fd' = fd /\ locked' = locked
      /\ pc'[a] = "rmside" /\ \A b \in Calls : b # a => pc'[b] = pc[b]
  BY <1>1 DEF TypeOK
<1>3. OpenInTime'
  BY <1>1, <1>2 DEF FileInv, OpenInTime, Opened, Closing
<1>4. LockInTime'
  BY <1>1, <1>2 DEF FileInv, LockInTime, Locking, Closing
<1>5. Exclusive'
  BY <1>2 DEF FileInv, Exclusive
<1>6. Owners' = {}
  BY <1>2, OwnerAlone DEF Owners
<1>7. OwnsName'
  BY <1>6 DEF OwnsName
<1> QED
  BY <1>3, <1>4, <1>5, <1>7 DEF FileInv

\* The deferred close: the descriptor and its lock go together.
LEMMA CloseKeepsFile ==
  ASSUME TypeOK, FileInv, NEW a \in Calls, Close(a)
  PROVE  FileInv'
<1>1. /\ part' = part /\ locked' = locked \ {a} /\ pc[a] = "close"
      /\ fd'[a] = None /\ pc'[a] = "unlock"
      /\ \A b \in Calls : b # a => pc'[b] = pc[b] /\ fd'[b] = fd[b]
  BY DEF Close, Goto, TypeOK
<1>2. OpenInTime'
  BY <1>1 DEF FileInv, OpenInTime, Opened
<1>3. LockInTime'
  BY <1>1 DEF FileInv, LockInTime, Locking
<1>4. Exclusive'
  BY <1>1 DEF FileInv, Exclusive, TypeOK
<1>5. OwnsName'
  BY <1>1 DEF FileInv, OwnsName, Owners
<1> QED
  BY <1>2, <1>3, <1>4, <1>5 DEF FileInv

\* A crash closes a process's descriptors; the names and the others stay.
LEMMA CrashKeepsFile ==
  ASSUME TypeOK, FileInv, NEW p \in Procs, Crash(p)
  PROVE  FileInv'
<1>1. /\ part' = part
      /\ \A a \in Calls : /\ home[a] = p => pc'[a] = "idle" /\ fd'[a] = None
                          /\ home[a] # p => pc'[a] = pc[a] /\ fd'[a] = fd[a]
      /\ \A a : a \in locked' <=> a \in locked /\ ~ (a \in Calls /\ home[a] = p)
  BY DEF Crash
<1>2. OpenInTime'
  BY <1>1 DEF FileInv, OpenInTime, Opened
<1>3. LockInTime'
  BY <1>1 DEF FileInv, LockInTime, Locking
<1>4. Exclusive'
  BY <1>1 DEF FileInv, Exclusive, TypeOK
<1>5. OwnsName'
  BY <1>1 DEF FileInv, OwnsName, Owners
<1> QED
  BY <1>2, <1>3, <1>4, <1>5 DEF FileInv

-----------------------------------------------------------------------------
(* The invariant *)

\* The calls of the path lock keep the types.
LEMMA PathTypes ==
  ASSUME TypeOK, PathInv, NEW a \in Calls,
         \/ Begin(a) \/ TryLock(a) \/ Again(a) \/ Receive(a) \/ GiveUp(a)
         \/ CheckCtx(a) \/ Unlock(a) \/ Drop(a) \/ Cancel(a)
  PROVE  TypeOK'
<1>0. mine[a] # None => mine[a] \in Entries /\ refs[mine[a]] - 1 \in Nat
  BY UsedCounts DEF PathInv
<1>1. ASSUME Reference(a), pc[a] \in {"idle", "again"}
      PROVE  /\ locks' \in [Procs -> Entries \cup {None}] /\ refs' \in [Entries -> Nat]
             /\ token' \in SUBSET Entries /\ mine' \in [Calls -> Entries \cup {None}]
  <2>1. mine[a] = None /\ home[a] \in Procs
    BY <1>1, OwnershipAssumption DEF PathInv, Referenced
  <2>2. FreshEntry \in Entries
    BY <2>1, FreshEntryIsFree DEF PathInv
  <2>3. CASE locks[home[a]] = None
    BY <1>1, <2>1, <2>2, <2>3 DEF Reference, TypeOK
  <2>4. CASE locks[home[a]] # None
    BY <1>1, <2>1, <2>4 DEF Reference, TypeOK
  <2> QED
    BY <2>3, <2>4
<1>2. CASE Begin(a)
  <2>1. job' \in [Calls -> Jobs] /\ pc' \in [Calls -> Labels]
    <3>1. PICK j \in work[a] : /\ job' = [job EXCEPT ![a] = j]
                               /\ Goto(a, IF j = "discard" THEN "wait" ELSE "try")
      BY <1>2 DEF Begin
    <3>2. j \in Jobs
      BY OwnershipAssumption DEF Jobs
    <3>3. (IF j = "discard" THEN "wait" ELSE "try") \in Labels
      BY DEF Labels
    <3> QED
      BY <3>1, <3>2, <3>3 DEF Goto, TypeOK
  <2> QED
    BY <1>1, <1>2, <2>1 DEF Begin, TypeOK, fileVars
<1>3. CASE Again(a)
  <2>1. pc' \in [Calls -> Labels]
    BY <1>3 DEF Again, Goto, TypeOK, Labels
  <2> QED
    BY <1>1, <1>3, <2>1 DEF Again, TypeOK, fileVars
<1>4. CASE Drop(a)
  <2>1. mine[a] # None
    BY <1>4 DEF Drop, PathInv, Referenced
  <2>2. /\ pc' \in [Calls -> Labels] /\ job' \in [Calls -> Jobs] /\ ctx' \in SUBSET Calls
        /\ mine' \in [Calls -> Entries \cup {None}] /\ token' \in SUBSET Entries
        /\ locks' \in [Procs -> Entries \cup {None}]
    BY <1>4 DEF Drop, Goto, TypeOK, Jobs, Labels
  <2>3. refs' \in [Entries -> Nat]
    BY <1>0, <1>4, <2>1 DEF Drop, TypeOK
  <2> QED
    BY <1>4, <2>2, <2>3 DEF Drop, TypeOK, fileVars
<1>5. CASE TryLock(a) \/ Receive(a) \/ GiveUp(a) \/ Cancel(a)
  BY <1>5 DEF TryLock, Receive, GiveUp, Cancel, Take, Goto, TypeOK, Labels, lockVars, fileVars
<1>6. CASE CheckCtx(a) \/ Unlock(a)
  <2>1. mine[a] \in Entries
    BY <1>0, <1>6 DEF CheckCtx, Unlock, PathInv, Referenced
  <2> QED
    BY <1>6, <2>1 DEF CheckCtx, Unlock, Goto, TypeOK, Labels, lockVars, fileVars
<1> QED
  BY <1>2, <1>3, <1>4, <1>5, <1>6

\* So do the users of the file, a crash and the world.
LEMMA FileTypes ==
  ASSUME TypeOK,
         \/ \E a \in Calls :
              \/ Stat(a) \/ Open(a) \/ Reopened(a) \/ Flock(a) \/ CheckSame(a)
              \/ Fail(a) \/ Rename(a) \/ Link(a) \/ Unlink(a) \/ RemoveSide(a) \/ Close(a)
         \/ \E p \in Procs : Crash(p)
         \/ UserRemoves
  PROVE  TypeOK'
<1>1. ASSUME NEW a \in Calls, Open(a) PROVE TypeOK'
  <2>1. FreshInode \in Inodes
    BY FreshInodeIsFree
  <2>2. pc' \in [Calls -> Labels] /\ part' \in Inodes \cup {None}
    BY <1>1, <2>1 DEF Open, Goto, TypeOK, Labels
  <2>3. fd' \in [Calls -> Inodes \cup {None}]
    BY <1>1, <2>2 DEF Open, TypeOK
  <2> QED
    BY <1>1, <2>2, <2>3 DEF Open, TypeOK, lockVars
<1>2. ASSUME NEW a \in Calls, Reopened(a) PROVE TypeOK'
  <2>1. pc' \in [Calls -> Labels]
    <3>1. CASE part = fd[a]
      BY <1>2, <3>1 DEF Reopened, Goto, TypeOK, Labels
    <3>2. CASE part # fd[a]
      BY <1>2, <3>2 DEF Reopened, Goto, TypeOK, Labels
    <3> QED
      BY <3>1, <3>2
  <2>2. fd' \in [Calls -> Inodes \cup {None}]
    BY <1>2 DEF Reopened, TypeOK
  <2> QED
    BY <1>2, <2>1, <2>2 DEF Reopened, TypeOK, lockVars
<1>3. ASSUME NEW a \in Calls, Stat(a) \/ Flock(a) \/ CheckSame(a) \/ Fail(a) PROVE TypeOK'
  BY <1>3 DEF Stat, Flock, CheckSame, Fail, Goto, TypeOK, Labels, lockVars, fileVars
<1>4. ASSUME NEW a \in Calls, Rename(a) \/ Link(a) \/ Unlink(a) PROVE TypeOK'
  BY <1>4 DEF Rename, Link, Unlink, Goto, TypeOK, Labels, lockVars, fileVars
<1>5. ASSUME NEW a \in Calls, RemoveSide(a) \/ Close(a) PROVE TypeOK'
  BY <1>5 DEF RemoveSide, Close, Goto, TypeOK, Labels, lockVars, fileVars
<1>6. ASSUME NEW p \in Procs, Crash(p) PROVE TypeOK'
  <2>1. /\ pc' \in [Calls -> Labels] /\ job' \in [Calls -> Jobs] /\ ctx' \in SUBSET Calls
        /\ mine' \in [Calls -> Entries \cup {None}] /\ fd' \in [Calls -> Inodes \cup {None}]
    BY <1>6 DEF Crash, TypeOK, Labels, Jobs
  <2>2. /\ locks' \in [Procs -> Entries \cup {None}] /\ refs' \in [Entries -> Nat]
        /\ token' \in SUBSET Entries /\ locked' \in SUBSET Calls
    BY <1>6 DEF Crash, TypeOK
  <2> QED
    BY <1>6, <2>1, <2>2 DEF Crash, TypeOK
<1>7. CASE UserRemoves
  BY <1>7 DEF UserRemoves, TypeOK, lockVars
<1> QED
  BY <1>1, <1>2, <1>3, <1>4, <1>5, <1>6, <1>7

\* The steps of the path lock happen away from the file.
LEMMA PathStep ==
  ASSUME Inv, NEW a \in Calls,
         \/ Begin(a) \/ TryLock(a) \/ Again(a) \/ Receive(a) \/ GiveUp(a)
         \/ CheckCtx(a) \/ Unlock(a) \/ Drop(a)
  PROVE  PathInv' /\ FileInv'
<1> USE DEF Inv
<1>1. CASE Begin(a)
  <2>1. PICK l \in {"try", "wait"} : Goto(a, l)
    BY <1>1 DEF Begin
  <2>2. PathInv'
    BY <1>1, <2>1, JoinKeepsPath, MakeKeepsPath DEF Begin
  <2>3. FileInv'
    BY <1>1, <2>1, FarKeepsFile DEF Begin, Goto, Opened, Closing
  <2> QED
    BY <2>2, <2>3
<1>2. CASE Again(a)
  <2>1. PathInv'
    BY <1>2, JoinKeepsPath, MakeKeepsPath DEF Again
  <2>2. FileInv'
    BY <1>2, FarKeepsFile DEF Again, Goto, Opened, Closing
  <2> QED
    BY <2>1, <2>2
<1>3. CASE TryLock(a) \/ Receive(a)
  <2>1. CASE Take(a)
    <3>1. PathInv'
      BY <1>3, <2>1, TakeKeepsPath DEF TryLock, Receive
    <3>2. FileInv'
      BY <1>3, <2>1, FarKeepsFile DEF TryLock, Receive, Take, Goto, Opened, Closing
    <3> QED
      BY <3>1, <3>2
  <2>2. CASE TryLock(a) /\ Goto(a, "lost") /\ UNCHANGED token
    <3>1. PathInv'
      BY <2>2, StayKeepsPath DEF TryLock, Goto, lockVars
    <3>2. FileInv'
      BY <2>2, FarKeepsFile DEF TryLock, Goto, Opened, Closing
    <3> QED
      BY <3>1, <3>2
  <2> QED
    BY <1>3, <2>1, <2>2 DEF TryLock, Receive
<1>4. CASE GiveUp(a)
  <2>1. PathInv'
    BY <1>4, StayKeepsPath DEF GiveUp, Goto
  <2>2. FileInv'
    BY <1>4, FarKeepsFile DEF GiveUp, Goto, Opened, Closing
  <2> QED
    BY <2>1, <2>2
<1>5. CASE CheckCtx(a)
  <2>1. CASE a \in ctx
    <3>1. PathInv'
      BY <1>5, <2>1, GiveKeepsPath DEF CheckCtx, Holding
    <3>2. FileInv'
      BY <1>5, <2>1, FarKeepsFile DEF CheckCtx, Goto, Opened, Closing
    <3> QED
      BY <3>1, <3>2
  <2>2. CASE a \notin ctx
    <3>1. PathInv'
      BY <1>5, <2>2, StayKeepsPath DEF CheckCtx, Goto, Holding, lockVars
    <3>2. FileInv'
      BY <1>5, <2>2, FarKeepsFile DEF CheckCtx, Goto, Opened, Closing
    <3> QED
      BY <3>1, <3>2
  <2> QED
    BY <2>1, <2>2
<1>6. CASE Unlock(a)
  <2>1. PathInv'
    BY <1>6, GiveKeepsPath DEF Unlock, Holding
  <2>2. FileInv'
    BY <1>6, FarKeepsFile DEF Unlock, Goto, Opened, Closing
  <2> QED
    BY <2>1, <2>2
<1>7. CASE Drop(a)
  <2>1. PathInv'
    BY <1>7, DropKeepsPath
  <2>2. PICK l \in {"again", "idle"} : Goto(a, l)
    BY <1>7 DEF Drop
  <2>3. FileInv'
    BY <1>7, <2>2, FarKeepsFile DEF Drop, Goto, Opened, Closing
  <2> QED
    BY <2>1, <2>3
<1> QED
  BY <1>1, <1>2, <1>3, <1>4, <1>5, <1>6, <1>7

\* The steps at the file happen while the call holds the path lock.
LEMMA FileStep ==
  ASSUME Inv, NEW a \in Calls,
         \/ Stat(a) \/ Open(a) \/ Reopened(a) \/ Flock(a) \/ CheckSame(a)
         \/ Fail(a) \/ Rename(a) \/ Link(a) \/ Unlink(a) \/ RemoveSide(a) \/ Close(a)
  PROVE  PathInv' /\ FileInv'
<1> USE DEF Inv
<1>1. PathInv'
  <2>1. pc[a] \in Holding /\ UNCHANGED lockVars
    BY DEF Stat, Open, Reopened, Flock, CheckSame, Fail, Rename, Link, Unlink,
           RemoveSide, Close, Holding
  <2>2. \E l \in Holding : Goto(a, l)
    BY DEF Stat, Open, Reopened, Flock, CheckSame, Fail, Rename, Link, Unlink,
           RemoveSide, Close, Holding
  <2> QED
    BY <2>1, <2>2, StayKeepsPath DEF Goto
<1>2. CASE Stat(a)
  BY <1>1, <1>2, FarKeepsFile DEF Stat, Goto, Opened, Closing
<1>3. CASE Open(a) \/ Reopened(a) \/ Flock(a) \/ Close(a)
  BY <1>1, <1>3, OpenKeepsFile, ReopenedKeepsFile, FlockKeepsFile, CloseKeepsFile
<1>4. CASE CheckSame(a) \/ Fail(a) \/ Link(a) \/ RemoveSide(a)
  <2>1. UNCHANGED <<fd, locked, part>> /\ pc[a] \in Locking \cup Closing
    BY <1>4 DEF CheckSame, Fail, Link, RemoveSide, fileVars, Locking, Closing
  <2>2. pc[a] = "own" => fd[a] = part
    BY DEF FileInv, OwnsName, Owners
  <2>3. \E l \in {"own", "unlink", "close"} :
          /\ Goto(a, l)
          /\ l # "close" => pc[a] \in Locking /\ part = fd[a]
    BY <1>4, <2>2 DEF CheckSame, Fail, Link, RemoveSide, Locking
  <2> QED
    BY <1>1, <2>1, <2>3, OnKeepsFile DEF Goto, Locking, Closing
<1>5. CASE Rename(a) \/ Unlink(a)
  <2>1. a \in Owners /\ Goto(a, "rmside") /\ UNCHANGED <<fd, locked>>
    BY <1>5 DEF Rename, Unlink, Owners
  <2> QED
    BY <1>1, <2>1, NameGoneKeepsFile DEF Goto
<1> QED
  BY <1>2, <1>3, <1>4, <1>5

\* Cancellations and removals of the destination leave both locks alone.
LEMMA WorldStep ==
  ASSUME Inv, (\E a \in Calls : Cancel(a)) \/ UserRemoves \/ UNCHANGED vars
  PROVE  PathInv' /\ FileInv'
<1>1. /\ pc' = pc /\ mine' = mine /\ locks' = locks /\ refs' = refs /\ token' = token
      /\ fd' = fd /\ locked' = locked /\ part' = part
  BY DEF Cancel, UserRemoves, vars, lockVars, fileVars
<1>2. PathInv'
  BY <1>1 DEF Inv, PathInv, Referenced, Registered, Apart, Counted, Users, Used,
              OneToken, NoTokenLost
<1>3. FileInv'
  BY <1>1 DEF Inv, FileInv, OpenInTime, LockInTime, Exclusive, OwnsName, Owners
<1> QED
  BY <1>2, <1>3

\* The invariant holds at the start,
LEMMA InitInv == Init => Inv
<1> SUFFICES ASSUME Init PROVE Inv
  OBVIOUS
<1>1. TypeOK
  BY DEF Init, TypeOK, Labels, Jobs
<1>2. Counted
  <2>1. \A e \in Entries : Users(e) = {}
    BY CallsFinite DEF Init, Users, Entries, None
  <2> QED
    BY <2>1, FS_EmptySet DEF Init, Counted
<1>3. PathInv
  BY <1>2 DEF Init, PathInv, Referenced, Registered, Apart, Used, OneToken, NoTokenLost, Holding
<1>4. FileInv
  BY DEF Init, FileInv, OpenInTime, LockInTime, Exclusive, OwnsName, Owners,
         Opened, Locking
<1> QED
  BY <1>1, <1>3, <1>4 DEF Inv

\* and at every step.
LEMMA StepInv == Inv /\ [Next]_vars => Inv'
<1> SUFFICES ASSUME Inv, [Next]_vars PROVE Inv'
  OBVIOUS
<1> USE DEF Inv
<1>1. ASSUME NEW a \in Calls,
             \/ Begin(a) \/ TryLock(a) \/ Again(a) \/ Receive(a) \/ GiveUp(a)
             \/ CheckCtx(a) \/ Unlock(a) \/ Drop(a)
      PROVE  Inv'
  BY <1>1, PathTypes, PathStep
<1>2. ASSUME NEW a \in Calls,
             \/ Stat(a) \/ Open(a) \/ Reopened(a) \/ Flock(a) \/ CheckSame(a)
             \/ Fail(a) \/ Rename(a) \/ Link(a) \/ Unlink(a) \/ RemoveSide(a) \/ Close(a)
      PROVE  Inv'
  BY <1>2, FileTypes, FileStep
<1>3. ASSUME NEW a \in Calls, Cancel(a) PROVE Inv'
  BY <1>3, PathTypes, WorldStep
<1>4. ASSUME NEW p \in Procs, Crash(p) PROVE Inv'
  BY <1>4, FileTypes, CrashKeepsPath, CrashKeepsFile
<1>5. CASE UserRemoves
  BY <1>5, FileTypes, WorldStep
<1>6. CASE UNCHANGED vars
  <2>1. TypeOK'
    BY <1>6 DEF TypeOK, vars, lockVars, fileVars
  <2> QED
    BY <1>6, <2>1, WorldStep
<1> QED
  BY <1>1, <1>2, <1>3, <1>4, <1>5, <1>6 DEF Next, Proceed

\* The invariant of both locks, for any number of callers and processes and
\* whatever they are called for.
THEOREM OwnershipInvariant == Spec => []Inv
BY InitInv, StepInv, PTL DEF Spec

\* Whoever writes, installs or removes the staging file is alone, and the file
\* it has open is the one with the name: the flock alone would not give the
\* second, which the comparison after it does.
THEOREM StagingHasOneWriter == Spec => []OneWriter
<1>1. Inv => OneWriter
  BY OwnerAlone DEF Inv, OneWriter
<1> QED
  BY <1>1, OwnershipInvariant, PTL

\* Within a process one call at a time holds the destination, although its
\* entry leaves the registry and is made anew.
THEOREM DestinationHasOneHolder == Spec => []OneHolder
<1>1. Inv => OneHolder
  BY DEF Inv, OneHolder, PathInv, OneToken, Registered, Referenced, Holding
<1> QED
  BY <1>1, OwnershipInvariant, PTL

\* Calls of one process never meet at the flock: ErrLocked means another process.
THEOREM SiblingsNeverCollide == Spec => []SiblingsWait
<1>1. Inv => SiblingsWait
  <2> SUFFICES ASSUME Inv, NEW a \in Calls, pc[a] = "flock", NEW b \in locked,
                      fd[a] = fd[b], home[a] = home[b]
               PROVE  FALSE
    BY DEF SiblingsWait
  <2>1. b \in Calls /\ pc[b] \in Locking \cup Closing
    BY DEF Inv, TypeOK, FileInv, LockInTime
  <2>2. pc[a] \in Holding /\ pc[b] \in Holding
    BY <2>1 DEF Holding, Locking, Closing
  <2>3. mine[a] = mine[b]
    BY <2>1, <2>2 DEF Inv, PathInv, Registered, Referenced, Holding
  <2> QED
    BY <2>1, <2>2, <2>3 DEF Inv, PathInv, OneToken, Locking, Closing
<1> QED
  BY <1>1, OwnershipInvariant, PTL

\* A process without a call under way has no registry entry left.
THEOREM RegistryDoesNotLeak == Spec => []NoLeak
<1>1. Inv => NoLeak
  <2> SUFFICES ASSUME Inv, NEW p \in Procs, locks[p] # None,
                      \A a \in Calls : home[a] = p => pc[a] = "idle"
               PROVE  FALSE
    BY DEF NoLeak
  <2>1. PICK a \in Calls : mine[a] = locks[p]
    BY DEF Inv, PathInv, Used
  <2>2. home[a] = p
    BY <2>1, OwnershipAssumption DEF Inv, PathInv, Registered, Apart
  <2> QED
    BY <2>1, <2>2 DEF Inv, PathInv, Referenced
<1> QED
  BY <1>1, OwnershipInvariant, PTL

\* The token of a used entry is in the channel or with one of its users.
THEOREM TokenIsNeverLost == Spec => []NoTokenLost
<1>1. Inv => NoTokenLost
  BY DEF Inv, PathInv
<1> QED
  BY <1>1, OwnershipInvariant, PTL

=============================================================================
