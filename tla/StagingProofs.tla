--------------------------- MODULE StagingProofs ---------------------------
(***************************************************************************)
(* The files are safe over any number of downloads, deaths of the process  *)
(* and changes of the remote object, for any length and any file system.   *)
(***************************************************************************)
EXTENDS Staging, TLAPS

\* The process has the staging file open, and has yet to install it.
Working == phase \in {"open", "invalidated", "multi", "truncate", "stream", "verify", "install"}

SidecarType == [etag : Version, have : SUBSET Bytes]

RunType == [over : BOOLEAN, etag : {0} \cup Version, sum : {0} \cup Version,
            todo : SUBSET Bytes, src : {0} \cup Version]

TypeOK ==
    /\ remote \in Version
    /\ data \in [Inodes -> Seq(Int)]
    /\ part \in Inodes \cup {NoFile} /\ dest \in Inodes \cup {NoFile}
    /\ side \in SUBSET SidecarType
    /\ phase \in Phases
    /\ run \in RunType
    /\ policy \in SUBSET BOOLEAN

\* While a download runs it has the staging file open, and unless it may overwrite
\* the destination, nothing it writes is the destination's.
StagedApart ==
    /\ Working => part # NoFile
    /\ Working /\ ~run.over => dest # part
    /\ phase \in {"idle", "discard"} => run = NoRun

\* A resumed or preallocated file has its length, what is not to be fetched has
\* been, and a sidecar on disk belongs to this very run.
Fetching ==
    phase = "multi" =>
        /\ MayMultipart(run) /\ run.src = 0
        /\ Len(Content) = Total
        /\ run.etag # 0 => \A b \in Bytes \ run.todo : Content[b] = run.etag
        /\ \A s \in side : s.etag = run.etag /\ s.have \subseteq Bytes \ run.todo

\* There is at most one sidecar.
OneSidecar == \A s, t \in side : s = t

\* Before bytes are cleared or written afresh the sidecar is gone.
SidecarGone == phase \in {"invalidated", "truncate", "stream"} => side = {}

\* A stream's bytes are all of the response being read.
Streaming ==
    /\ phase = "open" => run.src = 0
    /\ phase = "invalidated" => MayMultipart(run) /\ run.src = 0
    /\ phase \in {"truncate", "stream"} => run.src # 0
    /\ phase = "stream" =>
        /\ Len(Content) <= Total
        /\ \A k \in 1 .. Len(Content) : Content[k] = run.src

\* What goes to be verified is of one version, or is about to be compared with
\* a checksum.
Fetched ==
    phase = "verify" =>
        /\ run.src # 0 => Content = Whole(run.src)
        /\ run.src = 0 => MayMultipart(run)
        /\ run.src = 0 /\ run.etag # 0 => Content = Whole(run.etag)

\* What goes to be installed is one version, whole.
Installable == phase = "install" => \E v \in Version : Content = Whole(v)

Inv ==
    /\ TypeOK /\ StagedApart /\ OneSidecar /\ SidecarGone
    /\ Fetching /\ Streaming /\ Fetched /\ Installable /\ SidecarHonest

\* While each caller overwrites or none does, no name of the staging file in use
\* is a name of the destination.
DestApart ==
    /\ TRUE \notin policy \/ FALSE \notin policy
    /\ Working => run.over \in policy /\ dest # part
    /\ TRUE \in policy => dest # part \/ part = NoFile
    /\ phase = "unlink" => TRUE \notin policy

DestInv == Inv /\ DestApart /\ DestIsWhole
-----------------------------------------------------------------------------
(* Files *)

\* What the assumptions say of the constants.
LEMMA Constants ==
    /\ Total \in Nat /\ Total > 0 /\ Versions \in Nat
    /\ NoFile \notin Inodes /\ 0 \notin Version
BY StagingAssumption DEF Version

\* A whole version is a file of the right length.
LEMMA WholeIsFile ==
    ASSUME NEW v \in Int
    PROVE  /\ Whole(v) \in Seq(Int) /\ Len(Whole(v)) = Total
           /\ \A b \in Bytes : Whole(v)[b] = v
<1>1. Whole(v) = [b \in 1 .. Total |-> v]
  BY DEF Whole, Bytes
<1>2. [b \in 1 .. Total |-> v] \in Seq(Int) /\ Len([b \in 1 .. Total |-> v]) = Total
  BY Constants
<1> QED BY <1>1, <1>2 DEF Bytes

\* A file of the right length and of one version is that version, whole.
LEMMA FileIsWhole ==
    ASSUME NEW f \in Seq(Int), NEW v \in Int, Len(f) = Total, \A b \in Bytes : f[b] = v
    PROVE  f = Whole(v)
<1>1. f = [b \in 1 .. Len(f) |-> f[b]]
  OBVIOUS
<1> QED BY <1>1 DEF Whole, Bytes

\* A write changes the staging file and no other.
LEMMA Written ==
    ASSUME TypeOK, part \in Inodes, NEW f \in Seq(Int), Write(f), part' = part
    PROVE  /\ Content' = f
           /\ data' \in [Inodes -> Seq(Int)]
           /\ \A i \in Inodes \ {part} : data'[i] = data[i]
BY DEF TypeOK, Write, Content

\* The staging file is a file.
LEMMA ContentIsFile ==
    ASSUME TypeOK, part \in Inodes
    PROVE  /\ Content \in Seq(Int) /\ Len(Content) \in Nat
           /\ \A k \in 1 .. Len(Content) : Content[k] \in Int
<1>1. Content \in Seq(Int)
  BY DEF TypeOK, Content
<1> QED BY <1>1

\* The file under the staging name is as it was.
FileStays == data' = data /\ part' = part

\* Its content is then as it was.
LEMMA ContentStays == FileStays => Content' = Content
BY DEF FileStays, Content

-----------------------------------------------------------------------------
(* Every step keeps the invariant. *)

\* Before the first download there are no files.
LEMMA StagingBegins == Init => Inv
<1> SUFFICES ASSUME Init PROVE Inv
  OBVIOUS
<1>1. TypeOK
  BY Constants, StagingAssumption DEF Init, TypeOK, Version, Phases, RunType, NoRun, SidecarType
<1>2. StagedApart /\ Fetching /\ OneSidecar /\ SidecarGone /\ Streaming /\ Fetched
      /\ Installable /\ SidecarHonest
  BY DEF Init, OneSidecar, StagedApart, Working, Fetching, SidecarGone, Streaming, Fetched, Installable,
     SidecarHonest, NoFile
<1> QED BY <1>1, <1>2 DEF Inv

\* A download opens the staging file, which an earlier one has left or is new and empty.
LEMMA BeginStep ==
    ASSUME Inv, Begin
    PROVE  Inv'
<1> USE DEF Inv
<1>1. /\ phase = "idle" /\ phase' = "open" /\ UNCHANGED <<remote, dest, side, policy>>
  BY DEF Begin, Goto
<1>2. PICK over \in policy, etag \in {0, remote}, sum \in {0} \cup Version :
         /\ over \/ dest = NoFile
         /\ run' = [over |-> over, etag |-> etag, sum |-> sum, todo |-> {}, src |-> 0]
  BY DEF Begin
<1>3. run' \in RunType /\ run'.over = over /\ run'.src = 0
  BY <1>2 DEF TypeOK, RunType
<1>4. /\ part' \in Inodes /\ data' \in [Inodes -> Seq(Int)]
      /\ FileStays \/ Content' = <<>>
  <2>1. CASE part = NoFile
    <3>1. PICK i \in Inodes \ {dest} : part' = i /\ data' = [data EXCEPT ![i] = <<>>]
      BY <2>1 DEF Begin
    <3>2. <<>> \in Seq(Int)
      OBVIOUS
    <3> QED BY <3>1, <3>2 DEF TypeOK, Content
  <2>2. CASE part # NoFile
    BY <2>2 DEF Begin, TypeOK, FileStays
  <2> QED BY <2>1, <2>2
<1>5. TypeOK'
  BY <1>1, <1>3, <1>4 DEF TypeOK, Phases
<1>6. StagedApart'
  BY <1>1, <1>2, <1>3, <1>4, Constants DEF StagedApart, Working
<1>7. Fetching' /\ OneSidecar' /\ SidecarGone' /\ Streaming' /\ Fetched' /\ Installable'
  BY <1>1, <1>3 DEF Fetching, OneSidecar, SidecarGone, Streaming, Fetched, Installable
<1>8. SidecarHonest'
  <2>1. CASE FileStays
    BY <1>1, <2>1, ContentStays DEF SidecarHonest, FileStays
  <2>2. CASE Content' = <<>>
    BY <1>1, <2>2, Constants DEF SidecarHonest
  <2> QED BY <1>4, <2>1, <2>2
<1> QED BY <1>5, <1>6, <1>7, <1>8

\* A resumed run fetches what the sidecar, which is honest, does not vouch for.
LEMMA ResumeStep ==
    ASSUME Inv, Resume
    PROVE  Inv'
<1> USE DEF Inv
<1>1. /\ phase = "open" /\ MayMultipart(run) /\ phase' = "multi"
      /\ UNCHANGED <<remote, data, part, dest, side, policy>>
  BY DEF Resume, Goto
<1>2. PICK s \in side : Usable(s) /\ run' = [run EXCEPT !.todo = Bytes \ s.have]
  BY DEF Resume
<1>3. s \in SidecarType /\ run \in RunType
  BY <1>2 DEF TypeOK
<1>4. /\ run' \in RunType /\ run'.over = run.over /\ run'.etag = run.etag /\ run'.sum = run.sum
      /\ run'.src = 0 /\ run'.todo = Bytes \ s.have
  BY <1>1, <1>2, <1>3 DEF RunType, Streaming
<1>5. Content' = Content
  BY <1>1 DEF Content
<1>6. TypeOK'
  BY <1>1, <1>4 DEF TypeOK, Phases
<1>7. StagedApart' /\ OneSidecar' /\ SidecarGone' /\ Streaming' /\ Fetched' /\ Installable'
  BY <1>1, <1>4 DEF OneSidecar, StagedApart, Working, SidecarGone, Streaming, Fetched, Installable
<1>8. Fetching'
  <2>1. MayMultipart(run)' /\ Len(Content) = Total /\ s.etag = run.etag
    BY <1>1, <1>2, <1>4 DEF MayMultipart, Resumable, Usable
  <2>2. \A b \in s.have : Content[b] = run.etag
    BY <1>1, <1>2, <2>1 DEF SidecarHonest, StagedApart, Working
  <2>3. \A t \in side : t = s
    BY <1>2 DEF OneSidecar
  <2>4. s.have \subseteq Bytes \ (Bytes \ s.have)
    BY <1>3 DEF SidecarType
  <2> QED BY <1>1, <1>4, <1>5, <2>1, <2>2, <2>3, <2>4 DEF Fetching
<1>9. SidecarHonest'
  BY <1>1, <1>5 DEF SidecarHonest
<1> QED BY <1>6, <1>7, <1>8, <1>9

\* A fresh start: the sidecar goes first.
LEMMA InvalidateStep ==
    ASSUME Inv, Invalidate
    PROVE  Inv'
<1> USE DEF Inv
<1>1. /\ phase = "open" /\ MayMultipart(run) /\ phase' = "invalidated" /\ side' = {}
      /\ UNCHANGED <<remote, data, part, dest, run, policy>>
  BY DEF Invalidate, Goto
<1>2. TypeOK'
  BY <1>1 DEF TypeOK, Phases
<1>3. StagedApart' /\ OneSidecar' /\ SidecarGone' /\ SidecarHonest'
  BY <1>1 DEF StagedApart, Working, OneSidecar, SidecarGone, SidecarHonest
<1>4. Fetching' /\ Streaming' /\ Fetched' /\ Installable'
  BY <1>1 DEF Fetching, Streaming, Fetched, Installable, MayMultipart, Resumable
<1> QED BY <1>2, <1>3, <1>4

\* The file gets its length; what it already has is not trusted.
LEMMA PreallocateStep ==
    ASSUME Inv, Preallocate
    PROVE  Inv'
<1> USE DEF Inv
<1> DEFINE padded == [b \in Bytes |-> IF b <= Len(Content) THEN Content[b] ELSE Hole]
<1>1. /\ phase = "invalidated" /\ phase' = "multi" /\ Write(padded)
      /\ run' = [run EXCEPT !.todo = Bytes]
      /\ UNCHANGED <<remote, part, dest, side, policy>>
  BY DEF Preallocate, Goto
<1>2. part \in Inodes
  BY <1>1 DEF TypeOK, StagedApart, Working
<1>3. padded \in Seq(Int) /\ Len(padded) = Total
  <2>1. padded \in [1 .. Total -> Int]
    BY <1>2, ContentIsFile DEF Bytes, Hole
  <2> HIDE DEF padded
  <2> QED BY <2>1, Constants
<1> HIDE DEF padded
<1>4. /\ Content' = padded /\ data' \in [Inodes -> Seq(Int)]
  BY <1>1, <1>2, <1>3, Written
<1>5. /\ run' \in RunType /\ run'.over = run.over /\ run'.etag = run.etag /\ run'.sum = run.sum
      /\ run'.src = run.src /\ run'.todo = Bytes
  BY <1>1 DEF TypeOK, RunType
<1>6. TypeOK'
  BY <1>1, <1>4, <1>5 DEF TypeOK, Phases
<1>7. StagedApart' /\ OneSidecar' /\ SidecarGone' /\ SidecarHonest' /\ side' = {}
  BY <1>1, <1>5 DEF StagedApart, Working, OneSidecar, SidecarGone, SidecarHonest
<1>8. Fetching' /\ Streaming' /\ Fetched' /\ Installable'
  BY <1>1, <1>3, <1>4, <1>5, <1>7
     DEF Fetching, Streaming, Fetched, Installable, MayMultipart, Resumable
<1> QED BY <1>6, <1>7, <1>8

\* A byte arrives; it is none that a sidecar vouches for.
LEMMA FetchStep ==
    ASSUME Inv, NEW b \in Bytes, Fetch(b)
    PROVE  Inv'
<1> USE DEF Inv
<1>1. /\ phase = "multi" /\ b \in run.todo
      /\ run' = [run EXCEPT !.todo = @ \ {b}]
      /\ UNCHANGED <<remote, part, dest, side, phase, policy>>
  BY DEF Fetch
<1>2. PICK v \in 1 .. remote : run.etag \in {0, v} /\ Write([Content EXCEPT ![b] = v])
  BY DEF Fetch
<1>3. part \in Inodes /\ v \in Int
  BY <1>1, <1>2 DEF TypeOK, StagedApart, Working, Version
<1>4. Content \in Seq(Int) /\ Len(Content) = Total /\ b \in 1 .. Len(Content)
  BY <1>1, <1>3, ContentIsFile DEF Fetching, Bytes
<1>5. /\ [Content EXCEPT ![b] = v] \in Seq(Int) /\ Len([Content EXCEPT ![b] = v]) = Total
      /\ \A c \in Bytes : [Content EXCEPT ![b] = v][c] = IF c = b THEN v ELSE Content[c]
  BY <1>3, <1>4 DEF Bytes
<1>6. /\ Content' = [Content EXCEPT ![b] = v] /\ data' \in [Inodes -> Seq(Int)]
  BY <1>1, <1>2, <1>3, <1>5, Written
<1>7. /\ run' \in RunType /\ run'.over = run.over /\ run'.etag = run.etag /\ run'.sum = run.sum
      /\ run'.src = run.src /\ run'.todo = run.todo \ {b} /\ run.todo \subseteq Bytes
  BY <1>1 DEF TypeOK, RunType
<1>8. TypeOK'
  BY <1>1, <1>6, <1>7 DEF TypeOK
<1>9. Fetching'
  BY <1>1, <1>2, <1>5, <1>6, <1>7 DEF Fetching, MayMultipart, Resumable
<1>10. SidecarHonest'
  <2> SUFFICES ASSUME NEW s \in side, NEW c \in s.have PROVE Content'[c] = s.etag
    BY <1>1 DEF SidecarHonest
  <2>1. c \in Bytes /\ c # b
    BY <1>1 DEF Fetching
  <2>2. Content[c] = s.etag
    BY <1>1, <1>3, <1>4, Constants DEF SidecarHonest
  <2> QED BY <1>5, <1>6, <2>1, <2>2
<1>11. StagedApart' /\ OneSidecar' /\ SidecarGone' /\ Streaming' /\ Fetched' /\ Installable'
  BY <1>1, <1>7 DEF StagedApart, Working, OneSidecar, SidecarGone, Streaming, Fetched, Installable
<1> QED BY <1>8, <1>9, <1>10, <1>11

\* What is fetched is vouched for, by the validator it was fetched with.
LEMMA SaveSidecarStep ==
    ASSUME Inv, SaveSidecar
    PROVE  Inv'
<1> USE DEF Inv
<1> DEFINE saved == [etag |-> run.etag, have |-> Bytes \ run.todo]
<1>1. /\ phase = "multi" /\ run.etag # 0 /\ side' = {saved}
      /\ UNCHANGED <<remote, data, part, dest, phase, run, policy>>
  BY DEF SaveSidecar, Resumable
<1>2. saved \in SidecarType /\ saved.etag = run.etag /\ saved.have = Bytes \ run.todo
  BY <1>1 DEF TypeOK, RunType, SidecarType
<1> HIDE DEF saved
<1>3. Content' = Content
  BY <1>1 DEF Content
<1>4. TypeOK'
  BY <1>1, <1>2 DEF TypeOK
<1>5. SidecarHonest' /\ OneSidecar' /\ Fetching'
  BY <1>1, <1>2, <1>3 DEF SidecarHonest, OneSidecar, Fetching
<1>6. StagedApart' /\ SidecarGone' /\ Streaming' /\ Fetched' /\ Installable'
  BY <1>1 DEF StagedApart, Working, SidecarGone, Streaming, Fetched, Installable
<1> QED BY <1>4, <1>5, <1>6

\* Everything is fetched: with a validator it is all of one version.
LEMMA CompleteStep ==
    ASSUME Inv, Complete
    PROVE  Inv'
<1> USE DEF Inv
<1>1. /\ phase = "multi" /\ run.todo = {} /\ phase' = "verify"
      /\ UNCHANGED <<remote, data, part, dest, side, run, policy>>
  BY DEF Complete, Goto
<1>2. part \in Inodes
  BY <1>1 DEF TypeOK, StagedApart, Working
<1>3. Content' = Content /\ Content \in Seq(Int)
  BY <1>1, <1>2, ContentIsFile DEF Content
<1>4. TypeOK'
  BY <1>1 DEF TypeOK, Phases
<1>5. Fetched'
  <2>1. MayMultipart(run)' /\ run'.src = 0
    BY <1>1 DEF Fetching, MayMultipart, Resumable
  <2>2. ASSUME run.etag # 0 PROVE Content = Whole(run.etag)
    <3>1. \A b \in Bytes : Content[b] = run.etag
      BY <1>1, <2>2 DEF Fetching
    <3>2. Len(Content) = Total /\ run.etag \in Int
      BY <1>1 DEF Fetching, TypeOK, RunType, Version
    <3> QED BY <1>3, <3>1, <3>2, FileIsWhole
  <2>3. Whole(run.etag)' = Whole(run.etag)
    BY <1>1 DEF Whole
  <2> QED BY <1>1, <1>3, <2>1, <2>2, <2>3 DEF Fetched
<1>6. StagedApart' /\ OneSidecar' /\ SidecarGone' /\ Fetching' /\ Streaming' /\ Installable'
  BY <1>1 DEF StagedApart, Working, OneSidecar, SidecarGone, Fetching, Streaming, Installable
<1>7. SidecarHonest'
  BY <1>1, <1>3 DEF SidecarHonest
<1> QED BY <1>4, <1>5, <1>6, <1>7

\* A response to stream: the sidecar goes before the file does.
LEMMA StreamBeginsStep ==
    ASSUME Inv, StreamBegins
    PROVE  Inv'
<1> USE DEF Inv
<1>1. /\ phase \in {"open", "stream"} /\ phase' = "truncate" /\ side' = {}
      /\ UNCHANGED <<remote, data, part, dest, policy>>
  BY DEF StreamBegins, Goto
<1>2. PICK v \in IF phase = "open" THEN 1 .. remote ELSE {remote} :
         run' = [run EXCEPT !.src = v]
  BY DEF StreamBegins
<1>3. v \in Version /\ v # 0
  <2>1. remote \in 1 .. Versions /\ Versions \in Nat
    BY Constants DEF TypeOK, Version
  <2>2. v \in 1 .. remote
    BY <1>2, <2>1
  <2> QED BY <2>1, <2>2 DEF Version
<1>4. run' \in RunType /\ run'.over = run.over /\ run'.src = v
  BY <1>2, <1>3 DEF TypeOK, RunType
<1>5. TypeOK'
  BY <1>1, <1>4 DEF TypeOK, Phases
<1>6. StagedApart' /\ OneSidecar' /\ SidecarGone' /\ SidecarHonest'
  BY <1>1, <1>4 DEF StagedApart, Working, OneSidecar, SidecarGone, SidecarHonest
<1>7. Fetching' /\ Streaming' /\ Fetched' /\ Installable'
  BY <1>1, <1>3, <1>4 DEF Fetching, Streaming, Fetched, Installable
<1> QED BY <1>5, <1>6, <1>7

\* An attempt starts the file over, whatever is in it.
LEMMA TruncateAllStep ==
    ASSUME Inv, TruncateAll
    PROVE  Inv'
<1> USE DEF Inv
<1>1. /\ phase = "truncate" /\ phase' = "stream" /\ Write(<<>>)
      /\ UNCHANGED <<remote, part, dest, side, run, policy>>
  BY DEF TruncateAll, Goto
<1>2. part \in Inodes /\ <<>> \in Seq(Int)
  BY <1>1 DEF TypeOK, StagedApart, Working
<1>3. Content' = <<>> /\ data' \in [Inodes -> Seq(Int)]
  BY <1>1, <1>2, Written
<1>4. TypeOK'
  BY <1>1, <1>3 DEF TypeOK, Phases
<1>5. StagedApart' /\ OneSidecar' /\ SidecarGone' /\ SidecarHonest'
  BY <1>1 DEF StagedApart, Working, OneSidecar, SidecarGone, SidecarHonest
<1>6. Fetching' /\ Streaming' /\ Fetched' /\ Installable'
  BY <1>1, <1>3, Constants DEF Fetching, Streaming, Fetched, Installable
<1> QED BY <1>4, <1>5, <1>6

\* A byte of the stream is one more of its response's version.
LEMMA StreamByteStep ==
    ASSUME Inv, StreamByte
    PROVE  Inv'
<1> USE DEF Inv
<1>1. /\ phase = "stream" /\ Len(Content) < Total /\ Write(Append(Content, run.src))
      /\ UNCHANGED <<remote, part, dest, side, phase, run, policy>>
  BY DEF StreamByte
<1>2. part \in Inodes /\ run.src \in Int
  BY <1>1 DEF TypeOK, StagedApart, Working, RunType, Version
<1>3. Content \in Seq(Int) /\ Len(Content) \in Nat
  BY <1>2, ContentIsFile
<1>4. /\ Append(Content, run.src) \in Seq(Int)
      /\ Len(Append(Content, run.src)) = Len(Content) + 1
      /\ \A k \in 1 .. Len(Content) + 1 :
            Append(Content, run.src)[k] = IF k <= Len(Content) THEN Content[k] ELSE run.src
  BY <1>2, <1>3
<1>5. Content' = Append(Content, run.src) /\ data' \in [Inodes -> Seq(Int)]
  BY <1>1, <1>2, <1>4, Written
<1>6. TypeOK'
  BY <1>1, <1>5 DEF TypeOK
<1>7. Streaming'
  <2>1. Len(Content') <= Total /\ Len(Content') = Len(Content) + 1
    BY <1>1, <1>3, <1>4, <1>5, Constants
  <2>2. \A k \in 1 .. Len(Content') : Content'[k] = run.src
    BY <1>1, <1>3, <1>4, <1>5, <2>1 DEF Streaming
  <2> QED BY <1>1, <2>1, <2>2 DEF Streaming
<1>8. StagedApart' /\ OneSidecar' /\ SidecarGone' /\ SidecarHonest'
  BY <1>1 DEF StagedApart, Working, OneSidecar, SidecarGone, SidecarHonest
<1>9. Fetching' /\ Fetched' /\ Installable'
  BY <1>1 DEF Fetching, Fetched, Installable
<1> QED BY <1>6, <1>7, <1>8, <1>9

\* A stream that has the length is one version, whole.
LEMMA StreamEndsStep ==
    ASSUME Inv, StreamEnds
    PROVE  Inv'
<1> USE DEF Inv
<1>1. /\ phase = "stream" /\ Len(Content) = Total /\ phase' = "verify"
      /\ UNCHANGED <<remote, data, part, dest, side, run, policy>>
  BY DEF StreamEnds, Goto
<1>2. part \in Inodes /\ run.src \in Int /\ run.src # 0
  BY <1>1 DEF TypeOK, StagedApart, Working, RunType, Version, Streaming
<1>3. Content' = Content /\ Content \in Seq(Int)
  BY <1>1, <1>2, ContentIsFile DEF Content
<1>4. Content = Whole(run.src)
  <2>1. \A b \in Bytes : Content[b] = run.src
    BY <1>1 DEF Streaming, Bytes
  <2> QED BY <1>1, <1>2, <1>3, <2>1, FileIsWhole
<1>5. TypeOK'
  BY <1>1 DEF TypeOK, Phases
<1>6. Fetched'
  BY <1>1, <1>2, <1>3, <1>4 DEF Fetched, Whole
<1>7. StagedApart' /\ OneSidecar' /\ SidecarGone' /\ SidecarHonest'
  BY <1>1 DEF StagedApart, Working, OneSidecar, SidecarGone, SidecarHonest
<1>8. Fetching' /\ Streaming' /\ Installable'
  BY <1>1 DEF Fetching, Streaming, Installable
<1> QED BY <1>5, <1>6, <1>7, <1>8

\* What does not match its checksum is kept, and vouched for if it can be resumed.
LEMMA VerifyStep ==
    ASSUME Inv, Verify
    PROVE  Inv'
<1> USE DEF Inv
<1>1. /\ phase = "verify" /\ Len(Content) = Total
      /\ UNCHANGED <<remote, data, part, dest, policy>>
  BY DEF Verify
<1>2. part \in Inodes /\ Content' = Content
  BY <1>1 DEF TypeOK, StagedApart, Working, Content
<1>3. CASE Verified
  <2>1. phase' = "install" /\ UNCHANGED <<side, run>>
    BY <1>3 DEF Verify, Goto
  <2>2. PICK v \in Version : Content = Whole(v)
    <3>1. CASE run.sum # 0
      BY <1>3, <3>1 DEF Verified, TypeOK, RunType
    <3>2. CASE run.sum = 0 /\ run.src # 0
      BY <1>1, <3>2 DEF Fetched, TypeOK, RunType
    <3>3. CASE run.sum = 0 /\ run.src = 0
      BY <1>1, <3>3 DEF Fetched, MayMultipart, Resumable, TypeOK, RunType
    <3> QED BY <3>1, <3>2, <3>3
  <2>3. Installable'
    BY <1>2, <2>1, <2>2 DEF Installable, Whole
  <2>4. TypeOK'
    BY <1>1, <2>1 DEF TypeOK, Phases
  <2>5. StagedApart' /\ OneSidecar' /\ SidecarGone' /\ SidecarHonest'
    BY <1>1, <1>2, <2>1 DEF StagedApart, Working, OneSidecar, SidecarGone, SidecarHonest
  <2>6. Fetching' /\ Streaming' /\ Fetched'
    BY <2>1 DEF Fetching, Streaming, Fetched
  <2> QED BY <2>3, <2>4, <2>5, <2>6
<1>4. CASE ~Verified
  <2> DEFINE complete == [etag |-> run.etag, have |-> Bytes]
  <2>1. /\ phase' = "idle" /\ run' = NoRun
        /\ side' = side \/ (run.src = 0 /\ run.etag # 0 /\ side' = {complete})
    BY <1>4 DEF Verify, Finish, Resumable
  <2>2. run.etag # 0 => complete \in SidecarType /\ complete.etag = run.etag /\ complete.have = Bytes
    BY DEF TypeOK, RunType, SidecarType
  <2> HIDE DEF complete
  <2>3. TypeOK'
    BY <1>1, <2>1, <2>2 DEF TypeOK, Phases, NoRun, RunType
  <2>4. SidecarHonest' /\ OneSidecar'
    <3>1. CASE side' = side
      BY <1>1, <1>2, <3>1 DEF SidecarHonest, OneSidecar
    <3>2. CASE run.src = 0 /\ run.etag # 0 /\ side' = {complete}
      <4>1. Content = Whole(run.etag)
        BY <1>1, <3>2 DEF Fetched
      <4>2. \A b \in Bytes : Content[b] = run.etag
        BY <4>1 DEF Whole
      <4> QED BY <1>2, <2>2, <3>2, <4>2 DEF SidecarHonest, OneSidecar
    <3> QED BY <2>1, <3>1, <3>2
  <2>5. StagedApart' /\ SidecarGone'
    BY <2>1 DEF StagedApart, Working, SidecarGone
  <2>6. Fetching' /\ Streaming' /\ Fetched' /\ Installable'
    BY <2>1 DEF Fetching, Streaming, Fetched, Installable
  <2> QED BY <2>3, <2>4, <2>5, <2>6
<1> QED BY <1>3, <1>4

\* Steps that move names, take the sidecar away or leave the download.
Renames ==
    /\ UNCHANGED <<remote, data, policy>>
    /\ part' \in {part, NoFile} /\ dest' \in {dest, part, NoFile}
    /\ side' \in {side, {}}
    /\ phase' \in {"idle", "unlink", "cleanup", "discard"}
    /\ run' \in {run, NoRun} /\ (phase' \in {"idle", "discard"} => run' = NoRun)

\* None of them touches a byte.
LEMMA RenameKeeps ==
    ASSUME Inv, Renames
    PROVE  Inv'
<1> USE DEF Inv
<1>1. part' = part => Content' = Content
  BY DEF Renames, Content
<1>2. TypeOK'
  <2>1. NoRun \in RunType
    BY DEF NoRun, RunType
  <2>2. run' \in RunType /\ phase' \in Phases /\ side' \in SUBSET SidecarType
    BY <2>1 DEF TypeOK, Renames, Phases
  <2> QED BY <2>2 DEF TypeOK, Renames
<1>3. StagedApart' /\ OneSidecar' /\ SidecarGone'
  BY DEF Renames, StagedApart, Working, OneSidecar, SidecarGone
<1>4. Fetching' /\ Streaming' /\ Fetched' /\ Installable'
  BY DEF Renames, Fetching, Streaming, Fetched, Installable
<1>5. SidecarHonest'
  BY <1>1 DEF Renames, SidecarHonest
<1> QED BY <1>2, <1>3, <1>4, <1>5

\* Installation, its end, an error, a death of the process and Discard.
LEMMA NameStep ==
    ASSUME Inv, Rename \/ Link \/ Unlink \/ Cleanup \/ Quit \/ DiscardPart \/ DiscardSide
    PROVE  Inv'
<1>1. CASE Rename
  BY <1>1, RenameKeeps DEF Rename, Renames, Goto
<1>2. CASE Link
  <2>1. CASE dest = NoFile
    BY <1>2, <2>1, RenameKeeps DEF Link, Renames, Goto
  <2>2. CASE dest # NoFile
    BY <1>2, <2>2, RenameKeeps DEF Link, Renames, Finish
  <2> QED BY <2>1, <2>2
<1>3. CASE Unlink \/ Cleanup \/ Quit
  BY <1>3, RenameKeeps DEF Unlink, Cleanup, Quit, Renames, Goto, Finish
<1>4. CASE DiscardPart \/ DiscardSide
  <2>1. run = NoRun
    BY <1>4 DEF DiscardPart, DiscardSide, Inv, StagedApart
  <2> QED BY <1>4, <2>1, RenameKeeps DEF DiscardPart, DiscardSide, Renames, Goto
<1> QED BY <1>1, <1>2, <1>3, <1>4

\* The world outside: the staging file and its sidecar stay.
LEMMA OutsideStep ==
    ASSUME Inv, RemoteChanges \/ UserRemoves \/ UserCreates
    PROVE  Inv'
<1> USE DEF Inv
<1>1. UNCHANGED <<part, side, phase, run, policy>>
  BY DEF RemoteChanges, UserRemoves, UserCreates
<1>2. remote' \in Version
  BY Constants DEF RemoteChanges, UserRemoves, UserCreates, TypeOK, Version
<1>3. /\ dest' \in Inodes \cup {NoFile} /\ (dest' = part => dest = part \/ part = NoFile)
      /\ data' \in [Inodes -> Seq(Int)] /\ (part \in Inodes => Content' = Content)
  <2>1. CASE RemoteChanges
    BY <2>1 DEF RemoteChanges, TypeOK, Content
  <2>2. CASE UserRemoves
    BY <2>2 DEF UserRemoves, TypeOK, Content
  <2>3. CASE UserCreates
    <3>1. PICK i \in Inodes \ {part} : dest' = i /\ data' = [data EXCEPT ![i] = Whole(Foreign)]
      BY <2>3 DEF UserCreates
    <3>2. Whole(Foreign) \in Seq(Int)
      BY WholeIsFile DEF Foreign
    <3>3. part' = part
      BY <1>1
    <3> HIDE DEF Inv
    <3>4. TypeOK
      BY DEF Inv
    <3> QED BY <3>1, <3>2, <3>3, <3>4 DEF TypeOK, Content
  <2> QED BY <2>1, <2>2, <2>3
<1>4. TypeOK'
  BY <1>1, <1>2, <1>3 DEF TypeOK
<1>5. Working => part \in Inodes
  BY DEF StagedApart, TypeOK
<1>6. StagedApart' /\ OneSidecar' /\ SidecarGone'
  BY <1>1, <1>3, <1>5 DEF StagedApart, Working, OneSidecar, SidecarGone
<1>7. Fetching' /\ Streaming'
  BY <1>1, <1>3, <1>5 DEF Fetching, Streaming, Working, MayMultipart, Resumable
<1>8. Fetched' /\ Installable'
  BY <1>1, <1>3, <1>5 DEF Fetched, Installable, Working, MayMultipart, Resumable, Whole
<1>9. SidecarHonest'
  BY <1>1, <1>3 DEF SidecarHonest, TypeOK
<1> QED BY <1>4, <1>6, <1>7, <1>8, <1>9

\* Nothing happens.
LEMMA StutterStep ==
    ASSUME Inv, UNCHANGED vars
    PROVE  Inv'
<1> USE DEF Inv, vars
<1>1. TypeOK' /\ StagedApart' /\ OneSidecar' /\ SidecarGone' /\ SidecarHonest'
  BY DEF TypeOK, StagedApart, Working, OneSidecar, SidecarGone, SidecarHonest, Content
<1>2. Fetching' /\ Streaming' /\ Fetched' /\ Installable'
  BY DEF Fetching, Streaming, Fetched, Installable, MayMultipart, Resumable, Content, Whole
<1> QED BY <1>1, <1>2

\* The invariant is inductive.
LEMMA StagingStep == Inv /\ [Next]_vars => Inv'
<1> SUFFICES ASSUME Inv, [Next]_vars PROVE Inv'
  OBVIOUS
<1>1. CASE Begin \/ Resume \/ Invalidate \/ Preallocate
  BY <1>1, BeginStep, ResumeStep, InvalidateStep, PreallocateStep
<1>2. CASE SaveSidecar \/ Complete \/ \E b \in Bytes : Fetch(b)
  BY <1>2, SaveSidecarStep, CompleteStep, FetchStep
<1>3. CASE StreamBegins \/ TruncateAll \/ StreamByte \/ StreamEnds
  BY <1>3, StreamBeginsStep, TruncateAllStep, StreamByteStep, StreamEndsStep
<1>4. CASE Verify \/ Rename \/ Link \/ Unlink \/ Cleanup \/ Quit \/ DiscardPart \/ DiscardSide
  BY <1>4, VerifyStep, NameStep
<1>5. CASE RemoteChanges \/ UserRemoves \/ UserCreates \/ UNCHANGED vars
  BY <1>5, OutsideStep, StutterStep
<1> QED BY <1>1, <1>2, <1>3, <1>4, <1>5 DEF Next

\* The inductive invariant of the files, for any length and number of versions,
\* whatever callers overwrite and however often the process dies.
THEOREM StagingInvariant == Spec => []Inv
BY StagingBegins, StagingStep, PTL DEF Spec

\* A sidecar that the next download would accept vouches only for bytes that the
\* staging file holds, wherever the last one was interrupted.
THEOREM SidecarsAreHonest == Spec => []SidecarHonest
<1>1. Inv => SidecarHonest
  BY DEF Inv
<1> QED BY <1>1, StagingInvariant, PTL

-----------------------------------------------------------------------------
(* The destination *)

\* What a step may do to the destination: it leaves name and bytes alone, takes
\* the name away, gives it to the staging file, or lets the user have it.
DestStep ==
    \/ dest' = dest /\ (dest # NoFile => data'[dest] = data[dest])
    \/ dest' = NoFile
    \/ dest' = part /\ data' = data /\ phase = "install" /\ (run.over \/ dest = NoFile)
    \/ dest = NoFile /\ dest' # NoFile /\ data'[dest'] = Whole(Foreign)

\* A file that is written while it has the destination's name as well.
Overwrites == Working /\ dest = part

\* Every step is one of these, or writes to the destination.
LEMMA DestMoves ==
    ASSUME Inv, [Next]_vars
    PROVE  DestStep \/ Overwrites
<1>1. TypeOK /\ (Working => part \in Inodes)
  BY DEF Inv, StagedApart, TypeOK
<1>2. CASE Begin
  BY <1>1, <1>2 DEF Begin, DestStep, TypeOK
<1>3. CASE UNCHANGED <<data, dest>>
  BY <1>3 DEF DestStep
<1>4. CASE \E f : Working /\ Write(f) /\ UNCHANGED dest
  BY <1>1, <1>4 DEF Write, DestStep, Overwrites, TypeOK
<1>5. CASE Rename \/ Link
  BY <1>5 DEF Rename, Link, DestStep, Working
<1>6. CASE RemoteChanges \/ UserRemoves
  BY <1>6 DEF RemoteChanges, UserRemoves, DestStep
<1>7. CASE UserCreates
  BY <1>1, <1>7, Constants DEF UserCreates, DestStep, TypeOK
<1>8. CASE Preallocate \/ TruncateAll \/ StreamByte \/ \E b \in Bytes : Fetch(b)
  BY <1>4, <1>8 DEF Preallocate, TruncateAll, StreamByte, Fetch, Working
<1>9. CASE Resume \/ Invalidate \/ SaveSidecar \/ Complete \/ StreamBegins \/ StreamEnds
  BY <1>3, <1>9 DEF Resume, Invalidate, SaveSidecar, Complete, StreamBegins, StreamEnds
<1>10. CASE Verify \/ Unlink \/ Cleanup \/ Quit \/ DiscardPart \/ DiscardSide \/ UNCHANGED vars
  BY <1>3, <1>10 DEF Verify, Unlink, Cleanup, Quit, DiscardPart, DiscardSide, vars
<1> QED BY <1>2, <1>5, <1>6, <1>7, <1>8, <1>9, <1>10 DEF Next

\* Without Overwrite an existing destination keeps its name and its bytes until
\* the user removes it, whatever appears there during the download.
THEOREM NothingIsClobbered == Spec => NoClobber
<1> DEFINE Kept == dest # NoFile /\ ~run.over /\ dest' # NoFile
                       => dest' = dest /\ data'[dest] = data[dest]
<1>1. Inv /\ [Next]_vars => Kept
  <2> SUFFICES ASSUME Inv, [Next]_vars, dest # NoFile, ~run.over, dest' # NoFile
               PROVE  dest' = dest /\ data'[dest] = data[dest]
    OBVIOUS
  <2>1. DestStep
    BY DestMoves DEF Overwrites, Inv, StagedApart
  <2> QED BY <2>1 DEF DestStep
<1> QED BY <1>1, StagingInvariant, PTL DEF Spec, NoClobber

\* A caller's steps keep to its policy, and the destination is whole.
LEMMA DestInvStep == DestInv /\ Inv' /\ [Next]_vars => DestInv'
<1> SUFFICES ASSUME DestInv, Inv', [Next]_vars PROVE DestApart' /\ DestIsWhole'
  BY DEF DestInv
<1> USE DEF DestInv
<1>1. TypeOK /\ TypeOK' /\ policy' = policy
  BY DEF Inv, Next, vars, Begin, Resume, Invalidate, Preallocate, Fetch, SaveSidecar, Complete,
     StreamBegins, TruncateAll, StreamByte, StreamEnds, Verify, Rename, Link, Unlink, Cleanup,
     Quit, DiscardPart, DiscardSide, RemoteChanges, UserRemoves, UserCreates
<1>2. DestIsWhole'
  <2>1. DestStep
    BY DestMoves DEF Overwrites, DestApart
  <2>2. CASE dest' = dest /\ (dest # NoFile => data'[dest] = data[dest])
    BY <2>2 DEF DestIsWhole, Whole
  <2>3. CASE dest' = NoFile
    BY <2>3 DEF DestIsWhole
  <2>4. CASE dest' = part /\ data' = data /\ phase = "install"
    BY <2>4 DEF DestIsWhole, Inv, Installable, Content, Whole
  <2>5. CASE data'[dest'] = Whole(Foreign)
    BY <2>5 DEF DestIsWhole, Whole
  <2> QED BY <2>1, <2>2, <2>3, <2>4, <2>5 DEF DestStep
<1>3. DestApart'
  <2>1. CASE Begin
    <3>1. phase' = "open" /\ dest' = dest
      BY <2>1 DEF Begin, Goto
    <3>2. PICK over \in policy : run'.over = over /\ (over \/ dest = NoFile)
      BY <2>1 DEF Begin
    <3>3. over = TRUE \/ over = FALSE
      BY <1>1 DEF TypeOK
    <3>4. (part' # NoFile /\ part' = part) \/ part' \in Inodes \ {dest}
      BY <2>1 DEF Begin
    <3>5. dest # part'
      <4>1. CASE over = TRUE
        BY <3>2, <3>4, <4>1 DEF DestApart
      <4>2. CASE dest = NoFile
        BY <3>4, <4>2, Constants
      <4> QED BY <3>2, <3>3, <4>1, <4>2
    <3> QED BY <1>1, <3>1, <3>2, <3>5 DEF DestApart, Working
  <2>2. CASE Resume \/ Preallocate \/ (\E b \in Bytes : Fetch(b)) \/ StreamBegins
    <3>1. run'.over = run.over /\ Working /\ Working' /\ UNCHANGED <<dest, part>>
      <4>1. run \in RunType
        BY <1>1 DEF TypeOK
      <4>2. Working /\ Working' /\ UNCHANGED <<dest, part>>
        BY <2>2 DEF Resume, Preallocate, Fetch, StreamBegins, Working, Goto
      <4>3. run'.over = run.over
        BY <2>2, <4>1 DEF Resume, Preallocate, Fetch, StreamBegins, RunType
      <4> QED BY <4>2, <4>3
    <3> QED BY <1>1, <3>1 DEF DestApart, Working
  <2>3. CASE Invalidate \/ SaveSidecar \/ Complete \/ TruncateAll \/ StreamByte \/ StreamEnds
             \/ UNCHANGED vars
    BY <1>1, <2>3 DEF Invalidate, SaveSidecar, Complete, TruncateAll, StreamByte, StreamEnds,
       Goto, DestApart, Working, vars
  <2>4. CASE Verify \/ Cleanup \/ Quit \/ DiscardPart \/ DiscardSide
    BY <1>1, <2>4 DEF Verify, Cleanup, Quit, DiscardPart, DiscardSide, Finish, Goto, DestApart,
       Working
  <2>5. CASE Rename \/ Link \/ Unlink
    <3>1. run.over = TRUE \/ run.over = FALSE
      BY <1>1 DEF TypeOK, RunType
    <3>2. CASE Rename
      BY <1>1, <3>2 DEF Rename, Goto, DestApart, Working
    <3>3. CASE Link
      <4>1. TRUE \notin policy /\ ~Working'
        BY <3>1, <3>3 DEF Link, Finish, Goto, DestApart, Working
      <4> QED BY <1>1, <4>1 DEF DestApart
    <3>4. CASE Unlink
      BY <1>1, <3>4 DEF Unlink, Goto, DestApart, Working
    <3> QED BY <2>5, <3>2, <3>3, <3>4
  <2>6. CASE RemoteChanges \/ UserRemoves \/ UserCreates
    BY <1>1, <2>6, Constants DEF RemoteChanges, UserRemoves, UserCreates, DestApart, Working,
       TypeOK, Inv, StagedApart
  <2> QED BY <2>1, <2>2, <2>3, <2>4, <2>5, <2>6 DEF Next
<1> QED BY <1>2, <1>3

\* Among downloaders that agree on Overwrite, all or none, the destination is one
\* version, whole, or what the user put there, although its bytes were staged by
\* downloads that died, and under a name that both files may have had.
THEOREM DestinationIsWhole ==
    ASSUME BOOLEAN \notin Policies
    PROVE  Spec => []DestIsWhole
<1>1. Init => DestInv
  <2> SUFFICES ASSUME Init PROVE DestInv
    OBVIOUS
  <2>1. TRUE \notin policy \/ FALSE \notin policy
    BY StagingAssumption DEF Init
  <2> QED BY <2>1, StagingBegins DEF Init, DestInv, DestApart, Working, DestIsWhole
<1>2. DestInv => DestIsWhole
  BY DEF DestInv
<1>3. Spec => []DestInv
  BY <1>1, DestInvStep, StagingInvariant, PTL DEF Spec
<1> QED BY <1>2, <1>3, PTL

=============================================================================
