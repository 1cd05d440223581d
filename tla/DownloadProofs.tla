---------------------------- MODULE DownloadProofs ----------------------------
(***************************************************************************)
(* The invariant of Download and what follows from it, for any number of   *)
(* runs, any server and files of any length.                               *)
(***************************************************************************)
EXTENDS Download, SequenceTheorems, TLAPS

LEMMA InitInv == Init => DownloadInv
<1> SUFFICES ASSUME Init PROVE DownloadInv
  OBVIOUS
<1>1. TypeOK /\ FilesOK
  <2>1. TypeOK
    BY DEF Init, TypeOK
  <2>2. content = [i \in Inodes |-> <<>>] /\ seen = [r \in Runs |-> <<>>] /\ pos = [r \in Runs |-> 0]
    BY DEF Init
  <2>3. <<>> \in Seq(Served \cup {"hole"})
    OBVIOUS
  <2>4. FilesOK
    BY <2>2, <2>3 DEF FilesOK
  <2> QED BY <2>1, <2>4
<1>2. InPlace /\ Litter
  BY DEF Init, InPlace, Litter
<1>3. LastReader
  <2>1. \E r \in Runs : pc[r] = "idle" /\ outcome[r] = "none"
    BY DownloadAssumption DEF Init
  <2> QED BY <2>1 DEF LastReader, Passed
<1>4. \A r \in Runs : Locals(r) /\ (alone[r] => AloneKnows(r))
  BY DEF Init, Locals
<1> QED BY <1>1, <1>2, <1>3, <1>4 DEF DownloadInv

\* The types, one action at a time.
LEMMA TypeStep ==
  ASSUME TypeOK, NEW r \in Runs, Start(r) \/ Match(r) \/ Fetch(r) \/ Crash(r)
  PROVE  TypeOK'
<1> USE DownloadAssumption DEF TypeOK, Goto, Finish, names, own, history
<1>1. CASE Start(r)
  BY <1>1 DEF Start
<1>2. CASE Match(r)
  <2>1. CASE IsFile(r)
    BY <2>1 DEF IsFile, Judge, Mismatch
  <2>2. CASE Stat(r)
    BY <2>2 DEF Stat, Judge, Mismatch
  <2>3. CASE OpenMagic(r) \/ OpenDigest(r)
    BY <2>3 DEF OpenMagic, OpenDigest, OpenDest
  <2>4. CASE ReadHead(r)
    BY <2>4 DEF ReadHead, Mismatch, CloseDest
  <2>5. CASE ReadTail(r)
    BY <2>5 DEF ReadTail, Judge, Mismatch, CloseDest
  <2>6. CASE ReadPiece(r)
    BY <2>6 DEF ReadPiece
  <2>7. CASE Digest(r)
    BY <2>7 DEF Digest, Judge, Mismatch, CloseDest
  <2>8. CASE Gone(r)
    BY <2>8 DEF Gone, Raise
  <2>9. CASE Report(r)
    BY <2>9 DEF Report
  <2> QED BY <1>2, <2>1, <2>2, <2>3, <2>4, <2>5, <2>6, <2>7, <2>8, <2>9 DEF Match
<1>3. CASE Fetch(r)
  <2>1. CASE RequestFails(r)
    BY <2>1 DEF RequestFails
  <2>2. CASE OpenPart(r)
    BY <2>2 DEF OpenPart
  <2>3. CASE CopyPiece(r)
    BY <2>3 DEF CopyPiece
  <2>4. CASE CopyEnds(r) \/ CopyFails(r)
    BY <2>4 DEF CopyEnds, CopyFails, EndCopy
  <2>5. CASE Replace(r)
    BY <2>5 DEF Replace
  <2>6. CASE ReplaceFails(r)
    BY <2>6 DEF ReplaceFails
  <2>7. CASE Unlink(r)
    BY <2>7 DEF Unlink
  <2>8. CASE Cleanup(r)
    BY <2>8 DEF Cleanup
  <2> QED BY <1>3, <2>1, <2>2, <2>3, <2>4, <2>5, <2>6, <2>7, <2>8 DEF Fetch
<1>4. CASE Crash(r)
  BY <1>4 DEF Crash
<1> QED BY <1>1, <1>2, <1>3, <1>4

\* Files and what was hashed of them are sequences of pieces.
LEMMA FilesStep ==
  ASSUME TypeOK, FilesOK, \A q \in Runs : Locals(q),
         NEW r \in Runs, Start(r) \/ Match(r) \/ Fetch(r) \/ Crash(r)
  PROVE  FilesOK'
<1> DEFINE Piece == Served \cup {"hole"}
<1>1. content \in [Inodes -> Seq(Piece)] /\ seen \in [Runs -> Seq(Piece)] /\ pos \in [Runs -> Nat]
  BY DEF FilesOK
<1>2. <<>> \in Seq(Piece) /\ 0 \in Nat
  OBVIOUS
<1> HIDE DEF Piece
<1>3. CASE OpenPart(r)
  <2>1. PICK i \in Inodes : content' = [content EXCEPT ![i] = <<>>]
    BY <1>3 DEF OpenPart
  <2>2. seen' = seen /\ pos' = pos
    BY <1>3 DEF OpenPart
  <2>3. content' \in [Inodes -> Seq(Piece)]
    BY <1>1, <1>2, <2>1
  <2> QED BY <1>1, <2>2, <2>3 DEF FilesOK, Piece
<1>4. CASE CopyPiece(r)
  <2>1. PICK piece \in Served : content' = [content EXCEPT ![handle[r]] = Overwritten(@, pos[r], piece)]
    BY <1>4 DEF CopyPiece
  <2>2. seen' = seen /\ pos' = [pos EXCEPT ![r] = @ + 1] /\ pc[r] = "copy"
    BY <1>4 DEF CopyPiece
  <2>3. handle[r] \in Inodes
    <3>1. handle[r] # NoFile /\ handle[r] \in Inodes \cup {NoFile}
      BY <2>2 DEF TypeOK, Locals
    <3> QED BY <3>1
  <2>4. PICK file \in Seq(Piece) : file = content[handle[r]]
    BY <1>1, <2>3
  <2>5. PICK at \in Nat : at = pos[r]
    BY <1>1
  <2>6. Overwritten(file, at, piece) \in Seq(Piece)
    <3>1. piece \in Piece /\ "hole" \in Piece
      BY DEF Piece
    <3>2. PICK n \in Nat : n = IF at < Len(file) THEN Len(file) ELSE at + 1
      OBVIOUS
    <3>3. \A k \in 1 .. n : (IF k = at + 1 THEN piece ELSE IF k <= Len(file) THEN file[k] ELSE "hole") \in Piece
      BY <3>1
    <3>4. Overwritten(file, at, piece)
            = [k \in 1 .. n |-> IF k = at + 1 THEN piece ELSE IF k <= Len(file) THEN file[k] ELSE "hole"]
      BY <3>2 DEF Overwritten
    <3>5. Overwritten(file, at, piece) \in [1 .. n -> Piece]
      BY <3>3, <3>4
    <3> QED BY <3>5
  <2>7. PICK f \in Seq(Piece) : f = Overwritten(content[handle[r]], pos[r], piece)
    BY <2>4, <2>5, <2>6
  <2>8. content' = [content EXCEPT ![handle[r]] = f]
    BY <2>1, <2>7
  <2>9. content' \in [Inodes -> Seq(Piece)] /\ pos' \in [Runs -> Nat]
    BY <1>1, <2>2, <2>3, <2>8
  <2> QED BY <1>1, <2>2, <2>9 DEF FilesOK, Piece
<1>5. CASE ReadPiece(r)
  <2>1. /\ content' = content /\ pos' = pos /\ pc[r] = "digest" /\ Len(seen[r]) < Len(content[hold[r]])
        /\ seen' = [seen EXCEPT ![r] = Append(@, content[hold[r]][Len(@) + 1])]
    BY <1>5 DEF ReadPiece
  <2>2. hold[r] \in Inodes
    BY <2>1 DEF TypeOK, Locals
  <2>3. PICK c \in Seq(Piece) : c = content[hold[r]]
    BY <1>1, <2>2
  <2>4. PICK g \in Seq(Piece) : g = seen[r]
    BY <1>1
  <2>5. PICK n \in 1 .. Len(c) : n = Len(g) + 1
    BY <2>1, <2>3, <2>4
  <2>6. PICK f \in Seq(Piece) : f = Append(g, c[n])
    <3>1. c[n] \in Piece
      BY <2>5
    <3>2. Append(g, c[n]) \in Seq(Piece)
      BY <3>1, AppendProperties
    <3> QED BY <3>2
  <2>7. seen' = [seen EXCEPT ![r] = f]
    BY <2>1, <2>3, <2>4, <2>5, <2>6
  <2>8. seen' \in [Runs -> Seq(Piece)]
    BY <1>1, <2>7
  <2> QED BY <1>1, <2>1, <2>8 DEF FilesOK, Piece
<1>6. CASE ~OpenPart(r) /\ ~CopyPiece(r) /\ ~ReadPiece(r)
  <2>1. content' = content /\ (seen' = seen \/ seen' = [seen EXCEPT ![r] = <<>>])
    BY <1>6 DEF Match, IsFile, Stat, OpenMagic, OpenDigest, OpenDest, ReadHead, ReadTail, ReadPiece,
              Digest, Gone, Report, Judge, Mismatch, Raise, CloseDest,
        Start, Crash, Fetch, RequestFails, CopyEnds, CopyFails, EndCopy, Replace, ReplaceFails,
        Unlink, Cleanup, Finish, names, own
  <2>2. pos' = pos \/ pos' = [pos EXCEPT ![r] = 0]
    BY <1>6 DEF Match, IsFile, Stat, OpenMagic, OpenDigest, OpenDest, ReadHead, ReadTail, ReadPiece,
              Digest, Gone, Report, Judge, Mismatch, Raise, CloseDest,
        Start, Crash, Fetch, RequestFails, CopyEnds, CopyFails, EndCopy, Replace, ReplaceFails,
        Unlink, Cleanup, Finish, names, own
  <2>3. seen' \in [Runs -> Seq(Piece)] /\ pos' \in [Runs -> Nat]
    BY <1>1, <1>2, <2>1, <2>2
  <2> QED BY <1>1, <2>1, <2>3 DEF FilesOK, Piece
<1> QED BY <1>3, <1>4, <1>5, <1>6

\* A step of one run leaves what belongs to the others alone.
LEMMA OthersStay ==
  ASSUME TypeOK, NEW r \in Runs, Start(r) \/ Match(r) \/ Fetch(r) \/ Crash(r),
         NEW q \in Runs, q # r
  PROVE  /\ pc'[q] = pc[q] /\ outcome'[q] = outcome[q]
         /\ force'[q] = force[q] /\ fetched'[q] = fetched[q]
         /\ handle'[q] = handle[q] /\ hold'[q] = hold[q] /\ seen'[q] = seen[q]
<1> USE DEF TypeOK, Goto, Finish, own, history
<1>1. CASE Start(r)
  BY <1>1 DEF Start
<1>2. CASE Match(r)
  BY <1>2 DEF Match, IsFile, Stat, OpenMagic, OpenDigest, OpenDest, ReadHead, ReadTail, ReadPiece,
              Digest, Gone, Report, Judge, Mismatch, Raise, CloseDest
<1>3. CASE Fetch(r)
  BY <1>3 DEF Fetch, RequestFails, OpenPart, CopyPiece, CopyEnds, CopyFails, EndCopy,
              Replace, ReplaceFails, Unlink, Cleanup
<1>4. CASE Crash(r)
  BY <1>4 DEF Crash
<1> QED BY <1>1, <1>2, <1>3, <1>4

\* The two names never lead to one file.
LEMMA InPlaceStep ==
  ASSUME TypeOK, InPlace, NEW r \in Runs, Start(r) \/ Match(r) \/ Fetch(r) \/ Crash(r)
  PROVE  InPlace'
<1> USE DEF InPlace, names
<1>1. CASE Start(r) \/ Crash(r)
  BY <1>1 DEF Start, Crash
<1>2. CASE Match(r)
  BY <1>2 DEF Match, IsFile, Stat, OpenMagic, OpenDigest, OpenDest, ReadHead, ReadTail, ReadPiece,
              Digest, Gone, Report, Judge, Mismatch, Raise, CloseDest
<1>3. CASE OpenPart(r)
  BY <1>3 DEF OpenPart, Unused
<1>4. CASE Fetch(r) /\ ~OpenPart(r)
  BY <1>4 DEF Fetch, RequestFails, CopyPiece, CopyEnds, CopyFails, EndCopy,
              Replace, ReplaceFails, Unlink, Cleanup
<1> QED BY <1>1, <1>2, <1>3, <1>4

LEMMA LocalsStep ==
  ASSUME TypeOK, NEW r \in Runs, Start(r) \/ Match(r) \/ Fetch(r) \/ Crash(r),
         \A q \in Runs : Locals(q)
  PROVE  \A q \in Runs : Locals(q)'
<1> SUFFICES Locals(r)'
  BY OthersStay DEF Locals
<1> USE DownloadAssumption DEF TypeOK, Locals, Goto, Finish, own, history, Active
<1>1. CASE Start(r)
  BY <1>1 DEF Start
<1>2. CASE Match(r)
  <2>1. CASE IsFile(r)
    BY <2>1 DEF IsFile, Judge, Mismatch
  <2>2. CASE Stat(r)
    BY <2>2 DEF Stat, Judge, Mismatch
  <2>3. CASE OpenMagic(r) \/ OpenDigest(r)
    BY <2>3 DEF OpenMagic, OpenDigest, OpenDest
  <2>4. CASE ReadHead(r)
    BY <2>4 DEF ReadHead, Mismatch, CloseDest
  <2>5. CASE ReadTail(r)
    BY <2>5 DEF ReadTail, Judge, Mismatch, CloseDest
  <2>6. CASE ReadPiece(r)
    BY <2>6 DEF ReadPiece
  <2>7. CASE Digest(r)
    BY <2>7 DEF Digest, Judge, Mismatch, CloseDest
  <2>8. CASE Gone(r)
    BY <2>8 DEF Gone, Raise
  <2>9. CASE Report(r)
    BY <2>9 DEF Report
  <2> QED BY <1>2, <2>1, <2>2, <2>3, <2>4, <2>5, <2>6, <2>7, <2>8, <2>9 DEF Match
<1>3. CASE Fetch(r)
  <2>1. CASE RequestFails(r)
    BY <2>1 DEF RequestFails
  <2>2. CASE OpenPart(r)
    BY <2>2 DEF OpenPart
  <2>3. CASE CopyPiece(r)
    BY <2>3 DEF CopyPiece
  <2>4. CASE CopyEnds(r) \/ CopyFails(r)
    BY <2>4 DEF CopyEnds, CopyFails, EndCopy
  <2>5. CASE Replace(r)
    BY <2>5 DEF Replace
  <2>6. CASE ReplaceFails(r)
    BY <2>6 DEF ReplaceFails
  <2>7. CASE Unlink(r)
    BY <2>7 DEF Unlink
  <2>8. CASE Cleanup(r)
    BY <2>8 DEF Cleanup
  <2> QED BY <1>3, <2>1, <2>2, <2>3, <2>4, <2>5, <2>6, <2>7, <2>8 DEF Fetch
<1>4. CASE Crash(r)
  BY <1>4 DEF Crash
<1> QED BY <1>1, <1>2, <1>3, <1>4

\* A .part file is some run's, or was left by a crash.
LEMMA LitterStep ==
  ASSUME TypeOK, Litter, NEW r \in Runs, Start(r) \/ Match(r) \/ Fetch(r) \/ Crash(r)
  PROVE  Litter'
<1> DEFINE Keeps(q) == pc[q] \in {"copy", "replace", "cleanup"}
<1>1. CASE part' = NoFile \/ crashed'
  BY <1>1 DEF Litter
<1>2. CASE Keeps(r)'
  BY <1>2 DEF Litter
<1>3. CASE part' = part /\ crashed' = crashed /\ ~Keeps(r)
  BY <1>3, OthersStay DEF Litter
<1> SUFFICES (part' = NoFile \/ crashed') \/ Keeps(r)' \/ (part' = part /\ crashed' = crashed /\ ~Keeps(r))
  BY <1>1, <1>2, <1>3
<1> USE DEF TypeOK, Goto, Finish, names, history
<1>4. CASE Start(r) \/ Crash(r)
  BY <1>4 DEF Start, Crash, Active
<1>5. CASE Match(r)
  BY <1>5 DEF Match, IsFile, Stat, OpenMagic, OpenDigest, OpenDest, ReadHead, ReadTail, ReadPiece,
              Digest, Gone, Report, Judge, Mismatch, Raise, CloseDest
<1>6. CASE Fetch(r)
  BY <1>6 DEF Fetch, RequestFails, OpenPart, CopyPiece, CopyEnds, CopyFails, EndCopy,
              Replace, ReplaceFails, Unlink, Cleanup
<1> QED BY <1>4, <1>5, <1>6

\* What was hashed without a tear, to the end, is the file.
LEMMA HashedIsFile ==
  ASSUME TypeOK, FilesOK, NEW r \in Runs, Judges(r), dest # NoFile, Len(seen[r]) >= Len(content[dest])
  PROVE  seen[r] = content[dest]
<1>1. PICK c \in Seq(Served \cup {"hole"}) : c = content[dest]
  BY DEF TypeOK, FilesOK
<1>2. PICK g \in Seq(Served \cup {"hole"}) : g = seen[r]
  BY DEF TypeOK, FilesOK
<1>3. \A k \in 1 .. Len(g) : k \in 1 .. Len(c) /\ g[k] = c[k]
  BY <1>1, <1>2 DEF Judges
<1>4. Len(g) \in Nat /\ Len(c) \in Nat /\ Len(g) >= Len(c)
  BY <1>1, <1>2
<1>5. Len(g) = Len(c)
  <2>1. CASE Len(g) > 0
    <3>1. Len(g) \in 1 .. Len(c)
      BY <1>3, <1>4, <2>1
    <3> QED BY <1>4, <3>1
  <2> QED BY <1>4, <2>1
<1>6. g = c
  BY <1>3, <1>5
<1> QED BY <1>1, <1>2, <1>6

LEMMA HashedWhole ==
  ASSUME TypeOK, FilesOK, NEW r \in Runs, Judges(r), dest # NoFile, Len(seen[r]) >= Len(content[dest]),
         seen[r] = Good
  PROVE  Right(dest)
BY HashedIsFile DEF Right

LEMMA TornOrWrong ==
  ASSUME TypeOK, FilesOK, NEW r \in Runs, Judges(r), dest # NoFile, Len(seen[r]) >= Len(content[dest]),
         seen[r] # Good
  PROVE  ~Right(dest)
BY HashedIsFile DEF Right

\* What a run reads behind what it has hashed is what stands there.
LEMMA ReadOn ==
  ASSUME TypeOK, FilesOK, NEW r \in Runs, Judges(r), dest # NoFile, ReadPiece(r)
  PROVE  Judges(r)'
<1>1. PICK c \in Seq(Served \cup {"hole"}) : c = content[dest]
  BY DEF TypeOK, FilesOK
<1>2. PICK g \in Seq(Served \cup {"hole"}) : g = seen[r]
  BY DEF TypeOK, FilesOK
<1>3. /\ hold[r] = dest /\ Len(g) < Len(c) /\ seen'[r] = Append(g, c[Len(g) + 1])
      /\ content' = content /\ dest' = dest /\ hold' = hold /\ pc' = pc /\ pc[r] = "digest"
  BY <1>1, <1>2 DEF ReadPiece, Judges, TypeOK, names
<1>4. \A k \in 1 .. Len(g) : k \in 1 .. Len(c) /\ g[k] = c[k]
  BY <1>1, <1>2 DEF Judges
<1>5. \A k \in 1 .. Len(g) + 1 : k \in 1 .. Len(c) /\ Append(g, c[Len(g) + 1])[k] = c[k]
  BY <1>3, <1>4
<1>6. DOMAIN Append(g, c[Len(g) + 1]) = 1 .. Len(g) + 1 /\ DOMAIN c = 1 .. Len(c)
  OBVIOUS
<1> QED BY <1>1, <1>3, <1>5, <1>6 DEF Judges

\* A step after which all runs have passed or are reading is one of four: the
\* opening of the file to be judged, a read of it, its judgement, or the report.
LEMMA LastReaderStep ==
  ASSUME TypeOK, FilesOK, LastReader, \A q \in Runs : Locals(q),
         NEW r \in Runs, Start(r) \/ Match(r) \/ Fetch(r) \/ Crash(r)
  PROVE  LastReader'
<1> SUFFICES ASSUME (\A q \in Runs : Passed(q) \/ pc[q] = "digest")'
             PROVE  (Right(dest) \/ \E q \in Runs : Judges(q))'
  BY DEF LastReader
<1> USE DEF TypeOK, Goto, Finish, Passed, names, own, history
<1>0. ~Start(r) /\ ~Crash(r) /\ ~Fetch(r)
  BY DEF Start, Crash, Fetch, RequestFails, OpenPart, CopyPiece, CopyEnds, CopyFails, EndCopy,
         Replace, ReplaceFails, Unlink, Cleanup
<1>1. \A q \in Runs \ {r} : Passed(q) \/ pc[q] = "digest"
  BY OthersStay
<1>2. CASE OpenDigest(r)
  <2>1. pc'[r] = "digest" /\ hold'[r] = dest /\ dest' = dest /\ seen'[r] = <<>>
    BY <1>2 DEF OpenDigest, OpenDest, Locals
  <2> QED BY <2>1 DEF Judges
<1>3. CASE ReadPiece(r) \/ Digest(r)
  <2>1. pc[r] = "digest" /\ hold[r] # NoFile /\ content' = content /\ dest' = dest
    BY <1>3 DEF ReadPiece, Digest, CloseDest, Locals
  <2>2. Right(dest) \/ \E q \in Runs : Judges(q)
    BY <1>1, <2>1 DEF LastReader
  <2>3. CASE \E q \in Runs \ {r} : Judges(q)
    BY <2>1, <2>3, OthersStay DEF Judges
  <2>4. CASE Right(dest)
    BY <2>1, <2>4 DEF Right
  <2>5. CASE Judges(r)
    <3>1. dest # NoFile
      BY <2>1, <2>5 DEF Judges
    <3>2. CASE ReadPiece(r)
      BY <2>5, <3>1, <3>2, ReadOn
    <3>3. CASE Digest(r)
      <4>1. seen[r] = Good /\ hold[r] = dest
        BY <2>5, <3>3 DEF Digest, Judge, Mismatch, Judges
      <4>2. Right(dest)
        BY <2>5, <3>1, <3>3, <4>1, HashedWhole DEF Digest
      <4> QED BY <2>1, <4>2 DEF Right
    <3> QED BY <1>3, <3>2, <3>3
  <2> QED BY <2>2, <2>3, <2>4, <2>5
<1>4. CASE Report(r)
  <2>1. pc[r] = "report" /\ content' = content /\ dest' = dest
    BY <1>4 DEF Report
  <2>2. Right(dest) \/ \E q \in Runs : Judges(q)
    BY <1>1, <2>1 DEF LastReader
  <2>3. \A q \in Runs : Judges(q) => Judges(q)'
    BY <2>1, OthersStay DEF Judges
  <2> QED BY <2>1, <2>2, <2>3 DEF Right
<1>5. ~IsFile(r) /\ ~Stat(r) /\ ~OpenMagic(r) /\ ~ReadHead(r) /\ ~ReadTail(r) /\ ~Gone(r)
  BY DEF IsFile, Stat, OpenMagic, OpenDest, ReadHead, ReadTail, Gone, Raise, Judge,
         Mismatch, CloseDest
<1> QED BY <1>0, <1>2, <1>3, <1>4, <1>5 DEF Match

\* The size and the magic bytes never refuse the right file.
LEMMA RightLooksRight ==
  ASSUME NEW i, Right(i)
  PROVE  i # NoFile /\ Len(content[i]) = Pieces /\ content[i] # <<>>
         /\ Magic(content[i], 1) /\ Magic(content[i], Len(content[i]))
BY DownloadAssumption DEF Right, Good, Magic

LEMMA AloneStep ==
  ASSUME TypeOK, FilesOK, InPlace, \A q \in Runs : Locals(q) /\ (alone[q] => AloneKnows(q)),
         NEW r \in Runs, Start(r) \/ Match(r) \/ Fetch(r) \/ Crash(r),
         NEW s \in Runs, alone'[s]
  PROVE  AloneKnows(s)'
<1> USE DEF TypeOK, Goto, Finish, names, own, history
<1>1. CASE Start(r)
  <2>1. s = r /\ \A q \in Runs : ~Active(q)
    BY <1>1 DEF Start
  <2>2. pc'[r] = "check" \/ (pc'[r] = "request" /\ force'[r])
    BY <1>1 DEF Start
  <2>3. \A q \in Runs \ {s} : ~Active(q)'
    BY <2>1, OthersStay DEF Active
  <2> QED BY <2>1, <2>2, <2>3 DEF AloneKnows, Passed
<1>2. CASE ~Start(r)
  <2>1. alone' = alone /\ AloneKnows(s)
    BY <1>2 DEF Match, IsFile, Stat, OpenMagic, OpenDigest, OpenDest, ReadHead, ReadTail, ReadPiece,
              Digest, Gone, Report, Judge, Mismatch, Raise, CloseDest, Fetch, RequestFails,
                OpenPart, CopyPiece, CopyEnds, CopyFails, EndCopy, Replace, ReplaceFails,
                Unlink, Cleanup, Crash
  <2>2. Active(r)
    BY <1>2 DEF Match, IsFile, Stat, OpenMagic, OpenDigest, OpenDest, ReadHead, ReadTail, ReadPiece,
              Digest, Gone, Report, Judge, Mismatch, Raise, CloseDest, Fetch, RequestFails,
                OpenPart, CopyPiece, CopyEnds, CopyFails, EndCopy, Replace, ReplaceFails,
                Unlink, Cleanup, Crash, Active
  <2>3. r = s
    BY <2>1, <2>2 DEF AloneKnows
  <2>4. \A q \in Runs \ {s} : ~Active(q)'
    BY <2>1, <2>3, OthersStay DEF AloneKnows, Active
  <2> DEFINE Knows == /\ Passed(r) => Right(dest)
                      /\ pc[r] = "digest" => Judges(r)
                      /\ pc[r] \in {"head", "tail"} => hold[r] = dest
                      /\ pc[r] = "copy" => handle[r] = part
                      /\ pc[r] = "unlink" => ~Right(dest)
                      /\ pc[r] \in {"request", "copy", "replace", "cleanup"} /\ ~force[r]
                         => ~Right(dest)
  <2>5. Knows /\ Locals(r)
    BY <2>1, <2>3 DEF AloneKnows
  <2> SUFFICES Knows'
    BY <2>3, <2>4 DEF AloneKnows
  <2> USE <2>5, DownloadAssumption DEF Passed, Locals, Right
  <2>6. CASE IsFile(r) \/ Stat(r)
    BY <2>6, RightLooksRight DEF IsFile, Stat, Judge, Mismatch
  <2>7. CASE OpenMagic(r) \/ OpenDigest(r)
    BY <2>7 DEF OpenMagic, OpenDigest, OpenDest, Judges
  <2>8. CASE Gone(r)
    BY <2>8, RightLooksRight DEF Gone, Raise
  <2>9. CASE ReadHead(r) \/ ReadTail(r)
    BY <2>9, RightLooksRight DEF ReadHead, ReadTail, Judge, Mismatch, CloseDest
  <2>10. CASE ReadPiece(r) \/ Digest(r)
    <3>1. pc[r] = "digest" /\ Judges(r) /\ hold[r] = dest /\ dest # NoFile
      BY <2>10 DEF ReadPiece, Digest, Judges
    <3>2. CASE ReadPiece(r)
      <4>1. Judges(r)' /\ pc'[r] = "digest"
        BY <3>1, <3>2, ReadOn DEF ReadPiece
      <4> QED BY <4>1
    <3>3. CASE Digest(r)
      <4>1. dest' = dest /\ content' = content /\ Len(seen[r]) >= Len(content[dest])
        BY <3>1, <3>3 DEF Digest, CloseDest
      <4>2. CASE seen[r] = Good
        <5>1. Right(dest) /\ pc'[r] = "report"
          BY <3>1, <3>3, <4>1, <4>2, HashedWhole DEF Digest, Judge
        <5> QED BY <4>1, <5>1
      <4>3. CASE seen[r] # Good
        <5>1. ~Right(dest)
          BY <3>1, <3>3, <4>1, <4>3, TornOrWrong
        <5>2. pc'[r] \in {"unlink", "request"}
          BY <3>3, <4>3 DEF Digest, Judge, Mismatch
        <5> QED BY <4>1, <5>1, <5>2
      <4> QED BY <4>2, <4>3
    <3> QED BY <2>10, <3>2, <3>3
  <2>17. CASE Report(r)
    BY <2>17 DEF Report
  <2>11. CASE RequestFails(r) \/ CopyEnds(r) \/ CopyFails(r) \/ ReplaceFails(r)
    BY <2>11 DEF RequestFails, CopyEnds, CopyFails, EndCopy, ReplaceFails
  <2>12. CASE OpenPart(r)
    BY <2>12 DEF OpenPart, Unused, InPlace
  <2>13. CASE CopyPiece(r)
    BY <2>13 DEF CopyPiece, InPlace
  <2>14. CASE Replace(r)
    BY <2>14 DEF Replace
  <2>15. CASE Unlink(r)
    BY <2>15 DEF Unlink
  <2>16. CASE Cleanup(r) \/ Crash(r)
    BY <2>16 DEF Cleanup, Crash
  <2> QED BY <1>2, <2>6, <2>7, <2>8, <2>9, <2>10, <2>11, <2>12, <2>13, <2>14, <2>15, <2>16, <2>17
          DEF Match, Fetch
<1> QED BY <1>1, <1>2

LEMMA StepInv == DownloadInv /\ [Next]_vars => DownloadInv'
<1> SUFFICES ASSUME DownloadInv, [Next]_vars PROVE DownloadInv'
  OBVIOUS
<1>1. CASE UNCHANGED vars
  <2> USE <1>1 DEF vars, names, own, history
  <2>1. TypeOK' /\ FilesOK' /\ InPlace' /\ Litter'
    BY DEF DownloadInv, TypeOK, FilesOK, InPlace, Litter
  <2>2. LastReader'
    BY DEF DownloadInv, LastReader, Judges, Passed, Right
  <2>3. \A r \in Runs : (Locals(r) /\ (alone[r] => AloneKnows(r)))'
    BY DEF DownloadInv, Locals, AloneKnows, Judges, Active, Passed, Right
  <2> QED BY <2>1, <2>2, <2>3 DEF DownloadInv
<1>2. ASSUME NEW r \in Runs, Start(r) \/ Match(r) \/ Fetch(r) \/ Crash(r) PROVE DownloadInv'
  <2>1. /\ TypeOK /\ FilesOK /\ InPlace /\ LastReader /\ Litter
        /\ \A q \in Runs : Locals(q) /\ (alone[q] => AloneKnows(q))
    BY DEF DownloadInv
  <2>2. TypeOK' /\ FilesOK' /\ InPlace' /\ LastReader' /\ Litter'
    BY <1>2, <2>1, TypeStep, FilesStep, InPlaceStep, LastReaderStep, LitterStep
  <2>3. \A q \in Runs : Locals(q)'
    BY <1>2, <2>1, LocalsStep
  <2>4. \A q \in Runs : alone'[q] => AloneKnows(q)'
    BY <1>2, <2>1, AloneStep
  <2> QED BY <2>2, <2>3, <2>4 DEF DownloadInv
<1> QED BY <1>1, <1>2 DEF Next

-----------------------------------------------------------------------------
\* The inductive invariant: what each run knows of the two names (fetch).
THEOREM DownloadInvariant == Spec => []DownloadInv
BY InitInv, StepInv, PTL DEF Spec

\* However many runs overlap: when all have ended in "saved" or "cached", or
\* one has that was alone, the final name leads to the pinned file.
THEOREM SavedIsValid == Spec => []SavedMeansValid
<1>1. DownloadInv => SavedMeansValid
  BY DEF DownloadInv, LastReader, Judges, AloneKnows, Passed, SavedMeansValid
<1> QED BY <1>1, DownloadInvariant, PTL

\* No .part file outlives runs that were not killed.
THEOREM PartRemoved == Spec => []NoPartLeft
<1>1. DownloadInv => NoPartLeft
  BY DEF DownloadInv, Litter, NoPartLeft, Active
<1> QED BY <1>1, DownloadInvariant, PTL

\* A valid file is given up by overlapping runs, or by --force and a whole copy
\* that is not the pinned file.
THEOREM ValidStays == Spec => ValidKept
<1>1. ASSUME DownloadInv, [Next]_vars, Right(dest), ~Right(dest)'
      PROVE  \E r \in Runs : Active(r) /\ (~alone[r] \/ LostToForce(r))
  <2> USE DEF names, own, history
  <2>1. PICK r \in Runs : Start(r) \/ Match(r) \/ Fetch(r) \/ Crash(r)
    BY <1>1 DEF Next, vars, Right
  <2>2. ~Start(r) /\ ~Crash(r) /\ ~Match(r)
    BY <1>1 DEF Start, Crash, Match, IsFile, Stat, OpenMagic, OpenDigest, OpenDest, ReadHead, ReadTail, ReadPiece,
              Digest, Gone, Report, Judge, Mismatch, Raise, CloseDest, Finish, Right
  <2>3. SUFFICES ASSUME alone[r] PROVE Active(r) /\ LostToForce(r)
    <3>1. Active(r)
      BY <2>1, <2>2 DEF Fetch, RequestFails, OpenPart, CopyPiece, CopyEnds, CopyFails, EndCopy,
                        Replace, ReplaceFails, Unlink, Cleanup, Active
    <3> QED BY <2>3, <3>1
  <2>4. AloneKnows(r) /\ TypeOK /\ InPlace /\ Locals(r)
    BY <1>1, <2>3 DEF DownloadInv
  <2>5. CASE OpenPart(r) \/ CopyPiece(r)
    BY <1>1, <2>4, <2>5 DEF OpenPart, CopyPiece, AloneKnows, InPlace, Unused, TypeOK, Right
  <2>6. CASE Replace(r)
    BY <1>1, <2>4, <2>6 DEF Replace, AloneKnows, LostToForce, Active, Right
  <2>7. CASE Unlink(r)
    BY <1>1, <2>4, <2>7 DEF Unlink, AloneKnows
  <2>8. CASE RequestFails(r) \/ CopyEnds(r) \/ CopyFails(r) \/ ReplaceFails(r) \/ Cleanup(r)
    BY <1>1, <2>8 DEF RequestFails, CopyEnds, CopyFails, EndCopy, ReplaceFails, Cleanup, Finish, Right
  <2> QED BY <2>1, <2>2, <2>5, <2>6, <2>7, <2>8 DEF Fetch
<1>2. DownloadInv /\ [Next]_vars
      => [Right(dest) /\ ~Right(dest)'
          => \E r \in Runs : Active(r) /\ (~alone[r] \/ LostToForce(r))]_vars
  BY <1>1
<1> QED BY <1>2, DownloadInvariant, PTL DEF Spec, ValidKept
=============================================================================
