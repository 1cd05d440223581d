------------------------------- MODULE Download -------------------------------
(***************************************************************************)
(* fetch() of real-footer-size/download.py for one entry of the corpus, by *)
(* any number of runs of the script that share the output directory.  The  *)
(* file names are the destination and its .part; a name leads to an inode, *)
(* and a run that has a file open keeps its inode whatever happens to the  *)
(* name.                                                                   *)
(*                                                                         *)
(* A file's content is a sequence of pieces: "right" ones, "wrong" ones    *)
(* and "hole"s (bytes that were seeked over).  The server may send any of  *)
(* Served and stop after any piece, early or late.  A wrong piece has the  *)
(* magic bytes all the same, a hole has not.  A run may crash between any  *)
(* two steps, which closes what it has open and nothing else.              *)
(***************************************************************************)
EXTENDS Integers, Sequences

CONSTANTS Runs,      \* executions of the script; each may be started again
          Inodes,    \* files the file system can hold
          NoFile,    \* what a missing name leads to
          Pieces,    \* length of the pinned file
          Longest,   \* most pieces a server sends
          Served     \* the pieces a server may send

ASSUME DownloadAssumption ==
  /\ Runs # {} /\ NoFile \notin Inodes
  /\ Pieces \in Nat \ {0} /\ Longest \in Nat

VARIABLES dest, part,  \* the inodes of the two names
          content,     \* inode -> pieces
          pc,          \* run -> what it does next
          force,       \* run -> --force
          fetched,     \* run -> the file under the final name is this run's
          handle, pos, \* run -> the .part file it writes, and how far it is
          hold, seen,  \* run -> the file it judges, and the pieces hashed so far
          outcome,     \* run -> what its last execution came to
          alone,       \* run -> no other run was active since it was started
          crashed      \* some run has crashed

names == <<dest, part>>
own == <<force, fetched, handle, pos, hold, seen>>
history == <<outcome, alone, crashed>>
vars == <<names, content, pc, own, history>>

Good == [k \in 1 .. Pieces |-> "right"]
Right(i) == i # NoFile /\ content[i] = Good
Active(r) == pc[r] # "idle"
Goto(r, label) == pc' = [pc EXCEPT ![r] = label]
\* The locals of fetch() are gone, and its files closed, when it returns.
Finish(r, how) ==
  /\ Goto(r, "idle") /\ outcome' = [outcome EXCEPT ![r] = how]
  /\ force' = [force EXCEPT ![r] = FALSE] /\ fetched' = [fetched EXCEPT ![r] = FALSE]
  /\ handle' = [handle EXCEPT ![r] = NoFile] /\ pos' = [pos EXCEPT ![r] = 0]
  /\ hold' = [hold EXCEPT ![r] = NoFile] /\ seen' = [seen EXCEPT ![r] = <<>>]

Init ==
  /\ dest = NoFile /\ part = NoFile /\ content = [i \in Inodes |-> <<>>]
  /\ pc = [r \in Runs |-> "idle"] /\ outcome = [r \in Runs |-> "none"]
  /\ force = [r \in Runs |-> FALSE] /\ fetched = [r \in Runs |-> FALSE]
  /\ handle = [r \in Runs |-> NoFile] /\ hold = [r \in Runs |-> NoFile]
  /\ pos = [r \in Runs |-> 0] /\ seen = [r \in Runs |-> <<>>]
  /\ alone = [r \in Runs |-> FALSE] /\ crashed = FALSE

\* Mutant of Start: the cached file is never looked at.
StartFetching(r) ==
  /\ ~Active(r) /\ Goto(r, "request")
  /\ outcome' = [outcome EXCEPT ![r] = "none"]
  /\ alone' = [q \in Runs |-> q = r /\ \A x \in Runs : ~Active(x)]
  /\ UNCHANGED <<names, content, own, crashed>>

Start(r) ==
  /\ ~Active(r)
  /\ \E f \in BOOLEAN :
       force' = [force EXCEPT ![r] = f] /\ Goto(r, IF f THEN "request" ELSE "check")
  /\ outcome' = [outcome EXCEPT ![r] = "none"]
  /\ alone' = [q \in Runs |-> q = r /\ \A x \in Runs : ~Active(x)]
  /\ UNCHANGED <<names, content, fetched, handle, pos, hold, seen, crashed>>

-----------------------------------------------------------------------------
\* matches(destination), one action per call of the file system.  Each look at
\* the name is a new one; a file that is open is read piece by piece while other
\* runs may write it.  Before the download a mismatch leads to the request, after
\* it to unlink and ValueError.

Mismatch(r) == Goto(r, IF fetched[r] THEN "unlink" ELSE "request")
Judge(r, agrees, next) == IF agrees THEN Goto(r, next) ELSE Mismatch(r)

\* An exception: it is caught behind the request only.
Raise(r) ==
  IF fetched[r] THEN Goto(r, "cleanup") /\ UNCHANGED <<own, outcome>> ELSE Finish(r, "failed")

IsFile(r) ==
  /\ pc[r] = "check" /\ Judge(r, dest # NoFile, "stat")
  /\ UNCHANGED <<names, content, own, history>>

Stat(r) ==
  /\ pc[r] = "stat" /\ dest # NoFile /\ Judge(r, Len(content[dest]) = Pieces, "magic")
  /\ UNCHANGED <<names, content, own, history>>

OpenDest(r, label, next) ==
  /\ pc[r] = label /\ dest # NoFile
  /\ hold' = [hold EXCEPT ![r] = dest] /\ Goto(r, next)
  /\ UNCHANGED <<names, content, force, fetched, handle, pos, seen, history>>
OpenMagic(r) == OpenDest(r, "magic", "head")
OpenDigest(r) == OpenDest(r, "open", "digest")

Gone(r) ==
  /\ pc[r] \in {"stat", "magic", "open"} /\ dest = NoFile /\ Raise(r)
  /\ UNCHANGED <<names, content, alone, crashed>>

CloseDest(r) ==
  /\ hold' = [hold EXCEPT ![r] = NoFile] /\ seen' = [seen EXCEPT ![r] = <<>>]
  /\ UNCHANGED <<names, content, force, fetched, handle, pos, history>>

Magic(file, k) == k \in DOMAIN file /\ file[k] # "hole"
ReadHead(r) ==
  /\ pc[r] = "head"
  /\ IF Magic(content[hold[r]], 1)
     THEN Goto(r, "tail") /\ UNCHANGED <<names, content, own, history>>
     ELSE Mismatch(r) /\ CloseDest(r)

\* There is a fourth byte from the end to seek: only the file of the .part name
\* is ever cut, and a file that has had the final name is not called so again.
ReadTail(r) ==
  /\ pc[r] = "tail"
  /\ Judge(r, Magic(content[hold[r]], Len(content[hold[r]])), "open") /\ CloseDest(r)

\* One read of sha256, and its last, which finds the end of the file.
ReadPiece(r) ==
  /\ pc[r] = "digest" /\ Len(seen[r]) < Len(content[hold[r]])
  /\ seen' = [seen EXCEPT ![r] = Append(@, content[hold[r]][Len(@) + 1])]
  /\ UNCHANGED <<names, content, pc, force, fetched, handle, pos, hold, history>>
Digest(r) ==
  /\ pc[r] = "digest" /\ Len(seen[r]) >= Len(content[hold[r]])
  /\ Judge(r, seen[r] = Good, "report") /\ CloseDest(r)

\* "cached" or "saved", with the size of the file of that name.
Report(r) ==
  /\ pc[r] = "report"
  /\ Finish(r, IF dest = NoFile THEN "failed" ELSE IF fetched[r] THEN "saved" ELSE "cached")
  /\ UNCHANGED <<names, content, alone, crashed>>

-----------------------------------------------------------------------------
\* The try block.

RequestFails(r) ==
  /\ pc[r] = "request" /\ Goto(r, "cleanup")
  /\ UNCHANGED <<names, content, own, history>>

\* open("wb") creates the .part file or truncates the one that is there.
Unused(i) == i \notin {dest, part} /\ \A q \in Runs : handle[q] # i /\ hold[q] # i
OpenPart(r) ==
  /\ pc[r] = "request" /\ Goto(r, "copy")
  /\ \E i \in Inodes :
       /\ IF part = NoFile THEN Unused(i) ELSE i = part
       /\ part' = i /\ handle' = [handle EXCEPT ![r] = i]
       /\ content' = [content EXCEPT ![i] = <<>>]
  /\ UNCHANGED <<dest, force, fetched, pos, hold, seen, history>>

\* One write of copyfileobj, at the run's own position in the file.
Overwritten(file, at, piece) ==
  [k \in 1 .. (IF at < Len(file) THEN Len(file) ELSE at + 1) |->
     IF k = at + 1 THEN piece ELSE IF k <= Len(file) THEN file[k] ELSE "hole"]
CopyPiece(r) ==
  /\ pc[r] = "copy" /\ pos[r] < Longest
  /\ \E piece \in Served :
       content' = [content EXCEPT ![handle[r]] = Overwritten(@, pos[r], piece)]
  /\ pos' = [pos EXCEPT ![r] = @ + 1]
  /\ UNCHANGED <<names, pc, force, fetched, handle, hold, seen, history>>

EndCopy(r, next) ==
  /\ pc[r] = "copy" /\ Goto(r, next) /\ handle' = [handle EXCEPT ![r] = NoFile]
  /\ pos' = [pos EXCEPT ![r] = 0]
  /\ UNCHANGED <<names, content, force, fetched, hold, seen, history>>
CopyEnds(r) == EndCopy(r, "replace")
CopyFails(r) == EndCopy(r, "cleanup")

\* Mutant of Replace: what was copied is taken to be right.
ReplaceUnverified(r) ==
  /\ pc[r] = "replace" /\ part # NoFile
  /\ dest' = part /\ part' = NoFile /\ fetched' = [fetched EXCEPT ![r] = TRUE] /\ Goto(r, "report")
  /\ UNCHANGED <<content, force, handle, pos, hold, seen, history>>

Replace(r) ==
  /\ pc[r] = "replace" /\ part # NoFile
  /\ dest' = part /\ part' = NoFile /\ fetched' = [fetched EXCEPT ![r] = TRUE] /\ Goto(r, "check")
  /\ UNCHANGED <<content, force, handle, pos, hold, seen, history>>

ReplaceFails(r) ==
  /\ pc[r] = "replace" /\ part = NoFile /\ Goto(r, "cleanup")
  /\ UNCHANGED <<names, content, own, history>>

\* The name is gone afterwards, also when unlink finds it gone and raises.
Unlink(r) ==
  /\ pc[r] = "unlink" /\ dest' = NoFile /\ Goto(r, "cleanup")
  /\ UNCHANGED <<part, content, own, history>>

\* Mutant of Cleanup: the .part file is left for the next run to overwrite.
CleanupNothing(r) ==
  /\ pc[r] = "cleanup" /\ Finish(r, "failed")
  /\ UNCHANGED <<names, content, alone, crashed>>

Cleanup(r) ==
  /\ pc[r] = "cleanup" /\ part' = NoFile /\ Finish(r, "failed")
  /\ UNCHANGED <<dest, content, alone, crashed>>

Crash(r) ==
  /\ Active(r) /\ Finish(r, "crashed") /\ crashed' = TRUE
  /\ UNCHANGED <<names, content, alone>>

Match(r) ==
  \/ IsFile(r) \/ Stat(r) \/ OpenMagic(r) \/ ReadHead(r) \/ ReadTail(r)
  \/ OpenDigest(r) \/ ReadPiece(r) \/ Digest(r) \/ Gone(r) \/ Report(r)
Fetch(r) ==
  \/ RequestFails(r) \/ OpenPart(r) \/ CopyPiece(r) \/ CopyEnds(r) \/ CopyFails(r)
  \/ Replace(r) \/ ReplaceFails(r) \/ Unlink(r) \/ Cleanup(r)

Next == \E r \in Runs : Start(r) \/ Match(r) \/ Fetch(r) \/ Crash(r)

Spec == Init /\ [][Next]_vars

-----------------------------------------------------------------------------
TypeOK ==
  /\ dest \in Inodes \cup {NoFile} /\ part \in Inodes \cup {NoFile}
  /\ DOMAIN content = Inodes
  /\ pc \in [Runs -> {"idle", "check", "stat", "magic", "head", "tail", "open", "digest",
                      "report", "request", "copy", "replace", "unlink", "cleanup"}]
  /\ force \in [Runs -> BOOLEAN] /\ fetched \in [Runs -> BOOLEAN]
  /\ handle \in [Runs -> Inodes \cup {NoFile}] /\ hold \in [Runs -> Inodes \cup {NoFile}]
  /\ DOMAIN pos = Runs /\ DOMAIN seen = Runs
  /\ outcome \in [Runs -> {"none", "saved", "cached", "failed", "crashed"}]
  /\ alone \in [Runs -> BOOLEAN] /\ crashed \in BOOLEAN

FilesOK ==
  /\ content \in [Inodes -> Seq(Served \cup {"hole"})] /\ pos \in [Runs -> Nat]
  /\ seen \in [Runs -> Seq(Served \cup {"hole"})]

\* A run that found the pinned digest and may report it, or has.
Passed(r) == pc[r] = "report" \/ (pc[r] = "idle" /\ outcome[r] \in {"saved", "cached"})

\* A file is in one place: it is written under .part until it is renamed.
InPlace == part # NoFile => part # dest

\* Files are open in two places of the code only, and a run that asks the
\* server has renamed nothing yet.
Locals(r) ==
  /\ pc[r] = "copy" <=> handle[r] # NoFile
  /\ pc[r] \in {"head", "tail", "digest"} <=> hold[r] # NoFile
  /\ pc[r] # "digest" => seen[r] = <<>>
  /\ pc[r] \in {"idle", "request"} => ~fetched[r]

\* A run is hashing the file of the final name, and what it has hashed is what
\* stands there.
Judges(r) ==
  /\ pc[r] = "digest" /\ hold[r] = dest
  /\ \A k \in DOMAIN seen[r] : k \in DOMAIN content[dest] /\ seen[r][k] = content[dest][k]

\* When every run has passed or is hashing what it will judge, the file of the
\* final name is valid or is under one of these readings, and not a torn one.
LastReader ==
  (\A r \in Runs : Passed(r) \/ pc[r] = "digest") => Right(dest) \/ \E r \in Runs : Judges(r)

\* What a run knows when no other was active since its start.
AloneKnows(r) ==
  /\ \A q \in Runs \ {r} : ~Active(q)
  /\ Passed(r) => Right(dest)
  /\ pc[r] = "digest" => Judges(r)
  /\ pc[r] \in {"head", "tail"} => hold[r] = dest
  /\ pc[r] = "copy" => handle[r] = part
  /\ pc[r] = "unlink" => ~Right(dest)
  /\ pc[r] \in {"request", "copy", "replace", "cleanup"} /\ ~force[r] => ~Right(dest)

Litter == part # NoFile /\ ~crashed => \E r \in Runs : pc[r] \in {"copy", "replace", "cleanup"}

\* The inductive invariant.
DownloadInv ==
  /\ TypeOK /\ FilesOK /\ InPlace /\ LastReader /\ Litter
  /\ \A r \in Runs : Locals(r) /\ (alone[r] => AloneKnows(r))

\* What "saved" and "cached" are worth: once all runs, however they overlapped,
\* truncated each other's .part or swapped it away, have ended so, the file of
\* the final name is the pinned one; and so it is when a single run ended so
\* with no other about, whatever crashed runs had left behind (download.py:38,
\* download.py:60).
SavedMeansValid ==
  \/ \A r \in Runs : pc[r] = "idle" /\ outcome[r] \in {"saved", "cached"}
  \/ \E r \in Runs : alone[r] /\ pc[r] = "idle" /\ outcome[r] \in {"saved", "cached"}
  => Right(dest)

\* A valid file is lost to runs that overlap, or in one way by a run on its own:
\* forced, it renames over it a copy that came to its end and is not the pinned
\* file.  A server that refuses or breaks off, a run that was not forced, and the
\* unlink after a failed verification never cost one (download.py:37-55).
LostToForce(r) == force[r] /\ pc[r] = "replace" /\ ~Right(part)
ValidKept ==
  [][Right(dest) /\ ~Right(dest)' => \E r \in Runs : Active(r) /\ (~alone[r] \/ LostToForce(r))]_vars

\* Unless a run crashed, a .part file belongs to a run that is still going to
\* rename or remove it: when all have ended none is left (download.py:55-58).
NoPartLeft == ~crashed /\ (\A r \in Runs : ~Active(r)) => part = NoFile
=============================================================================
