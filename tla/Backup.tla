------------------------------- MODULE Backup -------------------------------
(***************************************************************************)
(* Dumps: the container of pkg/backup/crypto.go, the admin.backup and       *)
(* admin.restore streams (pkg/server/admin.go) with their clients           *)
(* (pkg/backup/client.go), and the console's export and import              *)
(* (pkg/console/setup.go).  The module holds the actions; Audit supplies    *)
(* the store that is dumped and the specification.                          *)
(*                                                                         *)
(* A dump is the parts 1..Parts of what Storage.Backup captured, in order;  *)
(* ChunkSize parts fill a frame of the stream and a chunk of the container. *)
(* The argon2/AES-GCM sealing is external: a sealed chunk opens only under  *)
(* the password, counter and finality flag it was sealed with.              *)
(***************************************************************************)
EXTENDS Integers, Sequences

CONSTANTS
  Parts, ChunkSize,
  Passwords,   \* what dumps are made with, Plain among them
  Plain,       \* no password
  Wrong,       \* a password no dump was made with
  Absent, MaxFault

ASSUME BackupBounds ==
  /\ Parts \in Nat \ {0} /\ ChunkSize \in Nat \ {0} /\ MaxFault \in Nat
  /\ Wrong \notin Passwords
  /\ Absent \notin [err : {"none", "call", "write", "sink", "crash", "dump"}, version : 0..1]

VARIABLES
  server,   \* AdminService.backup: the goroutines that feed the stream
  wire,     \* frames on their way to the client
  writer,   \* the client's container writer
  file,     \* the destination: header and what has been written behind it
  outcome,  \* what backup.Backup (or the export) returned
  restore,  \* a restore in progress: the pump, the server, the load
  loaded,   \* the parts the target node's store was loaded with
  replicating, \* Replicator.Enabled on that node
  faults    \* failures that have happened; some behaviours are granted fewer

bvars == <<server, wire, writer, file, outcome, restore, loaded, replicating, faults>>

MayFail == faults < MaxFault
Fails == MayFail /\ faults' = faults + 1

-----------------------------------------------------------------------------
(***************************************************************************)
(* The container.  A frame of an encrypted dump is one sealed chunk; what a *)
(* plain dump holds is modelled as a frame per write, without a seal.       *)
(***************************************************************************)
NewWriter(password) ==
  [password |-> password, counter |-> 0, buf |-> <<>>, version |-> 0,
   closed |-> FALSE, err |-> "none"]

Frame(w, i, last, parts) ==
  [password |-> w.password, counter |-> w.counter + i, last |-> last,
   parts |-> parts, whole |-> TRUE]

\* encWriter.Write: chunks that become full are sealed, the rest is buffered.
Chunks(w, parts) == Len(w.buf \o parts) \div ChunkSize

Sealed(w, parts) ==
  IF w.password = Plain THEN <<Frame(w, 0, FALSE, parts)>>
  ELSE [i \in 1..Chunks(w, parts) |->
          Frame(w, i - 1, FALSE,
                SubSeq(w.buf \o parts, (i - 1) * ChunkSize + 1, i * ChunkSize))]

Written(w, parts) ==
  IF w.password = Plain THEN w
  ELSE [w EXCEPT !.counter = @ + Chunks(w, parts),
                 !.buf = SubSeq(w.buf \o parts, Chunks(w, parts) * ChunkSize + 1,
                                Len(w.buf \o parts))]

\* Close: the remainder, possibly empty, as the final chunk.
Final(w) ==
  IF w.password = Plain THEN <<>> ELSE <<Frame(w, 0, TRUE, w.buf)>>

\* NewReader refuses a dump of the other kind.
Readable(f, password) == (f.password = Plain) = (password = Plain)

\* encReader.next opens chunk i under the counter and the flag it expects.
OpensInAnyOrder(f, password, i) ==
  password # Plain => f.frames[i].whole /\ f.frames[i].password = password

Opens(f, password, i) ==
  password # Plain => /\ f.frames[i].whole
                      /\ f.frames[i].password = password
                      /\ f.frames[i].counter = i - 1

\* The chunks a reader gets through: up to the final one or the first bad one.
Reached(f, password, i) ==
  /\ \A j \in 1..i : Opens(f, password, j)
  /\ \A j \in 1..(i - 1) : ~f.frames[j].last

\* The reader ends with EOF: behind the final chunk, or where a plain file ends.
EndsAt(f, password, i) ==
  IF password = Plain THEN i = Len(f.frames) /\ Reached(f, password, i)
  ELSE i > 0 /\ Reached(f, password, i) /\ f.frames[i].last

PartsUpTo(f, i) ==
  LET upTo[j \in 0..i] == IF j = 0 THEN <<>> ELSE upTo[j - 1] \o f.frames[j].parts
  IN  upTo[i]

ReadsToEnd(f, password) ==
  Readable(f, password) /\ \E i \in 0..Len(f.frames) : EndsAt(f, password, i)

ReadBack(f, password) ==
  PartsUpTo(f, CHOOSE i \in 0..Len(f.frames) : EndsAt(f, password, i))

\* Storage.Load needs whole entries as well, which a plain file cannot promise.
LoadsClean(f, password) == ReadsToEnd(f, password) /\ \A i \in DOMAIN f.frames :
                             password = Plain => f.frames[i].whole

Whole == [i \in 1..Parts |-> i]

-----------------------------------------------------------------------------
(***************************************************************************)
(* The backup stream.                                                       *)
(***************************************************************************)
NoServer == [pc |-> "idle", sent |-> 0]
NoFile == [password |-> Plain, frames |-> <<>>, content |-> Absent]
NoRestore == [pc |-> "idle", password |-> Plain, next |-> 1, pump |-> "reading",
              chunk |-> Absent, load |-> "running", done |-> Absent, ok |-> FALSE]

BackupInit ==
  /\ server = NoServer /\ wire = <<>> /\ writer = Absent
  /\ file = NoFile /\ outcome = Absent
  /\ restore = NoRestore /\ loaded = <<>> /\ replicating \in BOOLEAN
  /\ faults \in 0..MaxFault

restoreVars == <<restore, loaded, replicating>>

\* OpenSink truncates the destination, NewWriter puts the header there, and the
\* node starts dumping the content c of its store.
OpenBackup(password, c) ==
  /\ server.pc = "idle" /\ writer = Absent /\ outcome = Absent
  /\ file' = [password |-> password, frames |-> <<>>, content |-> c]
  /\ writer' = NewWriter(password)
  /\ server' = [NoServer EXCEPT !.pc = "streaming"]
  /\ UNCHANGED <<wire, outcome, restoreVars, faults>>

\* The node refuses the call: the container is closed and the error returned.
BackupRefused(password) ==
  /\ server.pc = "idle" /\ writer = Absent /\ outcome = Absent
  /\ Fails
  /\ file' = [password |-> password, frames |-> Final(NewWriter(password)), content |-> Absent]
  /\ outcome' = [err |-> "call", version |-> 0]
  /\ UNCHANGED <<server, wire, writer, restoreVars>>

StreamChunk(k) ==
  /\ server.pc = "streaming" /\ wire = <<>>
  /\ server.sent + k <= Parts
  /\ wire' = <<[done |-> FALSE, parts |-> SubSeq(Whole, server.sent + 1, server.sent + k)]>>
  /\ server' = [server EXCEPT !.sent = @ + k]
  /\ UNCHANGED <<writer, file, outcome, restoreVars, faults>>

StreamDoneAnywhere ==
  /\ server.pc = "streaming" /\ wire = <<>>
  /\ wire' = <<[done |-> TRUE, parts |-> <<>>]>>
  /\ server' = [server EXCEPT !.pc = "closed"]
  /\ UNCHANGED <<writer, file, outcome, restoreVars, faults>>

\* EOF of the pipe: the terminal frame with the version of the dump.
StreamDone ==
  /\ server.pc = "streaming" /\ wire = <<>>
  /\ server.sent = Parts
  /\ wire' = <<[done |-> TRUE, parts |-> <<>>]>>
  /\ server' = [server EXCEPT !.pc = "closed"]
  /\ UNCHANGED <<writer, file, outcome, restoreVars, faults>>

\* Storage.Backup fails: the error is logged and the stream closed.
StreamFails ==
  /\ server.pc = "streaming" /\ server.sent < Parts
  /\ Fails
  /\ server' = [server EXCEPT !.pc = "closed"]
  /\ UNCHANGED <<wire, writer, file, outcome, restoreVars>>

\* The client is in its loop over the frames.
Copying == writer # Absent /\ ~writer.closed

\* The connection breaks: the frames end for the client, and for the node the
\* context of the call is done.
StreamLost ==
  /\ server.pc \in {"streaming", "closed"} /\ Copying
  /\ Fails
  /\ server' = [server EXCEPT !.pc = "closed"]
  /\ wire' = <<>>
  /\ UNCHANGED <<writer, file, outcome, restoreVars>>

ReceiveChunk ==
  /\ Copying /\ wire # <<>> /\ ~Head(wire).done
  /\ writer' = Written(writer, Head(wire).parts)
  /\ file' = [file EXCEPT !.frames = @ \o Sealed(writer, Head(wire).parts)]
  /\ wire' = Tail(wire)
  /\ UNCHANGED <<server, outcome, restoreVars, faults>>

\* The terminal frame only sets the version to return.
ReceiveDone ==
  /\ Copying /\ wire # <<>> /\ Head(wire).done
  /\ writer' = [writer EXCEPT !.version = 1]
  /\ wire' = Tail(wire)
  /\ UNCHANGED <<server, file, outcome, restoreVars, faults>>

\* A frame that does not reach the file, or not entirely.
Damaged(frames) == {<<>>} \cup {<<[Head(frames) EXCEPT !.whole = FALSE]>>}

\* A write fails; the counter has moved on and the loop ends.
WriteFails ==
  /\ Copying /\ wire # <<>> /\ ~Head(wire).done
  /\ Sealed(writer, Head(wire).parts) # <<>>
  /\ Fails
  /\ \E rest \in Damaged(Sealed(writer, Head(wire).parts)) :
       file' = [file EXCEPT !.frames = @ \o rest]
  /\ writer' = [writer EXCEPT !.counter = @ + 1, !.buf = <<>>, !.err = "write"]
  /\ wire' = <<>> /\ server' = [server EXCEPT !.pc = "closed"]
  /\ UNCHANGED <<outcome, restoreVars>>

\* The frames have ended, or the loop has: container.Close, which has nothing to
\* write for a plain dump.
CloseContainer ==
  /\ Copying /\ wire = <<>> /\ server.pc = "closed"
  /\ \/ /\ file' = [file EXCEPT !.frames = @ \o Final(writer)]
        /\ writer' = [writer EXCEPT !.closed = TRUE]
        /\ UNCHANGED faults
     \/ /\ Final(writer) # <<>>
        /\ Fails
        /\ \E rest \in Damaged(Final(writer)) :
             file' = [file EXCEPT !.frames = @ \o rest]
        /\ writer' = [writer EXCEPT !.closed = TRUE, !.err = "write"]
  /\ UNCHANGED <<server, wire, outcome, restoreVars>>

\* sink.Close, which may fail with everything written; then the first error is
\* returned, and beside it what the terminal frame said, 0 if there was none.
CloseSink ==
  /\ writer # Absent /\ writer.closed
  /\ \/ outcome' = [err |-> writer.err, version |-> writer.version] /\ UNCHANGED faults
     \/ /\ Fails
        /\ outcome' = [err |-> IF writer.err = "none" THEN "sink" ELSE writer.err,
                       version |-> writer.version]
  /\ writer' = Absent
  /\ UNCHANGED <<server, wire, file, restoreVars>>

\* The client dies: the file stays as it is and nobody is told anything.
BackupCrash ==
  /\ writer # Absent
  /\ Fails
  /\ writer' = Absent /\ wire' = <<>> /\ server' = [server EXCEPT !.pc = "closed"]
  /\ outcome' = [err |-> "crash", version |-> 0]
  /\ UNCHANGED <<file, restoreVars>>

\* exportDatabase writes the dump into the response and closes the container
\* only if Storage.Backup did not fail.
exportDatabase(password, c, n) ==
  /\ server.pc = "idle" /\ writer = Absent /\ outcome = Absent
  /\ IF n < Parts THEN Fails ELSE UNCHANGED faults
  /\ LET w == NewWriter(password)
         p == SubSeq(Whole, 1, n)
     IN  file' = [password |-> password, content |-> c,
                  frames |-> Sealed(w, p) \o (IF n < Parts THEN <<>> ELSE Final(Written(w, p)))]
  /\ outcome' = IF n = Parts THEN [err |-> "none", version |-> 1]
                ELSE [err |-> "dump", version |-> 0]
  /\ UNCHANGED <<server, wire, writer, restoreVars>>

-----------------------------------------------------------------------------
(***************************************************************************)
(* The restore stream: the client's pump reads chunk by chunk and closes its*)
(* side at EOF and at an error alike; the node feeds a pipe whose other end *)
(* is Storage.Load, and answers with one frame.                             *)
(***************************************************************************)
backupStream == <<server, wire, writer, file, outcome>>

Restoring == restore.pc = "running"

\* Refused before anything is loaded: the dump cannot be opened, or the node
\* replicates.
StartRestore(password) ==
  /\ restore.pc = "idle" /\ writer = Absent /\ file.content # Absent
  /\ restore' = IF Readable(file, password) /\ ~replicating
                THEN [NoRestore EXCEPT !.pc = "running", !.password = password]
                ELSE [NoRestore EXCEPT !.pc = "returned", !.password = password]
  /\ UNCHANGED <<backupStream, loaded, replicating, faults>>

AtEnd == EndsAt(file, restore.password, restore.next - 1)
CanRead == ~AtEnd /\ restore.next <= Len(file.frames)
                  /\ Reached(file, restore.password, restore.next)

PumpChunk ==
  /\ Restoring /\ restore.pump = "reading" /\ restore.chunk = Absent
  /\ CanRead
  /\ restore' = [restore EXCEPT !.next = @ + 1,
                   !.chunk = file.frames[restore.next]]
  /\ UNCHANGED <<backupStream, loaded, replicating, faults>>

\* EOF, or a truncated, undecipherable or corrupt chunk: sendC is closed.
PumpEndsAtEof ==
  /\ Restoring /\ restore.pump = "reading" /\ restore.chunk = Absent
  /\ AtEnd
  /\ restore' = [restore EXCEPT !.pump = "eof"]
  /\ UNCHANGED <<backupStream, loaded, replicating, faults>>

PumpEnds ==
  /\ Restoring /\ restore.pump = "reading" /\ restore.chunk = Absent
  /\ ~CanRead
  /\ restore' = [restore EXCEPT !.pump = IF AtEnd THEN "eof" ELSE "error"]
  /\ UNCHANGED <<backupStream, loaded, replicating, faults>>

\* pw.Write returns once Load has read the chunk; nobody reads after Load failed.
LoadChunk ==
  /\ Restoring /\ restore.chunk # Absent /\ restore.load = "running"
  /\ IF restore.chunk.whole
     THEN /\ loaded' = loaded \o restore.chunk.parts
          /\ restore' = [restore EXCEPT !.chunk = Absent]
     ELSE /\ restore' = [restore EXCEPT !.chunk = Absent, !.load = "failed"]
          /\ UNCHANGED loaded
  /\ UNCHANGED <<backupStream, replicating, faults>>

LoadFails ==
  /\ Restoring /\ restore.load = "running" /\ restore.done = Absent
  /\ Fails
  /\ restore' = [restore EXCEPT !.load = "failed"]
  /\ UNCHANGED <<backupStream, loaded, replicating>>

\* inC is closed: the pipe ends without an error, and so does a running Load.
LoadErrorDropped == "ok"

LoadError == IF restore.load = "failed" THEN "error" ELSE "ok"

AnswerRestore ==
  /\ Restoring /\ restore.chunk = Absent /\ restore.pump # "reading"
  /\ restore.done = Absent
  /\ restore' = [restore EXCEPT !.done = LoadError]
  /\ UNCHANGED <<backupStream, loaded, replicating, faults>>

\* The error of the pump comes first, then the one in the node's answer.
FinishOk(r) == r.pump # "error" /\ r.done # "error"

FinishRestore ==
  /\ Restoring /\ restore.done # Absent
  /\ restore' = [restore EXCEPT !.pc = "returned", !.ok = FinishOk(restore)]
  /\ UNCHANGED <<backupStream, loaded, replicating, faults>>

\* The connection breaks: the client's answer channel closes without a frame and
\* cancels a pump that is still reading, whose Canceled is not reported; for the
\* node inC is closed.
RestoreLost ==
  /\ Restoring /\ restore.done = Absent
  /\ Fails
  /\ restore' = [restore EXCEPT !.pc = "returned", !.chunk = Absent,
                   !.ok = FinishOk(restore)]
  /\ UNCHANGED <<backupStream, loaded, replicating>>

Loadable(f, password, i) ==
  i <= Len(f.frames) /\ Reached(f, password, i) /\ f.frames[i].whole

\* importDatabase: NewReader and Load in the request itself.
importDatabase(password) ==
  /\ restore.pc = "idle" /\ writer = Absent /\ file.content # Absent
  /\ IF Readable(file, password) /\ ~replicating
     THEN /\ loaded' = PartsUpTo(file, CHOOSE i \in 0..Len(file.frames) :
                          /\ i = 0 \/ Loadable(file, password, i)
                          /\ ~Loadable(file, password, i + 1))
          /\ restore' = [NoRestore EXCEPT !.pc = "returned", !.password = password,
                           !.done = IF LoadsClean(file, password) THEN "ok" ELSE "error",
                           !.ok = LoadsClean(file, password)]
     ELSE /\ restore' = [NoRestore EXCEPT !.pc = "returned", !.password = password]
          /\ UNCHANGED loaded
  /\ UNCHANGED <<backupStream, replicating, faults>>

\* The host starts raft.
StartReplicating ==
  /\ ~replicating
  /\ replicating' = TRUE
  /\ UNCHANGED <<backupStream, restore, loaded, faults>>

\* The tail of the file is lost, on a boundary or in the middle of a frame.
LoseTail ==
  /\ writer = Absent /\ file.frames # <<>> /\ restore.pc = "idle"
  /\ Fails
  /\ \E i \in 1..Len(file.frames) : \E torn \in BOOLEAN :
       file' = [file EXCEPT !.frames =
                  IF torn THEN Append(SubSeq(@, 1, i - 1), [@[i] EXCEPT !.whole = FALSE])
                  ELSE SubSeq(@, 1, i - 1)]
  /\ UNCHANGED <<server, wire, writer, outcome, restoreVars>>

ExportNext(c) ==
  \/ \E p \in Passwords : \E n \in 0..Parts : exportDatabase(p, c, n)
  \/ LoseTail

BackupNext(c) ==
  \/ \E p \in Passwords : OpenBackup(p, c) \/ BackupRefused(p)
  \/ \E k \in 1..ChunkSize : StreamChunk(k)
  \/ StreamDone
  \/ StreamFails
  \/ StreamLost
  \/ ReceiveChunk
  \/ ReceiveDone
  \/ WriteFails
  \/ CloseContainer
  \/ CloseSink
  \/ BackupCrash

RestoreNext ==
  \/ \E p \in Passwords \cup {Wrong} : StartRestore(p) \/ importDatabase(p)
  \/ PumpChunk
  \/ PumpEnds
  \/ LoadChunk
  \/ LoadFails
  \/ AnswerRestore
  \/ FinishRestore
  \/ RestoreLost
  \/ StartReplicating

-----------------------------------------------------------------------------
(***************************************************************************)
(* Properties.                                                             *)
(***************************************************************************)
\* crypto.go: "so a truncated stream is detected".  After any failed write, lost
\* connection, crash or lost tail, an encrypted dump reads back to its end only if
\* every write and the closing of its container had succeeded.  It yields then what
\* the stream delivered, without a gap: all of it, when Backup returned a version,
\* be it beside the error of the upload.
TruncationDetected ==
  /\ file.password # Plain /\ file.content # Absent /\ writer = Absent
  /\ ReadsToEnd(file, file.password)
  => /\ outcome.err \in {"none", "sink", "crash"}
     /\ \E k \in 0..Parts : ReadBack(file, file.password) = SubSeq(Whole, 1, k)
     /\ outcome.version > 0 => ReadBack(file, file.password) = Whole

\* client.go, Restore: a success that the node has answered means that the node
\* has loaded what the dump holds, to its last part, whichever of the pump and
\* the load failed or ended first.
RestoreHonest ==
  restore.pc = "returned" /\ restore.ok /\ restore.done # Absent
    => /\ LoadsClean(file, restore.password)
       /\ loaded = ReadBack(file, restore.password)

=============================================================================
