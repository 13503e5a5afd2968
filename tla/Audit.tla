------------------------------- MODULE Audit --------------------------------
(***************************************************************************)
(* Verification of dumps against certificates (pkg/verify/backup.go), run   *)
(* as a background job of the console (pkg/console/jobs.go) or by the       *)
(* command line (cmd/ledger_cmd.go), over a node whose FSM goes on applying *)
(* entries.  Composes Ledger and Backup: the node Source is dumped, and its *)
(* store holds the persisted chain head beside the data.                    *)
(***************************************************************************)
EXTENDS Ledger, Backup

CONSTANTS
  Source,    \* the node that is dumped
  HeadPart,  \* the part of a dump that holds the head record
  Duties     \* bound: what is asked of the system in one behaviour

ASSUME AuditBounds == Source \in Node /\ HeadPart \in 1..Parts

VARIABLES
  data,   \* the last entry whose command has been executed on Source
  job,    \* the verification job
  duty

avars == <<lvars, bvars, data, job, duty>>

NoJob == [state |-> "none", progress |-> 0, materials |-> None, password |-> Plain,
          threshold |-> 0, verified |-> FALSE, parts |-> <<>>]

AuditInit ==
  /\ LedgerInit /\ BackupInit
  /\ data = StartHeight /\ job = NoJob /\ duty \in Duties

StoreContent ==
  [head |-> [height |-> head[Source], digest |-> Digest(Source, head[Source])], data |-> data]

-----------------------------------------------------------------------------
(***************************************************************************)
(* FSM.Apply on Source: advanceChain stores the head, then the command runs. *)
(***************************************************************************)
ApplyOn(n) ==
  /\ n = Source => data = head[Source]
  /\ AdvanceHead(n)
  /\ UNCHANGED data

Execute ==
  /\ data < head[Source]
  /\ data' = data + 1
  /\ UNCHANGED lvars

-----------------------------------------------------------------------------
(***************************************************************************)
(* VerifyBackup, with the progress its job reports.                         *)
(***************************************************************************)
StartVerifyBackup(x, password, threshold) ==
  /\ job.state = "none" /\ writer = Absent /\ file.content # Absent
  /\ job' = [NoJob EXCEPT !.state = "running", !.materials = x,
                          !.password = password, !.threshold = threshold]

Ends(verified) == [job EXCEPT !.state = "done", !.progress = 100, !.verified = verified]

\* The certificate is checked up front, under the CA key of the materials.
VerifyCertificate ==
  /\ job.state = "running" /\ job.progress = 0
  /\ job' = IF ledgerVerify(job.materials.caPub, job.materials.qc, job.materials.certs,
                            job.threshold, clock)
            THEN [job EXCEPT !.progress = 5]
            ELSE Ends(FALSE)

\* ledger.LoadHead of the throwaway store; a dump without the record is genesis.
HeadOf(f, password) ==
  IF HeadPart \in Range(ReadBack(f, password)) THEN f.content.head
  ELSE [height |-> 0, digest |-> <<0, FALSE>>]

MatchByHeight ==
  /\ job.state = "running" /\ job.progress = 5
  /\ job' = IF LoadsClean(file, job.password)
            THEN [Ends(job.materials.qc.ckpt.height = HeadOf(file, job.password).height)
                    EXCEPT !.parts = ReadBack(file, job.password)]
            ELSE [job EXCEPT !.state = "failed"]

\* A dump that does not load fails the job; one that does is compared.
loadBackupHead ==
  /\ job.state = "running" /\ job.progress = 5
  /\ job' = IF LoadsClean(file, job.password)
            THEN [Ends(MatchesHead(job.materials.qc, HeadOf(file, job.password)))
                    EXCEPT !.parts = ReadBack(file, job.password)]
            ELSE [job EXCEPT !.state = "failed"]

VerifyNext ==
  \/ \E x \in Certificates : \E p \in Passwords \cup {Wrong} : \E t \in {0, Majority} :
       x.caPub # None /\ StartVerifyBackup(x, p, t)
  \/ VerifyCertificate
  \/ loadBackupHead

-----------------------------------------------------------------------------
\* Bound: one certificate is enough for a verification.
Collect ==
  \/ (duty = "verify" => made = {}) /\ ledgerMaterials
  \/ collectDigest
  \/ SecondPass
  \/ Aggregate
  \/ LedgerTick
  \/ duty = "verify" /\ \E ca \in CAs : pinLedgerCAPub(ca)

ClusterNext ==
  \/ Collect /\ UNCHANGED data
  \/ Execute
  \/ \E n \in Node : ApplyOn(n)

AuditNext ==
  /\ UNCHANGED duty
  /\ \/ duty # "restore" /\ ClusterNext /\ UNCHANGED <<bvars, job>>
     \/ duty # "certify" /\ ExportNext(StoreContent) /\ UNCHANGED <<lvars, data, job>>
     \/ duty # "certify" /\ BackupNext(StoreContent) /\ UNCHANGED <<lvars, data, job>>
     \/ duty = "restore" /\ RestoreNext /\ UNCHANGED <<lvars, data, job>>
     \/ duty = "verify" /\ VerifyNext /\ UNCHANGED <<lvars, bvars, data>>

\* The goroutines of the call or job in progress run.
Serving ==
  /\ UNCHANGED <<lvars, data, duty>>
  /\ \/ /\ \/ StreamDone \/ ReceiveChunk \/ ReceiveDone
           \/ CloseContainer \/ CloseSink
           \/ \E k \in 1..ChunkSize : StreamChunk(k)
           \/ PumpChunk \/ PumpEnds \/ LoadChunk \/ AnswerRestore \/ FinishRestore
        /\ UNCHANGED job
     \/ (VerifyCertificate \/ loadBackupHead) /\ UNCHANGED bvars

AuditFairness == WF_avars(Serving)

AuditSpec == AuditInit /\ [][AuditNext]_avars /\ AuditFairness

-----------------------------------------------------------------------------
(***************************************************************************)
(* Properties.                                                             *)
(***************************************************************************)
\* client.go, Backup: when it returns a version and no error, every part of the
\* dump is in the file and can be read back, for a plain destination as well.
VersionedIsWhole ==
  [][outcome' # outcome /\ outcome'.err = "none" /\ outcome'.version > 0
       => /\ ReadsToEnd(file', file'.password)
          /\ ReadBack(file', file'.password) = Whole]_avars

\* VerifyBackup: a dump that verified under a majority of the nodes had the head
\* record among what it was loaded with, and the digest in it is the one which each
\* signer's own chain has at that height.  If it was loaded whole, it holds the
\* effects of every entry below the head; a plain dump that ends early loads as
\* well, and verifies when it has the head record.
VerifiedHead ==
  LET qc == job.materials.qc
  IN  job.verified /\ qc.ckpt.height > 0
        => /\ HeadPart \in Range(job.parts)
           /\ file.content.head = [height |-> qc.ckpt.height, digest |-> qc.ckpt.digest]
           /\ job.parts = Whole => file.content.data >= qc.ckpt.height - 1
           /\ job.threshold = Majority =>
                2 * Cardinality({n \in Node : head[n] >= qc.ckpt.height
                       /\ Digest(n, qc.ckpt.height) = file.content.head.digest})
                  > Cardinality(Node)

\* client.go, admin.go and jobs.go: every call ends.  A dump in an outcome, a
\* verification job in a state other than running, and a restore ("reports
\* completion (or failure)") for its client also when the dump turns out to be
\* damaged, unless the load itself has failed.
CallsEnd ==
  /\ (writer # Absent) ~> (outcome # Absent)
  /\ (job.state = "running") ~> (job.state \in {"done", "failed"})
  /\ Restoring ~> (restore.pc = "returned" \/ restore.load = "failed")
=============================================================================
