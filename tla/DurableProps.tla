----------------------------- MODULE DurableProps -----------------------------
(* What the durable runner promises, stated over Durable. *)
EXTENDS Durable

Running == pc \in {"boundary", "sync", "rename", "syncdir", "event"}
Resuming == pc \in {"setlen", "load"}
GoldenSim(c, n) == Golden[c].sim[n]
GoldenLedger(c, n) == Golden[c].ledger[n]

(* The control state and the memory of the process agree: a process that   *)
(* does not run has no memory, one that saves has flushed its BufWriter    *)
(* and holds a checkpoint from the sync of the journal to that of the      *)
(* directory, and what is visible on disk may survive a power loss.        *)
TypeOK ==
  /\ pc \in {"down", "create", "truncate", "read", "setlen", "load",
             "boundary", "sync", "rename", "syncdir", "event"}
  /\ cmd \in Commands
  /\ last \in Nat \cup {Never}
  /\ crashes \in 0..MaxCrashes
  /\ (sim = Gone) <=> ~(Running \/ Resuming)
  /\ (snap = Gone) <=> pc \notin {"setlen", "load", "rename", "syncdir"}
  /\ pc # "boundary" => buf = << >>
  /\ journal \in jdisk /\ ckpt \in cdisk

(* After any crashes and resumes the process is in the very state the      *)
(* uninterrupted run is in after as many events: generator, counters,      *)
(* rotated accounts, schedule.                                             *)
ControlExact ==
  Running \/ Resuming =>
    /\ sim.events \in 0..Golden[cmd.cfg].last
    /\ sim = GoldenSim(cmd.cfg, sim.events)

(* ... and its ledger is that run's ledger, so a resumed run prints the    *)
(* byte-identical result.                                                  *)
LedgerExact ==
  /\ Running => mem = GoldenLedger(cmd.cfg, sim.events)
  /\ out # Gone => out.records = GoldenLedger(out.run, Golden[out.run].last)

(* The journal is the ledger: the file and the BufWriter together hold     *)
(* exactly the lines of the records in memory, none lost and none twice.   *)
JournalIsLedger == Running => journal \o buf = Encode(mem)

(* A checkpoint never names records the journal does not have: at every    *)
(* instant, whatever checkpoint a crash leaves finds its complete prefix   *)
(* in whatever journal the crash leaves.                                   *)
Covers(bytes, cp) ==
  cp.tag = "checkpoint" =>
    LET recs == GoldenLedger(cp.run, cp.events)
    IN /\ cp.records = Len(recs) /\ cp.jlen = 2 * Len(recs)
       /\ IsPrefix(Encode(recs), bytes)
CheckpointCovered ==
  /\ Covers(journal, ckpt)
  /\ PowerLoss => \A cp \in cdisk, bytes \in jdisk : Covers(bytes, cp)

(* Resuming somebody else's run changes neither file.                      *)
ForeignRunUntouched ==
  [][cmd.resume /\ pc \notin {"down", "create", "truncate"}
       /\ ckpt.tag = "checkpoint" /\ ckpt.run # cmd.cfg
     => UNCHANGED <<journal, ckpt>>]_vars

(* The runner implements the abstract recoverable run: a checkpoint is     *)
(* only ever replaced by a later one of the same run or dropped by a       *)
(* command that starts the directory afresh, and what is printed is the    *)
(* full result of a run whose terminal checkpoint is in place.             *)
Progress(cp) == IF cp.tag = "checkpoint" THEN cp.events ELSE Never
RecordedRun(cp) == IF cp.tag = "checkpoint" THEN cp.run ELSE NoFile
Abstract ==
  INSTANCE RecoverableRun WITH
    Jobs     <- Configs,
    Total    <- [c \in Configs |-> Golden[c].last],
    Result   <- [c \in Configs |-> Golden[c].ledger[Golden[c].last]],
    NoJob    <- NoFile,
    NoResult <- Gone,
    job      <- RecordedRun(ckpt),
    saved    <- Progress(ckpt),
    printed  <- out
ImplementsRecoverableRun == Abstract!Spec

(* Progress that was made durable is never lost again: what the worst      *)
(* power loss leaves behind only ever grows.                               *)
CommittedNeverLost ==
  [][\A cp \in cdisk' : \E old \in cdisk : Progress(old) <= Progress(cp)]_vars

(* A run whose user keeps resuming it finishes, however it was crashed.    *)
Finishes == <>(out # Gone)
=============================================================================
