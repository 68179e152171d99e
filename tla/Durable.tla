------------------------------- MODULE Durable -------------------------------
(***************************************************************************)
(* Crash-safe execution of a fleet run, crates/agent-runtime/src/durable.rs *)
(* with the `run` command of crates/cli/src/main.rs that drives it.  One   *)
(* process at a time works on one run directory: it creates it, or resumes *)
(* from its checkpoint; it journals records through a BufWriter; at some   *)
(* boundaries of run_core it saves a checkpoint.  The process can be       *)
(* killed between any two steps and, when PowerLoss is TRUE, the machine   *)
(* can lose what no fsync has made durable.                                *)
(*                                                                         *)
(* A file has a visible content and the set of contents that may be found  *)
(* after a power loss.  A journal line is two units, so that a flush or a  *)
(* crash can tear it; the real line is longer and of varying length.       *)
(* checkpoint.json.tmp is not a variable: no code path reads it, and a     *)
(* write to it is observed only through the rename that publishes it.      *)
(***************************************************************************)
EXTENDS Fleet

CONSTANTS
  Configs,      \* run configurations, each with its seed's delays and tape
  Golden,       \* Golden[c]: the uninterrupted run of c, see GoldenAssumption
  Commands,     \* the invocations a user makes: [cfg, resume, every]
  Fsync,        \* DurabilityOpts.fsync
  PowerLoss,    \* whether the machine can lose power
  RemoveFails,  \* whether remove_file can fail in DurableSink::create
  MaxCrashes    \* bound on kills and power losses

(* The draws of a seeded run come from its tape, at the generator's        *)
(* position.  (It is read cyclically so that it never runs out.)           *)
DrawAt(c, s) == c.tape[((s.rng - 1) % Len(c.tape)) + 1]
BuildFresh(c) == Fresh(c, c.delays)

(* Golden[c] is the run of c that nothing interrupts: its engine states    *)
(* and its ledgers, indexed by the number of events, up to the last.       *)
ASSUME GoldenAssumption ==
  \A c \in Configs :
    /\ Golden[c].last \in Nat
    /\ Golden[c].sim[0] = BuildFresh(c)
    /\ Golden[c].ledger[0] = << >>
    /\ \A n \in 0..Golden[c].last : Golden[c].sim[n].events = n
    /\ \A n \in 0..Golden[c].last : Done(c, Golden[c].sim[n]) <=> n = Golden[c].last
    /\ \A n \in 0..(Golden[c].last - 1) :
         LET w == Wake(c, Golden[c].sim[n], DrawAt(c, Golden[c].sim[n]))
         IN /\ Golden[c].sim[n + 1] = w.sim
            /\ w.recs \in Seq(Range(w.recs))
            /\ Golden[c].ledger[n + 1] = Golden[c].ledger[n] \o w.recs

ASSUME CommandsAssumption ==
  \A m \in Commands : m.cfg \in Configs /\ m.resume \in BOOLEAN /\ m.every \in Nat \ {0}

ASSUME FlagsAssumption ==
  Fsync \in BOOLEAN /\ PowerLoss \in BOOLEAN /\ RemoveFails \in BOOLEAN /\ MaxCrashes \in Nat

VARIABLES
  pc,       \* where the process is; "down" when there is none
  cmd,      \* the command it runs, [cfg, resume, every]
  sim,      \* RunState: generator, counters, accounts, schedule
  mem,      \* chain.ledger.records
  buf,      \* bytes in the journal's BufWriter
  last,     \* last_snapshot_events, or Never
  snap,     \* the Checkpoint being saved or resumed from
  journal,  \* ledger.jsonl
  jdisk,    \* the contents of ledger.jsonl a power loss may leave
  ckpt,     \* checkpoint.json
  cdisk,    \* the contents of checkpoint.json a power loss may leave
  out,      \* the ledger the last finished command printed
  crashes

proc == <<cmd, sim, mem, buf, last, snap>>
disk == <<journal, jdisk, ckpt, cdisk>>
vars == <<pc, cmd, sim, mem, buf, last, snap, journal, jdisk, ckpt, cdisk, out, crashes>>

Never == -1
Gone == [tag |-> "gone"]      \* memory of a process that does not run
NoFile == [tag |-> "nofile"]
Torn == [tag |-> "torn"]      \* a checkpoint.json that does not parse

-----------------------------------------------------------------------------
(* Journal lines.  Encode is what on_records writes; Intact and Decode are *)
(* load_journal_prefix's reading of the first n newline-terminated lines.  *)
Zero == <<Gone, 0>>
Encode(recs) ==
  [i \in 1..(2 * Len(recs)) |-> <<recs[(i + 1) \div 2], IF i % 2 = 1 THEN 1 ELSE 2>>]
(* Mutant: the length is checked but the lines are not.                    *)
MutantIntact(bytes, n) == 2 * n <= Len(bytes)

Intact(bytes, n) ==
  /\ 2 * n <= Len(bytes)
  /\ \A i \in 1..n : /\ bytes[2 * i - 1][2] = 1
                     /\ bytes[2 * i] = <<bytes[2 * i - 1][1], 2>>
Decode(bytes, n) == [i \in 1..n |-> bytes[2 * i][1]]

(* Mutant: the crash tail is not cut off.                                  *)
MutantSetLen(bytes, n) == bytes

(* File::set_len: cuts a longer file and zero-fills a shorter one.         *)
SetLen(bytes, n) == [i \in 1..n |-> IF i <= Len(bytes) THEN bytes[i] ELSE Zero]

(* What a power loss may leave of a file whose visible content becomes now *)
(* and which no sync has fixed: the older contents, too.  Without power    *)
(* losses only the visible content counts.                                 *)
Survive(older, now) == IF PowerLoss THEN older \cup {now} ELSE {now}

(* Appending to the journal: a power loss keeps any prefix of what no sync *)
(* made durable, and the file's length may survive without the data.       *)
Lost(bytes, n) == [i \in DOMAIN bytes |-> IF i <= n THEN bytes[i] ELSE Zero]
AppendToJournal(bytes) ==
  /\ journal' = journal \o bytes
  /\ jdisk' = Survive(jdisk \cup {journal \o SubSeq(bytes, 1, n) : n \in 0..Len(bytes)}
                            \cup {journal \o Lost(bytes, n) : n \in 0..Len(bytes)},
                      journal')

-----------------------------------------------------------------------------
(* RunState::snapshot: everything build_fresh cannot reconstruct.          *)
Snapshot(c, s, n, len) ==
  [tag |-> "checkpoint", run |-> c,
   rng |-> s.rng, clock |-> s.clock, slot |-> s.slot, sig |-> s.sig,
   next |-> s.next, subs |-> s.subs, main |-> s.main,
   records |-> n, jlen |-> len, events |-> s.events]

(* Mutants: a checkpoint of another run of the same shape is accepted; the *)
(* rotated accounts, or the generator's position, are not restored.        *)
MutantResumable(c, cp) ==
  /\ cp.tag = "checkpoint"
  /\ Len(cp.next) = Len(BuildFresh(c).sched)
MutantRestoreAccounts(c, cp) ==
  [BuildFresh(c) EXCEPT !.rng = cp.rng, !.clock = cp.clock, !.slot = cp.slot,
                        !.sig = cp.sig, !.events = cp.events, !.next = cp.next]
MutantRestoreGenerator(c, cp) ==
  [BuildFresh(c) EXCEPT !.subs = cp.subs, !.main = cp.main, !.clock = cp.clock,
                        !.slot = cp.slot, !.sig = cp.sig, !.events = cp.events,
                        !.next = cp.next]

(* resume_durable's checks and its restoration of the run.                 *)
Resumable(c, cp) ==
  LET s == BuildFresh(c)
  IN /\ cp.tag = "checkpoint"
     /\ cp.run = c
     /\ Len(cp.next) = Len(s.sched)
     /\ Len(cp.subs) = Len(s.subs) /\ Len(cp.main) = Len(s.main)
     /\ \A a \in DOMAIN s.subs : Len(cp.subs[a]) = Len(s.subs[a])
Restore(c, cp) ==
  [BuildFresh(c) EXCEPT !.subs = cp.subs, !.main = cp.main, !.rng = cp.rng,
                        !.clock = cp.clock, !.slot = cp.slot, !.sig = cp.sig,
                        !.events = cp.events, !.next = cp.next]

(* Mutant: no terminal checkpoint, only those of the cadence.              *)
MutantSaveDue ==
  /\ sim.events # 0 /\ sim.events % cmd.every = 0
  /\ last # sim.events

SaveDue ==
  /\ \/ Done(cmd.cfg, sim)
     \/ sim.events # 0 /\ sim.events % cmd.every = 0
  /\ last # sim.events

(* on_boundary has returned: it found nothing to save, or has saved.       *)
Passed == pc = "event" \/ (pc = "boundary" /\ ~SaveDue)

-----------------------------------------------------------------------------
(* The files of a directory nobody used yet. *)
Init ==
  /\ pc = "down" /\ cmd \in Commands
  /\ sim = Gone /\ mem = << >> /\ buf = << >> /\ last = Never /\ snap = Gone
  /\ journal = << >> /\ jdisk = {<< >>}
  /\ ckpt = NoFile /\ cdisk = {NoFile}
  /\ out = Gone /\ crashes = 0

(* The user runs the command; with --resume and a checkpoint in the        *)
(* directory it resumes, else it starts afresh.                            *)
Invoke(m) ==
  /\ pc = "down"
  /\ pc' = IF m.resume /\ ckpt # NoFile THEN "read" ELSE "create"
  /\ cmd' = m
  /\ UNCHANGED <<sim, mem, buf, last, snap, disk, out, crashes>>

(* DurableSink::create drops an old checkpoint, ignoring a failure, ...    *)
CreateRemove ==
  /\ pc = "create" /\ pc' = "truncate"
  /\ \/ ckpt' = NoFile /\ cdisk' = Survive(cdisk, NoFile)
     \/ RemoveFails /\ UNCHANGED <<ckpt, cdisk>>
  /\ UNCHANGED <<proc, journal, jdisk, out, crashes>>

(* ... then truncates the journal; nothing of this is synced.              *)
CreateTruncate ==
  /\ pc = "truncate" /\ pc' = "boundary"
  /\ journal' = << >> /\ jdisk' = Survive(jdisk, << >>)
  /\ sim' = BuildFresh(cmd.cfg) /\ mem' = << >> /\ buf' = << >> /\ last' = Never
  /\ UNCHANGED <<cmd, snap, ckpt, cdisk, out, crashes>>

(* resume_durable up to load_journal_prefix: parse, check, restore.        *)
ReadCheckpoint ==
  /\ pc = "read" /\ Resumable(cmd.cfg, ckpt)
  /\ pc' = "setlen"
  /\ snap' = ckpt /\ sim' = Restore(cmd.cfg, ckpt)
  /\ UNCHANGED <<cmd, mem, buf, last, disk, out, crashes>>

Halt ==
  /\ pc' = "down"
  /\ sim' = Gone /\ mem' = << >> /\ buf' = << >> /\ last' = Never /\ snap' = Gone
  /\ UNCHANGED cmd

RefuseCheckpoint ==
  /\ pc = "read" /\ ~Resumable(cmd.cfg, ckpt)
  /\ Halt
  /\ UNCHANGED <<disk, out, crashes>>

(* load_journal_prefix cuts the journal to the checkpoint's length first   *)
(* and ignores whether the sync that follows worked ...                    *)
TruncateJournal ==
  /\ pc = "setlen" /\ pc' = "load"
  /\ journal' = SetLen(journal, snap.jlen)
  /\ jdisk' \in {{journal'}, Survive(jdisk, journal')}
  /\ UNCHANGED <<proc, ckpt, cdisk, out, crashes>>

(* ... then reads exactly the records the checkpoint counts, and the sink  *)
(* is reopened at that length.                                             *)
LoadPrefix ==
  /\ pc = "load" /\ Intact(journal, snap.records)
  /\ pc' = "boundary"
  /\ mem' = Decode(journal, snap.records) /\ buf' = << >> /\ last' = Never
  /\ snap' = Gone
  /\ UNCHANGED <<cmd, sim, disk, out, crashes>>

RefuseJournal ==
  /\ pc = "load" /\ ~Intact(journal, snap.records)
  /\ Halt
  /\ UNCHANGED <<disk, out, crashes>>

-----------------------------------------------------------------------------
(* One event of run_core; on_records puts its lines in the BufWriter.      *)
Event ==
  /\ Passed /\ ~Done(cmd.cfg, sim)
  /\ pc' = "boundary"
  /\ \E w \in {Wake(cmd.cfg, sim, DrawAt(cmd.cfg, sim))} :
       /\ sim' = w.sim
       /\ mem' = mem \o w.recs
       /\ buf' = buf \o Encode(w.recs)
  /\ UNCHANGED <<cmd, last, snap, disk, out, crashes>>

(* The BufWriter writes through whenever it is full: any prefix, any time. *)
Spill ==
  /\ pc = "boundary"
  /\ \E n \in 1..Len(buf) :
       /\ AppendToJournal(SubSeq(buf, 1, n))
       /\ buf' = SubSeq(buf, n + 1, Len(buf))
  /\ UNCHANGED <<pc, cmd, sim, mem, last, snap, ckpt, cdisk, out, crashes>>

(* on_boundary when a checkpoint is due: flush ...                         *)
Flush ==
  /\ pc = "boundary" /\ SaveDue
  /\ pc' = "sync"
  /\ AppendToJournal(buf)
  /\ buf' = << >>
  /\ UNCHANGED <<cmd, sim, mem, last, snap, ckpt, cdisk, out, crashes>>

(* Mutant: the journal is not synced before the checkpoint names it.       *)
MutantSyncJournal ==
  /\ pc = "sync" /\ pc' = "rename"
  /\ snap' = Snapshot(cmd.cfg, sim, Len(mem), Len(journal))
  /\ UNCHANGED <<cmd, sim, mem, buf, last, disk, out, crashes>>

(* ... sync the journal, measure it, take the snapshot and write it to the *)
(* temporary file (save's own flush and sync find nothing left to do) ...  *)
SyncJournal ==
  /\ pc = "sync" /\ pc' = "rename"
  /\ jdisk' = IF Fsync THEN {journal} ELSE jdisk
  /\ snap' = Snapshot(cmd.cfg, sim, Len(mem), Len(journal))
  /\ UNCHANGED <<cmd, sim, mem, buf, last, journal, ckpt, cdisk, out, crashes>>

(* Mutant: checkpoint.json is written in place instead of being renamed.   *)
MutantPublish ==
  /\ pc = "rename" /\ pc' = "syncdir"
  /\ ckpt' = snap
  /\ cdisk' = Survive(cdisk \cup {Torn}, snap)
  /\ UNCHANGED <<proc, journal, jdisk, out, crashes>>

(* ... publish it; an unsynced temporary file may turn out torn ...        *)
Publish ==
  /\ pc = "rename" /\ pc' = "syncdir"
  /\ ckpt' = snap
  /\ cdisk' = Survive(IF Fsync THEN cdisk ELSE cdisk \cup {Torn}, snap)
  /\ UNCHANGED <<proc, journal, jdisk, out, crashes>>

(* ... and sync the directory.                                             *)
SyncDirectory ==
  /\ pc = "syncdir" /\ pc' = "event"
  /\ cdisk' = IF Fsync THEN {ckpt} ELSE cdisk
  /\ last' = sim.events /\ snap' = Gone
  /\ UNCHANGED <<cmd, sim, mem, buf, journal, jdisk, ckpt, out, crashes>>

(* run_core returns and the command prints its ledger.                     *)
Finish ==
  /\ Passed /\ Done(cmd.cfg, sim)
  /\ out' = [tag |-> "ledger", run |-> cmd.cfg, records |-> mem]
  /\ Halt
  /\ UNCHANGED <<disk, crashes>>

-----------------------------------------------------------------------------
(* SIGKILL.  What the kernel already holds stays; an I/O error, which ends *)
(* the process after dropping (flushing) the BufWriter, is Spill and Kill. *)
Kill ==
  /\ pc # "down" /\ crashes < MaxCrashes
  /\ crashes' = crashes + 1
  /\ Halt
  /\ UNCHANGED <<disk, out>>

LosePower ==
  /\ PowerLoss /\ crashes < MaxCrashes
  /\ crashes' = crashes + 1
  /\ Halt
  /\ journal' \in jdisk /\ jdisk' = {journal'}
  /\ ckpt' \in cdisk /\ cdisk' = {ckpt'}
  /\ UNCHANGED out

Step ==
  \/ CreateRemove \/ CreateTruncate
  \/ ReadCheckpoint \/ RefuseCheckpoint \/ TruncateJournal \/ LoadPrefix \/ RefuseJournal
  \/ Event \/ Flush \/ SyncJournal \/ Publish \/ SyncDirectory \/ Finish

Next ==
  \/ \E m \in Commands : Invoke(m)
  \/ Step \/ Spill
  \/ Kill \/ LosePower

Spec == Init /\ [][Next]_vars

(* The process is scheduled, and its user starts it again after a crash or *)
(* a refusal; nothing forces a Spill, a crash or a second run.             *)
FairSpec == Spec /\ WF_vars(Step) /\ WF_vars(\E m \in Commands : Invoke(m))
=============================================================================
