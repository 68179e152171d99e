------------------------------- MODULE SharedDir -------------------------------
(***************************************************************************)
(* Several processes on one run directory.  DurableSink takes no lock:     *)
(* every `run` command of one configuration that is started while another  *)
(* still works writes the same journal, each at its own file offset, the   *)
(* same checkpoint.json.tmp and the same checkpoint.json.                  *)
(*                                                                         *)
(* Durable shows that the state of a run is determined by the number of    *)
(* its events; here that number stands for it, and a record is its place   *)
(* in the uninterrupted ledger.  A journal line is two units, as there.    *)
(* A checkpoint that two processes wrote into one file may be a mixture    *)
(* that parses, and what is resumed from it is astray: no state of the     *)
(* run.  What a process wrote stays: there are kills but no power losses,  *)
(* and no file operation fails but the rename.                             *)
(***************************************************************************)
EXTENDS Integers, FiniteSets, SequencesExt

CONSTANTS
  Process,
  Emits,        \* Emits[n]: how many records the n-th event emits
  Every,        \* DurabilityOpts.snapshot_every_events
  Mixtures,     \* what two checkpoints in one file may spell that parses
  Strays,       \* how many records an event of a run gone astray may emit
  MaxCommands,  \* bound on the commands the users start
  MaxKills      \* bound on the processes that are killed

ASSUME SharingAssumption ==
  /\ Emits \in Seq(Nat) /\ Every \in Nat \ {0}
  /\ Mixtures \subseteq [tag : {"checkpoint"}, sound : {FALSE}, events : Nat, left : Nat,
                          records : Nat, jlen : Nat]
  /\ Strays \subseteq Nat
  /\ MaxCommands \in Nat /\ MaxKills \in Nat

VARIABLES
  proc,      \* process -> its control state, memory and open files
  journal,   \* ledger.jsonl
  tmp,       \* checkpoint.json.tmp
  ckpt,      \* checkpoint.json
  clean,     \* since its run was created the directory had one user at a
             \* time (history)
  printed,   \* the ledgers printed so far, [clean, records]
  commands,  \* commands started
  kills

vars == <<proc, journal, tmp, ckpt, clean, printed, commands, kills>>
rest == <<clean, printed, commands, kills>>

-----------------------------------------------------------------------------
Lines(n) ==
  LET sums[m \in 0..Len(Emits)] == IF m = 0 THEN 0 ELSE sums[m - 1] + Emits[m]
  IN sums[n]
Golden(n) == [i \in 1..Lines(n) |-> i]
LastEvent == Len(Emits)

Never == -1
NoFile == [tag |-> "nofile"]
Begun == [tag |-> "begun"]   \* empty, or what its one writer wrote so far
Torn == [tag |-> "torn"]     \* nothing that resume_durable accepts

(* A process: its place; whether its state is one of the run's; events     *)
(* done and still to come; ledger, BufWriter, offset in the journal; the   *)
(* last save; the checkpoint in hand; the name its open temporary file     *)
(* has by now.                                                             *)
Idle == [pc |-> "down", sound |-> TRUE, events |-> 0, left |-> LastEvent, mem |-> << >>,
         buf |-> << >>, at |-> 0, last |-> Never, snap |-> NoFile, file |-> "none"]

Zero == <<0, 0>>
Encode(recs) == [i \in 1..(2 * Len(recs)) |-> <<recs[(i + 1) \div 2], 2 - (i % 2)>>]
(* n lines that end in a newline; that each is of one record; what is read *)
(* (0, a foreign record, where the halves of two make a line that parses). *)
Lined(bytes, n) ==
  2 * n <= Len(bytes) /\ \A i \in 1..n : bytes[2 * i - 1][2] = 1 /\ bytes[2 * i][2] = 2
Whole(bytes, n) ==
  Lined(bytes, n) /\ \A i \in 1..n : bytes[2 * i - 1][1] = bytes[2 * i][1]
Decode(bytes, n) ==
  [i \in 1..n |-> IF bytes[2 * i - 1][1] = bytes[2 * i][1] THEN bytes[2 * i][1] ELSE 0]
SetLen(bytes, n) == [i \in 1..n |-> IF i <= Len(bytes) THEN bytes[i] ELSE Zero]

(* Writing at an offset: over what is there, and beyond the end after a    *)
(* hole of zeros.                                                          *)
WrittenAt(bytes, at, new) ==
  [i \in 1..Max({Len(bytes), at + Len(new)}) |->
     IF i \in (at + 1)..(at + Len(new)) THEN new[i - at]
     ELSE IF i <= Len(bytes) THEN bytes[i] ELSE Zero]

(* An open temporary file follows the renames and removals of its name.    *)
Follow(procs, map) == [p \in Process |-> [procs[p] EXCEPT !.file = map[@]]]
Names == {"none", "tmp", "checkpoint", "unlinked"}
Renamed == [n \in Names |-> CASE n = "tmp" -> "checkpoint"
                              [] n = "checkpoint" -> "unlinked" [] OTHER -> n]
Unlinked(name) == [n \in Names |-> IF n = name THEN "unlinked" ELSE n]

-----------------------------------------------------------------------------
Init ==
  /\ proc = [p \in Process |-> Idle]
  /\ journal = << >> /\ tmp = NoFile /\ ckpt = NoFile
  /\ clean = TRUE /\ printed = {} /\ commands = 0 /\ kills = 0

At(p, place) == proc[p].pc = place
Update(p, state) == proc' = [proc EXCEPT ![p] = state]
Goto(p, place) == proc' = [proc EXCEPT ![p].pc = place]
Halt(p) == Update(p, Idle)
Alone(p) == \A q \in Process \ {p} : At(q, "down")

(* The command creates, or with --resume and a checkpoint resumes.         *)
Invoke(p, resume) ==
  /\ At(p, "down") /\ commands < MaxCommands
  /\ commands' = commands + 1
  /\ Update(p, [Idle EXCEPT !.pc = IF resume /\ ckpt # NoFile THEN "read" ELSE "remove"])
  /\ clean' = (clean /\ Alone(p))
  /\ UNCHANGED <<journal, tmp, ckpt, printed, kills>>

(* Mutant: the old checkpoint is left.                                     *)
MutantRemoveCheckpoint(p) ==
  /\ At(p, "remove")
  /\ Goto(p, "removetmp")
  /\ clean' = (clean \/ Alone(p))
  /\ UNCHANGED <<journal, tmp, ckpt, printed, commands, kills>>

(* DurableSink::create removes the checkpoint, ...                         *)
RemoveCheckpoint(p) ==
  /\ At(p, "remove")
  /\ ckpt' = NoFile
  /\ proc' = [Follow(proc, Unlinked("checkpoint")) EXCEPT ![p].pc = "removetmp"]
  /\ clean' = (clean \/ Alone(p))
  /\ UNCHANGED <<journal, tmp, printed, commands, kills>>

(* ... the temporary file, ...                                             *)
RemoveTemporary(p) ==
  /\ At(p, "removetmp")
  /\ tmp' = NoFile
  /\ proc' = [Follow(proc, Unlinked("tmp")) EXCEPT ![p].pc = "truncate"]
  /\ UNCHANGED <<journal, ckpt, rest>>

(* ... and truncates the journal, whoever else has it open.                *)
TruncateJournal(p) ==
  /\ At(p, "truncate")
  /\ journal' = << >>
  /\ Goto(p, "boundary")
  /\ UNCHANGED <<tmp, ckpt, rest>>

(* resume_durable reads the checkpoint ...                                 *)
ReadCheckpoint(p) ==
  /\ At(p, "read") /\ ckpt.tag = "checkpoint"
  /\ Update(p, [proc[p] EXCEPT !.pc = "setlen", !.snap = ckpt, !.sound = ckpt.sound,
                               !.events = ckpt.events, !.left = ckpt.left])
  /\ UNCHANGED <<journal, tmp, ckpt, rest>>

(* Mutant: a refused resume cleans the temporary file up.                  *)
MutantRefuseCheckpoint(p) ==
  /\ At(p, "read") /\ ckpt.tag # "checkpoint"
  /\ tmp' = NoFile
  /\ proc' = [Follow(proc, Unlinked("tmp")) EXCEPT ![p] = Idle]
  /\ UNCHANGED <<journal, ckpt, rest>>

(* ... refuses one that is gone by now, or torn, ...                       *)
RefuseCheckpoint(p) ==
  /\ At(p, "read") /\ ckpt.tag # "checkpoint"
  /\ Halt(p)
  /\ UNCHANGED <<journal, tmp, ckpt, rest>>

(* ... cuts the journal to the length the checkpoint gives ...             *)
CutJournal(p) ==
  /\ At(p, "setlen")
  /\ journal' = SetLen(journal, proc[p].snap.jlen)
  /\ Goto(p, "load")
  /\ UNCHANGED <<tmp, ckpt, rest>>

(* ... and loads as many lines as it counts; the sink goes on writing at   *)
(* the length.                                                             *)
LoadPrefix(p) ==
  /\ At(p, "load") /\ Lined(journal, proc[p].snap.records)
  /\ Update(p, [proc[p] EXCEPT !.pc = "boundary",
                               !.mem = Decode(journal, proc[p].snap.records),
                               !.at = proc[p].snap.jlen, !.snap = NoFile])
  /\ UNCHANGED <<journal, tmp, ckpt, rest>>

RefuseJournal(p) ==
  /\ At(p, "load") /\ ~Whole(journal, proc[p].snap.records)
  /\ Halt(p)
  /\ UNCHANGED <<journal, tmp, ckpt, rest>>

-----------------------------------------------------------------------------
SaveDue(s) ==
  /\ s.left = 0 \/ (s.events # 0 /\ s.events % Every = 0)
  /\ s.last # s.events
Passed(p) == At(p, "event") \/ (At(p, "boundary") /\ ~SaveDue(proc[p]))

(* One event of run_core.                                                  *)
Event(p) ==
  /\ Passed(p) /\ proc[p].left > 0
  /\ LET s == proc[p]
         Emitted == IF s.sound THEN {[i \in 1..Emits[s.events + 1] |-> Lines(s.events) + i]}
                    ELSE {[i \in 1..n |-> 0] : n \in Strays}
     IN \E new \in Emitted :
          Update(p, [s EXCEPT !.pc = "boundary", !.events = @ + 1, !.left = @ - 1,
                              !.mem = @ \o new, !.buf = @ \o Encode(new)])
  /\ UNCHANGED <<journal, tmp, ckpt, rest>>

(* The BufWriter writes n units through, at its own offset.                *)
Write(p, n, place) ==
  LET s == proc[p]
  IN /\ journal' = IF n = 0 THEN journal ELSE WrittenAt(journal, s.at, SubSeq(s.buf, 1, n))
     /\ Update(p, [s EXCEPT !.pc = place, !.at = @ + n, !.buf = SubSeq(@, n + 1, Len(@))])

Spill(p) ==
  /\ At(p, "boundary")
  /\ \E n \in 1..Len(proc[p].buf) : Write(p, n, "boundary")
  /\ UNCHANGED <<tmp, ckpt, rest>>

Flush(p) ==
  /\ At(p, "boundary") /\ SaveDue(proc[p])
  /\ Write(p, Len(proc[p].buf), "measure")
  /\ UNCHANGED <<tmp, ckpt, rest>>

(* The snapshot names the length of the file, which others may have grown. *)
Measure(p) ==
  /\ At(p, "measure")
  /\ LET s == proc[p]
     IN Update(p, [s EXCEPT !.pc = "open",
                     !.snap = [tag |-> "checkpoint", sound |-> s.sound,
                               events |-> s.events, left |-> s.left,
                               records |-> Len(s.mem), jlen |-> Len(journal)]])
  /\ UNCHANGED <<journal, tmp, ckpt, rest>>

(* File::create on the temporary file empties it, even under a writer.     *)
OpenTemporary(p) ==
  /\ At(p, "open")
  /\ tmp' = IF \E q \in Process \ {p} : proc[q].file = "tmp" THEN Torn ELSE Begun
  /\ proc' = [proc EXCEPT ![p].pc = "write", ![p].file = "tmp"]
  /\ UNCHANGED <<journal, ckpt, rest>>

(* The checkpoint is written unbuffered, one token after the other, each   *)
(* handle at its own offset, into whatever file the handle is by now.  If  *)
(* two had that file open, what is there in between (for a reader, or a    *)
(* rename, or when the writer is killed) is torn or mixed, ...             *)
WritePart(p) ==
  /\ At(p, "write")
  /\ LET Spoilt(content) == IF content = Begun THEN {Begun} ELSE {Torn} \cup Mixtures
     IN /\ tmp' \in IF proc[p].file = "tmp" THEN Spoilt(tmp) ELSE {tmp}
        /\ ckpt' \in IF proc[p].file = "checkpoint" THEN Spoilt(ckpt) ELSE {ckpt}
  /\ UNCHANGED <<proc, journal, rest>>

(* ... and so may be what is there in the end.                             *)
WriteTemporary(p) ==
  /\ At(p, "write")
  /\ LET Filled(content) ==
           {proc[p].snap} \cup IF content = Begun THEN {} ELSE {Torn} \cup Mixtures
     IN /\ tmp' \in IF proc[p].file = "tmp" THEN Filled(tmp) ELSE {tmp}
        /\ ckpt' \in IF proc[p].file = "checkpoint" THEN Filled(ckpt) ELSE {ckpt}
  /\ proc' = [proc EXCEPT ![p].pc = "rename", ![p].file = "none"]
  /\ UNCHANGED <<journal, rest>>

(* The rename publishes whatever the temporary file is by now.             *)
Rename(p) ==
  /\ At(p, "rename") /\ tmp # NoFile
  /\ ckpt' = tmp /\ tmp' = NoFile
  /\ proc' = [Follow(proc, Renamed) EXCEPT ![p].pc = "event", ![p].snap = NoFile,
                                           ![p].last = proc[p].events]
  /\ UNCHANGED <<journal, rest>>

(* Somebody else renamed or removed it: the command ends in an error.      *)
RenameFails(p) ==
  /\ At(p, "rename") /\ tmp = NoFile
  /\ Halt(p)
  /\ UNCHANGED <<journal, tmp, ckpt, rest>>

Finish(p) ==
  /\ Passed(p) /\ proc[p].left = 0
  /\ printed' = printed \cup {[clean |-> clean, records |-> proc[p].mem]}
  /\ Halt(p)
  /\ UNCHANGED <<journal, tmp, ckpt, clean, commands, kills>>

Kill(p) ==
  /\ ~At(p, "down") /\ kills < MaxKills
  /\ kills' = kills + 1
  /\ Halt(p)
  /\ UNCHANGED <<journal, tmp, ckpt, clean, printed, commands>>

Step(p) ==
  \/ RemoveCheckpoint(p) \/ RemoveTemporary(p) \/ TruncateJournal(p)
  \/ ReadCheckpoint(p) \/ RefuseCheckpoint(p) \/ CutJournal(p)
  \/ LoadPrefix(p) \/ RefuseJournal(p)
  \/ Event(p) \/ Flush(p) \/ Measure(p) \/ OpenTemporary(p) \/ WriteTemporary(p)
  \/ Rename(p) \/ RenameFails(p) \/ Finish(p)

Next ==
  \E p \in Process :
    Step(p) \/ Spill(p) \/ WritePart(p) \/ Kill(p) \/ \E resume \in BOOLEAN : Invoke(p, resume)

Spec == Init /\ [][Next]_vars

-----------------------------------------------------------------------------
(* A command that creates its run while nobody else is there makes good    *)
(* whatever processes in each other's way have left: foreign lines in the  *)
(* journal, a torn or mixed checkpoint, a temporary file.  As long as the  *)
(* directory has one user at a time from there on, every process works on  *)
(* a state of the run and has its exact ledger in memory, however often    *)
(* it is killed; no resume of it is refused; and what it prints is exact.  *)
AloneIsExact ==
  /\ clean =>
       \A p \in Process :
         /\ proc[p].pc \notin {"down", "read", "setlen", "load"} =>
              proc[p].sound /\ proc[p].mem = Golden(proc[p].events)
         /\ At(p, "read") => ckpt.tag = "checkpoint"
         /\ At(p, "load") => Whole(journal, proc[p].snap.records)
  /\ \A l \in printed : l.clean => l.records = Golden(LastEvent)

(* Two processes cannot ruin each other both: when every command is over   *)
(* and none was killed, at least one has printed its ledger.               *)
SomebodyFinishes ==
  kills = 0 /\ commands > 0 /\ (\A p \in Process : At(p, "down")) => printed # {}
=============================================================================
