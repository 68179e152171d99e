-------------------------------- MODULE Cooker --------------------------------
(***************************************************************************)
(* The commands of crates/cli/src/main.rs that keep files: `personas`      *)
(* writes profiles, `dump` and `run` check their arguments, load profiles, *)
(* simulate and write the ledger, `report` and `cost` read it.  One user   *)
(* gives one command after the other; any of them may be killed, and power *)
(* may fail.                                                               *)
(*                                                                         *)
(* The durable runner that `run` calls is the abstract RecoverableRun,     *)
(* which Durable implements.  A job, the personas and the configuration    *)
(* from which a RunId is derived, stands for its ledger as well.  What a   *)
(* power loss without --fsync may take from under that runner is the end   *)
(* of its journal.  A file that is being written is Torn: cut short,       *)
(* neither TOML nor JSON parses.                                           *)
(***************************************************************************)
EXTENDS Integers, FiniteSets, SequencesExt

CONSTANTS
  Commands,   \* what the user may type, see CommandsAssumption
  Path,       \* paths of persona files, ordered as sort orders them
  InDir,      \* those in the personas directory
  Extra,      \* the persona files there are at the start: path -> content
  Presets,    \* the built-in profiles, a sequence of [path, name]
  Events,     \* the events of every run
  MaxInt,     \* i64::MAX
  Day,        \* seconds of a day
  Start,      \* SimConfig's start_ts
  MaxKills    \* bound on the kills and power losses

ASSUME CommandsAssumption ==
  \A m \in Commands :
    /\ m.verb \in {"personas", "dump", "run", "report"}
    /\ m.known \in BOOLEAN                   \* --mode, --funding, --rebalance
    /\ {m.agents, m.external} \subseteq Nat /\ m.days \in Int
    /\ m.files \in Seq(Path) /\ m.dir \in BOOLEAN
    /\ m.resume \in BOOLEAN
ASSUME BoundsAssumption ==
  Path \subseteq Nat /\ Events \in Nat /\ MaxKills \in Nat /\ {MaxInt, Day, Start} \subseteq Nat
ASSUME FilesAssumption ==
  /\ InDir \subseteq Path /\ IsFiniteSet(InDir)
  /\ Presets \in Seq(Range(Presets)) /\ Presets # << >>

VARIABLES
  pc,        \* where the command is, "idle" when there is none
  cmd,
  personas,  \* the profiles it loaded; while presets are written, those left
  files,     \* persona files: path -> content
  job,       \* RecoverableRun: the job the run directory records,
  saved,     \* ... how many of its events,
  printed,   \* ... and the last ledger the runner returned
  journal,   \* ledger.jsonl: "whole" if it has what the checkpoint names,
             \* else "short", or "padded" with zeros to the length
  out,       \* the ledger file
  origin,    \* where the profiles of the directory's run came from, and
  inputs,    \* ... its arguments and profiles (history)
  latest,    \* the job of the run that wrote the ledger file, as long as
             \* its directory is left alone (history)
  kills

vars == <<pc, cmd, personas, files, job, saved, printed, journal, out, origin, inputs, latest,
          kills>>
dir == <<job, saved, printed, journal>>
history == <<origin, inputs, latest>>

None == [tag |-> "none"]      \* no such file, nothing recorded
Torn == [tag |-> "torn"]
Toml(name, valid) == [tag |-> "toml", name |-> name, valid |-> valid]

-----------------------------------------------------------------------------
(* Mutant: the directory's paths are taken as they come.                   *)
MutantLoadOrder(listing) == listing

(* Paths in the order they are read: those of the command line, then the   *)
(* directory's, in whatever order the system lists them, sorted.           *)
LoadOrder(listing) ==
  LET Before(p) == {q \in Range(listing) : q < p}
  IN [k \in DOMAIN listing |->
        CHOOSE p \in Range(listing) : Cardinality(Before(p)) = k - 1]
Listings(m) == IF m.dir THEN SetToSeqs({p \in InDir : files[p] # None}) ELSE {<< >>}

Profile(preset) == Toml(preset.name, TRUE)
Loaded(paths) ==
  IF paths = << >> THEN [i \in DOMAIN Presets |-> Profile(Presets[i])]
  ELSE [i \in DOMAIN paths |-> files[paths[i]]]

(* load_personas' checks: every file parses and is valid, and no two       *)
(* profiles have one name.                                                 *)
Acceptable(ps) ==
  /\ \A i \in DOMAIN ps : ps[i].tag = "toml" /\ ps[i].valid
  /\ \A i, j \in DOMAIN ps : i # j => ps[i].name # ps[j].name

(* parse_mode, parse_funding, parse_rebalance and base_cfg.                *)
BaseCfg(m) ==
  /\ m.known
  /\ m.agents > 0 /\ m.days > 0 /\ m.external > 0
  /\ m.days * Day <= MaxInt
Admissible(m, listing) ==
  /\ BaseCfg(m)
  /\ m.dir => listing # << >>
  /\ Acceptable(Loaded(m.files \o LoadOrder(listing)))

(* RunId::derive, and a mutant that leaves the profiles out.               *)
Arguments(m) == <<m.agents, m.days, m.external>>
MutantJobOf(m, ps) == [tag |-> "job", args |-> Arguments(m), personas |-> << >>]
JobOf(m, ps) == [tag |-> "job", args |-> Arguments(m), personas |-> ps]
Profiles == Range(Extra) \cup {Profile(Presets[i]) : i \in DOMAIN Presets}
Jobs == [tag : {"job"}, args : {Arguments(m) : m \in Commands}, personas : Seq(Profiles)]
(* Where the profiles of a command come from.                              *)
OriginOf(m) == [tag |-> "origin", args |-> Arguments(m), paths |-> m.files,
                dir |-> m.dir, files |-> files]
Ledger(j) == [tag |-> "ledger", run |-> j, records |-> j]
Runner ==
  INSTANCE RecoverableRun WITH
    Total <- [j \in Jobs |-> Events], Result <- [j \in Jobs |-> j],
    NoJob <- None, NoResult <- None

-----------------------------------------------------------------------------
Init ==
  /\ pc = "idle" /\ cmd \in Commands /\ personas = << >>
  /\ files = [p \in Path |-> IF p \in DOMAIN Extra THEN Extra[p] ELSE None]
  /\ job = None /\ saved = -1 /\ printed = None
  /\ journal = "whole" /\ out = None
  /\ origin = None /\ inputs = None /\ latest = None /\ kills = 0

Exit == pc' = "idle" /\ personas' = << >>

Invoke(m) ==
  /\ pc = "idle"
  /\ pc' = (CASE m.verb = "personas" -> "presets" [] m.verb = "report" -> "read"
              [] OTHER -> "check")
  /\ cmd' = m
  /\ personas' = IF m.verb = "personas" THEN Presets ELSE << >>
  /\ UNCHANGED <<files, dir, out, history, kills>>

(* write_personas: each file is emptied, then filled.                      *)
EmptyPreset ==
  /\ pc = "presets" /\ personas # << >>
  /\ pc' = "fill"
  /\ files' = [files EXCEPT ![Head(personas).path] = Torn]
  /\ UNCHANGED <<cmd, personas, dir, out, history, kills>>

FillPreset ==
  /\ pc = "fill" /\ pc' = "presets"
  /\ files' = [files EXCEPT ![Head(personas).path] = Profile(Head(personas))]
  /\ personas' = Tail(personas)
  /\ UNCHANGED <<cmd, dir, out, history, kills>>

PresetsDone ==
  /\ pc = "presets" /\ personas = << >>
  /\ Exit
  /\ UNCHANGED <<cmd, files, dir, out, history, kills>>

(* Everything is checked before anything is run or written.                *)
Admit ==
  /\ pc = "check"
  /\ \E listing \in Listings(cmd) :
       /\ Admissible(cmd, listing)
       /\ personas' = Loaded(cmd.files \o LoadOrder(listing))
  /\ pc' = IF cmd.verb = "dump" THEN "empty"
           ELSE IF cmd.resume /\ job # None THEN "resume" ELSE "create"
  /\ UNCHANGED <<cmd, files, dir, out, history, kills>>

Refuse ==
  /\ pc = "check"
  /\ \E listing \in Listings(cmd) : ~Admissible(cmd, listing)
  /\ Exit
  /\ UNCHANGED <<cmd, files, dir, out, history, kills>>

Mine == JobOf(cmd, personas)

Create ==
  /\ pc = "create" /\ pc' = "running"
  /\ Runner!StartAfresh
  /\ journal' = "whole"
  /\ origin' = OriginOf(cmd) /\ inputs' = <<Arguments(cmd), personas>> /\ latest' = None
  /\ UNCHANGED <<cmd, personas, files, out, kills>>

Resume ==
  /\ pc = "resume" /\ job = Mine /\ journal = "whole"
  /\ pc' = "running"
  /\ UNCHANGED <<cmd, personas, files, dir, out, history, kills>>

(* resume_durable refuses another run's checkpoint before it touches a     *)
(* file; ...                                                               *)
RefuseResume ==
  /\ pc = "resume" /\ job # Mine
  /\ Exit
  /\ UNCHANGED <<cmd, files, dir, out, history, kills>>

(* ... a journal with too few records it has set to the checkpoint's       *)
(* length by then.                                                         *)
RefuseJournal ==
  /\ pc = "resume" /\ job = Mine /\ journal # "whole"
  /\ journal' = "padded"
  /\ Exit
  /\ UNCHANGED <<cmd, files, job, saved, printed, out, history, kills>>

Advance ==
  /\ pc = "running"
  /\ \E n \in 0..Events : Runner!Save(Mine, n)
  /\ UNCHANGED <<pc, cmd, personas, files, journal, out, history, kills>>

RunReturns ==
  /\ pc = "running" /\ pc' = "empty"
  /\ Runner!Report(Mine)
  /\ UNCHANGED <<cmd, personas, files, journal, out, history, kills>>

Wrote == IF cmd.verb = "run" THEN Mine ELSE None

(* Mutant: the ledger file is created before the run is over.              *)
MutantEmptyOut ==
  /\ pc = "running" \/ (pc = "empty" /\ cmd.verb = "dump")
  /\ pc' = IF pc = "empty" THEN "write" ELSE pc
  /\ out' = Torn /\ latest' = Wrote
  /\ UNCHANGED <<cmd, personas, files, dir, origin, inputs, kills>>

(* fs::write empties the ledger file, and fills it with what the runner    *)
(* or, for `dump`, the simulation returned.                                *)
EmptyOut ==
  /\ pc = "empty" /\ pc' = "write"
  /\ out' = Torn /\ latest' = Wrote
  /\ UNCHANGED <<cmd, personas, files, dir, origin, inputs, kills>>

WriteOut ==
  /\ pc = "write"
  /\ out' = IF cmd.verb = "run" THEN printed ELSE Ledger(Mine)
  /\ Exit
  /\ UNCHANGED <<cmd, files, dir, history, kills>>

(* report and cost parse the whole file or fail; they write nothing.       *)
Read ==
  /\ pc = "read"
  /\ Exit
  /\ UNCHANGED <<cmd, files, dir, out, history, kills>>

Kill ==
  /\ pc # "idle" /\ kills < MaxKills
  /\ kills' = kills + 1
  /\ Exit
  /\ UNCHANGED <<cmd, files, dir, out, history>>

(* A power loss that finds no command, or has killed it: the ledger file,  *)
(* which is never synced, may be torn, and so may the end of a journal.    *)
PowerLoss ==
  /\ pc = "idle" /\ kills < MaxKills
  /\ kills' = kills + 1
  /\ out' \in {out} \cup IF out = None THEN {} ELSE {Torn}
  /\ \/ journal' = journal /\ latest' = latest
     \/ journal = "whole" /\ job # None /\ journal' = "short" /\ latest' = None
  /\ UNCHANGED <<pc, cmd, personas, files, job, saved, printed, origin, inputs>>

Step ==
  \/ EmptyPreset \/ FillPreset \/ PresetsDone
  \/ Admit \/ Refuse \/ Create \/ Resume \/ RefuseResume \/ RefuseJournal
  \/ Advance \/ RunReturns \/ EmptyOut \/ WriteOut \/ Read

Next == (\E m \in Commands : Invoke(m)) \/ Step \/ Kill \/ PowerLoss

Spec == Init /\ [][Next]_vars

-----------------------------------------------------------------------------
(* A run that was killed is not refused when the same command is given     *)
(* again on the same profiles, in whatever order the system lists them.    *)
OwnRunResumes ==
  pc = "resume" /\ origin = OriginOf(cmd) => job = Mine

(* The profiles are read anew by every command, and files may have been    *)
(* rewritten, added or torn since a run was created: a `run` that goes on  *)
(* with what a directory holds has the arguments and the very profiles     *)
(* that the run was created with, so no ledger is of two populations.      *)
RunKeepsItsInputs ==
  cmd.verb = "run" /\ pc \in {"running", "empty", "write"} =>
    inputs = <<Arguments(cmd), personas>>

(* The ledger file is overwritten in place and never synced.  A torn one   *)
(* is no loss: as long as nobody creates a run in its directory and the    *)
(* journal is whole, the directory holds that run to its last event.       *)
TornOutIsSaved ==
  out = Torn /\ latest # None => job = latest /\ saved = Events /\ journal = "whole"
===============================================================================
