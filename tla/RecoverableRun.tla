---------------------------- MODULE RecoverableRun ----------------------------
(***************************************************************************)
(* What a durable run promises, without files or processes: a directory    *)
(* holds the progress of one job, progress only grows until someone starts *)
(* the directory afresh, and the only thing ever printed is the complete   *)
(* result of a job that was recorded to its end.                           *)
(***************************************************************************)
EXTENDS Integers

CONSTANTS Jobs,    \* what can be run
          Total,   \* Total[j]: the number of events of j
          Result,  \* Result[j]: the ledger of j
          NoJob,   \* no job is recorded
          NoResult \* nothing was printed

VARIABLES job,    \* the job recorded in the directory
          saved,  \* how many of its events, or -1
          printed \* the last result printed, [run, records]

vars == <<job, saved, printed>>

Init == job = NoJob /\ saved = -1 /\ printed = NoResult

Save(j, n) ==
  /\ job \in {NoJob, j} /\ n > saved
  /\ job' = j /\ saved' = n
  /\ UNCHANGED printed

StartAfresh == job' = NoJob /\ saved' = -1 /\ UNCHANGED printed

Report(j) ==
  /\ job = j /\ saved = Total[j]
  /\ printed' = [tag |-> "ledger", run |-> j, records |-> Result[j]]
  /\ UNCHANGED <<job, saved>>

Next ==
  \/ \E j \in Jobs : Report(j) \/ \E n \in 0..Total[j] : Save(j, n)
  \/ StartAfresh

Spec == Init /\ [][Next]_vars
=============================================================================
