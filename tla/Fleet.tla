-------------------------------- MODULE Fleet --------------------------------
(***************************************************************************)
(* The discrete-event engine of crates/agent-runtime/src/lib.rs as a pure  *)
(* step: Fresh builds the state of a run, Wake pops the schedule entry     *)
(* that is due, lets its agent act and reschedules it.  What the ChaCha    *)
(* RNG decides during one wake is a draw, a record                         *)
(*   maint  the coin of the maintenance branch came up                     *)
(*   outs   one subaccount index per outgoing transaction of the wake      *)
(*   picks  the distinct operational subaccounts a maintenance selects     *)
(*   at     increasing offsets, the running sums of intra_gap (each >= 1)  *)
(*   delay  the result of next_delay_secs                                  *)
(* so the same step serves a nondeterministic run (FleetRun, any draw) and *)
(* a seeded one (Durable, draws read from the tape of the seed).  Amounts, *)
(* transaction kinds and the counterparty's identity are abstracted away   *)
(* (so is the memo, whose destination is its own source).                  *)
(*                                                                         *)
(* A run configuration c is a record: mode, rebalance, hold (of            *)
(* hold_aggregate_rate), kmin and kmax (of sweep_min/max_sources), subs    *)
(* (agent -> number of subaccounts), start and end.                        *)
(*                                                                         *)
(* Definitions whose names start with Mutant are no part of the model:     *)
(* they are bugs the code could have, kept to show that the properties     *)
(* see them.                                                               *)
(***************************************************************************)
EXTENDS Integers, Sequences, SequencesExt

(* An account id is named by the draw that produced it: <<rng position,    *)
(* role, index>>.  Ids of different draws are different, as 32 random      *)
(* bytes are.  External stands for every counterparty account.             *)
External == <<-1, 0, 0>>
Initial(a, k) == <<0, a, k>>
FeeRole == 1
SuccessorRole == 2
AccountIdRandom(s, role, j) == <<s.rng, role, j>>

IsHardened(c) == c.mode = "hardened"
Later(t, u) == IF t >= u THEN t ELSE u

-----------------------------------------------------------------------------
(* The schedule: one entry per agent, or per (agent, subaccount) when the  *)
(* timing is hardened.                                                     *)
SchedEntries(c) ==
  IF IsHardened(c)
  THEN FlattenSeq([a \in 1..Len(c.subs) |-> [k \in 1..c.subs[a] |-> <<a, k>>]])
  ELSE [a \in 1..Len(c.subs) |-> <<a, 0>>]

ScaledDelay(c, a, delay) == IF IsHardened(c) /\ c.hold THEN delay * c.subs[a] ELSE delay

(* The state of a run that is about to start; delays has the first draw of *)
(* next_delay_secs of every schedule entry.                                *)
Fresh(c, delays) ==
  LET entries == SchedEntries(c)
  IN [rng    |-> 1,
      clock  |-> c.start,
      slot   |-> 0,
      sig    |-> 0,
      events |-> 0,
      sched  |-> entries,
      subs   |-> [a \in 1..Len(c.subs) |-> [k \in 1..c.subs[a] |-> Initial(a, k)]],
      main   |-> [a \in 1..Len(c.subs) |-> Initial(a, 1)],
      next   |-> [e \in 1..Len(entries) |->
                    c.start + Later(ScaledDelay(c, entries[e][1], delays[e]), 1)]]

(* Mutant: a max-heap (the heap's entries lost their Reverse).             *)
MutantDue(s) ==
  CHOOSE e \in DOMAIN s.next : \A f \in DOMAIN s.next :
    \/ s.next[e] > s.next[f]
    \/ s.next[e] = s.next[f] /\ e <= f

(* The heap's minimum: the earliest entry, ties broken by its index.       *)
Due(s) ==
  CHOOSE e \in DOMAIN s.next : \A f \in DOMAIN s.next :
    \/ s.next[e] < s.next[f]
    \/ s.next[e] = s.next[f] /\ e <= f

Done(c, s) == \A e \in DOMAIN s.next : s.next[e] > c.end

-----------------------------------------------------------------------------
(* What each kind of wake sends: a sequence of [src, dst, fee, wait], wait *)
(* being the record's distance from the start of the wake.                 *)
Planned(src, dst, fee, wait) == [src |-> src, dst |-> dst, fee |-> fee, wait |-> wait]

(* Mutant: one fee payer drawn per wake instead of one per transaction.    *)
MutantFreshFee(s, j) == AccountIdRandom(s, FeeRole, 1)

FreshFee(s, j) == AccountIdRandom(s, FeeRole, j)

(* Naive: one source per wake, the agent's main account pays every fee;    *)
(* the rebalance funnels every other subaccount into it.                   *)
Funnel(s, a) ==
  FlattenSeq([k \in DOMAIN s.subs[a] |->
    IF s.subs[a][k] = s.main[a] THEN << >>
    ELSE <<Planned(s.subs[a][k], s.main[a], s.main[a], 0)>>])

NaiveAction(s, a, d) ==
  LET acts == [j \in DOMAIN d.outs |->
                 Planned(s.subs[a][d.outs[1]], External, s.main[a], 0)]
  IN IF d.maint THEN acts \o Funnel(s, a) ELSE acts

(* Legacy cooker: every part has a source of its own and a throwaway fee   *)
(* payer; the rebalance moves value to a fresh churn address.              *)
LegacyAction(s, a, d) ==
  LET acts  == [j \in DOMAIN d.outs |->
                  Planned(s.subs[a][d.outs[j]], External, FreshFee(s, j), 0)]
      churn == Planned(s.subs[a][Head(d.picks)], AccountIdRandom(s, SuccessorRole, 1),
                       FreshFee(s, Len(d.outs) + 1), 0)
  IN IF d.maint THEN Append(acts, churn) ELSE acts

(* Hardened: parts and decoys all leave the subaccount that woke, each at  *)
(* a time of its own.                                                      *)
HardenedAction(s, a, k, d) ==
  [j \in DOMAIN d.outs |-> Planned(s.subs[a][k], External, FreshFee(s, j), d.at[j])]

Successor(s, j) == AccountIdRandom(s, SuccessorRole, j)

(* rotate_accounts and consolidate_sweep, both no-ops below 2 subaccounts. *)
RotateAccounts(c, s, a, d) ==
  IF c.subs[a] < 2 THEN << >>
  ELSE [j \in DOMAIN d.picks |->
          Planned(s.subs[a][d.picks[j]], Successor(s, j), FreshFee(s, j), d.at[j])]

ConsolidateSweep(c, s, a, d) ==
  IF c.subs[a] < 2 THEN << >>
  ELSE [j \in DOMAIN d.picks |->
          Planned(s.subs[a][d.picks[j]], s.main[a], FreshFee(s, j), d.at[j])]

PerformAction(c, s, e, d) ==
  LET a == s.sched[e][1]
      k == s.sched[e][2]
  IN CASE c.mode = "naive"  -> NaiveAction(s, a, d)
       [] c.mode = "legacy" -> LegacyAction(s, a, d)
       [] IsHardened(c) /\ ~d.maint -> HardenedAction(s, a, k, d)
       [] IsHardened(c) /\ d.maint /\ c.rebalance = "rotate" -> RotateAccounts(c, s, a, d)
       [] IsHardened(c) /\ d.maint /\ c.rebalance = "hub" -> ConsolidateSweep(c, s, a, d)

(* Mutant: the successors are recorded but not installed.                  *)
MutantSubsForgotten(c, s, a, d) == s.subs[a]

(* The agent's accounts after the wake: a rotated index holds its successor. *)
SubsAfter(c, s, a, d) ==
  IF IsHardened(c) /\ d.maint /\ c.rebalance = "rotate" /\ c.subs[a] >= 2
  THEN [k \in 1..c.subs[a] |->
          IF \E j \in DOMAIN d.picks : d.picks[j] = k
          THEN Successor(s, CHOOSE j \in DOMAIN d.picks : d.picks[j] = k)
          ELSE s.subs[a][k]]
  ELSE s.subs[a]

-----------------------------------------------------------------------------
(* Mutant: the chain clock follows the entry's own time, unclamped.        *)
MutantObservableAt(s, best) == best

(* The observable chain clock never lags behind what was already recorded. *)
ObservableAt(s, best) == Later(best, s.clock)

(* MockChain::record for each planned transaction of agent a, in order.    *)
Stamp(s, a, at, plans) ==
  [j \in DOMAIN plans |->
     [sig |-> s.sig + j, slot |-> s.slot + j, ts |-> at + plans[j].wait,
      src |-> plans[j].src, dst |-> plans[j].dst, fee |-> plans[j].fee, op |-> a]]

(* The entry's next logical wake, anchored to its own time and not to the  *)
(* chain clock.                                                            *)
NextAt(c, best, a, delay) == best + Later(ScaledDelay(c, a, delay), 1)

(* One turn of run_core's loop: the new records and the new state.         *)
Wake(c, s, d) ==
  LET e     == Due(s)
      a     == s.sched[e][1]
      best  == s.next[e]
      plans == PerformAction(c, s, e, d)
      recs  == Stamp(s, a, ObservableAt(s, best), plans)
  IN [recs |-> recs,
      sim  |-> [s EXCEPT !.rng     = @ + 1,
                         !.clock   = IF recs = << >> THEN ObservableAt(s, best)
                                     ELSE Last(recs).ts,
                         !.slot    = @ + Len(recs),
                         !.sig     = @ + Len(recs),
                         !.events  = @ + 1,
                         !.subs[a] = SubsAfter(c, s, a, d),
                         !.next[e] = NextAt(c, best, a, d.delay)]]
=============================================================================
