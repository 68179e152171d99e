------------------------------- MODULE FleetRun -------------------------------
(***************************************************************************)
(* One run of the engine, build_fresh and then run_core without a durable  *)
(* sink, for every outcome of the random draws.  Module FundedRun adds the *)
(* funding post-pass and states the specification of both.                 *)
(***************************************************************************)
EXTENDS Fleet, FiniteSets

CONSTANTS Configs,  \* run configurations
          Delays,   \* results of next_delay_secs, never below 1
          Draws     \* outcomes of the draws of one wake

ASSUME ConfigsAssumption ==
  \A c \in Configs :
    /\ c.mode \in {"naive", "legacy", "hardened"}
    /\ c.rebalance \in {"rotate", "hub"}
    /\ c.hold \in BOOLEAN
    /\ c.kmin \in Nat /\ c.kmax \in Nat \ {0}
    /\ c.subs \in Seq(Nat \ {0}) /\ c.start \in Int /\ c.end \in Int

ASSUME DelaysAssumption == Delays \subseteq Nat \ {0}

ASSUME DrawsAssumption ==
  \A d \in Draws :
    /\ d.maint \in BOOLEAN
    /\ d.outs \in Seq(Nat \ {0}) /\ d.outs # << >>
    /\ d.picks \in Seq(Nat \ {0}) /\ d.picks # << >>
    /\ d.at \in Seq(Nat \ {0})
    /\ \A i, j \in DOMAIN d.at : i < j => d.at[i] < d.at[j]
    /\ d.delay \in Delays

VARIABLES cfg,    \* the configuration of this run
          sim,    \* RunState: generator, chain counters, accounts, schedule
          ledger  \* chain.ledger.records

engine == <<cfg, sim, ledger>>

-----------------------------------------------------------------------------
(* How many subaccounts a maintenance wake selects, of n - 1 operational   *)
(* ones: sweep_min_sources..sweep_max_sources clamped to what there is.    *)
Clamp(x, lo, hi) == IF x < lo THEN lo ELSE IF x > hi THEN hi ELSE x
PickCounts(c, n) ==
  LET kmax == Clamp(c.kmax, 1, n - 1)
  IN Clamp(c.kmin, 1, kmax)..kmax

(* Mutant: the treasury is among the accounts a maintenance may pick.      *)
MutantOperational(n) == 1..n

(* Index 1 is the treasury: it is not among the operational indices.       *)
Operational(n) == 2..n

(* The draws the code can make for the entry that is due.                  *)
LegalDraw(c, s, d) ==
  LET a == s.sched[Due(s)][1]
      n == c.subs[a]
  IN /\ \A j \in DOMAIN d.outs : d.outs[j] <= n
     /\ IF IsHardened(c) /\ d.maint
        THEN n >= 2 => /\ Len(d.picks) \in PickCounts(c, n)
                       /\ Range(d.picks) \subseteq Operational(n)
                       /\ IsInjective(d.picks)
                       /\ Len(d.picks) <= Len(d.at)
        ELSE /\ d.picks[1] <= n
             /\ Len(d.outs) <= Len(d.at)

EngineInit ==
  /\ cfg \in Configs
  /\ \E delays \in [DOMAIN SchedEntries(cfg) -> Delays] : sim = Fresh(cfg, delays)
  /\ ledger = << >>

Turn(d) ==
  /\ ~Done(cfg, sim)
  /\ LegalDraw(cfg, sim, d)
  /\ \E w \in {Wake(cfg, sim, d)} : sim' = w.sim /\ ledger' = ledger \o w.recs
  /\ UNCHANGED cfg

-----------------------------------------------------------------------------
AgentsOf(c) == 1..Len(c.subs)

(* What an observer sees is in order: signatures are contiguous, slots     *)
(* follow them, timestamps never go back although the entries' own wake    *)
(* times overlap (run_core's clamp of the chain clock), and the clock is   *)
(* never behind the last record.                                           *)
ObservableOrder ==
  /\ Len(ledger) = sim.sig /\ sim.slot = sim.sig
  /\ \A i \in DOMAIN ledger : ledger[i].sig = i /\ ledger[i].slot = i
  /\ \A i, j \in DOMAIN ledger : i < j => ledger[i].ts <= ledger[j].ts
  /\ \A i \in DOMAIN ledger : ledger[i].ts <= sim.clock

(* A rotation in the ledger: value moved into a freshly drawn account.     *)
IsRotation(r) == r.dst[2] = SuccessorRole /\ r.dst[1] > 0

(* Once a subaccount was rotated away it is dead: no later record of any   *)
(* wake, of any schedule entry, is sourced from it or sends to it          *)
(* (rotate_accounts replaces the identity every other entry will use).     *)
RetiredStaysRetired ==
  IsHardened(cfg) => \A i, j \in DOMAIN ledger :
    IsRotation(ledger[i]) /\ i < j =>
      /\ ledger[j].src # ledger[i].src
      /\ ledger[j].dst # ledger[i].src

(* The accounts the fleet controls at any time are pairwise different,     *)
(* within an agent and between agents, and each is either an original one  *)
(* or the successor some rotation in the ledger paid into.  The treasury   *)
(* of every agent, index 0 in the code, is never rotated and never a       *)
(* maintenance source, so that fee and sweep destinations that name main   *)
(* stay valid for the whole run.                                           *)
ActiveAccountsDistinct ==
  LET slots == UNION {{a} \X (1..cfg.subs[a]) : a \in AgentsOf(cfg)}
      At(x) == sim.subs[x[1]][x[2]]
  IN /\ \A x, y \in slots : x # y => At(x) # At(y)
     /\ \A x \in slots :
          At(x) = Initial(x[1], x[2]) \/
            \E i \in DOMAIN ledger : IsRotation(ledger[i]) /\ ledger[i].dst = At(x)
     /\ \A a \in AgentsOf(cfg) : At(<<a, 1>>) = sim.main[a] /\ sim.main[a] = Initial(a, 1)
     /\ IsHardened(cfg) => \A i \in DOMAIN ledger :
          ledger[i].dst # External => ~\E a \in AgentsOf(cfg) : ledger[i].src = sim.main[a]

(* A cooker fee payer is thrown away: it pays for one transaction only and *)
(* is never a source or a destination of any.  Naive: main pays for all.   *)
FeePayersThrownAway ==
  cfg.mode # "naive" => \A i, j \in DOMAIN ledger :
    /\ i # j => ledger[i].fee # ledger[j].fee
    /\ ledger[i].fee \notin {ledger[j].src, ledger[j].dst}

(* Logical time moves forward: once an entry was woken, nothing (neither   *)
(* that entry nor another) is due before the time it was woken at, so      *)
(* wakes happen in the order of their times and none is skipped.           *)
LogicalTimeMonotone ==
  [][\A e, f \in DOMAIN sim.next :
       sim'.next[e] # sim.next[e] => sim'.next[f] >= sim.next[e]]_engine
=============================================================================
