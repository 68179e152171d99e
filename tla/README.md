# A TLA+ model of account-cooker

account-cooker simulates fleets of agents that act on a chain through many
subaccounts, runs such simulations crash-safely, executes single real actions on a
Solana cluster, and measures how well an observer can attribute what it sees. This
directory models its stateful core in TLA+, checks it with TLC and proves every safety
property of the passing runs with TLAPS.

## The system

| part | source | state | operations | what is hard |
|---|---|---|---|---|
| fleet engine | `crates/agent-runtime/src/lib.rs` | RNG position, chain clock/slot/signature counters, per-agent accounts, one wake time per schedule entry, the ledger | `build_fresh`, `run_core`: pop the earliest entry, let its agent act (naive, legacy cooker, hardened, rotation, hub sweep), reschedule | wakes overlap in time; rotation changes accounts other entries will use; fee payers must never repeat |
| durable runner | `durable.rs` | journal file, checkpoint file, BufWriter, last checkpoint's event count | create, journal records, save a checkpoint (flush, sync, temporary file, rename, directory sync), resume | kills and power losses between any two steps; torn tails; reused directories |
| live submission | `live.rs` | quoted fees, the signed transaction, the poll counter; the cluster's ledger | quote, fund a fresh fee payer, submit the action, resend and poll | lost sends, late landings, abandoned forks, expiring blockhashes, changing fees |
| command line | `crates/cli/src/main.rs` | persona files, the run directory, the ledger file | `personas`, `dump`, `run`, `report`, `cost`, the choice between create and resume | sequences of commands on one directory, killed at any step; two at once |
| funding post-pass | `funding.rs` | none (rewrites a finished ledger) | `apply_funding` | causality of inserted funding records |
| rule-based adversary | `crates/adversary` (`heuristics.rs`, `metric.rs`) | the union-find's parents and ranks while it runs | clustering heuristics over a union-find, pairwise metric | order independence, boundaries of time windows |
| learned adversary | `crates/adversary/src/ml.rs` | the pairs' features and scores while it runs | features, operator-disjoint cross-validation, thresholding, ROC AUC | a label that leaks into its own score; ties; features that must agree with the rules |
| noise and personas | `crates/noise-core`, `crates/persona`, `crates/adapters` | none | weighted choice of actions, splitting of amounts, delays, decoys; parsing personas | floating-point rounding meets unsigned integers |

Interactions: the command line builds a configuration and calls the engine directly or
through the durable runner. The engine calls back into its sink at each top-of-loop
boundary (`on_boundary`, which may save a checkpoint) and after each event
(`on_records`, which journals). A resume rebuilds the run from the seed, overwrites the
dynamic part from the checkpoint and re-enters the same loop. A wake asks the persona for
an action, the adapter for its transactions and the noise core for their parts. The
funding post-pass and the two adversaries read the finished ledger. The live path shares
no state with the simulator.

What makes each part correct: the engine's observable ledger is ordered and its account
identities are used as intended; the durable runner's result does not depend on crashes;
a command's files are complete or refused; the live path has at most one effect per
execution, within its limits, and says the truth about it; the adversary's clusters are
the equivalence its evidence generates, and what it learned from is disjoint from what it
is tested on; every amount is sent exactly.

## Modules

| module | models | kind |
|---|---|---|
| `Fleet` | the engine as a pure step `Wake(config, state, draw)` | operators |
| `FleetRun` | one run of the engine for every outcome of the draws | component of a state machine |
| `FundedRun` | a run of `FleetRun` followed by the funding post-pass, seen through `Evidence` and `Metric` | state machine |
| `FleetProofs` | theorems about `FleetRun`, `FundedRun` and `Payment` | proofs |
| `Durable` | the durable runner, its files and the machine under it; composes `Fleet` | state machine |
| `RecoverableRun` | what a durable run promises, without files or processes | abstract specification |
| `DurableProps` | properties of `Durable`, and the refinement of `RecoverableRun` | properties |
| `DurableProofs` | theorems about `Durable` | proofs |
| `SharedDir`, `SharedDirProofs` | several processes in one run directory; theorems about them | state machine, proofs |
| `Cooker`, `CookerProofs` | the commands that keep files, over the abstract `RecoverableRun`; theorems about them | state machine, proofs |
| `LiveAction`, `LiveProofs` | one live action and the cluster it talks to; theorems about it | state machine, proofs |
| `UnionFind`, `UnionFindProofs` | the adversary's union-find, one loop iteration per step; theorems about it | state machine, proofs |
| `Partition` | what a union-find promises | abstract specification |
| `Evidence` | the pairs of accounts each clustering heuristic links | operators |
| `Metric` | the integer counts behind the scores | operators |
| `Features` | the features of a pair of accounts and the rank sum behind an AUC | operators |
| `Analysis` | observing a ledger, clustering it, scoring the result; composes `Evidence`, `Metric` and the partition | component of a state machine |
| `Attribution`, `AttributionProofs` | `Analysis`, or else cross-validated learning on the same ledger; theorems about both | state machine, proofs |
| `Payment`, `Floats` | from a persona's weights to the amounts sent; floating-point arithmetic of any precision | state machine, operators |
| `SeqFacts` | lemmas the proofs share, about sequences, least elements, ranks in finite orders, sums over finite sets, functions defined by recursion over numbers, and products | proofs |
| `MC*` | small instances for TLC | |

Definitions whose names start with `Mutant` are no part of any model. Each is a bug the
code could have (a dropped guard, a missing reset); substituting it for the definition
it follows makes one of the properties fail, which shows that the property is about
the code.

### Fleet, FleetRun and FundedRun

The engine is deterministic once the RNG's results are known, so the results of one wake
are a record, a *draw*: whether the maintenance branch was taken, which subaccount sends
each transaction, which operational subaccounts a maintenance picks, the running sums of
the intra-wake gaps and the next delay. `FleetRun` takes any draw the code can make
(`LegalDraw`); `Durable` reads draws from a tape, which is what a seed is. An account id
is the draw that produced it, so two ids are equal only if they are the same draw (32
random bytes in the code). `sim` is `RunState`: `next[e]` is the heap (which always holds
every entry at a boundary), `subs` and `main` are the agents' accounts, `clock`, `slot`
and `sig` are `MockChain`'s. One `Turn` of `run_core` is one step, because nothing else
runs in between. Amounts, transaction kinds, the counterparty's identity and the memo's
own destination (its source) are left out.

A configuration's `funding` says which policy pays the fee payers. When the run is over,
`ApplyFunding` appends the funding transfers in one step (nothing in a naive run or
without a policy). The funding generator's draws (relayers, lead times) are any; funders
are named by their draw, as accounts are. Events with equal times are sorted by the random
bytes of their destinations, so any order of the ties may come out (`TimeOrders`).

### Durable

One process at a time works on one run directory. `pc` names the place in the code: `create`
and `truncate` (`DurableSink::create`), `read`, `setlen` and `load` (`resume_durable`),
`boundary` (the top of `run_core`'s loop, where `on_boundary` is called once), `sync`,
`rename` and `syncdir` (`on_boundary` and `save`), `event` (`on_boundary` has saved and has
returned), `down` when no process runs. `last` is `last_snapshot_events` and steers nothing
but whether a checkpoint is due. Each file has a visible content and the set of
contents a power loss may leave (`jdisk`, `cdisk`); an fsync shrinks that set to the visible
content. The journal is a sequence of half lines, so that a flush, a kill or a power loss
can tear a line; a power loss may also keep a file's length and lose its data, which then
reads as zeros. `Spill` is the BufWriter writing through at any time. `Kill` may happen
anywhere and keeps what the kernel has; `LosePower` replaces both files by something from
their sets. An I/O error that ends the process is a `Spill` (dropping the BufWriter flushes
it) followed by a `Kill`. A command that is refused (`RefuseCheckpoint`, `RefuseJournal`)
leaves the files as the code leaves them, the journal already cut.

`Golden[c]` is the run of configuration `c` that nothing interrupts. `GoldenAssumption`
defines it step by step from `Fleet`; the MC module computes it.

Left out: `checkpoint.json.tmp` (nothing reads it, it shows only through the rename), a
missing journal file (modelled as an empty one), other exit codes and messages. Several
processes in one directory are the subject of `SharedDir`.

### SharedDir

The runner takes no lock, so `SharedDir` lets every process have its own control state,
memory, buffer and file offset on one journal, one temporary file and one checkpoint.
`Durable` shows that the state of a run is its number of events, so that number stands for
it and a record is its place in the uninterrupted ledger. A write lands at the process's
own offset, over what is there or beyond a hole of zeros (`WrittenAt`). An open temporary
file follows its name when somebody renames or removes it (`Follow`). `create` is three steps
here, since others may come between them. There are kills and no power losses.

`save` writes a checkpoint token by token without a buffer, so two processes that have the
temporary file open at once write through each other, each at its own offset. The model says
what may be there, not how: `Begun` is what one writer alone has written so far; once a file
was opened twice it may, after every further write (`WritePart`, `WriteTemporary`), be `Torn`
or any of `Mixtures`, checkpoints that parse and may be accepted although they are of no state
of the run (the records of one, the events of the other). A process that resumes from a
mixture is no longer `sound`: it goes on with records and events of its own, as long as they
last, publishes checkpoints of them and prints them. `clean` is history: since the run in the
directory was created no two processes have been there at once.

### Cooker

One user gives one command after the other and any may be killed. A persona file is nothing,
`Torn` while it is written, or a profile with a name and whether it is valid. The listing of
the personas directory comes in any order (`Listings`); the sort that follows is stated by
the rank of each file (`LoadOrder`), as the sorts of `Evidence` are (`Sorted`), since the
provers have no sorting function. The durable runner is `RecoverableRun`, instantiated, so
`Create`, `Advance` and `RunReturns` are its actions; a job, which is the arguments and
profiles that `RunId::derive` hashes, stands for its ledger too. Which commands are checked
against what is the code's order: arguments, profiles, then the checkpoint (`RefuseResume`,
before a file is touched), then the journal (`RefuseJournal`, after it was set to the
checkpoint's length). `PowerLoss` may tear the ledger file, which is never synced, and may
take the end of the journal, as it may without `--fsync` (`journal`); that `Durable` then never
prints a wrong ledger is its own theorem, and here it means that only a whole journal is resumed.
`origin`, `inputs` and `latest` are history variables. `cost` reads as `report` does; `demo`, `benchmark` and the live commands
keep no file.

### LiveAction

The client is `run_live_action` with two calls of `send_idempotent`, one RPC call per step.
The cluster is external and adversarial within its rules: it drops sends, lands a
transaction at most once and only while its blockhash is valid, may abandon a fork before
confirmation, charges whatever rate holds when the transaction lands, and answers a status
query late. `RpcError` ends the execution at any step (an RPC failure or a kill).
`SpendElsewhere` is any other use of the source account. Instructions, keys and the
receipt's fields are left out.

### UnionFind, Evidence, Metric and Analysis

`UnionFind` lets its caller call `find` and `union` with any accounts in any order.
`call` is the place in the call: the loop variable of `find`, and during a union the root
its first `find` returned while the second one halves paths. `ClassOf` reads the
partition off the parent pointers; `Partition` is the specification it is shown to
implement, and `Analysis` uses that partition in place of the pointers.

`Evidence` has one operator per heuristic of `cluster`, which yields the set of pairs the
code unions. The scans over sorted records (`burst_groups`, `window_groups`, the
destination-local episodes) are one operator, `Runs`: a new group starts wherever a
record does not join the one before it. Accounts and amounts are members of small sets.
`Analysis` appends records to a ledger (places in order, times forwards or, as in a
funding suffix, backwards), then runs the heuristics in the order of the code and takes the links
of each in any order: those that iterate over hash maps have none of their own, and for
those that follow the records any order is more than the code does. `Scored` is the
moment at which `Metric`'s counts are read. The scores themselves are quotients of these
counts and are left out, as is the numbering of clusters.

### Features and Attribution

`phase` says which adversary has the ledger: `cluster` for the rules of `Analysis`,
`validate`, `unite` and `done` for `ml_attribution`. `Prepare` forms the pairs of owned
accounts with their features; one step validates one cell (`Validate`, or `SkipCell` when
there is nothing to score or to learn from); `Unite` joins the pairs whose score reaches
the threshold. A model that was fitted is any function from feature vectors to scores:
gradient descent is left out, and so everything that holds here holds for whatever it
converges to. `judges` remembers which cells scored a pair. Features that are ratios are
integers over `Unit`. `TwiceRank` is the tie-averaged rank, doubled.

### Payment and Floats

A draw in `[0, 1)` scaled by the sum of the weights loses one weight after the other until
it is used up (`Skip`, `Pass`, `Choose`, `FallBack`: `choose_action`); the adapter plans the
sampled amount (`Plan`); `split_amount` shares it out (`Whole`, `Distribute`, `Leftover`).
`Floats` is binary floating point with a significand of `Precision` bits and numbers below
2^`MaxExponent`, rounding to nearest, ties to even. `f64` has 53 bits and the exponent 1024;
the run has 8 and 10, so that the roundings that are rare in the program are frequent in the
model. Sums are recursive functions, added up in the order of the code, so that the theorems
cover them.

## Runs

| run | question | result |
|---|---|---|
| `DurableKill` | two configurations share a directory, with and without `--resume`, no fsync, up to 3 kills anywhere: is every printed ledger the uninterrupted one, and does the runner implement `RecoverableRun`? | holds |
| `DurablePower` | fsync on, power losses and kills (2 in total): is committed progress ever lost, does a checkpoint name lines the journal lacks, and does the run finish? | holds |
| `DurableNoSync` | fsync off, removals may fail, power losses: can a wrong ledger be printed for a directory's only run? | no |
| `SharedDir` | two processes write into one directory at once, up to two kills: is a run that a command then creates alone exact, through every later kill and resume, and does somebody succeed? | holds |
| `FundedRun` | does every run of small fleets keep the ledger's order, the account identities, fee payers and logical time; is every fee payer funded once and in time, does the metric infer the funding, and do hubs, dedicated funders and naive fleets give their operator away? | holds |
| `LiveAction` | at most one effect, funded first, true receipt, affordable, within the quoted limits, always returns | holds |
| `LiveDebitWithinLimit` | is `max_total_debit` a hard limit? | no |
| `LiveExpiredHasNoEffect` | is the outcome of the expiry exit unambiguous? | no |
| `UnionFind` | do unions, and nothing else, change the partition, and does every call return? | holds |
| `Attribution` | are time groups proximity components, clusters what the evidence generates in any order, counts counts of pairs; do both adversaries see the same evidence; is every score blind to its operators and given once; does the AUC count wins? | holds |
| `Payment` | is an action chosen by its weight, and an amount split exactly? | holds |
| `Cooker` | any commands, up to three kills or power losses: is a killed run resumed by its own command, and with the very profiles it began with, and is the run behind a torn ledger file saved? | holds |

Type invariants are theorems rather than invariants of runs (`TypeCorrect`, `TreesTyped`,
`SharedTypeCorrect`, part of `LiveInv`). `FundersGiveAway` excepts an operator with
more funding sources than the analyst's cap (`max_funded`), whose links the analyst drops.

Bounds. `FundedRun`: at most three subaccounts, two agents and one to three seconds of
simulated time with delays of one or two, gaps long enough to outlast other entries' wakes,
so that overlaps, ties, rotations of one and two accounts in both orders, no-op maintenance
of single-account agents and repeated wakes of a rotated account all happen; the longer runs
are not funded, the shorter ones (up to five fee payers) under every policy, with two lead
times so that funding events overtake each other and an analyst who asks for two fee payers
per funder (three by default). `Durable`: tapes whose runs have two to four events and
rotate accounts early, so that a checkpoint exists before and after a rotation, with
cadences of one and two, so that the terminal checkpoint is and is not one of the cadence;
two or three crashes suffice to crash a resume of a crashed run. `SharedDir`: two processes,
runs of two events with a checkpoint after each, four commands and two kills: two that are in
each other's way, a third that creates its run anew and is killed, a fourth that resumes it;
one mixture that a run goes astray from, and one that counts more lines than the journal has,
so that its resume is refused after the cut. `Cooker`: eight commands (each verb, with and
without a directory, a name that clashes, refused arguments), two presets and two user's
profiles, runs of two events, three kills or power losses: one while presets are written, one
in the run they go into, one in a resume of that run.
`LiveAction`: two fee rates, a blockhash that lives one height, three polls with a resend at
every second one, so that a transaction can be sent, expire, land and be confirmed at each
point of the loop; four actions, one of them below the stake minimum. `UnionFind`: four
accounts, known or not at the start, and no bound on the number of calls; four are enough
for a tree of rank two and a path that is halved. `Attribution`: observed ledgers of up to
four records over seven accounts, so that a pair can share two buckets and a funder can have
two fee payers, gaps at and above the window and backwards, three rule-based adversaries
that between them run all eight heuristics; fleets of six accounts and four and five
operators in four folds, three scores about the threshold. `Payment`: numbers of eight bits,
the fewest for which five entries are within reach of the theorem (`MCInReach`); five keys
with weights of zero and two magnitudes, whose sums are rounded; every draw; amounts up to
16, up to three parts whose random weights differ by a factor of a hundred, four policies (a
usual one, one that cannot afford its minimum, no floor, no splitting). `CHECK_DEADLOCK` is
off where the system may stop: a finished run, a live action that returned, an attributed
ledger, a payment that was sent, a directory whose crash or command budget is used up.

Fairness. `Durable!FairSpec` assumes that a process is
scheduled and that its user runs the command again after a crash or a refusal; spills,
kills and power losses are never forced, and their number is bounded by `MaxCrashes`,
without which no run need ever finish. A user who starts it again is enough because no resume
is refused for ever, which a checkpoint published before its journal is durable would be.
`LiveAction` assumes only that the client's own
thread runs; the cluster owes it nothing, since the loop is bounded by its polls.
`UnionFind!FairSpec` assumes that a call that began runs; nobody has to make a call.
The other modules check no liveness and assume no fairness.

## What the violations show

* `LiveExpiredHasNoEffect` (`live.rs:219`): the expiry exit does not ask for the status
  once more. The transaction may have landed between the last status poll and the
  validity check, so "the outcome is unambiguous" (`live.rs:204-206`) is not so; the
  error text of the same exit says "ambiguous".
* `LiveDebitWithinLimit` (`live.rs:555`): the funding fee is compared with the limit when
  it is quoted and not when it is paid. `DebitWithinQuote` bounds the excess by the rise.

The properties of the passing runs are stated where they hold. These limits of the code
explain why they are not stated more widely:

* A directory that two configurations used one after the other (`durable.rs:158`): the
  removal of the old checkpoint is not synced and the journal does not name its run, so a
  power loss may bring the old checkpoint back beside the new journal. `LedgerExact` is
  therefore checked (and proved) with power losses for one configuration, and for several without.
* Two processes that overlapped in one directory (`durable.rs:204`): bytes at two offsets parse
  as records, so a later resume may accept repeated and missing ones; one process may rename
  the temporary file another has just emptied; and two checkpoints written into one file may
  mix into one that parses. `AloneIsExact` therefore claims nothing of a run whose directory
  two processes used at once, and everything of the next one that is created there alone.
* A resume that is refused because the journal is short has already set `ledger.jsonl` to the
  checkpoint's length (`durable.rs:346`): it is not a command that leaves no trace. No
  property says so of refused commands in general.
* A `run` killed while it writes the ledger file leaves it torn. `TornOutIsSaved` claims that
  the run is saved as long as nobody creates another in its directory, and no power loss has
  taken its journal (without `--fsync` it may).
* `split_amount` (`split.rs:59`): near and beyond the precision of the floating-point type the
  shares can exceed the remainder, and the unsigned leftover underflows. `SplitIsExact` is
  checked and proved for payments with amount * (parts + 5) <= 2^Precision (`SplitsInReach`):
  for the five parts of the default policy, about 9 * 10^14 lamports.
* `choose_action` (`persona/src/lib.rs:175`): a rounding residue can run through a table
  with weights and fall back to `Transfer`, and a draw next to the border of two intervals
  may go to either. `ChosenByWeight` allows both within the rounding of two operations per
  entry and two more. It is claimed for tables of n entries with (2n + 1)(2n + 2) <=
  2^Precision and a sum of weights that stays in the range of the numbers
  (`TablesInReach`); `validate` does not exclude a sum that is infinite.
* `ml_attribution` (`ml.rs:490`): with fewer than four folds a cell may have nothing to
  learn from, and its pairs keep the score zero. `ScoredOnce` claims completeness
  from four folds on; the default is five.
* `window_purity` (`metric.rs:38`) does not bound the precision of the windowed adversary,
  which does not link by windows (`cli/src/main.rs:889` reads its own tables that way).
* `base_cfg` (`cli/src/main.rs:483`) bounds the duration of a run and not its end,
  `start_ts + duration_secs` (`agent-runtime/src/lib.rs:272`).
* `heuristics.rs:348-349` says `funding_edges` is empty on a ledger without
  funding because fee payers are fresh. That holds for cooked ledgers (`MetricSeesFunding`); in a
  naive one the rebalance pays the account that pays the fees.

## Proofs

The theorems hold for every value of the constants: for every set of configurations, tapes
and commands and every finite number of crashes of `Durable`; for fleets of every size,
mode, delay, draw and funding policy of `FleetRun` and `FundedRun`; for every number of
processes of `SharedDir`; for all commands, profiles and presets of `Cooker`; for every
action, limit and fee rate of `LiveAction`; for every set of accounts of `UnionFind`; for
every ledger, configuration of the rules and number of folds of `Attribution`; and for every
precision and range of numbers, every draw, table, payment and policy in reach of `Payment`.
They rest on the assumptions on the constants alone (the named `ASSUME`s of the modules,
which TLC evaluates in the runs) and, where a theorem says so, on which flags are set, what
the threshold is, how long ledgers get or how large tables and payments are. Each follows
from an inductive invariant, which the proof module defines and the paragraphs below
explain. `SeqFacts` has the lemmas about sequences, finite orders and finite sums that
several of them share.

`DurableProofs`:

* `TypeCorrect`: `Spec => []TypeOK`.
* `ControlIsExact`: `Spec => []ControlExact`. The invariant speaks of the engine's state
  only; it is not inductive, because a resume takes its state from a checkpoint that was
  written earlier and may come back after a power loss. `ControlInv` adds that every
  checkpoint (visible, possible after a power loss, or being saved) is the snapshot of a
  state of the uninterrupted run of its own configuration. The lemmas: a wake keeps the
  state well formed (`WakeWellFormed`), an event leads from one state of the
  uninterrupted run to the next (`EventExact`), and restoring a snapshot onto a freshly
  built run gives the state back (`RestoreExact`), which is where a field forgotten in
  the checkpoint would show.
* `JournalHoldsLedger`: `Spec => []JournalIsLedger`, no line lost and none twice, at any kill
  or power loss. The strengthening `JournalInv` says that a checkpoint counts two half lines
  per record, so that what `set_len` leaves can be decoded whole. It rests on facts about the line
  encoding: it distributes over appending (`EncodeConcat`) and is undone by decoding
  (`EncodeDecode`).
* The theorems below are each `ControlInv`, `JournalInv`, `LedgerInv` and one fact about what
  crashes can do to the journal. `LedgerInv` says that the ledger in memory and the printed one are
  those of the uninterrupted run, and that a checkpoint counts the records that run has after as
  many events. It is kept by every step, provided that what a resume reads back is the right
  prefix (`LedgerInvStep`). Two arguments supply that.
* `KilledRunsExact` and `KilledRunsCovered`, without power losses and with removals that work,
  for any commands sharing the directory: `KilledInv` says that the journal holds the lines of
  the checkpoint at every instant, because `create` drops the checkpoint before it empties the
  journal and a checkpoint is published after the lines it counts.
* `OneRunExact`, with power losses and with or without fsync, for a directory whose commands are
  all for one configuration: nothing orders what survives, but every half line that may survive is
  that run's own at its place, or zeros (`OneRunInv`); a resume that decodes as many lines as
  the checkpoint counts has therefore decoded the right ones, and else refuses. The assumption
  of one configuration is needed (see the remarks above).
* `KilledRunsImplement`: `Spec => ImplementsRecoverableRun` under the assumptions of
  `KilledRunsExact`. Publishing a checkpoint maps to `Save` or a stutter, `CreateRemove` to
  `StartAfresh` or a stutter, finishing to `Report`, everything else to a stutter.
* `ForeignRunsUntouched`, without power losses: `KilledInv` leaves a resume of another run's
  directory in the place where it reads the checkpoint, and there it can only refuse.
* `CommittedProgressKept`, with fsync, for a user who always resumes: a process is
  never behind the visible checkpoint (`ResumeInv`), so whatever a power loss may leave after a
  step is no earlier than something it could leave before.
* `PowerLossCovered`, the same with one configuration: every checkpoint that may survive finds its
  lines in every journal that may survive (`PowerInv`). The cut of a resume is the step that
  needs the strengthening: it removes lines that no surviving checkpoint counts, because
  every one of them is behind the visible one.

`FleetProofs`:

* `ObserversSeeOrder`, `FeePayersAreThrownAway`, `RetiredAccountsStayRetired`,
  `ActiveAccountsStayDistinct` and `LogicalTimeMovesForward`, about the engine. `EngineInv`
  is what all five need at once: records are numbered and dated no later than the clock
  (`Numbered`, `InOrder`: a wake may start in the past of the clock, and only `advance_to`'s
  maximum keeps the order); every account is an original or was drawn by an earlier wake in
  a given role, so that a new draw is never an old account (`Held`, `RecOK`, `FeesApart`);
  the accounts held are different (`Apart`); a rotated account is held no more, although the
  entry that owned it still wakes (`Retired`); and an account signs for one agent
  (`OneSigner`). None of the five is inductive alone: a fee payer is new because the wakes
  are counted, and a retired account stays retired because no successor is an account that
  was ever held.
* `FundedOnceBeforeEveryUse` and `MetricSeesFundingRight`, about the funding post-pass.
  `FundInv` says that the suffix of the ledger has one event per fee payer that needs one,
  in the order of some sort by time, each early enough and by a funder of that operator's
  policy (`FundedBy`); what the metric reads off the joined ledger is then computed from it.
* `OwnFundersGiveAway`, about the links an analyst draws from payers and funders, and the
  clusters they span. The accounts an operator uses, its fee payers, its treasury and a
  funder of its own form a realm (`RealmOf`); no two agents' realms meet (`RealmsApart`, by
  `EngineInv`), every link is inside one (`LinksWithin`), so no cluster leaves one.
  Conversely a hub's or a dedicated funder's fundees are exactly the operator's fee payers
  (`FunderServes`), and two links lead from any of its sources to any other.

* `ActionsChosenByWeight`, about `Payment` under `TablesInReach`. An operation's result is off
  by at most one part in 2^Precision of the exact one, or by next to nothing below the range
  of exponents (`RoundedOff`: `Rounded` scales by the least exponent that fits,
  `ExponentLeast`, and `Nearest` is off by half a unit). The powers of two and the sums are
  recursive functions, which exist because partial ones are unique and extend each other
  (`RecursionExists` in `SeqFacts`). A number *tracks* an exact value when it differs from
  it by at most as many rounding units of the whole as operations were made (`RoundStep`);
  `ChoosingInv` says that the pick tracks the scaled draw less the weights already passed,
  with two operations per entry and two for the sum and the product. The comparison that
  chooses an entry, and the one before it that did not, put the draw in its interval.
* `PaymentsSplitExactly`, about `Payment` under `SplitsInReach`. The hard fact is that truncated
  shares never exceed the remainder although each is a rounded product of a rounded quotient
  by a rounded sum. A share is off by a few units in 2^Precision of the exact one
  (`ShareNear`); the exact ones add up to the remainder, so the truncated ones exceed it by
  less than one when the remainder times the number of roundings is within 2^Precision, and
  an integer that is less than one too large is not too large (`CannotExceed`, `SharesFit`).
  `SendInv` carries this from `Distribute` to `Leftover`: the parts start at the floor, sum
  to no more than the amount and are as many as can be afforded, and the amount is zero for
  a memo alone.

`SharedDirProofs`: `SharedTypeCorrect`, `AloneAlwaysExact` and `OneAlwaysFinishes`, for every
set of processes and every set of mixtures. `SharedInv` types the files, which several writers
may leave in any state, and counts the events a sound process has left. `CleanInv` is about a
directory that has one user at a time since its run was created. It says nothing about the
temporary file before it is opened, or about processes that are gone, which is why it can begin
in any state `SharedInv` allows: removing the checkpoint establishes it while the journal still
holds anything. From there on the checkpoint is one of the run's own states, if there is one,
and the journal holds its lines up to the length it names (`DirClean`); the working process
holds the ledger of its events, as much of it in the journal as its buffer lacks (`Sane`,
`Holds`); and the temporary file is its own from `File::create` to the rename, although a
process that is gone may have left one (`Begun`). Reading back is undone by the encoding
(`UptoWhole`), the cut keeps what is named (`SetLenKeeps`), writing at the process's offset
appends (`AppendKeeps`). `OneAlwaysFinishes` needs that the temporary file, once it was
opened, is there, with its writer, or somebody is still underway (`Alive`): a failing rename
means that another one succeeded.

`CookerProofs`: `OwnRunsResume`, `RunsKeepTheirInputs` and `TornOutsAreSaved`, from `CookInv`.
From its checks to its end a command has the profiles that its own arguments and the files
give, in one order however the directory was listed, since sorting undoes it (`Afoot`). The job
that the run directory records is the one of the command that created it, whose arguments and
profiles are `inputs`, and a running command has just that job (`DirIsOrigins`); two jobs are
equal only for equal arguments and profiles, so that a resume which compares them compares
these. `RunIsSaved` says that the runner returns only what is saved to its last event, that this
stays so while its command empties and fills the ledger file, and later as long as the history
variable `latest` says that the directory was left alone. It is not inductive without the other
two: saving more of the run needs that the one who saves has the recorded job.

`UnionFindProofs` (no assumption is used, not even that the accounts are finitely many):

* `TreesTyped`, `RanksAlwaysGrow`, `RootsRemembered` (`Spec => []RootRemembered`) and
  `UnionFindImplements` (`Spec => ImplementsPartition`). A class is defined by the ancestors
  accounts have in common, and a link changes the ancestors of a whole tree. The invariant
  `TreeInv` therefore says that there is a function that gives every account the root of its
  tree (`Represents`), constant along parent pointers, and that a call in progress is at an
  account of the tree it was asked about (`OnCourse`). Halving keeps the function
  (`HalveKeeps`), `ensure` extends it by the identity (`EnsureKeeps`), a link sends two
  trees to the bigger root (`LinkJoins`). That the function's classes are the ones defined
  by ancestors (`ClassesAreTrees`) needs that ranks grow and are bounded: in a set closed
  under parent, an account of greatest rank in its tree is a root.

`LiveProofs`: `OneEffect`, `FundingIsSafe` and `ReceiptHolds`, from one invariant and no
assumption. `LiveInv` says, for each place of the client's program, which transactions it
may have let out of its hands (none before the first blockhash, none of the current role
while a blockhash is being fetched, only the current one while it polls), that the ledger
holds nothing that was not sent and each of it once, and that the action was signed only
after the funding was confirmed. The cluster's steps keep it because a confirmed entry is
never abandoned (`ClusterKeeps`); the client's because `send_idempotent` never signs twice.
`TopupAlwaysSuffices` and `DebitStaysWithinQuote` add up what the ledger debits. `LimitInv`
says that whatever was let out was within the limits when it was quoted; by `LiveInv` a role
has one entry in the ledger at most, so that its sum is that entry's fee
(`LimitsAssumption`: amounts are natural numbers).

`AttributionProofs`:

* `NoLeakage`, `ScoredByOneModel` and `EveryPairScoredOnce`. `FoldInv` says that a pair
  carries exactly the folds of its operators and was scored only by the cell of just these
  folds; two pairs with an operator in common then have its fold in common, so the one
  cannot have trained the model that scored the other. `CellInv` adds that the couple of
  folds is ordered, without which two cells would have the same set of folds. Both need that
  the ledger is final when the pairs are formed. `CoverInv` says that every pair of a cell
  already passed has its score. From four folds on a cell has something to learn from,
  because operators are dealt out in the order of their ranks (`FoldHit`) and so every fold
  that any operator can be in has one.
* `TimeGroupsAreComponents`: the scan over the sorted records puts two of them in one group
  iff all gaps between them are small, and these groups are the components of nearness in
  time; the sort is known only by the ranks it gives.
* `ClustersAreGenerated`: `RulesInv` says, after any number of links of any number of
  heuristics, that what was linked is together and that a set closed under the links taken
  so far is a union of classes (`Generated`); for the learned adversary the links are the
  pairs that reach the threshold. The hypothesis `Threshold > 0` is needed there: a pair in
  a skipped cell keeps the score zero, which a threshold of zero would reach without
  evidence (the code's default is one half).
* `MetricAlwaysCountsPairs`: by `RulesInv` the clusters are the blocks of one function, its
  classes of accounts; the pairs a table counts within its blocks are then the couples this
  function does not tell apart (`BlocksCountTogether`), and the sums and products of the
  table follow from counting couples, among them that no unsigned difference underflows.
* `AucIsShareOfWins`: `ScoreInv` says that what is pooled is a pair of owned accounts with
  its true label, its vector of integers (`FeaturesTyped`) and a score or none. The ranks of
  the positives, ties averaged, are their ranks among themselves, which add up to k(k + 1) /
  2 whatever the ties, and a win for each negative they leave behind (`RankSumCountsWins`).
* `RulesShowInFeatures`: for each rule, the record that made it link a pair is one that the
  feature standing for it counts; the scan of destination-local episodes never leaves the
  window (`EpisodeInWindow`), so that a shared episode is a shared bucket. It has a
  hypothesis: ledgers are no longer than `Unit`, the resolution in which the model counts
  the shares that are floating-point quotients in the code; a smaller share would be rounded
  to zero here and not there.

Only model-checked: all liveness (`Finishes`, `Returns`, `CallsReturn`),
which needs fairness and `ENABLED`, out of the prover's reach. Every invariant and every
action property of a passing run is a theorem.

## What is not modelled, and why

* Gradient descent and standardisation in `ml.rs`: floating-point iteration whose result
  the model leaves open.
* The distributions of delays, decoys, amounts and gaps: any value they can have may
  happen in the models, and how often is not a matter of states.
* `demo`, `benchmark`, the verdict and the tables of `report` and `cost`: they keep
  no state and print what the modelled parts compute.
* Instruction building, key files, the receipt's fields and the wording of errors on the
  live path; a user who runs a live action again after an unconfirmed result is outside
  its promise, which is for one execution.
* A reader of the ledger file while it is written by another process, processes of
  different configurations in one directory at once, and power losses with several
  processes.
* Overflow of times: they are unbounded integers here.
* Build files and scripts.

## Plan

1. The partial Fisher-Yates selection, shown to reach exactly `LegalDraw`'s picks.
2. The chain from a durable run to a funded ledger: a resume of a finished run
   returns the same funded ledger.
