------------------------------ MODULE LiveAction ------------------------------
(***************************************************************************)
(* One execution of run_live_action (crates/agent-runtime/src/live.rs)     *)
(* against a cluster: quote, fund a fresh fee payer, then submit the       *)
(* action that this fee payer pays for, each transaction through           *)
(* send_idempotent.  The cluster is external: it delivers or drops what is *)
(* sent, lands a transaction while its blockhash is recent, may abandon    *)
(* the fork it landed on, changes its fee rate, and answers status queries *)
(* late.  Every RPC call is a step, and any RPC error ends the execution.  *)
(* Definitions whose names start with Mutant are no part of the model:     *)
(* they are bugs the code could have, kept to show that the properties     *)
(* see them.                                                               *)
(***************************************************************************)
EXTENDS Integers, FiniteSets, FiniteSetsExt

CONSTANTS
  Actions,          \* what can be asked for: [kind, debit, sigs]
  StakeMinimum,     \* rent of a stake account plus the minimum delegation
  Rent,             \* rent-exempt minimum of the fee payer
  Balance,          \* what the source holds at first
  MaxTotalDebit, MaxFeePayerTopup, StatusPolls,  \* LiveActionConfig
  ResendEvery,      \* RESEND_EVERY
  Rates,            \* lamports per signature the cluster may charge
  Window,           \* for how many heights a blockhash stays valid
  MaxHeight,        \* bound on block heights
  MaxSpends         \* bound on what else is spent from the source

ASSUME LimitsAssumption ==
  /\ \A a \in Actions :
       a.kind \in {"transfer", "stake", "memo"} /\ a.debit \in Nat /\ a.sigs \in Nat \ {0}
  /\ StakeMinimum \in Nat /\ Rent \in Nat /\ Balance \in Nat
  /\ MaxTotalDebit \in Nat /\ MaxFeePayerTopup \in Nat \ {0}
  /\ StatusPolls \in Nat \ {0} /\ ResendEvery \in Nat \ {0}
  /\ Rates \subseteq Nat /\ Rates # {} /\ Window \in Nat
  /\ MaxHeight \in Nat /\ MaxSpends \in Nat

VARIABLES
  pc,
  action,                 \* the LiveAction of this execution, one of Actions
  execute,                \* whether --execute was given
  actionFee, fundingFee,  \* the quoted fees
  tx,                     \* the transaction being submitted, [role, hash]
  poll,                   \* send_idempotent's loop counter
  ret,                    \* how the execution ended
  height, rate, spends,   \* cluster: block height, fee rate, other spending
  sent,                   \* cluster: transactions some leader received
  landed                  \* cluster: what is in the ledger, [tx, status, ok, fee]

client == <<pc, action, execute, actionFee, fundingFee, tx, poll, ret>>
cluster == <<height, rate, spends, sent, landed>>
vars == <<pc, action, execute, actionFee, fundingFee, tx, poll, ret,
          height, rate, spends, sent, landed>>

Fund == "fund"
Act == "act"
NoTx == [role |-> "none", hash |-> 0]

(* Mutant: the fee payer is funded with the fee only.                      *)
MutantTopup == actionFee

Topup == actionFee + Rent
RequiredDebit == action.debit + Topup + fundingFee

-----------------------------------------------------------------------------
(* The ledger's effect on the source and on the fee payer.                 *)
Entries(role) == {l \in landed : l.tx.role = role}
FeesOf(role) == MapThenSumSet(LAMBDA l : l.fee, Entries(role))
MovedBy(role, amount) == amount * Cardinality({l \in Entries(role) : l.ok})
Debited == FeesOf(Fund) + MovedBy(Fund, Topup) + MovedBy(Act, action.debit)
SourceBalance == Balance - spends - Debited
PayerBalance == MovedBy(Fund, Topup) - FeesOf(Act)

BlockhashValid(h) == height - h <= Window

Init ==
  /\ pc = "stake" /\ action \in Actions /\ execute \in BOOLEAN
  /\ actionFee = 0 /\ fundingFee = 0 /\ tx = NoTx /\ poll = 0 /\ ret = "none"
  /\ height = 0 /\ rate \in Rates /\ spends = 0 /\ sent = {} /\ landed = {}

Return(why) == pc' = "done" /\ ret' = why

-----------------------------------------------------------------------------
(* A stake must be rent-exempt and reach the cluster's minimum delegation. *)
CheckStake ==
  /\ pc = "stake"
  /\ IF action.kind = "stake" /\ action.debit < StakeMinimum
     THEN Return("stake_minimum")
     ELSE pc' = "quote" /\ UNCHANGED ret
  /\ UNCHANGED <<action, execute, actionFee, fundingFee, tx, poll, cluster>>

(* Quote the action's fee; the top-up keeps the fee payer rent-exempt.     *)
QuoteAction ==
  /\ pc = "quote"
  /\ actionFee' = action.sigs * rate
  /\ IF actionFee' + Rent <= MaxFeePayerTopup
     THEN pc' = "quote_funding" /\ UNCHANGED ret
     ELSE Return("topup_limit")
  /\ UNCHANGED <<action, execute, fundingFee, tx, poll, cluster>>

(* Mutant: the funding transfer's own fee is left out of the debit limit.  *)
MutantQuoteFunding ==
  /\ pc = "quote_funding"
  /\ fundingFee' = rate
  /\ IF action.debit + Topup <= MaxTotalDebit
     THEN pc' = "balance" /\ UNCHANGED ret
     ELSE Return("debit_limit")
  /\ UNCHANGED <<action, execute, actionFee, tx, poll, cluster>>

(* Quote the funding transfer and compare the whole debit with the limit.  *)
QuoteFunding ==
  /\ pc = "quote_funding"
  /\ fundingFee' = rate
  /\ IF action.debit + Topup + fundingFee' <= MaxTotalDebit
     THEN pc' = "balance" /\ UNCHANGED ret
     ELSE Return("debit_limit")
  /\ UNCHANGED <<action, execute, actionFee, tx, poll, cluster>>

(* The source must afford it; without --execute the quote is the result.   *)
CheckBalance ==
  /\ pc = "balance"
  /\ \/ SourceBalance < RequiredDebit /\ Return("poor") /\ UNCHANGED tx
     \/ SourceBalance >= RequiredDebit /\ ~execute /\ Return("quoted") /\ UNCHANGED tx
     \/ /\ SourceBalance >= RequiredDebit /\ execute
        /\ pc' = "hash" /\ tx' = [NoTx EXCEPT !.role = Fund]
        /\ UNCHANGED ret
  /\ UNCHANGED <<action, execute, actionFee, fundingFee, poll, cluster>>

(* latest_blockhash for the transaction about to be built and signed.      *)
GetBlockhash ==
  /\ pc = "hash"
  /\ tx' = [tx EXCEPT !.hash = height] /\ poll' = 0
  /\ pc' = IF tx.role = Act THEN "requote" ELSE "send"
  /\ UNCHANGED <<action, execute, actionFee, fundingFee, ret, cluster>>

(* The action's fee is asked for again once its fee payer is funded.       *)
Requote ==
  /\ pc = "requote"
  /\ IF action.sigs * rate > actionFee
     THEN Return("fee_rose")
     ELSE pc' = "send" /\ UNCHANGED ret
  /\ UNCHANGED <<action, execute, actionFee, fundingFee, tx, poll, cluster>>

(* send_idempotent, top of the loop: every ResendEvery-th poll sends the   *)
(* same bytes again; an error of the send is only remembered.              *)
Resend ==
  /\ pc = "send"
  /\ IF poll % ResendEvery = 0
     THEN pc' = "valid" /\ (sent' = sent \cup {tx} \/ UNCHANGED sent)
     ELSE pc' = "status" /\ UNCHANGED sent
  /\ UNCHANGED <<action, execute, actionFee, fundingFee, tx, poll, ret, height, rate, spends, landed>>

(* Mutant: on expiry the transaction is rebuilt with a new blockhash.      *)
MutantCheckBlockhash ==
  /\ pc = "valid"
  /\ pc' = IF BlockhashValid(tx.hash) THEN "status" ELSE "hash"
  /\ UNCHANGED <<action, execute, actionFee, fundingFee, tx, poll, ret, cluster>>

(* ... and gives up when the blockhash expired ...                         *)
CheckBlockhash ==
  /\ pc = "valid"
  /\ IF BlockhashValid(tx.hash) THEN pc' = "status" /\ UNCHANGED ret ELSE Return("expired")
  /\ UNCHANGED <<action, execute, actionFee, fundingFee, tx, poll, cluster>>

(* ... else looks for the status at confirmed commitment.                  *)
(* Mutant: any status without an error is taken for a confirmation.        *)
MutantConfirmed(l) == TRUE

Confirmed(l) == l.status = "confirmed"
StatusFailed ==
  /\ pc = "status"
  /\ \E l \in landed : l.tx = tx /\ ~l.ok
  /\ Return("failed")
  /\ UNCHANGED <<action, execute, actionFee, fundingFee, tx, poll, cluster>>
StatusConfirmed ==
  /\ pc = "status"
  /\ \E l \in landed : l.tx = tx /\ l.ok /\ Confirmed(l)
  /\ IF tx.role = Fund
     THEN pc' = "hash" /\ tx' = [NoTx EXCEPT !.role = Act] /\ UNCHANGED ret
     ELSE Return("ok") /\ UNCHANGED tx
  /\ UNCHANGED <<action, execute, actionFee, fundingFee, poll, cluster>>

(* Mutant: the polls are not counted.                                      *)
MutantPollsUncounted ==
  /\ pc = "status" /\ pc' = "send"
  /\ UNCHANGED <<action, execute, actionFee, fundingFee, tx, poll, ret, cluster>>

(* No status yet, one below the commitment, or a node that does not show   *)
(* it yet.                                                                 *)
StatusPending ==
  /\ pc = "status"
  /\ poll' = poll + 1
  /\ IF poll' < StatusPolls
     THEN pc' = "send" /\ UNCHANGED ret
     ELSE Return("unconfirmed")
  /\ UNCHANGED <<action, execute, actionFee, fundingFee, tx, cluster>>

(* An RPC call other than the send fails, or the process is killed.        *)
RpcError ==
  /\ pc # "done"
  /\ Return("rpc_error")
  /\ UNCHANGED <<action, execute, actionFee, fundingFee, tx, poll, cluster>>

-----------------------------------------------------------------------------
(* The cluster. *)
Tick ==
  /\ height < MaxHeight /\ height' = height + 1
  /\ UNCHANGED <<client, rate, spends, sent, landed>>
ChangeRate ==
  /\ rate' \in Rates
  /\ UNCHANGED <<client, height, spends, sent, landed>>
SpendElsewhere ==
  /\ spends < MaxSpends /\ SourceBalance > 0 /\ spends' = spends + 1
  /\ UNCHANGED <<client, height, rate, sent, landed>>

(* A transaction lands once per signature, while its blockhash is recent   *)
(* and its fee payer can pay and stay rent-exempt; its transfer may fail.  *)
Landing(x, fee, ok) == [tx |-> x, status |-> "processed", ok |-> ok, fee |-> fee]
Land(x) ==
  /\ ~\E l \in landed : l.tx = x
  /\ BlockhashValid(x.hash)
  /\ \/ /\ x.role = Fund /\ SourceBalance >= rate
        /\ landed' = landed \cup {Landing(x, rate, SourceBalance - rate >= Topup)}
     \/ /\ x.role = Act /\ PayerBalance - action.sigs * rate >= Rent
        /\ landed' = landed \cup {Landing(x, action.sigs * rate, SourceBalance >= action.debit)}
  /\ UNCHANGED <<client, height, rate, spends, sent>>
Confirm(l) ==
  /\ l.status = "processed"
  /\ landed' = (landed \ {l}) \cup {[l EXCEPT !.status = "confirmed"]}
  /\ UNCHANGED <<client, height, rate, spends, sent>>
AbandonFork(l) ==
  /\ l.status = "processed"
  /\ landed' = landed \ {l}
  /\ UNCHANGED <<client, height, rate, spends, sent>>

ClientStep ==
  \/ CheckStake \/ QuoteAction \/ QuoteFunding \/ CheckBalance \/ GetBlockhash \/ Requote
  \/ Resend \/ CheckBlockhash \/ StatusFailed \/ StatusConfirmed \/ StatusPending

ClusterStep ==
  \/ Tick \/ ChangeRate \/ SpendElsewhere
  \/ \E x \in sent : Land(x)
  \/ \E l \in landed : Confirm(l) \/ AbandonFork(l)

Next == ClientStep \/ RpcError \/ ClusterStep

(* Only the client's own progress is fair: the cluster owes it nothing.    *)
Spec == Init /\ [][Next]_vars /\ WF_vars(ClientStep)

-----------------------------------------------------------------------------
(* However often a transaction is sent again, the source is debited and    *)
(* the action performed at most once (send_idempotent's promise that a     *)
(* dropped send cannot cause a second effect).                             *)
AtMostOneEffect == \A role \in {Fund, Act} : Cardinality(Entries(role)) <= 1

(* The action is submitted only when its fee payer's money can no longer   *)
(* be taken back by an abandoned fork.                                     *)
FundedBeforeAction ==
  (\E x \in sent : x.role = Act) => \E l \in Entries(Fund) : l.ok /\ l.status = "confirmed"

(* A receipt means both transactions took effect for good, and an error    *)
(* before the action was submitted means the action will never happen.     *)
ReceiptIsTrue ==
  /\ ret = "ok" =>
       \A role \in {Fund, Act} : \E l \in Entries(role) : l.ok /\ l.status = "confirmed"
  /\ ret \in {"stake_minimum", "topup_limit", "debit_limit", "poor", "quoted", "fee_rose"} =>
       Entries(Act) = {}

(* The re-quoted action can be paid for: while the cluster's rate is not   *)
(* above the quote, the fee payer affords it and stays rent-exempt.        *)
TopupSuffices ==
  pc \in {"send", "valid", "status"} /\ tx.role = Act
  /\ action.sigs * rate <= actionFee /\ Entries(Act) = {}
    => PayerBalance - action.sigs * rate >= Rent

(* What leaves the source stays within the limits, save for what the       *)
(* funding fee rose after it was quoted; a quote alone costs nothing.      *)
DebitWithinQuote ==
  LET rise == {l.fee - fundingFee : l \in Entries(Fund)} \cup {0}
  IN /\ Debited <= MaxTotalDebit + Max(rise)
     /\ Entries(Fund) # {} => execute /\ Topup <= MaxFeePayerTopup

(* The execution always comes to an end, whatever the cluster does.        *)
Returns == <>(pc = "done")

(* live.rs promises hard debit limits.                                     *)
DebitWithinLimit == Debited <= MaxTotalDebit

(* live.rs says of the expiry exit that the outcome is then unambiguous:   *)
(* the transaction it gives up on took no effect.                          *)
ExpiredHasNoEffect == ret = "expired" => ~\E l \in landed : l.tx = tx
=============================================================================
