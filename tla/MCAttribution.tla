----------------------------- MODULE MCAttribution -----------------------------
(* Small ledgers for TLC: short ones observed record by record, and longer *)
(* ones of several operators for the cross-validation.                     *)
EXTENDS Attribution

CONSTANTS hub, f1, f2, s1, s2, s3, s4, s5, s6
MCAccount == {hub, f1, f2, s1, s2, s3, s4, s5, s6}

(* Two operators; hub is one's main account and funds the fee payers.      *)
MCTransfer(src, dst, fee, amt, op) ==
  [src |-> src, dst |-> dst, fee |-> fee, amt |-> amt, op |-> op]
MCTransfers ==
  {MCTransfer(s1, s2, f1, 100, 1), MCTransfer(s2, hub, f2, 100, 2),
   MCTransfer(s1, hub, f1, 100, 1),
   MCTransfer(hub, f1, hub, 101, 1), MCTransfer(hub, f2, hub, 1, 1)}
MCGaps == {0, 2, -3}

MCAdversary(use, windowed, window) ==
  [use |-> use, windowed |-> windowed, window |-> window, peelWindow |-> 2,
   toleranceBps |-> 100, lineageWindow |-> 2, copayMinSources |-> 2, copayMinShared |-> 2,
   copayMinAmount |-> 1, coactMinShared |-> 2, maxSources |-> 2, minFundees |-> 2,
   maxFunded |-> 2]
MCAdversaries ==
  {MCAdversary(Range(Heuristics) \ {"burst_union_ceiling", "funder_graph"}, FALSE, 0),
   MCAdversary({"fee_payer", "burst_copay", "burst_coactivity", "funder_graph"}, TRUE, 2),
   MCAdversary({"burst_union_ceiling"}, TRUE, 0)}

(* The windows of the learned adversary, with the least of the other limits. *)
MCWindows ==
  [MCAdversary({}, TRUE, 2) EXCEPT
     !.copayMinShared = 1, !.coactMinShared = 1, !.maxSources = 4, !.minFundees = 1,
     !.maxFunded = 4]

(* One record of each account of each operator; the destination and the    *)
(* fee payer, alone or shared, make some pairs alike and some not.         *)
MCRecord(i, src, op, shared) ==
  [sig |-> i, slot |-> i, ts |-> 5 * i, src |-> src,
   dst |-> IF shared THEN hub ELSE src, fee |-> IF shared THEN f1 ELSE src, amt |-> 1, op |-> op]
MCLedger(sources, ops, shared) ==
  [i \in DOMAIN sources |-> MCRecord(i, sources[i], ops[i], i \in shared)]

(* No records, and four or five operators in four folds, some with a       *)
(* single account: some cells then have few pairs, but never none, to      *)
(* learn from.                                                             *)
MCLedgers ==
  {<< >>, MCLedger(<<s1, s2, s3, s4, s5, s6>>, <<1, 1, 2, 3, 4, 5>>, {1, 3, 4}),
   MCLedger(<<s1, s2, s3, s4, s5, s6>>, <<1, 2, 2, 3, 4, 4>>, {1, 2})}
=============================================================================
