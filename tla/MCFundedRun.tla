----------------------------- MODULE MCFundedRun -----------------------------
(* Small runs for TLC: longer ones that are not funded, in which wakes of  *)
(* several accounts overlap, and shorter ones under every policy.          *)
EXTENDS FundedRun

MCPolicy(kind, k, sticky) == [kind |-> kind, k |-> k, sticky |-> sticky]
MCPolicies ==
  {MCPolicy("hub", 0, TRUE), MCPolicy("dedicated", 0, TRUE),
   MCPolicy("relayers", 2, TRUE), MCPolicy("relayers", 2, FALSE)}

MCConfig(mode, rebalance, subs, end, kmax, policy_) ==
  [mode |-> mode, rebalance |-> rebalance, hold |-> FALSE, kmin |-> 1, kmax |-> kmax,
   subs |-> subs, start |-> 0, end |-> end, funding |-> policy_]

MCUnfunded(mode, rebalance, subs, end) ==
  MCConfig(mode, rebalance, subs, end, 2, MCPolicy("none", 0, TRUE))
MCConfigs ==
  {MCUnfunded("hardened", "rotate", <<3>>, 2), MCUnfunded("hardened", "rotate", <<2, 1>>, 2),
   [MCUnfunded("hardened", "rotate", <<2, 1>>, 3) EXCEPT !.hold = TRUE],
   MCUnfunded("hardened", "hub", <<3>>, 1),
   MCUnfunded("naive", "rotate", <<3, 2>>, 3), MCUnfunded("legacy", "rotate", <<3, 2>>, 3)}
  \cup
  UNION {{MCConfig("hardened", "rotate", <<2, 1>>, 1, 1, p),
          MCConfig("hardened", "hub", <<2>>, 1, 1, p),
          MCConfig("legacy", "hub", <<2, 1>>, 1, 1, p),
          MCConfig("naive", "hub", <<2, 2>>, 2, 1, p)} : p \in MCPolicies}
MCDelays == {1, 2}

(* Offsets that outlast the next wake of the other entries: overlap. *)
MCDraw(maint, outs, picks, at, delay) ==
  [maint |-> maint, outs |-> outs, picks |-> picks, at |-> at, delay |-> delay]
MCDraws ==
  {MCDraw(FALSE, outs, <<1>>, at, delay) :
      outs \in {<<1>>, <<1, 2>>}, at \in {<<1, 3>>}, delay \in {1, 2}} \cup
  {MCDraw(TRUE, <<1>>, picks, <<2, 3>>, 1) : picks \in {<<1>>, <<2>>, <<2, 3>>, <<3, 2>>}}

MCLeads == {1, 4}
MCAnalyst == [minFundees |-> 2, maxFunded |-> 100]
=============================================================================
