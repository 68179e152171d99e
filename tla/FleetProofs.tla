------------------------------ MODULE FleetProofs ------------------------------
(* Theorems about a run of the engine and its funding: they hold for every *)
(* fleet, every outcome of the random draws and every funding policy.  And *)
(* about what a wake sends, for floating-point numbers of any precision.   *)
EXTENDS FundedRun, Payment, SeqFacts, FiniteSetTheorems

-----------------------------------------------------------------------------
(* The shape of a state of c's engine: RunState's fields, the schedule     *)
(* build_fresh computes, a wake time per entry, an account per slot.       *)
Slots(c) == UNION {{a} \X (1..c.subs[a]) : a \in AgentsOf(c)}
Fields == {"rng", "clock", "slot", "sig", "events", "sched", "subs", "main", "next"}

IsMap(f, D) == f = [x \in D |-> f[x]]

Shape(c, s) ==
  /\ IsMap(s, Fields)
  /\ s.sched = SchedEntries(c)
  /\ s.rng \in Nat \ {0} /\ s.clock \in Int /\ s.slot \in Nat /\ s.sig \in Nat
  /\ s.next \in [1..Len(s.sched) -> Int]
  /\ IsMap(s.main, AgentsOf(c)) /\ IsMap(s.subs, AgentsOf(c))
  /\ \A a \in AgentsOf(c) : /\ IsMap(s.subs[a], 1..c.subs[a])
                            /\ s.subs[a][1] = Initial(a, 1) /\ s.main[a] = Initial(a, 1)

(* The runs whose accounts change. *)
Rotating(c) == IsHardened(c) /\ c.rebalance = "rotate"

LEMMA ConfigFacts ==
  ASSUME NEW c \in Configs
  PROVE  /\ Len(c.subs) \in Nat
         /\ \A a \in AgentsOf(c) : c.subs[a] \in Nat \ {0}
         /\ c.start \in Int /\ c.end \in Int
         /\ c.mode \in {"naive", "legacy", "hardened"} /\ c.rebalance \in {"rotate", "hub"}
  BY ConfigsAssumption DEF AgentsOf

(* Every schedule entry names an agent, and in a hardened run one of its   *)
(* subaccounts.                                                            *)
LEMMA SchedEntriesShape ==
  ASSUME NEW c \in Configs
  PROVE  /\ IsSeq(SchedEntries(c))
         /\ \A e \in 1..Len(SchedEntries(c)) :
              /\ SchedEntries(c)[e][1] \in AgentsOf(c)
              /\ IsHardened(c) => SchedEntries(c)[e][2] \in 1..c.subs[SchedEntries(c)[e][1]]
  <1> DEFINE n == Len(c.subs)
  <1>1. n \in Nat /\ \A a \in 1..n : c.subs[a] \in Nat \ {0}
    BY ConfigFacts DEF AgentsOf
  <1>2. CASE ~IsHardened(c)
    <2> DEFINE es == [a \in 1..n |-> <<a, 0>>]
    <2>1. SchedEntries(c) = es
      BY <1>2 DEF SchedEntries
    <2>2. es \in Seq((1..n) \X {0}) /\ Len(es) = n
      BY <1>1
    <2>3. IsSeq(es)
      BY <2>2, AnySeq
    <2> QED
      BY <1>1, <1>2, <2>1, <2>2, <2>3 DEF AgentsOf
  <1>3. CASE IsHardened(c)
    <2> DEFINE S == {x \in (1..n) \X Nat : x[2] \in 1..c.subs[x[1]]}
               rows == [a \in 1..n |-> [k \in 1..c.subs[a] |-> <<a, k>>]]
    <2>1. SchedEntries(c) = FlattenSeq(rows)
      BY <1>3 DEF SchedEntries
    <2>2. ASSUME NEW a \in 1..n PROVE rows[a] \in Seq(S)
      <3> DEFINE m == c.subs[a]
      <3>1. m \in Nat
        BY <1>1
      <3>2. \A k \in 1..m : <<a, k>> \in S
        BY <3>1
      <3> HIDE DEF S
      <3>3. [k \in 1..m |-> <<a, k>>] \in Seq(S)
        BY <3>1, <3>2
      <3> QED
        BY <3>3
    <2>3. IsSeq(rows) /\ Len(rows) = n
      <3>1. rows = [a \in 1..n |-> rows[a]]
        OBVIOUS
      <3> QED
        BY <1>1, <3>1, ShapeSeq
    <2> HIDE DEF rows
    <2>4. FlattenSeq(rows) \in Seq(S)
      BY <2>2, <2>3, FlattenSeqOver
    <2>5. IsSeq(FlattenSeq(rows))
      BY <2>4, AnySeq
    <2>6. \A e \in 1..Len(FlattenSeq(rows)) : FlattenSeq(rows)[e] \in S
      BY <2>4
    <2> QED
      BY <2>1, <2>5, <2>6 DEF AgentsOf
  <1> QED
    BY <1>2, <1>3

(* A delay counts for one second at least, scaled or not.                  *)
LEMMA ScaledDelayType ==
  ASSUME NEW c \in Configs, NEW a \in AgentsOf(c), NEW delay \in Nat \ {0}
  PROVE  ScaledDelay(c, a, delay) \in Nat
  BY ConfigFacts DEF ScaledDelay

LEMMA FreshShape ==
  ASSUME NEW c \in Configs, NEW delays \in [DOMAIN SchedEntries(c) -> Delays]
  PROVE  Shape(c, Fresh(c, delays))
  <1> DEFINE s == Fresh(c, delays)
             entries == SchedEntries(c)
  <1>1. IsMap(s, Fields)
    BY DEF Fresh, Fields, IsMap
  <1>2. IsSeq(entries) /\ DOMAIN entries = 1..Len(entries)
    BY SchedEntriesShape, SeqShape
  <1>3. ASSUME NEW e \in 1..Len(entries)
        PROVE  c.start + Later(ScaledDelay(c, entries[e][1], delays[e]), 1) \in Int
    <2>1. delays[e] \in Nat \ {0} /\ entries[e][1] \in AgentsOf(c)
      BY <1>2, SchedEntriesShape, DelaysAssumption
    <2>2. ScaledDelay(c, entries[e][1], delays[e]) \in Nat
      BY <2>1, ScaledDelayType
    <2> QED
      BY <2>2, ConfigFacts DEF Later
  <1>4. s.next \in [1..Len(s.sched) -> Int] /\ s.sched = entries
    BY <1>3 DEF Fresh
  <1>5. /\ IsMap(s.main, AgentsOf(c)) /\ IsMap(s.subs, AgentsOf(c))
        /\ \A a \in AgentsOf(c) : /\ IsMap(s.subs[a], 1..c.subs[a])
                                  /\ s.subs[a][1] = Initial(a, 1) /\ s.main[a] = Initial(a, 1)
    <2>1. \A a \in AgentsOf(c) : 1 \in 1..c.subs[a]
      BY ConfigFacts
    <2> QED
      BY <2>1 DEF Fresh, AgentsOf, IsMap
  <1>6. s.rng = 1 /\ s.clock = c.start /\ s.slot = 0 /\ s.sig = 0
    BY DEF Fresh
  <1>7. c.start \in Int
    BY ConfigFacts
  <1> HIDE DEF s, entries
  <1>8. s.rng \in Nat \ {0} /\ s.clock \in Int /\ s.slot \in Nat /\ s.sig \in Nat
    BY <1>6, <1>7
  <1>9. s.sched = SchedEntries(c)
    BY <1>4 DEF entries
  <1>10. Shape(c, s)
    BY <1>1, <1>4, <1>5, <1>6, <1>8, <1>9 DEF Shape
  <1> QED
    BY <1>10 DEF s

(* The heap has a minimum, and the entry that is due is one.               *)
LEMMA DueIsMinimal ==
  ASSUME NEW s, NEW n \in Nat \ {0}, s.next \in [1..n -> Int]
  PROVE  Due(s) \in 1..n /\ \A f \in 1..n : s.next[Due(s)] <= s.next[f]
  <1> DEFINE Sooner(e, f) == \/ s.next[e] < s.next[f]
                             \/ s.next[e] = s.next[f] /\ e <= f
             Min1(m) == \E e \in 1..m : \A f \in 1..m : Sooner(e, f)
             T == {m \in Nat : m \in 1..n /\ ~Min1(m)}
  <1>1. T = {}
    <2>1. SUFFICES ASSUME T # {} PROVE FALSE
      OBVIOUS
    <2> HIDE DEF Min1
    <2>2. PICK x \in T : \A y \in T : x <= y
      BY <2>1, LeastElement
    <2>3. ASSUME Min1(x) PROVE FALSE
      BY <2>2, <2>3
    <2>4. x # 1
      <3>1. x = 1 => \A f \in 1..1 : Sooner(1, f)
        OBVIOUS
      <3> QED
        BY <2>3, <3>1 DEF Min1
    <2>5. x - 1 \in 1..n /\ x - 1 \in Nat /\ x \in 1..n
      BY <2>2, <2>4
    <2>6. x - 1 \notin T
      BY <2>2, <2>5
    <2>7. PICK e \in 1..(x - 1) : \A f \in 1..(x - 1) : Sooner(e, f)
      BY <2>5, <2>6 DEF Min1
    <2>8. /\ e \in 1..x /\ x \in 1..x /\ e \in 1..n
          /\ \A f \in 1..x : f \in 1..n /\ (f = x \/ f \in 1..(x - 1))
      BY <2>5, <2>7
    <2>9. CASE Sooner(e, x)
      <3>1. \A f \in 1..x : Sooner(e, f)
        BY <2>7, <2>8, <2>9
      <3> QED
        BY <2>3, <2>8, <3>1 DEF Min1
    <2>10. CASE ~Sooner(e, x)
      <3>1. ASSUME NEW f \in 1..x PROVE Sooner(x, f)
        <4>1. /\ s.next[e] \in Int /\ s.next[x] \in Int /\ s.next[f] \in Int
              /\ e \in Int /\ x \in Int /\ f \in Int
          BY <2>5, <2>8
        <4>2. f = x \/ Sooner(e, f)
          BY <2>7, <2>8
        <4>3. /\ s.next[x] < s.next[e] \/ (s.next[x] = s.next[e] /\ x < e)
          BY <2>10, <4>1
        <4>4. CASE f = x
          BY <4>1, <4>4
        <4>5. CASE Sooner(e, f)
          <5>1. s.next[e] < s.next[f] \/ (s.next[e] = s.next[f] /\ e <= f)
            BY <4>5
          <5>2. s.next[x] < s.next[f] \/ (s.next[x] = s.next[f] /\ x <= f)
            BY <4>1, <4>3, <5>1
          <5> QED
            BY <5>2
        <4> QED
          BY <4>2, <4>4, <4>5
      <3> QED
        BY <2>3, <2>8, <3>1 DEF Min1
    <2> QED
      BY <2>9, <2>10
  <1> HIDE DEF Min1
  <1>2. n \in T \/ Min1(n)
    OBVIOUS
  <1>3. DOMAIN s.next = 1..n
    OBVIOUS
  <1>4. Due(s) \in 1..n /\ \A f \in 1..n : Sooner(Due(s), f)
    BY <1>1, <1>2, <1>3 DEF Due, Min1
  <1> QED
    BY <1>4

-----------------------------------------------------------------------------
(* What one wake does: the agent it is for, the transactions it plans and  *)
(* the records they become.                                                *)
DueAgent(s) == s.sched[Due(s)][1]
DueSlot(s) == s.sched[Due(s)][2]
Plans(c, s, d) == PerformAction(c, s, Due(s), d)
Recs(c, s, d) == Stamp(s, DueAgent(s), ObservableAt(s, s.next[Due(s)]), Plans(c, s, d))

LEMMA DueFacts ==
  ASSUME NEW c \in Configs, NEW s, Shape(c, s), ~Done(c, s)
  PROVE  /\ Due(s) \in 1..Len(s.sched)
         /\ \A f \in 1..Len(s.sched) : s.next[Due(s)] <= s.next[f]
         /\ DueAgent(s) \in AgentsOf(c)
         /\ IsHardened(c) => DueSlot(s) \in 1..c.subs[DueAgent(s)]
         /\ DOMAIN s.subs[DueAgent(s)] = 1..c.subs[DueAgent(s)]
         /\ s.main[DueAgent(s)] = Initial(DueAgent(s), 1)
  <1> DEFINE n == Len(s.sched)
  <1>1. n \in Nat /\ s.next \in [1..n -> Int]
    BY SchedEntriesShape, SeqShape DEF Shape
  <1>2. n # 0
    BY <1>1 DEF Done
  <1>3. Due(s) \in 1..n /\ \A f \in 1..n : s.next[Due(s)] <= s.next[f]
    BY <1>1, <1>2, DueIsMinimal
  <1>4. /\ DueAgent(s) \in AgentsOf(c)
        /\ IsHardened(c) => DueSlot(s) \in 1..c.subs[DueAgent(s)]
    BY <1>3, SchedEntriesShape DEF Shape, DueAgent, DueSlot
  <1>5. /\ DOMAIN s.subs[DueAgent(s)] = 1..c.subs[DueAgent(s)]
        /\ s.main[DueAgent(s)] = Initial(DueAgent(s), 1)
    BY <1>4 DEF Shape, IsMap
  <1> QED
    BY <1>3, <1>4, <1>5

LEMMA WakeFacts ==
  ASSUME NEW c \in Configs, NEW s, NEW d, Shape(c, s), ~Done(c, s),
         NEW t, t = Wake(c, s, d).sim
  PROVE  /\ Wake(c, s, d).recs = Recs(c, s, d)
         /\ IsMap(t, Fields)
         /\ t.rng = s.rng + 1
         /\ t.clock = IF Recs(c, s, d) = << >> THEN ObservableAt(s, s.next[Due(s)])
                      ELSE Last(Recs(c, s, d)).ts
         /\ t.slot = s.slot + Len(Recs(c, s, d)) /\ t.sig = s.sig + Len(Recs(c, s, d))
         /\ t.sched = s.sched /\ t.main = s.main
         /\ IsMap(t.subs, AgentsOf(c))
         /\ t.subs[DueAgent(s)] = SubsAfter(c, s, DueAgent(s), d)
         /\ \A b \in AgentsOf(c) : b # DueAgent(s) => t.subs[b] = s.subs[b]
         /\ IsMap(t.next, 1..Len(s.sched))
         /\ t.next[Due(s)] = NextAt(c, s.next[Due(s)], DueAgent(s), d.delay)
         /\ \A f \in 1..Len(s.sched) : f # Due(s) => t.next[f] = s.next[f]
  <1> DEFINE e == Due(s)
             a == DueAgent(s)
             recs == Recs(c, s, d)
             q == SubsAfter(c, s, a, d)
             to == NextAt(c, s.next[e], a, d.delay)
             u == [s EXCEPT !.rng     = @ + 1,
                            !.clock   = IF recs = << >> THEN ObservableAt(s, s.next[e])
                                        ELSE Last(recs).ts,
                            !.slot    = @ + Len(recs),
                            !.sig     = @ + Len(recs),
                            !.events  = @ + 1,
                            !.subs[a] = q,
                            !.next[e] = to]
  <1>1. Wake(c, s, d).sim = u /\ Wake(c, s, d).recs = recs
    BY DEF Wake, DueAgent, Recs, Plans
  <1>2. s = [f \in Fields |-> s[f]]
    BY DEF Shape, IsMap
  <1>3. u = [f \in Fields |-> u[f]]
    BY <1>2
  <1>4. e \in 1..Len(s.sched) /\ a \in AgentsOf(c)
    BY DueFacts
  <1> HIDE DEF recs, e, a, q, to
  <1>5. /\ u.rng = s.rng + 1
        /\ u.clock = IF recs = << >> THEN ObservableAt(s, s.next[e]) ELSE Last(recs).ts
        /\ u.slot = s.slot + Len(recs) /\ u.sig = s.sig + Len(recs)
        /\ u.sched = s.sched /\ u.main = s.main
        /\ u.subs = [s.subs EXCEPT ![a] = q]
        /\ u.next = [s.next EXCEPT ![e] = to]
    BY <1>2 DEF Fields
  <1> HIDE DEF u
  <1>6. t = u
    BY <1>1
  <1>7. /\ IsMap(t.subs, AgentsOf(c)) /\ t.subs[a] = q
        /\ \A b \in AgentsOf(c) : b # a => t.subs[b] = s.subs[b]
    BY <1>4, <1>5, <1>6 DEF Shape, IsMap
  <1>8. /\ IsMap(t.next, 1..Len(s.sched)) /\ t.next[e] = to
        /\ \A f \in 1..Len(s.sched) : f # e => t.next[f] = s.next[f]
    <2>1. s.next \in [1..Len(s.sched) -> Int]
      BY DEF Shape
    <2> QED
      BY <1>4, <1>5, <1>6, <2>1 DEF IsMap
  <1>9. IsMap(t, Fields)
    BY <1>3, <1>6 DEF IsMap
  <1> QED
    BY <1>1, <1>5, <1>6, <1>7, <1>8, <1>9 DEF recs, e, a, q, to

(* A plan: it pays from an account the agent holds to a counterparty, to   *)
(* an account drawn in this wake, or, when accounts are kept, from one     *)
(* that is not the treasury to the treasury.  Except in a naive run its    *)
(* fee payer is drawn in this wake too, for this plan alone.               *)
PlanOK(c, s, a, j, p) ==
  /\ p.wait \in Nat
  /\ \E k \in 1..c.subs[a] : p.src = s.subs[a][k]
  /\ \/ p.dst = External
     \/ c.mode # "naive" /\ (p.dst = Successor(s, 1) \/ p.dst = Successor(s, j))
     \/ p.dst = s.main[a] /\ ~Rotating(c) /\ \E k \in 2..c.subs[a] : p.src = s.subs[a][k]
  /\ p.fee = IF c.mode = "naive" THEN s.main[a] ELSE FreshFee(s, j)

PlansOK(c, s, a, ps) ==
  /\ IsSeq(ps)
  /\ \A j \in 1..Len(ps) : PlanOK(c, s, a, j, ps[j])
  /\ \A i, j \in 1..Len(ps) : i < j => ps[i].wait <= ps[j].wait

LEMMA DrawFacts ==
  ASSUME NEW d \in Draws
  PROVE  /\ Len(d.outs) \in Nat \ {0} /\ DOMAIN d.outs = 1..Len(d.outs)
         /\ \A j \in 1..Len(d.outs) : d.outs[j] \in Nat \ {0}
         /\ Len(d.picks) \in Nat \ {0} /\ DOMAIN d.picks = 1..Len(d.picks)
         /\ \A j \in 1..Len(d.picks) : d.picks[j] \in Nat \ {0}
         /\ Len(d.at) \in Nat /\ DOMAIN d.at = 1..Len(d.at)
         /\ \A j \in 1..Len(d.at) : d.at[j] \in Nat \ {0}
         /\ \A i, j \in 1..Len(d.at) : i < j => d.at[i] < d.at[j]
         /\ d.delay \in Nat \ {0} /\ d.maint \in BOOLEAN
         /\ Head(d.picks) = d.picks[1]
  <1>1. /\ d.outs \in Seq(Nat \ {0}) /\ d.outs # << >>
        /\ d.picks \in Seq(Nat \ {0}) /\ d.picks # << >>
        /\ d.at \in Seq(Nat \ {0})
        /\ \A i, j \in DOMAIN d.at : i < j => d.at[i] < d.at[j]
        /\ d.delay \in Delays /\ d.maint \in BOOLEAN
    BY DrawsAssumption
  <1>2. ASSUME NEW q \in Seq(Nat \ {0})
        PROVE  /\ Len(q) \in Nat /\ DOMAIN q = 1..Len(q)
               /\ \A j \in 1..Len(q) : q[j] \in Nat \ {0}
               /\ q # << >> => Len(q) # 0 /\ Head(q) = q[1]
    OBVIOUS
  <1>3. d.delay \in Nat \ {0}
    BY <1>1, DelaysAssumption
  <1>4. DOMAIN d.at = 1..Len(d.at)
    BY <1>1, <1>2
  <1> QED
    BY <1>1, <1>2, <1>3, <1>4

LEMMA FunnelPlans ==
  ASSUME NEW c \in Configs, NEW s, NEW a \in AgentsOf(c), Shape(c, s), c.mode = "naive"
  PROVE  /\ IsSeq(Funnel(s, a))
         /\ \A j \in 1..Len(Funnel(s, a)) :
              Funnel(s, a)[j].wait = 0 /\ \A i \in Nat : PlanOK(c, s, a, i, Funnel(s, a)[j])
  <1> DEFINE n == c.subs[a]
             S == {Planned(s.subs[a][k], s.main[a], s.main[a], 0) :
                     k \in {l \in 1..n : s.subs[a][l] # s.main[a]}}
             rows == [k \in DOMAIN s.subs[a] |->
                        IF s.subs[a][k] = s.main[a] THEN << >>
                        ELSE <<Planned(s.subs[a][k], s.main[a], s.main[a], 0)>>]
  <1>1. n \in Nat /\ DOMAIN s.subs[a] = 1..n
    BY ConfigFacts DEF Shape, IsMap
  <1>2. IsSeq(rows) /\ Len(rows) = n
    <2>1. rows = [k \in 1..n |-> rows[k]]
      BY <1>1
    <2> QED
      BY <1>1, <2>1, ShapeSeq
  <1>3. ASSUME NEW k \in 1..n PROVE rows[k] \in Seq(S)
    <2>1. CASE s.subs[a][k] = s.main[a]
      BY <1>1, <2>1
    <2>2. CASE s.subs[a][k] # s.main[a]
      <3> DEFINE p == Planned(s.subs[a][k], s.main[a], s.main[a], 0)
      <3>1. p \in S
        BY <2>2
      <3>2. rows[k] = <<p>>
        BY <1>1, <2>2
      <3> HIDE DEF p, S
      <3>3. <<p>> \in Seq(S)
        BY <3>1
      <3> QED
        BY <3>2, <3>3
    <2> QED
      BY <2>1, <2>2
  <1>4. Funnel(s, a) = FlattenSeq(rows)
    BY DEF Funnel
  <1>5. ASSUME NEW p \in S
        PROVE  p.wait = 0 /\ \A i \in Nat : PlanOK(c, s, a, i, p)
    <2>1. PICK k \in 1..n : /\ s.subs[a][k] # s.main[a]
                            /\ p = Planned(s.subs[a][k], s.main[a], s.main[a], 0)
      OBVIOUS
    <2>2. k # 1 /\ k \in 2..c.subs[a]
      <3>1. s.subs[a][1] = Initial(a, 1) /\ s.main[a] = Initial(a, 1)
        BY DEF Shape
      <3>2. k # 1
        BY <2>1, <3>1
      <3> QED
        BY <1>1, <3>2
    <2> HIDE DEF S
    <2> QED
      BY <2>1, <2>2 DEF Planned, PlanOK, Rotating, IsHardened
  <1> HIDE DEF rows, S
  <1>6. Funnel(s, a) \in Seq(S)
    BY <1>2, <1>3, <1>4, FlattenSeqOver
  <1>7. IsSeq(Funnel(s, a)) /\ \A j \in 1..Len(Funnel(s, a)) : Funnel(s, a)[j] \in S
    BY <1>6, AnySeq
  <1> QED
    BY <1>5, <1>7

(* The transactions of each kind of wake, whatever was drawn.              *)
LEMMA NaivePlans ==
  ASSUME NEW c \in Configs, NEW s, NEW d \in Draws, NEW a \in AgentsOf(c), Shape(c, s),
         c.mode = "naive", \A j \in DOMAIN d.outs : d.outs[j] <= c.subs[a]
  PROVE  PlansOK(c, s, a, NaiveAction(s, a, d))
  <1> DEFINE n == Len(d.outs)
             acts == [j \in DOMAIN d.outs |->
                        Planned(s.subs[a][d.outs[1]], External, s.main[a], 0)]
             fs == Funnel(s, a)
  <1>1. n \in Nat \ {0} /\ DOMAIN d.outs = 1..n /\ d.outs[1] \in 1..c.subs[a]
    <2>1. n \in Nat \ {0} /\ DOMAIN d.outs = 1..n /\ d.outs[1] \in Nat \ {0} /\ 1 \in 1..n
      BY DrawFacts
    <2> QED
      BY <2>1, ConfigFacts
  <1>2. IsSeq(acts) /\ Len(acts) = n
    <2>1. acts = [j \in 1..n |-> acts[j]]
      BY <1>1
    <2> QED
      BY <1>1, <2>1, ShapeSeq
  <1>3. ASSUME NEW j \in 1..n PROVE acts[j].wait = 0 /\ PlanOK(c, s, a, j, acts[j])
    <2> DEFINE p == Planned(s.subs[a][d.outs[1]], External, s.main[a], 0)
    <2>1. acts[j] = p
      BY <1>1
    <2>2. /\ p.src = s.subs[a][d.outs[1]] /\ p.dst = External /\ p.fee = s.main[a]
          /\ p.wait = 0
      BY DEF Planned
    <2> HIDE DEF p, acts
    <2> QED
      BY <1>1, <2>1, <2>2 DEF PlanOK
  <1>4. /\ IsSeq(fs)
        /\ \A j \in 1..Len(fs) : fs[j].wait = 0 /\ \A i \in Nat : PlanOK(c, s, a, i, fs[j])
    BY FunnelPlans
  <1>5. NaiveAction(s, a, d) = IF d.maint THEN acts \o fs ELSE acts
    BY DEF NaiveAction
  <1> HIDE DEF acts, fs, n
  <1>6. PlansOK(c, s, a, acts)
    BY <1>2, <1>3 DEF PlansOK
  <1>7. PlansOK(c, s, a, acts \o fs)
    <2>1. Len(fs) \in Nat
      BY <1>4, SeqShape
    <2>2. /\ IsSeq(acts \o fs) /\ Len(acts \o fs) = n + Len(fs)
          /\ \A j \in 1..(n + Len(fs)) :
               (acts \o fs)[j] = IF j <= n THEN acts[j] ELSE fs[j - n]
      BY <1>2, <1>4, ConcatSeq
    <2>3. ASSUME NEW j \in 1..(n + Len(fs))
          PROVE  (acts \o fs)[j].wait = 0 /\ PlanOK(c, s, a, j, (acts \o fs)[j])
      <3>1. CASE j <= n
        <4>1. j \in 1..n
          BY <1>1, <3>1
        <4> QED
          BY <1>3, <2>2, <3>1, <4>1
      <3>2. CASE j > n
        <4>1. j - n \in 1..Len(fs) /\ j \in Nat /\ ~(j <= n)
          BY <1>1, <2>1, <3>2
        <4>2. (acts \o fs)[j] = fs[j - n]
          BY <2>2, <4>1
        <4>3. fs[j - n].wait = 0 /\ PlanOK(c, s, a, j, fs[j - n])
          BY <1>4, <4>1
        <4> QED
          BY <4>2, <4>3
      <3>3. j <= n \/ j > n
        BY <1>1, <2>1
      <3> QED
        BY <3>1, <3>2, <3>3
    <2>4. \A i, j \in 1..Len(acts \o fs) :
            i < j => (acts \o fs)[i].wait <= (acts \o fs)[j].wait
      <3>1. ASSUME NEW i \in 1..(n + Len(fs)), NEW j \in 1..(n + Len(fs))
            PROVE  (acts \o fs)[i].wait <= (acts \o fs)[j].wait
        <4>1. (acts \o fs)[i].wait = 0 /\ (acts \o fs)[j].wait = 0
          BY <2>3
        <4> QED
          BY <4>1
      <3> QED
        BY <2>2, <3>1
    <2> QED
      BY <2>2, <2>3, <2>4 DEF PlansOK
  <1> QED
    BY <1>5, <1>6, <1>7

LEMMA LegacyPlans ==
  ASSUME NEW c \in Configs, NEW s, NEW d \in Draws, NEW a \in AgentsOf(c), Shape(c, s),
         c.mode = "legacy", \A j \in DOMAIN d.outs : d.outs[j] <= c.subs[a],
         d.picks[1] <= c.subs[a]
  PROVE  PlansOK(c, s, a, LegacyAction(s, a, d))
  <1> DEFINE n == Len(d.outs)
             acts == [j \in DOMAIN d.outs |->
                        Planned(s.subs[a][d.outs[j]], External, FreshFee(s, j), 0)]
             churn == Planned(s.subs[a][Head(d.picks)], AccountIdRandom(s, SuccessorRole, 1),
                              FreshFee(s, Len(d.outs) + 1), 0)
  <1>1. n \in Nat \ {0} /\ DOMAIN d.outs = 1..n /\ \A j \in 1..n : d.outs[j] \in 1..c.subs[a]
    BY DrawFacts, ConfigFacts
  <1>2. Head(d.picks) \in 1..c.subs[a]
    <2>1. Head(d.picks) = d.picks[1] /\ d.picks[1] \in Nat \ {0}
      BY DrawFacts
    <2> QED
      BY <2>1, ConfigFacts
  <1>3. IsSeq(acts) /\ Len(acts) = n
    <2>1. acts = [j \in 1..n |-> acts[j]]
      BY <1>1
    <2> QED
      BY <1>1, <2>1, ShapeSeq
  <1>4. ASSUME NEW j \in 1..n PROVE acts[j].wait = 0 /\ PlanOK(c, s, a, j, acts[j])
    BY <1>1 DEF Planned, PlanOK
  <1>5. churn.wait = 0 /\ PlanOK(c, s, a, n + 1, churn)
    BY <1>2 DEF Planned, PlanOK, Successor, FreshFee
  <1>6. LegacyAction(s, a, d) = IF d.maint THEN Append(acts, churn) ELSE acts
    BY DEF LegacyAction
  <1> HIDE DEF acts, churn, n
  <1>7. PlansOK(c, s, a, acts)
    BY <1>3, <1>4 DEF PlansOK
  <1>8. PlansOK(c, s, a, Append(acts, churn))
    <2> DEFINE ps == Append(acts, churn)
    <2>1. acts \in Seq(Range(acts) \cup {churn})
      BY <1>3 DEF IsSeq
    <2>2. /\ ps \in Seq(Range(acts) \cup {churn}) /\ Len(ps) = n + 1
          /\ \A j \in 1..n : ps[j] = acts[j]
          /\ ps[n + 1] = churn
      BY <1>1, <1>3, <2>1
    <2>3. IsSeq(ps)
      BY <2>2, AnySeq
    <2> HIDE DEF ps
    <2>4. ASSUME NEW j \in 1..(n + 1) PROVE ps[j].wait = 0 /\ PlanOK(c, s, a, j, ps[j])
      <3>1. j \in 1..n \/ j = n + 1
        BY <1>1
      <3> QED
        BY <1>4, <1>5, <2>2, <3>1
    <2> QED
      BY <2>2, <2>3, <2>4 DEF PlansOK, ps
  <1> QED
    BY <1>6, <1>7, <1>8

LEMMA HardenedPlans ==
  ASSUME NEW c \in Configs, NEW s, NEW d \in Draws, NEW a \in AgentsOf(c), Shape(c, s),
         c.mode = "hardened", NEW k \in 1..c.subs[a], Len(d.outs) <= Len(d.at)
  PROVE  /\ PlansOK(c, s, a, HardenedAction(s, a, k, d))
         /\ \A j \in 1..Len(HardenedAction(s, a, k, d)) :
              HardenedAction(s, a, k, d)[j].dst = External
  <1> DEFINE n == Len(d.outs)
             ps == HardenedAction(s, a, k, d)
  <1>1. /\ n \in Nat /\ DOMAIN d.outs = 1..n /\ Len(d.at) \in Nat
        /\ \A j \in 1..n : d.at[j] \in Nat
        /\ \A i, j \in 1..n : i < j => d.at[i] <= d.at[j]
    <2>1. /\ n \in Nat /\ DOMAIN d.outs = 1..n /\ Len(d.at) \in Nat
          /\ \A j \in 1..Len(d.at) : d.at[j] \in Nat \ {0}
          /\ \A i, j \in 1..Len(d.at) : i < j => d.at[i] < d.at[j]
      BY DrawFacts
    <2>2. \A j \in 1..n : j \in 1..Len(d.at)
      BY <2>1
    <2> HIDE DEF n
    <2>3. ASSUME NEW i \in 1..n, NEW j \in 1..n, i < j PROVE d.at[i] <= d.at[j]
      BY <2>1, <2>2, <2>3
    <2> QED
      BY <2>1, <2>2, <2>3
  <1>2. ps = [j \in 1..n |-> Planned(s.subs[a][k], External, FreshFee(s, j), d.at[j])]
    BY <1>1 DEF HardenedAction
  <1>3. IsSeq(ps) /\ Len(ps) = n
    <2>1. ps = [j \in 1..n |-> ps[j]]
      BY <1>2
    <2> QED
      BY <1>1, <2>1, ShapeSeq
  <1>4. ASSUME NEW j \in 1..n
        PROVE  ps[j].wait = d.at[j] /\ ps[j].dst = External /\ PlanOK(c, s, a, j, ps[j])
    BY <1>1, <1>2 DEF Planned, PlanOK
  <1> HIDE DEF ps
  <1>5. PlansOK(c, s, a, ps)
    BY <1>1, <1>3, <1>4 DEF PlansOK
  <1> QED
    BY <1>3, <1>4, <1>5 DEF ps

(* A maintenance wake: the picked accounts, none of them the treasury,     *)
(* each pay once, to their successor or to the treasury.                   *)
PicksPay(c, s, a, d, to, ps) ==
  /\ IsSeq(ps) /\ Len(ps) = Len(d.picks)
  /\ \A j \in 1..Len(d.picks) :
       /\ to[j] = Successor(s, j) \/ (to[j] = s.main[a] /\ ~Rotating(c))
       /\ ps[j] = Planned(s.subs[a][d.picks[j]], to[j], FreshFee(s, j), d.at[j])

LEMMA MaintenancePlans ==
  ASSUME NEW c \in Configs, NEW s, NEW d \in Draws, NEW a \in AgentsOf(c), Shape(c, s),
         c.mode = "hardened", Range(d.picks) \subseteq Operational(c.subs[a]),
         Len(d.picks) <= Len(d.at), NEW to, NEW ps, PicksPay(c, s, a, d, to, ps)
  PROVE  /\ PlansOK(c, s, a, ps)
         /\ \A j \in 1..Len(ps) : /\ d.picks[j] \in 2..c.subs[a]
                                  /\ ps[j].src = s.subs[a][d.picks[j]]
                                  /\ ps[j].dst = to[j]
  <1> DEFINE n == Len(d.picks)
  <1>1. /\ n \in Nat /\ DOMAIN d.picks = 1..n /\ Len(d.at) \in Nat
        /\ \A j \in 1..n : d.at[j] \in Nat
        /\ \A i, j \in 1..n : i < j => d.at[i] <= d.at[j]
    <2>1. /\ n \in Nat /\ DOMAIN d.picks = 1..n /\ Len(d.at) \in Nat
          /\ \A j \in 1..Len(d.at) : d.at[j] \in Nat \ {0}
          /\ \A i, j \in 1..Len(d.at) : i < j => d.at[i] < d.at[j]
      BY DrawFacts
    <2>2. \A j \in 1..n : j \in 1..Len(d.at)
      BY <2>1
    <2> HIDE DEF n
    <2>3. ASSUME NEW i \in 1..n, NEW j \in 1..n, i < j PROVE d.at[i] <= d.at[j]
      BY <2>1, <2>2, <2>3
    <2> QED
      BY <2>1, <2>2, <2>3
  <1>2. \A j \in 1..n : d.picks[j] \in 2..c.subs[a]
    BY <1>1 DEF Range, Operational
  <1>3. ASSUME NEW j \in 1..n
        PROVE  /\ ps[j].wait = d.at[j] /\ ps[j].src = s.subs[a][d.picks[j]]
               /\ ps[j].dst = to[j] /\ PlanOK(c, s, a, j, ps[j])
    <2>1. d.picks[j] \in 1..c.subs[a] /\ d.at[j] \in Nat
      BY <1>1, <1>2, ConfigFacts
    <2>2. /\ ps[j].src = s.subs[a][d.picks[j]] /\ ps[j].dst = to[j]
          /\ ps[j].fee = FreshFee(s, j) /\ ps[j].wait = d.at[j]
          /\ to[j] = Successor(s, j) \/ (to[j] = s.main[a] /\ ~Rotating(c))
      <3>1. /\ ps[j] = Planned(s.subs[a][d.picks[j]], to[j], FreshFee(s, j), d.at[j])
            /\ to[j] = Successor(s, j) \/ (to[j] = s.main[a] /\ ~Rotating(c))
        BY DEF PicksPay
      <3> QED
        BY <3>1 DEF Planned
    <2> QED
      BY <1>2, <2>1, <2>2 DEF PlanOK
  <1>4. IsSeq(ps) /\ Len(ps) = n
    BY DEF PicksPay
  <1>5. PlansOK(c, s, a, ps)
    BY <1>1, <1>3, <1>4 DEF PlansOK
  <1> QED
    BY <1>2, <1>3, <1>4, <1>5

(* What a wake does to the agent's accounts: in a rotation (Rotates) each  *)
(* picked account, never the treasury and none twice, pays its successor,  *)
(* which takes its place; any other wake keeps them all (Keeps), and in a  *)
(* hardened run pays within the fleet only from one that is not the        *)
(* treasury to the treasury.                                               *)
RotatesBy(c, s, a, ps, q, picks) ==
  /\ \A j \in 1..Len(ps) : /\ picks[j] \in 2..c.subs[a]
                           /\ ps[j].src = s.subs[a][picks[j]]
                           /\ ps[j].dst = Successor(s, j)
  /\ \A i, j \in 1..Len(ps) : picks[i] = picks[j] => i = j
  /\ IsMap(q, 1..c.subs[a])
  /\ \A k \in 1..c.subs[a] :
       \/ \E j \in 1..Len(ps) : picks[j] = k /\ q[k] = Successor(s, j)
       \/ (\A j \in 1..Len(ps) : picks[j] # k) /\ q[k] = s.subs[a][k]

Rotates(c, s, a, ps, q) == Rotating(c) /\ \E picks : RotatesBy(c, s, a, ps, q, picks)

Keeps(c, s, a, ps, q) ==
  /\ q = s.subs[a]
  /\ IsHardened(c) => \A j \in 1..Len(ps) : ps[j].dst # External =>
       ps[j].dst = s.main[a] /\ \E k \in 2..c.subs[a] : ps[j].src = s.subs[a][k]

LEMMA WakePlans ==
  ASSUME NEW c \in Configs, NEW s, NEW d \in Draws, Shape(c, s), ~Done(c, s),
         LegalDraw(c, s, d)
  PROVE  LET a == DueAgent(s)
             ps == Plans(c, s, d)
             q == SubsAfter(c, s, a, d)
         IN PlansOK(c, s, a, ps) /\ (Rotates(c, s, a, ps, q) \/ Keeps(c, s, a, ps, q))
  <1> DEFINE a == DueAgent(s)
             k == DueSlot(s)
             ps == Plans(c, s, d)
             q == SubsAfter(c, s, a, d)
             n == c.subs[a]
  <1>1. /\ a \in AgentsOf(c) /\ DOMAIN s.subs[a] = 1..n /\ n \in Nat \ {0}
        /\ IsHardened(c) => k \in 1..n
    BY DueFacts, ConfigFacts
  <1>2. /\ \A j \in DOMAIN d.outs : d.outs[j] <= n
        /\ IF IsHardened(c) /\ d.maint
           THEN n >= 2 => /\ Range(d.picks) \subseteq Operational(n)
                          /\ IsInjective(d.picks) /\ Len(d.picks) <= Len(d.at)
           ELSE d.picks[1] <= n /\ Len(d.outs) <= Len(d.at)
    BY DEF LegalDraw, DueAgent
  <1>3. ps = CASE c.mode = "naive"  -> NaiveAction(s, a, d)
               [] c.mode = "legacy" -> LegacyAction(s, a, d)
               [] IsHardened(c) /\ ~d.maint -> HardenedAction(s, a, k, d)
               [] IsHardened(c) /\ d.maint /\ c.rebalance = "rotate" ->
                    RotateAccounts(c, s, a, d)
               [] IsHardened(c) /\ d.maint /\ c.rebalance = "hub" ->
                    ConsolidateSweep(c, s, a, d)
    BY DEF Plans, PerformAction, DueAgent, DueSlot
  <1>4. /\ c.mode \in {"naive", "legacy", "hardened"} /\ c.rebalance \in {"rotate", "hub"}
        /\ d.maint \in BOOLEAN
    BY ConfigFacts, DrawFacts
  <1>5. ASSUME ~(IsHardened(c) /\ d.maint /\ c.rebalance = "rotate" /\ n >= 2)
        PROVE  q = s.subs[a]
    BY <1>5 DEF SubsAfter
  <1> HIDE DEF a, k, ps, q, n
  <1>6. CASE c.mode = "naive"
    <2>1. ps = NaiveAction(s, a, d) /\ ~IsHardened(c)
      BY <1>3, <1>6 DEF IsHardened
    <2>2. PlansOK(c, s, a, ps)
      BY <1>1, <1>2, <1>6, <2>1, NaivePlans DEF n
    <2> QED
      BY <1>5, <2>1, <2>2 DEF Keeps, a, ps, q
  <1>7. CASE c.mode = "legacy"
    <2>1. ps = LegacyAction(s, a, d) /\ ~IsHardened(c)
      BY <1>3, <1>7 DEF IsHardened
    <2>2. PlansOK(c, s, a, ps)
      BY <1>1, <1>2, <1>7, <2>1, LegacyPlans DEF n
    <2> QED
      BY <1>5, <2>1, <2>2 DEF Keeps, a, ps, q
  <1>8. CASE c.mode = "hardened" /\ ~d.maint
    <2>1. ps = HardenedAction(s, a, k, d) /\ IsHardened(c)
      BY <1>3, <1>8 DEF IsHardened
    <2>2. PlansOK(c, s, a, ps) /\ \A j \in 1..Len(ps) : ps[j].dst = External
      BY <1>1, <1>2, <1>8, <2>1, HardenedPlans DEF n
    <2> QED
      BY <1>5, <1>8, <2>2 DEF Keeps, a, ps, q
  <1>9. CASE c.mode = "hardened" /\ d.maint /\ ~(n >= 2)
    <2>1. ps = << >> /\ IsHardened(c)
      BY <1>3, <1>4, <1>9, <1>1 DEF IsHardened, RotateAccounts, ConsolidateSweep, n
    <2>2. PlansOK(c, s, a, ps) /\ Len(ps) = 0
      BY <2>1, NoElements DEF PlansOK
    <2> QED
      BY <1>5, <1>9, <2>2 DEF Keeps, a, ps, q
  <1>10. CASE c.mode = "hardened" /\ d.maint /\ n >= 2
    <2>1. /\ IsHardened(c) /\ Range(d.picks) \subseteq Operational(n)
          /\ IsInjective(d.picks) /\ Len(d.picks) <= Len(d.at)
      BY <1>2, <1>10 DEF IsHardened
    <2>2. CASE c.rebalance = "hub"
      <3> DEFINE to == [j \in DOMAIN d.picks |-> s.main[a]]
      <3>1. ps = ConsolidateSweep(c, s, a, d)
        BY <1>3, <1>10, <2>2 DEF IsHardened
      <3>2. ps = [j \in DOMAIN d.picks |->
                    Planned(s.subs[a][d.picks[j]], s.main[a], FreshFee(s, j), d.at[j])]
        BY <1>1, <1>10, <3>1 DEF ConsolidateSweep, n
      <3>3. /\ IsSeq(ps) /\ Len(ps) = Len(d.picks)
            /\ \A j \in 1..Len(d.picks) :
                 /\ to[j] = s.main[a]
                 /\ ps[j] = Planned(s.subs[a][d.picks[j]], s.main[a], FreshFee(s, j), d.at[j])
        <4>1. DOMAIN d.picks = 1..Len(d.picks) /\ Len(d.picks) \in Nat
          BY DrawFacts
        <4>2. ps = [j \in 1..Len(d.picks) |-> ps[j]]
          BY <3>2, <4>1
        <4> QED
          BY <3>2, <4>1, <4>2, ShapeSeq
      <3> HIDE DEF to
      <3>4. /\ PlansOK(c, s, a, ps)
            /\ \A j \in 1..Len(ps) : /\ d.picks[j] \in 2..n
                                     /\ ps[j].src = s.subs[a][d.picks[j]]
                                     /\ ps[j].dst = s.main[a]
        <4>1. PicksPay(c, s, a, d, to, ps)
          BY <2>2, <3>3 DEF PicksPay, Rotating
        <4>2. /\ Range(d.picks) \subseteq Operational(c.subs[a])
              /\ c.mode = "hardened" /\ Len(d.picks) <= Len(d.at)
          BY <1>10, <2>1 DEF n
        <4>3. /\ PlansOK(c, s, a, ps)
              /\ \A j \in 1..Len(ps) : /\ d.picks[j] \in 2..c.subs[a]
                                       /\ ps[j].src = s.subs[a][d.picks[j]]
                                       /\ ps[j].dst = to[j]
          BY <1>1, <4>1, <4>2, MaintenancePlans
        <4> QED
          BY <3>3, <4>3 DEF n
      <3>5. Keeps(c, s, a, ps, q)
        BY <1>5, <2>2, <3>4 DEF Keeps, n
      <3> QED
        BY <3>4, <3>5 DEF a, ps, q
    <2>3. CASE c.rebalance = "rotate"
      <3> DEFINE to == [j \in DOMAIN d.picks |-> Successor(s, j)]
      <3>1. ps = RotateAccounts(c, s, a, d)
        BY <1>3, <1>10, <2>3 DEF IsHardened
      <3>2. ps = [j \in DOMAIN d.picks |->
                    Planned(s.subs[a][d.picks[j]], Successor(s, j), FreshFee(s, j), d.at[j])]
        BY <1>1, <1>10, <3>1 DEF RotateAccounts, n
      <3>3. /\ IsSeq(ps) /\ Len(ps) = Len(d.picks) /\ DOMAIN d.picks = 1..Len(ps)
            /\ \A j \in 1..Len(d.picks) :
                 /\ to[j] = Successor(s, j)
                 /\ ps[j] = Planned(s.subs[a][d.picks[j]], Successor(s, j), FreshFee(s, j), d.at[j])
        <4>1. DOMAIN d.picks = 1..Len(d.picks) /\ Len(d.picks) \in Nat
          BY DrawFacts
        <4>2. ps = [j \in 1..Len(d.picks) |-> ps[j]]
          BY <3>2, <4>1
        <4> QED
          BY <3>2, <4>1, <4>2, ShapeSeq
      <3> HIDE DEF to
      <3>4. /\ PlansOK(c, s, a, ps)
            /\ \A j \in 1..Len(ps) : /\ d.picks[j] \in 2..n
                                     /\ ps[j].src = s.subs[a][d.picks[j]]
                                     /\ ps[j].dst = Successor(s, j)
        <4>1. PicksPay(c, s, a, d, to, ps)
          BY <3>3 DEF PicksPay
        <4>2. /\ Range(d.picks) \subseteq Operational(c.subs[a])
              /\ c.mode = "hardened" /\ Len(d.picks) <= Len(d.at)
          BY <1>10, <2>1 DEF n
        <4>3. /\ PlansOK(c, s, a, ps)
              /\ \A j \in 1..Len(ps) : /\ d.picks[j] \in 2..c.subs[a]
                                       /\ ps[j].src = s.subs[a][d.picks[j]]
                                       /\ ps[j].dst = to[j]
          BY <1>1, <4>1, <4>2, MaintenancePlans
        <4> QED
          BY <3>3, <4>3 DEF n
      <3>5. q = [l \in 1..n |->
                   IF \E j \in DOMAIN d.picks : d.picks[j] = l
                   THEN Successor(s, CHOOSE j \in DOMAIN d.picks : d.picks[j] = l)
                   ELSE s.subs[a][l]]
        BY <1>10, <2>1, <2>3 DEF SubsAfter, q, n
      <3>6. ASSUME NEW l \in 1..n
            PROVE  \/ \E j \in 1..Len(ps) : d.picks[j] = l /\ q[l] = Successor(s, j)
                   \/ (\A j \in 1..Len(ps) : d.picks[j] # l) /\ q[l] = s.subs[a][l]
        <4>1. CASE \E j \in DOMAIN d.picks : d.picks[j] = l
          <5> DEFINE i == CHOOSE j \in DOMAIN d.picks : d.picks[j] = l
          <5>1. i \in DOMAIN d.picks /\ d.picks[i] = l
            BY <4>1
          <5>2. q[l] = Successor(s, i)
            BY <3>5, <4>1
          <5> HIDE DEF i
          <5> QED
            BY <3>3, <5>1, <5>2
        <4>2. CASE ~\E j \in DOMAIN d.picks : d.picks[j] = l
          BY <3>3, <3>5, <4>2
        <4> QED
          BY <4>1, <4>2
      <3>7. IsMap(q, 1..n)
        BY <3>5 DEF IsMap
      <3>8. \A i, j \in 1..Len(ps) : d.picks[i] = d.picks[j] => i = j
        BY <2>1, <3>3 DEF IsInjective
      <3>9. RotatesBy(c, s, a, ps, q, d.picks)
        BY <3>4, <3>6, <3>7, <3>8 DEF RotatesBy, n
      <3>10. Rotates(c, s, a, ps, q)
        BY <2>1, <2>3, <3>9 DEF Rotates, Rotating
      <3> QED
        BY <3>4, <3>10 DEF a, ps, q
    <2> QED
      BY <1>4, <2>2, <2>3
  <1> QED
    BY <1>4, <1>6, <1>7, <1>8, <1>9, <1>10

(* The records of a wake repeat its plans, stamped in order.               *)
LEMMA RecsFacts ==
  ASSUME NEW c \in Configs, NEW s, NEW d \in Draws, Shape(c, s), ~Done(c, s),
         LegalDraw(c, s, d)
  PROVE  LET ps == Plans(c, s, d)
             rs == Recs(c, s, d)
         IN /\ IsSeq(rs) /\ Len(rs) = Len(ps) /\ Len(rs) \in Nat
            /\ \A j \in 1..Len(rs) :
                 /\ rs[j].sig = s.sig + j /\ rs[j].slot = s.slot + j
                 /\ rs[j].ts = ObservableAt(s, s.next[Due(s)]) + ps[j].wait
                 /\ rs[j].src = ps[j].src /\ rs[j].dst = ps[j].dst /\ rs[j].fee = ps[j].fee
                 /\ rs[j].op = DueAgent(s)
  <1> DEFINE ps == Plans(c, s, d)
             rs == Recs(c, s, d)
  <1>1. IsSeq(ps)
    BY WakePlans DEF PlansOK
  <1>2. Len(ps) \in Nat /\ DOMAIN ps = 1..Len(ps)
    BY <1>1, SeqShape
  <1>3. rs = [j \in 1..Len(ps) |->
                [sig |-> s.sig + j, slot |-> s.slot + j,
                 ts |-> ObservableAt(s, s.next[Due(s)]) + ps[j].wait,
                 src |-> ps[j].src, dst |-> ps[j].dst, fee |-> ps[j].fee,
                 op |-> DueAgent(s)]]
    BY <1>2 DEF Recs, Stamp
  <1>4. rs = [j \in 1..Len(ps) |-> rs[j]]
    BY <1>3
  <1> HIDE DEF ps, rs
  <1>5. IsSeq(rs) /\ Len(rs) = Len(ps)
    BY <1>2, <1>4, ShapeSeq
  <1> QED
    BY <1>2, <1>3, <1>5 DEF ps, rs
-----------------------------------------------------------------------------
(* What is true of a run at all times.  An account was there at the start, *)
(* or was drawn by one of the first n - 1 wakes.                           *)
Original(c, id) == \E a \in AgentsOf(c) : \E k \in 1..c.subs[a] : id = Initial(a, k)
DrawnBefore(id, role, n) == id[1] \in 1..(n - 1) /\ id[2] = role

Numbered(s, l) ==
  /\ Len(l) = s.sig /\ s.slot = s.sig
  /\ \A i \in 1..Len(l) : l[i].sig = i /\ l[i].slot = i

InOrder(s, l) ==
  /\ \A i, j \in 1..Len(l) : i < j => l[i].ts <= l[j].ts
  /\ \A i \in 1..Len(l) : l[i].ts \in Int /\ l[i].ts <= s.clock

(* Every account held is an original or was paid by a rotation; no two are *)
(* the same.                                                               *)
Held(c, s, l) ==
  \A a \in AgentsOf(c) : \A k \in 1..c.subs[a] :
    \/ s.subs[a][k] = Initial(a, k)
    \/ /\ Rotating(c) /\ DrawnBefore(s.subs[a][k], SuccessorRole, s.rng)
       /\ \E i \in 1..Len(l) : l[i].dst = s.subs[a][k]

Apart(c, s) ==
  \A a, b \in AgentsOf(c) : \A k \in 1..c.subs[a], m \in 1..c.subs[b] :
    s.subs[a][k] = s.subs[b][m] => a = b /\ k = m

(* A record keeps what its plan promised, and money within the fleet does  *)
(* not leave a treasury in a hardened run.                                 *)
RecOK(c, n, r) ==
  /\ r.op \in AgentsOf(c)
  /\ Original(c, r.src) \/ DrawnBefore(r.src, SuccessorRole, n)
  /\ \/ r.dst = External
     \/ c.mode # "naive" /\ DrawnBefore(r.dst, SuccessorRole, n)
     \/ /\ ~Rotating(c) /\ r.dst = Initial(r.op, 1)
        /\ \E k \in 2..c.subs[r.op] : r.src = Initial(r.op, k)
  /\ IF c.mode = "naive" THEN r.fee = Initial(r.op, 1) ELSE DrawnBefore(r.fee, FeeRole, n)
  /\ IsHardened(c) /\ r.dst # External => \A a \in AgentsOf(c) : r.src # Initial(a, 1)

RecsOK(c, s, l) == \A i \in 1..Len(l) : RecOK(c, s.rng, l[i])

FeesApart(c, l) ==
  c.mode # "naive" => \A i, j \in 1..Len(l) : l[i].fee = l[j].fee => i = j

(* The source of a rotation is held no more and is not used again.         *)
Retired(c, s, l) ==
  IsHardened(c) => \A i \in 1..Len(l) : IsRotation(l[i]) =>
    /\ \A a \in AgentsOf(c) : \A k \in 1..c.subs[a] : s.subs[a][k] # l[i].src
    /\ \A j \in 1..Len(l) : i < j => l[j].src # l[i].src /\ l[j].dst # l[i].src

(* An account signs for one agent only: the one that holds it, if any.     *)
OneSigner(c, s, l) ==
  /\ \A i, j \in 1..Len(l) : l[i].src = l[j].src => l[i].op = l[j].op
  /\ \A i \in 1..Len(l) : \A b \in AgentsOf(c) : \A k \in 1..c.subs[b] :
       s.subs[b][k] = l[i].src => b = l[i].op

RunInv(c, s, l) ==
  /\ Shape(c, s) /\ IsSeq(l)
  /\ Numbered(s, l) /\ InOrder(s, l)
  /\ Held(c, s, l) /\ Apart(c, s)
  /\ RecsOK(c, s, l) /\ FeesApart(c, l) /\ Retired(c, s, l) /\ OneSigner(c, s, l)

LEMMA InitialId ==
  ASSUME NEW a, NEW k
  PROVE  Initial(a, k)[1] = 0 /\ Initial(a, k)[2] = a /\ Initial(a, k)[3] = k
  BY DEF Initial

LEMMA DrawnId ==
  ASSUME NEW s, NEW j
  PROVE  /\ FreshFee(s, j)[1] = s.rng /\ FreshFee(s, j)[2] = FeeRole /\ FreshFee(s, j)[3] = j
         /\ Successor(s, j)[1] = s.rng /\ Successor(s, j)[2] = SuccessorRole
         /\ Successor(s, j)[3] = j
  BY DEF FreshFee, Successor, AccountIdRandom

LEMMA OtherIds == External[1] = -1 /\ External[2] = 0 /\ FeeRole = 1 /\ SuccessorRole = 2
  BY DEF External, FeeRole, SuccessorRole

LEMMA OriginalId ==
  ASSUME NEW c, NEW id, Original(c, id)
  PROVE  id[1] = 0
  BY InitialId DEF Original

LEMMA RunInvFresh ==
  ASSUME NEW c \in Configs, NEW delays \in [DOMAIN SchedEntries(c) -> Delays]
  PROVE  RunInv(c, Fresh(c, delays), << >>)
  <1> DEFINE s == Fresh(c, delays)
  <1>1. Shape(c, s) /\ IsSeq(<< >>) /\ Len(<< >>) = 0 /\ \A i \in 1..Len(<< >>) : FALSE
    BY FreshShape, NoElements
  <1>2. /\ s.sig = 0 /\ s.slot = 0
        /\ \A a \in AgentsOf(c) : \A k \in 1..c.subs[a] : s.subs[a][k] = Initial(a, k)
    BY DEF Fresh, AgentsOf
  <1> HIDE DEF s
  <1>3. Numbered(s, << >>) /\ InOrder(s, << >>)
    BY <1>1, <1>2 DEF Numbered, InOrder
  <1>4. Held(c, s, << >>)
    BY <1>2 DEF Held
  <1>5. Apart(c, s)
    <2>1. SUFFICES ASSUME NEW a \in AgentsOf(c), NEW b \in AgentsOf(c), NEW k \in 1..c.subs[a],
                          NEW m \in 1..c.subs[b], Initial(a, k) = Initial(b, m)
                   PROVE  a = b /\ k = m
      BY <1>2 DEF Apart
    <2> QED
      BY <2>1, InitialId
  <1>6. /\ RecsOK(c, s, << >>) /\ FeesApart(c, << >>) /\ Retired(c, s, << >>)
        /\ OneSigner(c, s, << >>)
    BY <1>1 DEF RecsOK, FeesApart, Retired, OneSigner
  <1>7. RunInv(c, s, << >>)
    BY <1>1, <1>3, <1>4, <1>5, <1>6 DEF RunInv
  <1> QED
    BY <1>7 DEF s

(* In a hardened run no plan moves value within the fleet out of the       *)
(* treasury.                                                               *)
TreasurySafe(c, s, a, p) ==
  IsHardened(c) /\ p.dst # External => \E k \in 2..c.subs[a] : p.src = s.subs[a][k]

(* A record of a wake is as the invariant says.                            *)
LEMMA PlanRecord ==
  ASSUME NEW c \in Configs, NEW s, NEW l, Shape(c, s), Held(c, s, l), Apart(c, s),
         NEW a \in AgentsOf(c), NEW j, NEW p, PlanOK(c, s, a, j, p), NEW r,
         r.src = p.src, r.dst = p.dst, r.fee = p.fee, r.op = a, TreasurySafe(c, s, a, p)
  PROVE  RecOK(c, s.rng + 1, r)
  <1>1. /\ s.rng \in Nat \ {0} /\ s.rng \in 1..s.rng /\ s.rng + 1 - 1 = s.rng
        /\ s.main[a] = Initial(a, 1) /\ c.subs[a] \in Nat \ {0} /\ 1..(s.rng - 1) \subseteq 1..s.rng
        /\ \A b \in AgentsOf(c) : /\ s.subs[b][1] = Initial(b, 1)
                                  /\ 1 \in 1..c.subs[b] /\ 2..c.subs[b] \subseteq 1..c.subs[b]
    <2>1. s.rng \in Nat \ {0} /\ s.main[a] = Initial(a, 1)
      BY DEF Shape
    <2>2. \A b \in AgentsOf(c) : s.subs[b][1] = Initial(b, 1) /\ c.subs[b] \in Nat \ {0}
      BY ConfigFacts DEF Shape
    <2> QED
      BY <2>1, <2>2
  <1>2. ASSUME NEW k \in 1..c.subs[a]
        PROVE  /\ Original(c, s.subs[a][k]) \/ DrawnBefore(s.subs[a][k], SuccessorRole, s.rng + 1)
               /\ ~Rotating(c) => s.subs[a][k] = Initial(a, k)
    BY <1>1 DEF Held, Original, DrawnBefore
  <1>3. Original(c, r.src) \/ DrawnBefore(r.src, SuccessorRole, s.rng + 1)
    BY <1>2 DEF PlanOK
  <1>4. \/ r.dst = External
        \/ c.mode # "naive" /\ DrawnBefore(r.dst, SuccessorRole, s.rng + 1)
        \/ /\ ~Rotating(c) /\ r.dst = Initial(r.op, 1)
           /\ \E k \in 2..c.subs[r.op] : r.src = Initial(r.op, k)
    <2>1. CASE r.dst = External
      BY <2>1
    <2>2. CASE c.mode # "naive" /\ (p.dst = Successor(s, 1) \/ p.dst = Successor(s, j))
      BY <1>1, <2>2, DrawnId DEF DrawnBefore
    <2>3. CASE p.dst = s.main[a] /\ ~Rotating(c) /\ \E k \in 2..c.subs[a] : p.src = s.subs[a][k]
      BY <1>1, <1>2, <2>3
    <2> QED
      BY <2>1, <2>2, <2>3 DEF PlanOK
  <1>5. IF c.mode = "naive" THEN r.fee = Initial(r.op, 1)
        ELSE DrawnBefore(r.fee, FeeRole, s.rng + 1)
    BY <1>1, DrawnId DEF PlanOK, DrawnBefore
  <1>6. ASSUME IsHardened(c), r.dst # External, NEW b \in AgentsOf(c), r.src = Initial(b, 1)
        PROVE  FALSE
    <2>1. PICK k \in 2..c.subs[a] : p.src = s.subs[a][k]
      BY <1>6 DEF TreasurySafe
    <2>2. s.subs[a][k] = s.subs[b][1]
      BY <1>1, <1>6, <2>1
    <2>3. k \in 1..c.subs[a] /\ 1 \in 1..c.subs[b] /\ k # 1
      BY <1>1, <2>1
    <2> QED
      BY <2>2, <2>3 DEF Apart
  <1> QED
    BY <1>3, <1>4, <1>5, <1>6 DEF RecOK

(* The engine's step: the state t and the ledger u after a wake.           *)
WakeOf(c, s, d, l, t, u) ==
  /\ Shape(c, s) /\ IsSeq(l) /\ ~Done(c, s) /\ LegalDraw(c, s, d)
  /\ t = Wake(c, s, d).sim /\ u = l \o Wake(c, s, d).recs

(* What a wake does, for the proofs about it: to the ledger, whose last    *)
(* records are the plans', to the accounts of the agent that is due, and   *)
(* to those of the others, which it leaves alone.                          *)
WakeDoes(c, s, d, l, t, u) ==
  LET a == DueAgent(s)
      ps == Plans(c, s, d)
      rs == Recs(c, s, d)
  IN /\ a \in AgentsOf(c)
     /\ IsSeq(u) /\ Len(u) = Len(l) + Len(rs) /\ Len(l) \in Nat /\ Len(rs) \in Nat
     /\ Len(rs) = Len(ps)
     /\ \A i \in 1..Len(l) : u[i] = l[i]
     /\ \A j \in 1..Len(rs) : u[Len(l) + j] = rs[j]
     /\ \A i \in 1..Len(u) : i \in 1..Len(l) \/ \E j \in 1..Len(rs) : i = Len(l) + j
     /\ PlansOK(c, s, a, ps)
     /\ Rotates(c, s, a, ps, t.subs[a]) \/ Keeps(c, s, a, ps, t.subs[a])
     /\ \A b \in AgentsOf(c) : b # a => t.subs[b] = s.subs[b]
     /\ t.rng = s.rng + 1

LEMMA WakeSummary ==
  ASSUME NEW c \in Configs, NEW s, NEW d \in Draws, NEW l, NEW t, NEW u,
         WakeOf(c, s, d, l, t, u)
  PROVE  WakeDoes(c, s, d, l, t, u)
  <1> DEFINE a == DueAgent(s)
             ps == Plans(c, s, d)
             rs == Recs(c, s, d)
             q == SubsAfter(c, s, a, d)
  <1>1. /\ Shape(c, s) /\ IsSeq(l) /\ ~Done(c, s) /\ LegalDraw(c, s, d)
        /\ t = Wake(c, s, d).sim /\ u = l \o Wake(c, s, d).recs
    BY DEF WakeOf
  <1>2. a \in AgentsOf(c)
    BY <1>1, DueFacts
  <1>3. PlansOK(c, s, a, ps) /\ (Rotates(c, s, a, ps, q) \/ Keeps(c, s, a, ps, q))
    BY <1>1, WakePlans
  <1>4. IsSeq(rs) /\ Len(rs) = Len(ps) /\ Len(rs) \in Nat
    BY <1>1, RecsFacts
  <1>5. Wake(c, s, d).recs = rs /\ t.rng = s.rng + 1
    BY <1>1, WakeFacts
  <1>6. t.subs[a] = q /\ \A b \in AgentsOf(c) : b # a => t.subs[b] = s.subs[b]
    BY <1>1, WakeFacts
  <1> HIDE DEF a, ps, rs, q
  <1>7. Len(l) \in Nat
    BY <1>1, SeqShape
  <1>8. /\ IsSeq(u) /\ Len(u) = Len(l) + Len(rs)
        /\ \A i \in 1..(Len(l) + Len(rs)) : u[i] = IF i <= Len(l) THEN l[i] ELSE rs[i - Len(l)]
    <2>1. IsSeq(l) /\ IsSeq(rs) /\ u = l \o rs
      BY <1>1, <1>4, <1>5
    <2> QED
      BY <2>1, ConcatSeq
  <1>9. \A i \in 1..Len(l) : u[i] = l[i]
    BY <1>4, <1>7, <1>8
  <1>10. ASSUME NEW j \in 1..Len(rs) PROVE u[Len(l) + j] = rs[j]
    <2>1. Len(l) + j \in 1..(Len(l) + Len(rs)) /\ ~(Len(l) + j <= Len(l)) /\ Len(l) + j - Len(l) = j
      BY <1>4, <1>7
    <2> QED
      BY <1>8, <2>1
  <1>11. ASSUME NEW i \in 1..Len(u)
         PROVE  i \in 1..Len(l) \/ \E j \in 1..Len(rs) : i = Len(l) + j
    <2>1. i \in 1..Len(l) \/ (i - Len(l) \in 1..Len(rs) /\ i = Len(l) + (i - Len(l)))
      BY <1>4, <1>7, <1>8
    <2> QED
      BY <2>1
  <1> QED
    BY <1>2, <1>3, <1>4, <1>5, <1>6, <1>7, <1>8, <1>9, <1>10, <1>11 DEF WakeDoes, a, ps, rs, q

(* The times of a wake's records lie between the clock before and after.   *)
LEMMA WakeTimes ==
  ASSUME NEW c \in Configs, NEW s, NEW d \in Draws, NEW l, NEW t, NEW u,
         WakeOf(c, s, d, l, t, u)
  PROVE  /\ t.clock \in Int /\ s.clock <= t.clock
         /\ \A j \in 1..Len(Recs(c, s, d)) :
              /\ Recs(c, s, d)[j].ts \in Int
              /\ s.clock <= Recs(c, s, d)[j].ts /\ Recs(c, s, d)[j].ts <= t.clock
         /\ \A i, j \in 1..Len(Recs(c, s, d)) :
              i < j => Recs(c, s, d)[i].ts <= Recs(c, s, d)[j].ts
  <1> DEFINE ps == Plans(c, s, d)
             rs == Recs(c, s, d)
             base == ObservableAt(s, s.next[Due(s)])
  <1>0. WakeDoes(c, s, d, l, t, u)
    BY WakeSummary
  <1>1. /\ Shape(c, s) /\ ~Done(c, s) /\ LegalDraw(c, s, d) /\ t = Wake(c, s, d).sim
    BY DEF WakeOf
  <1>2. s.clock \in Int /\ s.next[Due(s)] \in Int
    BY <1>1, DueFacts DEF Shape
  <1>3. base \in Int /\ s.clock <= base
    BY <1>2 DEF ObservableAt, Later
  <1>4. /\ IsSeq(rs) /\ Len(rs) = Len(ps) /\ Len(rs) \in Nat
        /\ \A j \in 1..Len(rs) : rs[j].ts = base + ps[j].wait
    BY <1>1, RecsFacts
  <1>5. /\ \A j \in 1..Len(ps) : ps[j].wait \in Nat
        /\ \A i, j \in 1..Len(ps) : i < j => ps[i].wait <= ps[j].wait
    BY <1>0 DEF WakeDoes, PlansOK, PlanOK
  <1>6. t.clock = IF rs = << >> THEN base ELSE Last(rs).ts
    BY <1>1, WakeFacts
  <1> HIDE DEF ps, rs, base
  <1>7. \A j \in 1..Len(rs) : rs[j].ts \in Int /\ base <= rs[j].ts
    BY <1>3, <1>4, <1>5
  <1>8. \A i, j \in 1..Len(rs) : i < j => rs[i].ts <= rs[j].ts
    BY <1>3, <1>4, <1>5
  <1>9. t.clock \in Int /\ base <= t.clock /\ \A j \in 1..Len(rs) : rs[j].ts <= t.clock
    <2>1. CASE Len(rs) = 0
      <3>1. rs = << >>
        BY <1>4, <2>1, NoElements, EqualSeqs
      <3> QED
        BY <1>3, <1>6, <2>1, <3>1
    <2>2. CASE Len(rs) # 0
      <3>1. rs # << >> /\ Len(rs) \in 1..Len(rs)
        BY <1>4, <2>2, NoElements
      <3>2. t.clock = rs[Len(rs)].ts
        BY <1>6, <3>1 DEF Last
      <3>3. \A j \in 1..Len(rs) : j = Len(rs) \/ j < Len(rs)
        BY <1>4
      <3> QED
        BY <1>3, <1>7, <1>8, <3>1, <3>2, <3>3
    <2> QED
      BY <2>1, <2>2
  <1>10. \A j \in 1..Len(rs) : s.clock <= rs[j].ts
    BY <1>2, <1>3, <1>7
  <1>11. s.clock <= t.clock
    BY <1>2, <1>3, <1>9
  <1> QED
    BY <1>7, <1>8, <1>9, <1>10, <1>11 DEF rs

LEMMA WakeShape ==
  ASSUME NEW c \in Configs, NEW s, NEW d \in Draws, NEW l, NEW t, NEW u,
         WakeOf(c, s, d, l, t, u)
  PROVE  Shape(c, t)
  <1> DEFINE a == DueAgent(s)
             e == Due(s)
             rs == Recs(c, s, d)
  <1>0. WakeDoes(c, s, d, l, t, u)
    BY WakeSummary
  <1>1. Shape(c, s) /\ ~Done(c, s) /\ t = Wake(c, s, d).sim
    BY DEF WakeOf
  <1>2. /\ IsMap(t, Fields) /\ t.rng = s.rng + 1
        /\ t.slot = s.slot + Len(rs) /\ t.sig = s.sig + Len(rs)
        /\ t.sched = s.sched /\ t.main = s.main /\ IsMap(t.subs, AgentsOf(c))
        /\ IsMap(t.next, 1..Len(s.sched))
        /\ t.next[e] = NextAt(c, s.next[e], a, d.delay)
        /\ \A f \in 1..Len(s.sched) : f # e => t.next[f] = s.next[f]
    BY <1>1, WakeFacts
  <1>3. t.clock \in Int
    BY WakeTimes
  <1>4. /\ Len(rs) \in Nat /\ \A b \in AgentsOf(c) : b # a => t.subs[b] = s.subs[b]
        /\ Rotates(c, s, a, Plans(c, s, d), t.subs[a]) \/ Keeps(c, s, a, Plans(c, s, d), t.subs[a])
        /\ a \in AgentsOf(c)
    BY <1>0 DEF WakeDoes
  <1>5. t.next \in [1..Len(t.sched) -> Int]
    <2>1. e \in 1..Len(s.sched) /\ s.next \in [1..Len(s.sched) -> Int]
      BY <1>1, DueFacts DEF Shape
    <2>2. ScaledDelay(c, a, d.delay) \in Nat
      BY <1>4, DrawFacts, ScaledDelayType
    <2>3. t.next[e] \in Int
      BY <1>2, <2>1, <2>2 DEF NextAt, Later
    <2> HIDE DEF e
    <2>4. \A f \in 1..Len(s.sched) : t.next[f] \in Int
      BY <1>2, <2>1, <2>3
    <2> QED
      BY <1>2, <2>4 DEF IsMap
  <1> HIDE DEF a, e, rs
  <1>6. s.rng \in Nat \ {0} /\ s.slot \in Nat /\ s.sig \in Nat
    BY <1>1 DEF Shape
  <1>7. t.rng \in Nat \ {0} /\ t.slot \in Nat /\ t.sig \in Nat
    BY <1>2, <1>4, <1>6
  <1>8. ASSUME NEW b \in AgentsOf(c)
        PROVE  IsMap(t.subs[b], 1..c.subs[b]) /\ t.subs[b][1] = Initial(b, 1)
    <2>1. IsMap(s.subs[b], 1..c.subs[b]) /\ s.subs[b][1] = Initial(b, 1)
      BY <1>1 DEF Shape
    <2>2. CASE t.subs[b] = s.subs[b]
      BY <2>1, <2>2
    <2>3. CASE b = a /\ Rotates(c, s, a, Plans(c, s, d), t.subs[a])
      <3>1. PICK picks : RotatesBy(c, s, a, Plans(c, s, d), t.subs[a], picks)
        BY <2>3 DEF Rotates
      <3>2. 1 \in 1..c.subs[a]
        BY <1>4, ConfigFacts
      <3>3. t.subs[a][1] = s.subs[a][1]
        BY <3>1, <3>2 DEF RotatesBy
      <3> QED
        BY <2>1, <2>3, <3>1, <3>3 DEF RotatesBy
    <2> QED
      BY <1>4, <2>2, <2>3 DEF Keeps
  <1>9. /\ t.sched = SchedEntries(c) /\ IsMap(t.main, AgentsOf(c))
        /\ \A b \in AgentsOf(c) : t.main[b] = Initial(b, 1)
    BY <1>1, <1>2 DEF Shape
  <1> QED
    BY <1>2, <1>3, <1>5, <1>7, <1>8, <1>9 DEF Shape

LEMMA WakeOrder ==
  ASSUME NEW c \in Configs, NEW s, NEW d \in Draws, NEW l, NEW t, NEW u,
         WakeOf(c, s, d, l, t, u), Numbered(s, l), InOrder(s, l)
  PROVE  Numbered(t, u) /\ InOrder(t, u)
  <1> DEFINE rs == Recs(c, s, d)
  <1>0. WakeDoes(c, s, d, l, t, u)
    BY WakeSummary
  <1>1. Shape(c, s) /\ ~Done(c, s) /\ LegalDraw(c, s, d) /\ t = Wake(c, s, d).sim
    BY DEF WakeOf
  <1>2. /\ Len(u) = Len(l) + Len(rs) /\ Len(l) \in Nat /\ Len(rs) \in Nat
        /\ \A i \in 1..Len(l) : u[i] = l[i]
        /\ \A j \in 1..Len(rs) : u[Len(l) + j] = rs[j]
        /\ \A i \in 1..Len(u) : i \in 1..Len(l) \/ \E j \in 1..Len(rs) : i = Len(l) + j
    BY <1>0 DEF WakeDoes
  <1>3. t.slot = s.slot + Len(rs) /\ t.sig = s.sig + Len(rs)
    BY <1>1, WakeFacts
  <1>4. \A j \in 1..Len(rs) : rs[j].sig = s.sig + j /\ rs[j].slot = s.slot + j
    BY <1>1, RecsFacts
  <1>5. /\ t.clock \in Int /\ s.clock <= t.clock
        /\ \A j \in 1..Len(rs) : rs[j].ts \in Int /\ s.clock <= rs[j].ts /\ rs[j].ts <= t.clock
        /\ \A i, j \in 1..Len(rs) : i < j => rs[i].ts <= rs[j].ts
    BY WakeTimes
  <1>6. s.clock \in Int
    BY <1>1 DEF Shape
  <1> HIDE DEF rs
  <1>7. Numbered(t, u)
    <2>1. Len(l) = s.sig /\ s.slot = s.sig /\ \A i \in 1..Len(l) : l[i].sig = i /\ l[i].slot = i
      BY DEF Numbered
    <2>2. Len(u) = t.sig /\ t.slot = t.sig
      BY <1>2, <1>3, <2>1
    <2>3. ASSUME NEW i \in 1..Len(u) PROVE u[i].sig = i /\ u[i].slot = i
      <3>1. CASE i \in 1..Len(l)
        BY <1>2, <2>1, <3>1
      <3>2. CASE \E j \in 1..Len(rs) : i = Len(l) + j
        BY <1>2, <1>4, <2>1, <3>2
      <3> QED
        BY <1>2, <3>1, <3>2
    <2> QED
      BY <2>2, <2>3 DEF Numbered
  <1>8. InOrder(t, u)
    <2>1. /\ \A i, j \in 1..Len(l) : i < j => l[i].ts <= l[j].ts
          /\ \A i \in 1..Len(l) : l[i].ts \in Int /\ l[i].ts <= s.clock
      BY DEF InOrder
    <2>2. ASSUME NEW i \in 1..Len(u) PROVE u[i].ts \in Int /\ u[i].ts <= t.clock
      <3>1. CASE i \in 1..Len(l)
        BY <1>2, <1>5, <1>6, <2>1, <3>1
      <3>2. CASE \E j \in 1..Len(rs) : i = Len(l) + j
        BY <1>2, <1>5, <3>2
      <3> QED
        BY <1>2, <3>1, <3>2
    <2>3. ASSUME NEW i \in 1..Len(u), NEW j \in 1..Len(u), i < j PROVE u[i].ts <= u[j].ts
      <3>1. CASE j \in 1..Len(l)
        <4>1. i \in 1..Len(l)
          BY <1>2, <2>3, <3>1
        <4> QED
          BY <1>2, <2>1, <2>3, <3>1, <4>1
      <3>2. CASE \E m \in 1..Len(rs) : j = Len(l) + m
        <4>1. PICK m \in 1..Len(rs) : j = Len(l) + m
          BY <3>2
        <4>2. u[j] = rs[m]
          BY <1>2, <4>1
        <4>3. CASE i \in 1..Len(l)
          <5>1. u[i].ts = l[i].ts /\ l[i].ts \in Int /\ l[i].ts <= s.clock
            BY <1>2, <2>1, <4>3
          <5>2. rs[m].ts \in Int /\ s.clock <= rs[m].ts
            BY <1>5
          <5> QED
            BY <1>6, <4>2, <5>1, <5>2
        <4>4. CASE \E n \in 1..Len(rs) : i = Len(l) + n
          <5>1. PICK n \in 1..Len(rs) : i = Len(l) + n
            BY <4>4
          <5>2. n < m /\ u[i] = rs[n]
            BY <1>2, <2>3, <4>1, <5>1
          <5> QED
            BY <1>5, <4>2, <5>2
        <4> QED
          BY <1>2, <4>3, <4>4
      <3> QED
        BY <1>2, <3>1, <3>2
    <2> QED
      BY <2>2, <2>3 DEF InOrder
  <1> QED
    BY <1>7, <1>8

(* The accounts after a wake: held before, or paid in this wake.           *)
KeptOrRotated(c, s, d, t, b, k) ==
  \/ t.subs[b][k] = s.subs[b][k]
  \/ /\ Rotating(c) /\ b = DueAgent(s)
     /\ \E j \in 1..Len(Recs(c, s, d)) : /\ t.subs[b][k] = Successor(s, j)
                                         /\ Recs(c, s, d)[j].dst = Successor(s, j)

LEMMA WakeAccounts ==
  ASSUME NEW c \in Configs, NEW s, NEW d \in Draws, NEW l, NEW t, NEW u,
         WakeOf(c, s, d, l, t, u), NEW b \in AgentsOf(c), NEW k \in 1..c.subs[b]
  PROVE  KeptOrRotated(c, s, d, t, b, k)
  <1> DEFINE a == DueAgent(s)
             ps == Plans(c, s, d)
             rs == Recs(c, s, d)
  <1>0. WakeDoes(c, s, d, l, t, u)
    BY WakeSummary
  <1>1. /\ Shape(c, s) /\ ~Done(c, s) /\ LegalDraw(c, s, d)
    BY DEF WakeOf
  <1>2. /\ Rotates(c, s, a, ps, t.subs[a]) \/ Keeps(c, s, a, ps, t.subs[a])
        /\ b # a => t.subs[b] = s.subs[b]
    BY <1>0 DEF WakeDoes
  <1>3. Len(rs) = Len(ps) /\ \A j \in 1..Len(rs) : rs[j].dst = ps[j].dst
    BY <1>1, RecsFacts
  <1> HIDE DEF a, ps, rs
  <1>4. CASE b = a /\ Rotates(c, s, a, ps, t.subs[a])
    <2>1. /\ Rotating(c)
          /\ \/ \E j \in 1..Len(ps) : t.subs[a][k] = Successor(s, j) /\ ps[j].dst = Successor(s, j)
             \/ t.subs[a][k] = s.subs[a][k]
      BY <1>4 DEF Rotates, RotatesBy
    <2> QED
      BY <1>3, <1>4, <2>1 DEF a, rs, KeptOrRotated
  <1>5. CASE t.subs[b] = s.subs[b]
    BY <1>5 DEF KeptOrRotated
  <1> QED
    BY <1>2, <1>4, <1>5 DEF Keeps

LEMMA HeldAreOld ==
  ASSUME NEW c \in Configs, NEW s, NEW l, Shape(c, s), Held(c, s, l),
         NEW b \in AgentsOf(c), NEW k \in 1..c.subs[b]
  PROVE  s.subs[b][k][1] < s.rng /\ \A j : s.subs[b][k] # Successor(s, j)
  <1>1. s.rng \in Nat \ {0}
    BY DEF Shape
  <1>2. s.subs[b][k][1] < s.rng
    BY <1>1, InitialId DEF Held, DrawnBefore
  <1>3. \A j : Successor(s, j)[1] = s.rng
    BY DrawnId
  <1> QED
    BY <1>1, <1>2, <1>3

(* The source of a rotation is gone when the wake is over, and the other   *)
(* records of the wake do not name it.                                     *)
LEMMA WakeRetires ==
  ASSUME NEW c \in Configs, NEW s, NEW d \in Draws, NEW l, NEW t, NEW u,
         WakeOf(c, s, d, l, t, u), Held(c, s, l), Apart(c, s), IsHardened(c),
         NEW j \in 1..Len(Recs(c, s, d)), IsRotation(Recs(c, s, d)[j])
  PROVE  /\ \A b \in AgentsOf(c) : \A k \in 1..c.subs[b] : t.subs[b][k] # Recs(c, s, d)[j].src
         /\ \A i \in 1..Len(Recs(c, s, d)) :
              j < i => /\ Recs(c, s, d)[i].src # Recs(c, s, d)[j].src
                       /\ Recs(c, s, d)[i].dst # Recs(c, s, d)[j].src
  <1> DEFINE a == DueAgent(s)
             ps == Plans(c, s, d)
             rs == Recs(c, s, d)
  <1>0. WakeDoes(c, s, d, l, t, u)
    BY WakeSummary
  <1>1. /\ Shape(c, s) /\ ~Done(c, s) /\ LegalDraw(c, s, d)
    BY DEF WakeOf
  <1>2. /\ Rotates(c, s, a, ps, t.subs[a]) \/ Keeps(c, s, a, ps, t.subs[a])
        /\ \A b \in AgentsOf(c) : b # a => t.subs[b] = s.subs[b]
        /\ a \in AgentsOf(c)
    BY <1>0 DEF WakeDoes
  <1>3. /\ Len(rs) = Len(ps) /\ Len(rs) \in Nat
        /\ \A i \in 1..Len(rs) : rs[i].src = ps[i].src /\ rs[i].dst = ps[i].dst
    BY <1>1, RecsFacts
  <1>4. s.main[a] = Initial(a, 1)
    BY <1>1, <1>2 DEF Shape
  <1>5. \A b \in AgentsOf(c) : \A k \in 1..c.subs[b] : \A i : s.subs[b][k] # Successor(s, i)
    BY <1>1, HeldAreOld
  <1>6. j \in 1..Len(rs) /\ rs[j].dst[1] > 0
    BY DEF IsRotation
  <1> HIDE DEF a, ps, rs
  <1>7. CASE Keeps(c, s, a, ps, t.subs[a])
    <2>1. rs[j].dst = External \/ rs[j].dst = Initial(a, 1)
      BY <1>3, <1>4, <1>6, <1>7 DEF Keeps
    <2> QED
      BY <1>6, <2>1, InitialId, OtherIds
  <1>8. CASE Rotates(c, s, a, ps, t.subs[a])
    <2>1. PICK picks : RotatesBy(c, s, a, ps, t.subs[a], picks)
      BY <1>8 DEF Rotates
    <2>2. ASSUME NEW i \in 1..Len(rs)
          PROVE  /\ picks[i] \in 1..c.subs[a] /\ rs[i].src = s.subs[a][picks[i]]
                 /\ rs[i].dst = Successor(s, i)
      <3>1. c.subs[a] \in Nat
        BY <1>2, ConfigFacts
      <3> QED
        BY <1>3, <2>1, <3>1 DEF RotatesBy
    <2>3. ASSUME NEW b \in AgentsOf(c), NEW k \in 1..c.subs[b]
          PROVE  t.subs[b][k] # rs[j].src
      <3>1. CASE b # a
        <4>1. t.subs[b][k] = s.subs[b][k] /\ rs[j].src = s.subs[a][picks[j]]
          BY <1>2, <1>6, <2>2, <3>1
        <4> QED
          BY <1>2, <1>6, <2>2, <3>1, <4>1 DEF Apart
      <3>2. CASE b = a /\ \E i \in 1..Len(ps) : picks[i] = k /\ t.subs[a][k] = Successor(s, i)
        <4>1. PICK i \in 1..Len(ps) : t.subs[b][k] = Successor(s, i)
          BY <3>2
        <4>2. rs[j].src = s.subs[a][picks[j]] /\ picks[j] \in 1..c.subs[a]
          BY <1>6, <2>2
        <4> QED
          BY <1>2, <1>5, <4>1, <4>2
      <3>3. CASE b = a /\ (\A i \in 1..Len(ps) : picks[i] # k) /\ t.subs[a][k] = s.subs[a][k]
        <4>1. picks[j] # k
          BY <1>3, <1>6, <3>3
        <4>2. t.subs[b][k] = s.subs[a][k] /\ rs[j].src = s.subs[a][picks[j]]
          BY <1>2, <1>6, <2>2, <3>3
        <4> QED
          BY <1>2, <1>6, <2>2, <3>3, <4>1, <4>2 DEF Apart
      <3> QED
        BY <2>1, <3>1, <3>2, <3>3 DEF RotatesBy
    <2>4. ASSUME NEW i \in 1..Len(rs), j < i
          PROVE  rs[i].src # rs[j].src /\ rs[i].dst # rs[j].src
      <3>1. picks[i] # picks[j]
        BY <1>3, <1>6, <2>1, <2>4 DEF RotatesBy
      <3>2. rs[i].src # rs[j].src
        <4>1. /\ rs[i].src = s.subs[a][picks[i]] /\ picks[i] \in 1..c.subs[a]
              /\ rs[j].src = s.subs[a][picks[j]] /\ picks[j] \in 1..c.subs[a]
          BY <1>6, <2>2
        <4> QED
          BY <1>2, <3>1, <4>1 DEF Apart
      <3> QED
        BY <1>2, <1>5, <1>6, <2>2, <3>2
    <2> QED
      BY <2>3, <2>4 DEF rs
  <1> QED
    BY <1>2, <1>7, <1>8

LEMMA WakeHeld ==
  ASSUME NEW c \in Configs, NEW s, NEW d \in Draws, NEW l, NEW t, NEW u,
         WakeOf(c, s, d, l, t, u), Held(c, s, l), Apart(c, s)
  PROVE  Held(c, t, u) /\ Apart(c, t)
  <1> DEFINE a == DueAgent(s)
             ps == Plans(c, s, d)
             rs == Recs(c, s, d)
  <1>0. WakeDoes(c, s, d, l, t, u)
    BY WakeSummary
  <1>1. Shape(c, s) /\ s.rng \in Nat \ {0}
    BY DEF WakeOf, Shape
  <1>2. /\ a \in AgentsOf(c) /\ t.rng = s.rng + 1
        /\ Len(u) = Len(l) + Len(rs) /\ Len(l) \in Nat /\ Len(rs) \in Nat
        /\ \A i \in 1..Len(l) : u[i] = l[i]
        /\ \A j \in 1..Len(rs) : u[Len(l) + j] = rs[j]
    BY <1>0 DEF WakeDoes
  <1>3. /\ Rotates(c, s, a, ps, t.subs[a]) \/ Keeps(c, s, a, ps, t.subs[a])
        /\ \A b \in AgentsOf(c) : b # a => t.subs[b] = s.subs[b]
    BY <1>0 DEF WakeDoes
  <1>4. ASSUME NEW b \in AgentsOf(c), NEW k \in 1..c.subs[b]
        PROVE  \/ t.subs[b][k] = s.subs[b][k]
               \/ Rotating(c) /\ \E j \in 1..Len(rs) : /\ t.subs[b][k] = Successor(s, j)
                                                       /\ rs[j].dst = Successor(s, j)
    <2>1. KeptOrRotated(c, s, d, t, b, k)
      BY WakeAccounts
    <2> QED
      BY <2>1 DEF KeptOrRotated
  <1> HIDE DEF rs, a, ps
  <1>5. ASSUME NEW b \in AgentsOf(c), NEW k \in 1..c.subs[b]
        PROVE  \/ t.subs[b][k] = Initial(b, k)
               \/ /\ Rotating(c) /\ DrawnBefore(t.subs[b][k], SuccessorRole, t.rng)
                  /\ \E i \in 1..Len(u) : u[i].dst = t.subs[b][k]
    <2>1. CASE t.subs[b][k] = s.subs[b][k]
      <3>1. \A id : DrawnBefore(id, SuccessorRole, s.rng) => DrawnBefore(id, SuccessorRole, t.rng)
        BY <1>1, <1>2 DEF DrawnBefore
      <3>2. \A i \in 1..Len(l) : i \in 1..Len(u) /\ u[i] = l[i]
        BY <1>2
      <3> QED
        BY <2>1, <3>1, <3>2 DEF Held
    <2>2. CASE /\ Rotating(c)
               /\ \E j \in 1..Len(rs) : /\ t.subs[b][k] = Successor(s, j)
                                        /\ rs[j].dst = Successor(s, j)
      <3>1. PICK j \in 1..Len(rs) : /\ t.subs[b][k] = Successor(s, j)
                                    /\ rs[j].dst = Successor(s, j)
        BY <2>2
      <3>2. Len(l) + j \in 1..Len(u) /\ u[Len(l) + j].dst = t.subs[b][k]
        BY <1>2, <3>1
      <3>3. DrawnBefore(t.subs[b][k], SuccessorRole, t.rng)
        BY <1>1, <1>2, <3>1, DrawnId DEF DrawnBefore
      <3> QED
        BY <2>2, <3>2, <3>3
    <2> QED
      BY <1>4, <2>1, <2>2
  <1>6. Held(c, t, u)
    BY <1>5 DEF Held
  <1>7. \A b \in AgentsOf(c) : \A k \in 1..c.subs[b] : \A i : s.subs[b][k] # Successor(s, i)
    BY <1>1, HeldAreOld
  <1>8. Apart(c, t)
    <2>1. CASE Keeps(c, s, a, ps, t.subs[a])
      <3>1. \A b \in AgentsOf(c) : t.subs[b] = s.subs[b]
        BY <1>3, <2>1 DEF Keeps
      <3> QED
        BY <3>1 DEF Apart
    <2>2. CASE Rotates(c, s, a, ps, t.subs[a])
      <3>1. PICK picks : RotatesBy(c, s, a, ps, t.subs[a], picks)
        BY <2>2 DEF Rotates
      <3>2. ASSUME NEW b \in AgentsOf(c), NEW k \in 1..c.subs[b]
            PROVE  \/ t.subs[b][k] = s.subs[b][k]
                   \/ b = a /\ \E j \in 1..Len(ps) : picks[j] = k /\ t.subs[b][k] = Successor(s, j)
        BY <1>3, <3>1 DEF RotatesBy
      <3>3. SUFFICES ASSUME NEW b1 \in AgentsOf(c), NEW b2 \in AgentsOf(c),
                            NEW k1 \in 1..c.subs[b1], NEW k2 \in 1..c.subs[b2],
                            t.subs[b1][k1] = t.subs[b2][k2]
                     PROVE  b1 = b2 /\ k1 = k2
        BY DEF Apart
      <3>4. CASE t.subs[b1][k1] = s.subs[b1][k1] /\ t.subs[b2][k2] = s.subs[b2][k2]
        <4>1. s.subs[b1][k1] = s.subs[b2][k2]
          BY <3>3, <3>4
        <4> QED
          BY <4>1 DEF Apart
      <3>5. CASE /\ b1 = a /\ \E j \in 1..Len(ps) : picks[j] = k1 /\ t.subs[b1][k1] = Successor(s, j)
                 /\ b2 = a /\ \E j \in 1..Len(ps) : picks[j] = k2 /\ t.subs[b2][k2] = Successor(s, j)
        <4>1. PICK i \in 1..Len(ps) : picks[i] = k1 /\ t.subs[b1][k1] = Successor(s, i)
          BY <3>5
        <4>2. PICK j \in 1..Len(ps) : picks[j] = k2 /\ t.subs[b2][k2] = Successor(s, j)
          BY <3>5
        <4>3. i = j
          <5>1. Successor(s, i)[3] = i /\ Successor(s, j)[3] = j
            BY DrawnId
          <5> QED
            BY <3>3, <4>1, <4>2, <5>1
        <4> QED
          BY <3>5, <4>1, <4>2, <4>3
      <3> QED
        BY <1>7, <3>2, <3>3, <3>4, <3>5
    <2> QED
      BY <1>3, <2>1, <2>2
  <1> QED
    BY <1>6, <1>8

LEMMA WakeRecords ==
  ASSUME NEW c \in Configs, NEW s, NEW d \in Draws, NEW l, NEW t, NEW u,
         WakeOf(c, s, d, l, t, u), Held(c, s, l), Apart(c, s), RecsOK(c, s, l), FeesApart(c, l)
  PROVE  RecsOK(c, t, u) /\ FeesApart(c, u)
  <1> DEFINE a == DueAgent(s)
             ps == Plans(c, s, d)
             rs == Recs(c, s, d)
  <1>0. WakeDoes(c, s, d, l, t, u)
    BY WakeSummary
  <1>1. Shape(c, s) /\ s.rng \in Nat \ {0} /\ ~Done(c, s) /\ LegalDraw(c, s, d)
    BY DEF WakeOf, Shape
  <1>2. /\ a \in AgentsOf(c) /\ t.rng = s.rng + 1
        /\ \A i \in 1..Len(l) : u[i] = l[i]
        /\ \A j \in 1..Len(rs) : u[Len(l) + j] = rs[j]
        /\ \A i \in 1..Len(u) : i \in 1..Len(l) \/ \E j \in 1..Len(rs) : i = Len(l) + j
        /\ Len(rs) = Len(ps) /\ \A j \in 1..Len(ps) : PlanOK(c, s, a, j, ps[j])
    <2>1. a \in AgentsOf(c) /\ t.rng = s.rng + 1
      BY <1>0 DEF WakeDoes
    <2>2. /\ \A i \in 1..Len(l) : u[i] = l[i]
          /\ \A j \in 1..Len(rs) : u[Len(l) + j] = rs[j]
      BY <1>0 DEF WakeDoes
    <2>3. \A i \in 1..Len(u) : i \in 1..Len(l) \/ \E j \in 1..Len(rs) : i = Len(l) + j
      BY <1>0 DEF WakeDoes
    <2>4. Len(rs) = Len(ps) /\ PlansOK(c, s, a, ps)
      BY <1>0 DEF WakeDoes
    <2>5. \A j \in 1..Len(ps) : PlanOK(c, s, a, j, ps[j])
      BY <2>4 DEF PlansOK
    <2> QED
      BY <2>1, <2>2, <2>3, <2>4, <2>5
  <1>3. \A j \in 1..Len(rs) : /\ rs[j].src = ps[j].src /\ rs[j].dst = ps[j].dst
                              /\ rs[j].fee = ps[j].fee /\ rs[j].op = a
    BY <1>1, RecsFacts
  <1>4. Rotates(c, s, a, ps, t.subs[a]) \/ Keeps(c, s, a, ps, t.subs[a])
    BY <1>0 DEF WakeDoes
  <1> HIDE DEF rs, a, ps
  <1>5. ASSUME NEW j \in 1..Len(rs) PROVE TreasurySafe(c, s, a, ps[j])
    <2>1. CASE Keeps(c, s, a, ps, t.subs[a])
      BY <1>2, <2>1 DEF Keeps, TreasurySafe
    <2>2. CASE Rotates(c, s, a, ps, t.subs[a])
      BY <1>2, <2>2 DEF Rotates, RotatesBy, TreasurySafe
    <2> QED
      BY <1>4, <2>1, <2>2
  <1>6. ASSUME NEW j \in 1..Len(rs) PROVE RecOK(c, s.rng + 1, rs[j])
    <2>1. /\ PlanOK(c, s, a, j, ps[j])
          /\ rs[j].src = ps[j].src /\ rs[j].dst = ps[j].dst
          /\ rs[j].fee = ps[j].fee /\ rs[j].op = a /\ TreasurySafe(c, s, a, ps[j])
      BY <1>2, <1>3, <1>5
    <2> QED
      BY <1>1, <1>2, <2>1, PlanRecord
  <1>7. ASSUME NEW r, RecOK(c, s.rng, r) PROVE RecOK(c, s.rng + 1, r)
    <2>1. \A id, role : DrawnBefore(id, role, s.rng) => DrawnBefore(id, role, s.rng + 1)
      BY <1>1 DEF DrawnBefore
    <2> QED
      BY <1>7, <2>1 DEF RecOK
  <1>8. RecsOK(c, t, u)
    <2>1. ASSUME NEW i \in 1..Len(u) PROVE RecOK(c, s.rng + 1, u[i])
      <3>1. CASE i \in 1..Len(l)
        BY <1>2, <1>7, <3>1 DEF RecsOK
      <3>2. CASE \E j \in 1..Len(rs) : i = Len(l) + j
        BY <1>2, <1>6, <3>2
      <3> QED
        BY <1>2, <3>1, <3>2
    <2> QED
      BY <1>2, <2>1 DEF RecsOK
  <1>9. ASSUME c.mode # "naive", NEW i \in 1..Len(u), NEW j \in 1..Len(u), u[i].fee = u[j].fee
        PROVE  i = j
    <2>1. ASSUME NEW m \in 1..Len(l) PROVE u[m].fee[1] # s.rng
      <3>1. RecOK(c, s.rng, l[m]) /\ u[m] = l[m]
        BY <1>2 DEF RecsOK
      <3>2. DrawnBefore(u[m].fee, FeeRole, s.rng)
        BY <1>9, <3>1 DEF RecOK
      <3> QED
        BY <1>1, <3>2 DEF DrawnBefore
    <2>2. ASSUME NEW m \in 1..Len(rs) PROVE u[Len(l) + m].fee[1] = s.rng /\ u[Len(l) + m].fee[3] = m
      <3>1. rs[m].fee = FreshFee(s, m)
        BY <1>2, <1>3, <1>9 DEF PlanOK
      <3> QED
        BY <1>2, <3>1, DrawnId
    <2>3. CASE i \in 1..Len(l) /\ j \in 1..Len(l)
      BY <1>2, <1>9, <2>3 DEF FeesApart
    <2>4. CASE \/ i \in 1..Len(l) /\ \E m \in 1..Len(rs) : j = Len(l) + m
               \/ j \in 1..Len(l) /\ \E m \in 1..Len(rs) : i = Len(l) + m
      <3>1. CASE i \in 1..Len(l) /\ \E m \in 1..Len(rs) : j = Len(l) + m
        BY <1>9, <2>1, <2>2, <3>1
      <3>2. CASE j \in 1..Len(l) /\ \E m \in 1..Len(rs) : i = Len(l) + m
        BY <1>9, <2>1, <2>2, <3>2
      <3> QED
        BY <2>4, <3>1, <3>2
    <2>5. CASE /\ \E m \in 1..Len(rs) : i = Len(l) + m
               /\ \E n \in 1..Len(rs) : j = Len(l) + n
      <3>1. PICK m \in 1..Len(rs) : i = Len(l) + m
        BY <2>5
      <3>2. PICK n \in 1..Len(rs) : j = Len(l) + n
        BY <2>5
      <3>3. u[i].fee[3] = m /\ u[j].fee[3] = n
        BY <2>2, <3>1, <3>2
      <3> QED
        BY <1>9, <3>1, <3>2, <3>3
    <2> QED
      BY <1>2, <2>3, <2>4, <2>5
  <1> QED
    BY <1>8, <1>9 DEF FeesApart

LEMMA WakeRetired ==
  ASSUME NEW c \in Configs, NEW s, NEW d \in Draws, NEW l, NEW t, NEW u,
         WakeOf(c, s, d, l, t, u), Held(c, s, l), Apart(c, s), RecsOK(c, s, l), Retired(c, s, l)
  PROVE  Retired(c, t, u)
  <1> DEFINE a == DueAgent(s)
             ps == Plans(c, s, d)
             rs == Recs(c, s, d)
  <1>0. WakeDoes(c, s, d, l, t, u)
    BY WakeSummary
  <1>1. Shape(c, s) /\ s.rng \in Nat \ {0} /\ ~Done(c, s) /\ LegalDraw(c, s, d)
    BY DEF WakeOf, Shape
  <1>2. /\ a \in AgentsOf(c) /\ Len(l) \in Nat /\ Len(rs) \in Nat
        /\ \A i \in 1..Len(l) : u[i] = l[i]
        /\ \A j \in 1..Len(rs) : u[Len(l) + j] = rs[j]
        /\ \A i \in 1..Len(u) : i \in 1..Len(l) \/ \E j \in 1..Len(rs) : i = Len(l) + j
        /\ Len(rs) = Len(ps) /\ \A j \in 1..Len(ps) : PlanOK(c, s, a, j, ps[j])
    <2>1. /\ a \in AgentsOf(c) /\ Len(l) \in Nat /\ Len(rs) \in Nat
          /\ \A i \in 1..Len(l) : u[i] = l[i]
          /\ \A j \in 1..Len(rs) : u[Len(l) + j] = rs[j]
          /\ \A i \in 1..Len(u) : i \in 1..Len(l) \/ \E j \in 1..Len(rs) : i = Len(l) + j
          /\ Len(rs) = Len(ps) /\ PlansOK(c, s, a, ps)
      BY <1>0 DEF WakeDoes
    <2> QED
      BY <2>1 DEF PlansOK
  <1>3. \A j \in 1..Len(rs) : rs[j].src = ps[j].src /\ rs[j].dst = ps[j].dst
    BY <1>1, RecsFacts
  <1>4. s.main[a] = Initial(a, 1)
    BY <1>1, <1>2 DEF Shape
  <1> HIDE DEF rs, a, ps
  <1>5. SUFFICES ASSUME IsHardened(c), NEW i \in 1..Len(u), IsRotation(u[i])
                 PROVE  /\ \A b \in AgentsOf(c) : \A k \in 1..c.subs[b] : t.subs[b][k] # u[i].src
                        /\ \A j \in 1..Len(u) :
                             i < j => u[j].src # u[i].src /\ u[j].dst # u[i].src
    BY DEF Retired
  <1>6. CASE i \in 1..Len(l)
    <2>1. /\ \A b \in AgentsOf(c) : \A k \in 1..c.subs[b] : s.subs[b][k] # u[i].src
          /\ \A j \in 1..Len(l) : i < j => l[j].src # u[i].src /\ l[j].dst # u[i].src
      <3>1. u[i] = l[i] /\ IsRotation(l[i])
        BY <1>2, <1>5, <1>6
      <3>2. /\ \A b \in AgentsOf(c) : \A k \in 1..c.subs[b] : s.subs[b][k] # l[i].src
            /\ \A j \in 1..Len(l) : i < j => l[j].src # l[i].src /\ l[j].dst # l[i].src
        BY <1>5, <1>6, <3>1 DEF Retired
      <3> QED
        BY <3>1, <3>2
    <2>2. RecOK(c, s.rng, u[i])
      BY <1>2, <1>6 DEF RecsOK
    <2>3. /\ u[i].src # External /\ (\A b \in AgentsOf(c) : u[i].src # Initial(b, 1))
          /\ \A j : u[i].src # Successor(s, j)
      <3>1. u[i].dst # External
        BY <1>5, OtherIds DEF IsRotation
      <3>2. \A b \in AgentsOf(c) : u[i].src # Initial(b, 1)
        BY <1>5, <2>2, <3>1 DEF RecOK
      <3>3. u[i].src[1] \in 0..(s.rng - 1)
        <4>1. CASE Original(c, u[i].src)
          BY <1>1, <4>1, OriginalId
        <4>2. CASE DrawnBefore(u[i].src, SuccessorRole, s.rng)
          BY <1>1, <4>2 DEF DrawnBefore
        <4> QED
          BY <2>2, <4>1, <4>2 DEF RecOK
      <3>4. \A j : Successor(s, j)[1] = s.rng
        BY DrawnId
      <3> QED
        BY <1>1, <3>2, <3>3, <3>4, OtherIds
    <2>4. ASSUME NEW b \in AgentsOf(c), NEW k \in 1..c.subs[b]
          PROVE  t.subs[b][k] # u[i].src
      <3>1. KeptOrRotated(c, s, d, t, b, k)
        BY WakeAccounts
      <3> QED
        BY <2>1, <2>3, <3>1 DEF KeptOrRotated
    <2>5. ASSUME NEW j \in 1..Len(rs)
          PROVE  rs[j].src # u[i].src /\ rs[j].dst # u[i].src
      <3>1. PlanOK(c, s, a, j, ps[j]) /\ rs[j].src = ps[j].src /\ rs[j].dst = ps[j].dst
        BY <1>2, <1>3
      <3>2. PICK k \in 1..c.subs[a] : ps[j].src = s.subs[a][k]
        BY <3>1 DEF PlanOK
      <3>3. ps[j].dst = External \/ (\E m : ps[j].dst = Successor(s, m)) \/ ps[j].dst = Initial(a, 1)
        BY <1>4, <3>1 DEF PlanOK
      <3> QED
        BY <1>2, <2>1, <2>3, <3>1, <3>2, <3>3
    <2>6. ASSUME NEW j \in 1..Len(u), i < j
          PROVE  u[j].src # u[i].src /\ u[j].dst # u[i].src
      <3>1. CASE j \in 1..Len(l)
        BY <1>2, <2>1, <2>6, <3>1
      <3>2. CASE \E m \in 1..Len(rs) : j = Len(l) + m
        BY <1>2, <2>5, <3>2
      <3> QED
        BY <1>2, <3>1, <3>2
    <2> QED
      BY <2>4, <2>6
  <1>7. CASE \E m \in 1..Len(rs) : i = Len(l) + m
    <2>1. PICK m \in 1..Len(rs) : i = Len(l) + m
      BY <1>7
    <2>2. u[i] = rs[m] /\ IsRotation(rs[m])
      BY <1>2, <1>5, <2>1
    <2>3. /\ \A b \in AgentsOf(c) : \A k \in 1..c.subs[b] : t.subs[b][k] # rs[m].src
          /\ \A n \in 1..Len(rs) : m < n => rs[n].src # rs[m].src /\ rs[n].dst # rs[m].src
      BY <1>5, <2>2, WakeRetires DEF rs
    <2>4. ASSUME NEW j \in 1..Len(u), i < j
          PROVE  u[j].src # u[i].src /\ u[j].dst # u[i].src
      <3>1. j \notin 1..Len(l)
        BY <1>2, <2>1, <2>4
      <3>2. PICK n \in 1..Len(rs) : j = Len(l) + n
        BY <1>2, <3>1
      <3>3. m < n /\ u[j] = rs[n]
        BY <1>2, <2>1, <2>4, <3>2
      <3> QED
        BY <2>2, <2>3, <3>3
    <2> QED
      BY <2>2, <2>3, <2>4
  <1> QED
    BY <1>2, <1>6, <1>7

LEMMA WakeSigners ==
  ASSUME NEW c \in Configs, NEW s, NEW d \in Draws, NEW l, NEW t, NEW u,
         WakeOf(c, s, d, l, t, u), Held(c, s, l), Apart(c, s), RecsOK(c, s, l), OneSigner(c, s, l)
  PROVE  OneSigner(c, t, u)
  <1> DEFINE a == DueAgent(s)
             ps == Plans(c, s, d)
             rs == Recs(c, s, d)
  <1>0. WakeDoes(c, s, d, l, t, u)
    BY WakeSummary
  <1>1. Shape(c, s) /\ s.rng \in Nat \ {0} /\ ~Done(c, s) /\ LegalDraw(c, s, d)
    BY DEF WakeOf, Shape
  <1>2. /\ a \in AgentsOf(c) /\ Len(rs) = Len(ps)
        /\ \A i \in 1..Len(l) : u[i] = l[i]
        /\ \A j \in 1..Len(rs) : u[Len(l) + j] = rs[j]
        /\ \A i \in 1..Len(u) : i \in 1..Len(l) \/ \E j \in 1..Len(rs) : i = Len(l) + j
    BY <1>0 DEF WakeDoes
  <1>3. ASSUME NEW j \in 1..Len(rs)
        PROVE  rs[j].op = a /\ \E k \in 1..c.subs[a] : rs[j].src = s.subs[a][k]
    <2>1. PlanOK(c, s, a, j, ps[j])
      BY <1>0, <1>2 DEF WakeDoes, PlansOK
    <2>2. rs[j].src = ps[j].src /\ rs[j].op = a
      BY <1>1, RecsFacts
    <2> QED
      BY <2>1, <2>2 DEF PlanOK
  <1> HIDE DEF rs, a, ps
  <1>4. ASSUME NEW i \in 1..Len(l), NEW j \in 1..Len(rs), l[i].src = rs[j].src
        PROVE  l[i].op = rs[j].op
    <2>1. PICK k \in 1..c.subs[a] : rs[j].src = s.subs[a][k]
      BY <1>3
    <2> QED
      BY <1>2, <1>3, <1>4, <2>1 DEF OneSigner
  <1>5. ASSUME NEW i \in 1..Len(u), NEW j \in 1..Len(u), u[i].src = u[j].src
        PROVE  u[i].op = u[j].op
    <2>1. CASE i \in 1..Len(l) /\ j \in 1..Len(l)
      <3>1. u[i] = l[i] /\ u[j] = l[j]
        BY <1>2, <2>1
      <3>2. l[i].src = l[j].src => l[i].op = l[j].op
        BY <2>1 DEF OneSigner
      <3> QED
        BY <1>5, <3>1, <3>2
    <2>2. CASE i \in 1..Len(l) /\ \E m \in 1..Len(rs) : j = Len(l) + m
      <3>1. PICK m \in 1..Len(rs) : j = Len(l) + m
        BY <2>2
      <3>2. u[i] = l[i] /\ u[j] = rs[m]
        BY <1>2, <2>2, <3>1
      <3> QED
        BY <1>4, <1>5, <2>2, <3>2
    <2>3. CASE j \in 1..Len(l) /\ \E m \in 1..Len(rs) : i = Len(l) + m
      <3>1. PICK m \in 1..Len(rs) : i = Len(l) + m
        BY <2>3
      <3>2. u[j] = l[j] /\ u[i] = rs[m]
        BY <1>2, <2>3, <3>1
      <3> QED
        BY <1>4, <1>5, <2>3, <3>2
    <2>4. CASE /\ \E m \in 1..Len(rs) : i = Len(l) + m
               /\ \E m \in 1..Len(rs) : j = Len(l) + m
      <3>1. PICK m \in 1..Len(rs) : i = Len(l) + m
        BY <2>4
      <3>2. PICK n \in 1..Len(rs) : j = Len(l) + n
        BY <2>4
      <3>3. u[i] = rs[m] /\ u[j] = rs[n]
        BY <1>2, <3>1, <3>2
      <3> QED
        BY <1>3, <3>3
    <2> QED
      BY <1>2, <2>1, <2>2, <2>3, <2>4
  <1>6. ASSUME NEW r, NEW b \in AgentsOf(c), NEW k \in 1..c.subs[b], t.subs[b][k] = r.src,
               r.src[1] < s.rng, s.subs[b][k] = r.src => b = r.op
        PROVE  b = r.op
    <2>1. KeptOrRotated(c, s, d, t, b, k)
      BY WakeAccounts
    <2>2. \A j : Successor(s, j)[1] = s.rng
      BY DrawnId
    <2> QED
      BY <1>1, <1>6, <2>1, <2>2 DEF KeptOrRotated
  <1>7. ASSUME NEW i \in 1..Len(u), NEW b \in AgentsOf(c), NEW k \in 1..c.subs[b],
               t.subs[b][k] = u[i].src
        PROVE  b = u[i].op
    <2>1. CASE i \in 1..Len(l)
      <3>1. RecOK(c, s.rng, u[i]) /\ u[i] = l[i]
        BY <1>2, <2>1 DEF RecsOK
      <3>2. u[i].src[1] < s.rng
        <4>1. CASE Original(c, u[i].src)
          BY <1>1, <4>1, OriginalId
        <4>2. CASE DrawnBefore(u[i].src, SuccessorRole, s.rng)
          BY <1>1, <4>2 DEF DrawnBefore
        <4> QED
          BY <3>1, <4>1, <4>2 DEF RecOK
      <3>3. s.subs[b][k] = u[i].src => b = u[i].op
        BY <2>1, <3>1 DEF OneSigner
      <3> QED
        BY <1>6, <1>7, <3>2, <3>3
    <2>2. CASE \E m \in 1..Len(rs) : i = Len(l) + m
      <3>1. PICK m \in 1..Len(rs) : i = Len(l) + m
        BY <2>2
      <3>2. u[i] = rs[m]
        BY <1>2, <3>1
      <3>3. PICK n \in 1..c.subs[a] : u[i].src = s.subs[a][n]
        BY <1>3, <3>2
      <3>4. u[i].src[1] < s.rng
        BY <1>1, <1>2, <3>3, HeldAreOld
      <3>5. s.subs[b][k] = u[i].src => b = u[i].op
        BY <1>2, <1>3, <3>2, <3>3 DEF Apart
      <3> QED
        BY <1>6, <1>7, <3>4, <3>5
    <2> QED
      BY <1>2, <2>1, <2>2
  <1> QED
    BY <1>5, <1>7 DEF OneSigner

LEMMA RunInvWake ==
  ASSUME NEW c \in Configs, NEW s, NEW d \in Draws, NEW l, NEW t, NEW u,
         WakeOf(c, s, d, l, t, u), RunInv(c, s, l)
  PROVE  RunInv(c, t, u)
  <1>0. WakeDoes(c, s, d, l, t, u)
    BY WakeSummary
  <1>1. Shape(c, t) /\ IsSeq(u)
    BY <1>0, WakeShape DEF WakeDoes
  <1>2. Numbered(t, u) /\ InOrder(t, u)
    BY WakeOrder DEF RunInv
  <1>3. Held(c, t, u) /\ Apart(c, t)
    BY WakeHeld DEF RunInv
  <1>4. RecsOK(c, t, u) /\ FeesApart(c, u)
    BY WakeRecords DEF RunInv
  <1>5. Retired(c, t, u)
    BY WakeRetired DEF RunInv
  <1>6. OneSigner(c, t, u)
    BY WakeSigners DEF RunInv
  <1> QED
    BY <1>1, <1>2, <1>3, <1>4, <1>5, <1>6 DEF RunInv

-----------------------------------------------------------------------------
(* The inductive invariant of the engine: RunInv of what it has done so    *)
(* far, for the configuration it was given.                                *)
EngineInv == cfg \in Configs /\ RunInv(cfg, sim, ledger)

LEMMA EngineInvInit ==
  ASSUME Init
  PROVE  EngineInv
  BY RunInvFresh DEF Init, EngineInit, EngineInv

LEMMA TurnIsWake ==
  ASSUME EngineInv, NEW d \in Draws, Turn(d)
  PROVE  /\ cfg' = cfg /\ cfg \in Configs
         /\ WakeOf(cfg, sim, d, ledger, sim', ledger')
  BY DEF EngineInv, RunInv, Turn, WakeOf

LEMMA EngineInvStep ==
  ASSUME EngineInv, [Next]_vars
  PROVE  EngineInv'
  <1>1. ASSUME NEW d \in Draws, Turn(d) PROVE EngineInv'
    <2>1. cfg' = cfg /\ cfg \in Configs /\ WakeOf(cfg, sim, d, ledger, sim', ledger')
      BY <1>1, TurnIsWake
    <2>2. RunInv(cfg, sim', ledger')
      BY <2>1, RunInvWake DEF EngineInv
    <2> QED
      BY <2>1, <2>2 DEF EngineInv
  <1>2. ASSUME UNCHANGED engine PROVE EngineInv'
    BY <1>2 DEF EngineInv, engine
  <1> QED
    BY <1>1, <1>2 DEF Next, vars, ApplyFunding

LEMMA EngineInvHolds == Spec => []EngineInv
  <1>1. Init => EngineInv
    BY EngineInvInit
  <1>2. EngineInv /\ [Next]_vars => EngineInv'
    BY EngineInvStep
  <1> QED
    BY <1>1, <1>2, PTL DEF Spec

(* Whatever the agents do, however their wakes overlap, what an observer   *)
(* sees is numbered without a gap and dated in the order it is recorded    *)
(* (MockChain::record and the clamp of the chain clock in run_core).       *)
THEOREM ObserversSeeOrder == Spec => []ObservableOrder
  <1>1. EngineInv => ObservableOrder
    BY SeqShape DEF EngineInv, RunInv, Numbered, InOrder, ObservableOrder
  <1> QED
    BY <1>1, EngineInvHolds, PTL

(* A fee payer of a cooked run pays once and is nothing else, for any      *)
(* number of agents, subaccounts and wakes (AccountId::random per record). *)
THEOREM FeePayersAreThrownAway == Spec => []FeePayersThrownAway
  <1>1. ASSUME EngineInv PROVE FeePayersThrownAway
    <2>1. DOMAIN ledger = 1..Len(ledger)
      BY <1>1, SeqShape DEF EngineInv, RunInv
    <2>2. SUFFICES ASSUME cfg.mode # "naive", NEW i \in 1..Len(ledger), NEW j \in 1..Len(ledger)
                   PROVE  /\ i # j => ledger[i].fee # ledger[j].fee
                          /\ ledger[i].fee # ledger[j].src /\ ledger[i].fee # ledger[j].dst
      BY <2>1 DEF FeePayersThrownAway
    <2>3. RecOK(cfg, sim.rng, ledger[i]) /\ RecOK(cfg, sim.rng, ledger[j]) /\ sim.rng \in Nat \ {0}
      BY <1>1 DEF EngineInv, RunInv, RecsOK, Shape
    <2>4. ledger[i].fee[1] \in 1..(sim.rng - 1) /\ ledger[i].fee[2] = 1
      BY <2>2, <2>3, OtherIds DEF RecOK, DrawnBefore
    <2>5. ledger[j].src[1] = 0 \/ ledger[j].src[2] = 2
      BY <2>3, OriginalId, OtherIds DEF RecOK, DrawnBefore
    <2>6. ledger[j].dst[1] = -1 \/ ledger[j].dst[1] = 0 \/ ledger[j].dst[2] = 2
      BY <2>3, InitialId, OtherIds DEF RecOK, DrawnBefore
    <2>7. i # j => ledger[i].fee # ledger[j].fee
      BY <1>1, <2>2 DEF EngineInv, RunInv, FeesApart
    <2> QED
      BY <2>3, <2>4, <2>5, <2>6, <2>7
  <1> QED
    BY <1>1, EngineInvHolds, PTL

(* A subaccount that a rotation replaced never moves again and is never    *)
(* paid again, whatever the schedule entries still to wake.                *)
THEOREM RetiredAccountsStayRetired == Spec => []RetiredStaysRetired
  <1>1. EngineInv => RetiredStaysRetired
    BY SeqShape DEF EngineInv, RunInv, Retired, RetiredStaysRetired
  <1> QED
    BY <1>1, EngineInvHolds, PTL

(* The fleet's accounts stay pairwise different, each an original or a     *)
(* successor that the ledger shows being paid, and the treasuries stay.    *)
THEOREM ActiveAccountsStayDistinct == Spec => []ActiveAccountsDistinct
  <1>1. ASSUME EngineInv PROVE ActiveAccountsDistinct
    <2> DEFINE slots == Slots(cfg)
               At(x) == sim.subs[x[1]][x[2]]
    <2>1. /\ cfg \in Configs /\ Shape(cfg, sim) /\ Held(cfg, sim, ledger) /\ Apart(cfg, sim)
          /\ DOMAIN ledger = 1..Len(ledger)
      BY <1>1, SeqShape DEF EngineInv, RunInv
    <2>2. ASSUME NEW x \in slots
          PROVE  x = <<x[1], x[2]>> /\ x[1] \in AgentsOf(cfg) /\ x[2] \in 1..cfg.subs[x[1]]
      BY DEF Slots
    <2>3. ASSUME NEW x \in slots, NEW y \in slots, x # y PROVE At(x) # At(y)
      <3>1. x[1] # y[1] \/ x[2] # y[2]
        BY <2>2, <2>3
      <3> QED
        BY <2>1, <2>2, <3>1 DEF Apart
    <2>4. ASSUME NEW x \in slots
          PROVE  At(x) = Initial(x[1], x[2]) \/
                   \E i \in DOMAIN ledger : IsRotation(ledger[i]) /\ ledger[i].dst = At(x)
      <3>1. CASE At(x) = Initial(x[1], x[2])
        BY <3>1
      <3>2. CASE /\ DrawnBefore(At(x), SuccessorRole, sim.rng)
                 /\ \E i \in 1..Len(ledger) : ledger[i].dst = At(x)
        <4>1. At(x)[1] > 0 /\ At(x)[2] = SuccessorRole
          BY <2>1, <3>2 DEF DrawnBefore, Shape
        <4> HIDE DEF At
        <4> QED
          BY <2>1, <3>2, <4>1 DEF IsRotation
      <3> QED
        BY <2>1, <2>2, <3>1, <3>2 DEF Held
    <2>5. ASSUME NEW a \in AgentsOf(cfg)
          PROVE  At(<<a, 1>>) = sim.main[a] /\ sim.main[a] = Initial(a, 1)
      BY <2>1 DEF Shape
    <2>6. ASSUME IsHardened(cfg), NEW i \in DOMAIN ledger, ledger[i].dst # External,
                 NEW a \in AgentsOf(cfg)
          PROVE  ledger[i].src # sim.main[a]
      <3>1. RecOK(cfg, sim.rng, ledger[i])
        BY <1>1, <2>1 DEF EngineInv, RunInv, RecsOK
      <3> QED
        BY <2>5, <2>6, <3>1 DEF RecOK
    <2> QED
      BY <2>3, <2>4, <2>5, <2>6 DEF ActiveAccountsDistinct, Slots
  <1> QED
    BY <1>1, EngineInvHolds, PTL

(* No wake happens before one that was already made: the heap's order and  *)
(* the delay of a second at least keep logical time moving forward, while  *)
(* the chain clock runs ahead of it.                                       *)
THEOREM LogicalTimeMovesForward == Spec => LogicalTimeMonotone
  <1>1. ASSUME EngineInv, [Next]_vars
        PROVE  [\A e, f \in DOMAIN sim.next :
                  sim'.next[e] # sim.next[e] => sim'.next[f] >= sim.next[e]]_engine
    <2>1. ASSUME NEW d \in Draws, Turn(d), NEW e \in DOMAIN sim.next, NEW f \in DOMAIN sim.next,
                 sim'.next[e] # sim.next[e]
          PROVE  sim'.next[f] >= sim.next[e]
      <3> DEFINE n == Len(sim.sched)
                 to == NextAt(cfg, sim.next[Due(sim)], DueAgent(sim), d.delay)
      <3>1. /\ cfg \in Configs /\ Shape(cfg, sim) /\ ~Done(cfg, sim)
            /\ sim' = Wake(cfg, sim, d).sim
        BY <1>1, <2>1 DEF EngineInv, RunInv, Turn
      <3>2. /\ sim.next \in [1..n -> Int] /\ e \in 1..n /\ f \in 1..n
        BY <2>1, <3>1 DEF Shape
      <3>3. /\ Due(sim) \in 1..n /\ \A x \in 1..n : sim.next[Due(sim)] <= sim.next[x]
            /\ DueAgent(sim) \in AgentsOf(cfg)
        BY <3>1, DueFacts
      <3>4. /\ sim'.next[Due(sim)] = to
            /\ \A x \in 1..n : x # Due(sim) => sim'.next[x] = sim.next[x]
        BY <3>1, WakeFacts
      <3>5. ScaledDelay(cfg, DueAgent(sim), d.delay) \in Nat
        BY <3>1, <3>3, DrawFacts, ScaledDelayType
      <3>6. sim.next[Due(sim)] \in Int /\ to \in Int /\ to >= sim.next[Due(sim)]
        BY <3>2, <3>3, <3>5 DEF NextAt, Later
      <3>7. e = Due(sim)
        BY <2>1, <3>2, <3>4
      <3> HIDE DEF n, to
      <3>8. CASE f = Due(sim)
        BY <3>4, <3>6, <3>7, <3>8
      <3>9. CASE f # Due(sim)
        BY <3>2, <3>3, <3>4, <3>7, <3>9
      <3> QED
        BY <3>8, <3>9
    <2>2. CASE UNCHANGED engine
      BY <2>2
    <2> QED
      BY <1>1, <2>1, <2>2 DEF Next, vars, ApplyFunding
  <1> QED
    BY <1>1, EngineInvHolds, PTL DEF Spec, LogicalTimeMonotone
-----------------------------------------------------------------------------
(* The post-pass.  In a cooked run every record is the first use of its    *)
(* fee payer, and no fee payer is a funder or a source.                    *)
Cooked == cfg.mode # "naive"
N == Len(ledger)

LEMMA Fees ==
  ASSUME EngineInv, Cooked
  PROVE  /\ N \in Nat /\ DOMAIN ledger = 1..N
         /\ \A i \in 1..N : /\ ledger[i].fee[1] >= 1 /\ ledger[i].op \in AgentsOf(cfg)
                            /\ ledger[i].ts \in Int
         /\ \A i, j \in 1..N : ledger[i].fee = ledger[j].fee => i = j
         /\ \A i, j \in 1..N : ledger[i].fee # ledger[j].src /\ ledger[i].fee # ledger[j].dst
  <1>1. N \in Nat /\ DOMAIN ledger = 1..N
    BY SeqShape DEF EngineInv, RunInv, N
  <1>2. ASSUME NEW i \in 1..N
        PROVE  /\ ledger[i].fee[1] \in 1..(sim.rng - 1) /\ ledger[i].fee[2] = 1
               /\ ledger[i].src[1] = 0 \/ ledger[i].src[2] = 2
               /\ ledger[i].dst[1] = -1 \/ ledger[i].dst[1] = 0 \/ ledger[i].dst[2] = 2
               /\ ledger[i].op \in AgentsOf(cfg)
    <2>1. RecOK(cfg, sim.rng, ledger[i])
      BY DEF EngineInv, RunInv, RecsOK, N
    <2>2. ledger[i].fee[1] \in 1..(sim.rng - 1) /\ ledger[i].fee[2] = 1
      BY <2>1, OtherIds DEF RecOK, DrawnBefore, Cooked
    <2>3. ledger[i].src[1] = 0 \/ ledger[i].src[2] = 2
      BY <2>1, OriginalId, OtherIds DEF RecOK, DrawnBefore
    <2>4. ledger[i].dst[1] = -1 \/ ledger[i].dst[1] = 0 \/ ledger[i].dst[2] = 2
      BY <2>1, InitialId, OtherIds DEF RecOK, DrawnBefore
    <2> QED
      BY <2>1, <2>2, <2>3, <2>4 DEF RecOK
  <1>3. sim.rng \in Nat
    BY DEF EngineInv, RunInv, Shape
  <1>4. \A i, j \in 1..N : ledger[i].fee = ledger[j].fee => i = j
    BY DEF EngineInv, RunInv, FeesApart, Cooked, N
  <1>5. \A i \in 1..N : ledger[i].ts \in Int
    BY DEF EngineInv, RunInv, InOrder, N
  <1>6. \A i \in 1..N : ledger[i].fee[1] >= 1
    BY <1>2, <1>3
  <1>7. ASSUME NEW i \in 1..N, NEW j \in 1..N
        PROVE  ledger[i].fee # ledger[j].src /\ ledger[i].fee # ledger[j].dst
    BY <1>2, <1>3
  <1> QED
    BY <1>1, <1>2, <1>4, <1>5, <1>6, <1>7

LEMMA CookedFirstUses ==
  ASSUME EngineInv, Cooked
  PROVE  FirstUses = 1..N
  <1>1. ASSUME NEW i \in 1..N PROVE ledger[i].fee \notin ActiveSources(ledger)
    BY Fees DEF ActiveSources, Records, Range
  <1>2. ASSUME NEW i \in 1..N, NEW j \in 1..(i - 1) PROVE ledger[j].fee # ledger[i].fee
    BY Fees
  <1> QED
    BY <1>1, <1>2, Fees DEF FirstUses

(* A funder was there at the start or was drawn by the funding generator.  *)
LEMMA FunderIds ==
  ASSUME EngineInv, NEW a \in AgentsOf(cfg), ~NothingFunded, NEW f \in FundersFor(policy, a)
  PROVE  f[1] <= 0 /\ f[1] \in Int /\ f # External
         /\ (f[1] = 0 => \E b \in AgentsOf(cfg) : f = Initial(b, 1))
  <1>1. cfg \in Configs /\ sim.main[a] = Initial(a, 1)
    BY DEF EngineInv, RunInv, Shape
  <1>2. policy.kind \in {"hub", "dedicated", "relayers"}
    BY <1>1, FundingAssumption DEF NothingFunded, policy
  <1>3. \A j : FundingDraw(j)[1] = -2
    BY DEF FundingDraw
  <1>4. CASE policy.kind = "hub"
    <2>1. f = Initial(a, 1)
      BY <1>1, <1>4 DEF FundersFor
    <2> QED
      BY <2>1, InitialId, OtherIds
  <1>5. CASE policy.kind # "hub"
    <2>1. \E j : f = FundingDraw(j)
      BY <1>2, <1>5 DEF FundersFor, Pool
    <2> QED
      BY <1>3, <2>1, OtherIds
  <1> QED
    BY <1>4, <1>5

(* What the suffix q is, order being the position of the record each of    *)
(* its transfers is for.                                                   *)
FundedBy(q, order) ==
  /\ IsSeq(q) /\ Len(q) = N
  /\ \A m \in 1..N :
       /\ order[m] \in 1..N
       /\ q[m].sig = sim.sig + m /\ q[m].slot = sim.slot + m
       /\ q[m].ts \in Int /\ q[m].ts < ledger[order[m]].ts
       /\ q[m].src \in FundersFor(policy, ledger[order[m]].op)
       /\ q[m].fee = q[m].src /\ q[m].dst = ledger[order[m]].fee
       /\ q[m].op = Label(policy, order[m])
  /\ \A m, n \in 1..N : order[m] = order[n] => m = n
  /\ \A i \in 1..N : \E m \in 1..N : order[m] = i
  /\ \A m, n \in 1..N : m < n => q[m].ts <= q[n].ts

FundInv ==
  /\ funded => Done(cfg, sim)
  /\ ~funded \/ NothingFunded => suffix = << >>
  /\ funded /\ ~NothingFunded => \E order : FundedBy(suffix, order)

LEMMA FundingFunds ==
  ASSUME EngineInv, ~NothingFunded,
         NEW funder \in [FirstUses -> UNION {FundersFor(policy, a) : a \in AgentsOfRun}],
         NEW lead \in [FirstUses -> Leads],
         \A i \in FirstUses : funder[i] \in FundersFor(policy, ledger[i].op),
         NEW order \in TimeOrders({i \in FirstUses : funder[i] # ledger[i].fee}, lead),
         NEW q, q = Appended(policy, order, funder, lead)
  PROVE  FundedBy(q, order)
  <1> DEFINE events == {i \in FirstUses : funder[i] # ledger[i].fee}
  <1>1. Cooked /\ FirstUses = 1..N
    BY CookedFirstUses DEF NothingFunded, Cooked
  <1>2. N \in Nat
    BY <1>1, Fees
  <1>3. \A i \in 1..N : funder[i] # ledger[i].fee
    BY <1>1, Fees, FunderIds
  <1>4. events = 1..N
    BY <1>1, <1>3
  <1>5. Cardinality(events) = N
    <2>1. Cardinality(1..N) = N
      BY <1>2, FS_Interval
    <2> QED
      BY <1>4, <2>1
  <1>6. /\ order \in Bijection(1..N, 1..N)
        /\ \A m, n \in DOMAIN order :
             m < n => FundingAt(order[m], lead[order[m]]) <= FundingAt(order[n], lead[order[n]])
    BY <1>4, <1>5 DEF TimeOrders
  <1>7. /\ order \in [1..N -> 1..N]
        /\ \A m, n \in 1..N : order[m] = order[n] => m = n
        /\ \A i \in 1..N : \E m \in 1..N : order[m] = i
    BY <1>6 DEF Bijection, Injection, Surjection, IsInjective
  <1>8. q = [n \in 1..N |->
          [sig |-> sim.sig + n, slot |-> sim.slot + n,
           ts |-> FundingAt(order[n], lead[order[n]]),
           src |-> funder[order[n]], dst |-> ledger[order[n]].fee, fee |-> funder[order[n]],
           op |-> Label(policy, order[n])]]
    BY <1>7 DEF Appended
  <1>9. IsSeq(q) /\ Len(q) = N
    <2>1. q = [n \in 1..N |-> q[n]]
      BY <1>8
    <2> QED
      BY <1>2, <2>1, ShapeSeq
  <1>10. ASSUME NEW m \in 1..N
         PROVE  /\ order[m] \in 1..N
                /\ q[m].sig = sim.sig + m /\ q[m].slot = sim.slot + m
                /\ q[m].ts = FundingAt(order[m], lead[order[m]])
                /\ q[m].src = funder[order[m]]
                /\ q[m].fee = q[m].src /\ q[m].dst = ledger[order[m]].fee
                /\ q[m].op = Label(policy, order[m])
    BY <1>7, <1>8
  <1>11. ASSUME NEW m \in 1..N
         PROVE  /\ q[m].ts \in Int /\ q[m].ts < ledger[order[m]].ts
                /\ q[m].src \in FundersFor(policy, ledger[order[m]].op)
    <2>1. order[m] \in 1..N /\ lead[order[m]] \in Nat \ {0} /\ ledger[order[m]].ts \in Int
      BY <1>1, <1>10, Fees, FundingAssumption
    <2> QED
      BY <1>1, <1>10, <2>1 DEF FundingAt
  <1>12. \A m, n \in 1..N : m < n => q[m].ts <= q[n].ts
    <2>1. ASSUME NEW m \in 1..N, NEW n \in 1..N, m < n
          PROVE  FundingAt(order[m], lead[order[m]]) <= FundingAt(order[n], lead[order[n]])
      <3>1. DOMAIN order = 1..N
        BY <1>7
      <3>2. \A i, j \in DOMAIN order :
              i < j => FundingAt(order[i], lead[order[i]]) <= FundingAt(order[j], lead[order[j]])
        BY <1>6
      <3> QED
        BY <2>1, <3>1, <3>2
    <2>2. ASSUME NEW m \in 1..N, NEW n \in 1..N, m < n
          PROVE  q[m].ts <= q[n].ts
      BY <1>10, <2>1, <2>2
    <2> QED
      BY <2>2
  <1> QED
    BY <1>7, <1>9, <1>10, <1>11, <1>12 DEF FundedBy

LEMMA FundInvHolds == Spec => [](EngineInv /\ FundInv)
  <1>1. ASSUME Init PROVE FundInv
    BY <1>1 DEF Init, FundInv
  <1>2. ASSUME EngineInv, FundInv, [Next]_vars PROVE FundInv'
    <2>1. ASSUME NEW d \in Draws, Turn(d), UNCHANGED <<suffix, funded>> PROVE FundInv'
      <3>1. ~funded
        BY <1>2, <2>1 DEF FundInv, Turn
      <3> QED
        BY <1>2, <2>1, <3>1 DEF FundInv
    <2>2. ASSUME ApplyFunding PROVE FundInv'
      <3>1. Done(cfg, sim) /\ ~funded /\ funded' /\ cfg' = cfg /\ sim' = sim /\ ledger' = ledger
        BY <2>2 DEF ApplyFunding, engine
      <3>2. CASE NothingFunded
        <4>1. suffix' = suffix /\ suffix = << >> /\ NothingFunded'
          BY <1>2, <2>2, <3>1, <3>2 DEF ApplyFunding, FundInv, NothingFunded, policy
        <4> QED
          BY <3>1, <4>1 DEF FundInv
      <3>3. CASE ~NothingFunded
        <4>1. PICK funder \in [FirstUses -> UNION {FundersFor(policy, a) : a \in AgentsOfRun}],
                   lead \in [FirstUses -> Leads] :
                /\ \A i \in FirstUses : funder[i] \in FundersFor(policy, ledger[i].op)
                /\ \E order \in TimeOrders({i \in FirstUses : funder[i] # ledger[i].fee}, lead) :
                     suffix' = Appended(policy, order, funder, lead)
          BY <2>2, <3>3 DEF ApplyFunding
        <4>2. PICK order \in TimeOrders({i \in FirstUses : funder[i] # ledger[i].fee}, lead) :
                suffix' = Appended(policy, order, funder, lead)
          BY <4>1
        <4>3. FundedBy(suffix', order)
          BY <1>2, <3>3, <4>1, <4>2, FundingFunds
        <4>4. FundedBy(suffix, order)'
          BY <3>1, <4>3 DEF FundedBy, N, FundersFor, policy, Pool, FundingDraw, Label
        <4>5. ~NothingFunded'
          BY <3>1, <3>3 DEF NothingFunded, policy
        <4> QED
          BY <3>1, <4>4, <4>5 DEF FundInv
      <3> QED
        BY <3>2, <3>3
    <2>3. CASE UNCHANGED vars
      <3>1. /\ cfg' = cfg /\ sim' = sim /\ ledger' = ledger
            /\ suffix' = suffix /\ funded' = funded
        BY <2>3 DEF vars, engine
      <3>2. ASSUME NEW order, FundedBy(suffix, order) PROVE FundedBy(suffix, order)'
        BY <3>1, <3>2 DEF FundedBy, N, FundersFor, policy, Pool, FundingDraw, Label
      <3>3. NothingFunded' <=> NothingFunded
        BY <3>1 DEF NothingFunded, policy
      <3> QED
        BY <1>2, <3>1, <3>2, <3>3 DEF FundInv
    <2> QED
      BY <1>2, <2>1, <2>2, <2>3 DEF Next
  <1> QED
    BY <1>1, <1>2, EngineInvInit, EngineInvStep, PTL DEF Spec

(* Every throwaway fee payer of every run is funded once, before it pays,  *)
(* by a funder its operator may have, whatever the policy, the leads drawn *)
(* and the order in which ties are sorted (apply_funding).                 *)
THEOREM FundedOnceBeforeEveryUse == Spec => []FundedOnceBeforeUse
  <1>1. ASSUME EngineInv, FundInv PROVE FundedOnceBeforeUse
    <2>1. SUFFICES ASSUME funded, ~NothingFunded
                   PROVE  /\ \A r \in Range(ledger) :
                               LET fundings == {n \in DOMAIN suffix : suffix[n].dst = r.fee}
                               IN /\ Cardinality(fundings) = 1
                                  /\ \A n \in fundings :
                                       /\ suffix[n].ts < r.ts
                                       /\ suffix[n].src \in FundersFor(policy, r.op)
                          /\ \A q \in Range(suffix) : \E r \in Range(ledger) : r.fee = q.dst
                          /\ \A n \in DOMAIN Returned : Returned[n].sig = n /\ Returned[n].slot = n
                          /\ \A m, n \in DOMAIN suffix : m < n => suffix[m].ts <= suffix[n].ts
      BY DEF FundedOnceBeforeUse
    <2>2. PICK order : FundedBy(suffix, order)
      BY <1>1, <2>1 DEF FundInv
    <2>3. /\ N \in Nat /\ DOMAIN ledger = 1..N /\ N = Len(ledger)
          /\ \A i, j \in 1..N : ledger[i].fee = ledger[j].fee => i = j
      BY <1>1, <2>1, Fees DEF NothingFunded, Cooked, N
    <2>4. DOMAIN suffix = 1..N /\ IsSeq(suffix) /\ Len(suffix) = N
      BY <2>2, SeqShape DEF FundedBy
    <2>5. ASSUME NEW i \in 1..N
          PROVE  LET fundings == {n \in DOMAIN suffix : suffix[n].dst = ledger[i].fee}
                 IN /\ Cardinality(fundings) = 1
                    /\ \A n \in fundings : /\ suffix[n].ts < ledger[i].ts
                                           /\ suffix[n].src \in FundersFor(policy, ledger[i].op)
      <3> DEFINE fundings == {n \in DOMAIN suffix : suffix[n].dst = ledger[i].fee}
      <3>1. PICK m \in 1..N : order[m] = i
        BY <2>2 DEF FundedBy
      <3>2. ASSUME NEW n \in 1..N PROVE suffix[n].dst = ledger[i].fee <=> n = m
        <4>1. order[n] \in 1..N /\ suffix[n].dst = ledger[order[n]].fee
          BY <2>2 DEF FundedBy
        <4>2. ledger[order[n]].fee = ledger[i].fee <=> order[n] = i
          BY <2>3, <4>1
        <4>3. order[n] = i <=> n = m
          BY <2>2, <3>1 DEF FundedBy
        <4> QED
          BY <4>1, <4>2, <4>3
      <3>3. fundings = {m}
        BY <2>4, <3>2
      <3>4. suffix[m].ts < ledger[i].ts /\ suffix[m].src \in FundersFor(policy, ledger[i].op)
        BY <2>2, <3>1 DEF FundedBy
      <3> HIDE DEF fundings
      <3>5. Cardinality(fundings) = 1 /\ \A n \in fundings : n = m
        BY <3>3, FS_Singleton
      <3>6. \A n \in fundings : /\ suffix[n].ts < ledger[i].ts
                                /\ suffix[n].src \in FundersFor(policy, ledger[i].op)
        BY <3>4, <3>5
      <3> QED
        BY <3>5, <3>6 DEF fundings
    <2>6. ASSUME NEW r \in Range(ledger)
          PROVE  LET fundings == {n \in DOMAIN suffix : suffix[n].dst = r.fee}
                 IN /\ Cardinality(fundings) = 1
                    /\ \A n \in fundings : /\ suffix[n].ts < r.ts
                                           /\ suffix[n].src \in FundersFor(policy, r.op)
      <3>1. PICK i \in 1..N : r = ledger[i]
        BY <2>3 DEF Range
      <3> QED
        BY <2>5, <3>1
    <2>7. ASSUME NEW q \in Range(suffix) PROVE \E r \in Range(ledger) : r.fee = q.dst
      <3>1. PICK m \in 1..N : q = suffix[m]
        BY <2>4 DEF Range
      <3>2. order[m] \in 1..N /\ suffix[m].dst = ledger[order[m]].fee
        BY <2>2 DEF FundedBy
      <3> QED
        BY <2>3, <3>1, <3>2 DEF Range
    <2>8. ASSUME NEW n \in DOMAIN Returned PROVE Returned[n].sig = n /\ Returned[n].slot = n
      <3>1. /\ N = sim.sig /\ sim.slot = sim.sig
            /\ \A i \in 1..N : ledger[i].sig = i /\ ledger[i].slot = i
        BY <1>1, <2>3 DEF EngineInv, RunInv, Numbered
      <3>2. /\ IsSeq(Returned) /\ Len(Returned) = N + N
            /\ \A i \in 1..(N + N) : Returned[i] = IF i <= N THEN ledger[i] ELSE suffix[i - N]
        BY <1>1, <2>3, <2>4, ConcatSeq DEF Returned, EngineInv, RunInv
      <3>3. n \in 1..(N + N)
        BY <3>2, SeqShape
      <3>4. CASE n <= N
        <4>1. n \in 1..N /\ n \in 1..(N + N) /\ Returned[n] = ledger[n]
          BY <2>3, <3>2, <3>3, <3>4
        <4> QED
          BY <3>1, <4>1
      <3>5. CASE n > N
        <4>1. n - N \in 1..N /\ Returned[n] = suffix[n - N]
          BY <2>3, <3>2, <3>3, <3>5
        <4>2. suffix[n - N].sig = sim.sig + (n - N) /\ suffix[n - N].slot = sim.slot + (n - N)
          BY <2>2, <4>1 DEF FundedBy
        <4>3. N + (n - N) = n
          BY <2>3, <3>3
        <4> QED
          BY <3>1, <4>1, <4>2, <4>3
      <3> QED
        BY <2>3, <3>3, <3>4, <3>5
    <2>9. \A m, n \in DOMAIN suffix : m < n => suffix[m].ts <= suffix[n].ts
      BY <2>2, <2>4 DEF FundedBy
    <2> QED
      BY <2>6, <2>7, <2>8, <2>9
  <1> QED
    BY <1>1, FundInvHolds, PTL

(* The records of the returned ledger are the engine's and the suffix's,   *)
(* and in a funded run its fee payers are the engine's and the funders.    *)
LEMMA ReturnedShape ==
  ASSUME EngineInv, IsSeq(suffix)
  PROVE  /\ IsSeq(Returned) /\ N \in Nat /\ Len(suffix) \in Nat
         /\ DOMAIN Returned = 1..(N + Len(suffix)) /\ DOMAIN ledger = 1..N
         /\ DOMAIN suffix = 1..Len(suffix)
         /\ \A i \in 1..N : Returned[i] = ledger[i]
         /\ \A i \in (N + 1)..(N + Len(suffix)) :
              i - N \in 1..Len(suffix) /\ Returned[i] = suffix[i - N]
         /\ Range(Returned) = Range(ledger) \cup Range(suffix)
  <1>1. IsSeq(ledger) /\ N \in Nat /\ N = Len(ledger) /\ DOMAIN ledger = 1..N
    BY SeqShape DEF EngineInv, RunInv, N
  <1>2. Len(suffix) \in Nat /\ DOMAIN suffix = 1..Len(suffix)
    BY SeqShape
  <1> DEFINE K == Len(suffix)
  <1> HIDE DEF K
  <1>3. /\ IsSeq(Returned) /\ Len(Returned) = N + K
        /\ \A i \in 1..(N + K) : Returned[i] = IF i <= N THEN ledger[i] ELSE suffix[i - N]
    BY <1>1, ConcatSeq DEF Returned, K
  <1>4. K \in Nat /\ DOMAIN suffix = 1..K
    BY <1>2 DEF K
  <1>5. DOMAIN Returned = 1..(N + K)
    BY <1>3, SeqShape
  <1>6. \A i \in 1..N : i \in 1..(N + K) /\ Returned[i] = ledger[i]
    BY <1>1, <1>3, <1>4
  <1>7. ASSUME NEW i \in (N + 1)..(N + K)
        PROVE  i - N \in 1..K /\ Returned[i] = suffix[i - N]
    <2>1. i \in 1..(N + K) /\ ~(i <= N) /\ i - N \in 1..K
      BY <1>1, <1>4
    <2> QED
      BY <1>3, <2>1
  <1>8. ASSUME NEW j \in 1..K PROVE N + j \in 1..(N + K) /\ Returned[N + j] = suffix[j]
    <2> DEFINE i == N + j
    <2>1. i \in (N + 1)..(N + K) /\ i - N = j /\ i \in 1..(N + K)
      BY <1>1, <1>4
    <2> HIDE DEF i
    <2>2. Returned[i] = suffix[j]
      BY <1>7, <2>1
    <2> QED
      BY <2>1, <2>2 DEF i
  <1>9. ASSUME NEW i \in 1..(N + K) PROVE i \in 1..N \/ i \in (N + 1)..(N + K)
    BY <1>1, <1>4
  <1>10. Range(Returned) = Range(ledger) \cup Range(suffix)
    <2>1. ASSUME NEW r \in Range(Returned) PROVE r \in Range(ledger) \cup Range(suffix)
      <3>1. PICK i \in 1..(N + K) : r = Returned[i]
        BY <1>5 DEF Range
      <3>2. CASE i \in 1..N
        BY <1>1, <1>6, <3>1, <3>2 DEF Range
      <3>3. CASE i \in (N + 1)..(N + K)
        BY <1>4, <1>7, <3>1, <3>3 DEF Range
      <3> QED
        BY <1>9, <3>2, <3>3
    <2>2. ASSUME NEW r \in Range(ledger) PROVE r \in Range(Returned)
      BY <1>1, <1>5, <1>6 DEF Range
    <2>3. ASSUME NEW r \in Range(suffix) PROVE r \in Range(Returned)
      BY <1>4, <1>5, <1>8 DEF Range
    <2> QED
      BY <2>1, <2>2, <2>3
  <1> QED
    BY <1>1, <1>3, <1>4, <1>5, <1>6, <1>7, <1>10 DEF K

(* No record of the engine looks like a funding transfer.                  *)
LEMMA EngineFundsNothing ==
  ASSUME EngineInv, NEW r \in Range(ledger)
  PROVE  /\ Cooked => r.fee # r.src /\ r.dst \notin FeePayers(ledger)
         /\ ~Cooked => ~IsFunding(ledger, r)
  <1>1. DOMAIN ledger = 1..N
    BY SeqShape DEF EngineInv, RunInv, N
  <1>2. PICK i \in 1..N : r = ledger[i]
    BY <1>1 DEF Range
  <1>3. ASSUME Cooked PROVE r.fee # r.src /\ r.dst \notin FeePayers(ledger)
    <2>1. r.fee # r.src /\ \A j \in 1..N : ledger[j].fee # r.dst
      BY <1>2, <1>3, Fees
    <2> QED
      BY <1>1, <2>1 DEF FeePayers, Records, Range
  <1>4. ASSUME ~Cooked, IsFunding(ledger, r) PROVE FALSE
    <2>1. \A j \in 1..N : RecOK(cfg, sim.rng, ledger[j])
      BY DEF EngineInv, RunInv, RecsOK, N
    <2>2. \A j \in 1..N : ledger[j].fee = Initial(ledger[j].op, 1)
      BY <1>4, <2>1 DEF RecOK, Cooked
    <2>3. r.dst = External \/ r.dst = Initial(r.op, 1)
      BY <1>2, <1>4, <2>1 DEF RecOK, Cooked
    <2>4. PICK j \in 1..N : r.dst = ledger[j].fee
      BY <1>1, <1>4 DEF IsFunding, FeePayers, Records, Range
    <2>5. r.dst # External
      BY <2>2, <2>4, InitialId, OtherIds
    <2> QED
      BY <1>2, <1>4, <2>2, <2>3, <2>5 DEF IsFunding
  <1> QED
    BY <1>3, <1>4

(* The records that the metric counts as funding are the appended ones.    *)
LEMMA SuffixIsFunding ==
  ASSUME EngineInv, FundInv
  PROVE  FundingRecords(Returned) = Len(suffix)
  <1> DEFINE R == Returned
             hits == {i \in DOMAIN R : IsFunding(R, R[i])}
  <1>1. CASE suffix = << >>
    <2>1. IsSeq(suffix) /\ Len(suffix) = 0
      BY <1>1, NoElements
    <2>2. R = ledger
      BY <1>1, ConcatEmpty DEF Returned, EngineInv, RunInv
    <2>3. ASSUME NEW i \in DOMAIN ledger PROVE ~IsFunding(ledger, ledger[i])
      <3>1. ledger[i] \in Range(ledger)
        BY DEF Range
      <3> QED
        BY <3>1, EngineFundsNothing DEF IsFunding
    <2>4. hits = {}
      BY <2>2, <2>3
    <2> QED
      BY <2>1, <2>4, FS_EmptySet DEF FundingRecords
  <1>2. CASE suffix # << >>
    <2>1. funded /\ ~NothingFunded /\ Cooked
      BY <1>2 DEF FundInv, NothingFunded, Cooked
    <2>2. PICK order : FundedBy(suffix, order)
      BY <2>1 DEF FundInv
    <2>3. IsSeq(suffix) /\ Len(suffix) = N
      BY <2>2 DEF FundedBy
    <2>4. /\ N \in Nat /\ DOMAIN R = 1..(N + N) /\ DOMAIN ledger = 1..N
          /\ \A i \in 1..N : R[i] = ledger[i]
          /\ \A i \in (N + 1)..(N + N) : i - N \in 1..N /\ R[i] = suffix[i - N]
          /\ Range(R) = Range(ledger) \cup Range(suffix)
      BY <2>3, ReturnedShape
    <2> HIDE DEF R
    <2>5. ASSUME NEW i \in 1..N PROVE ~IsFunding(R, R[i])
      <3>1. R[i] = ledger[i] /\ ledger[i] \in Range(ledger)
        BY <2>4 DEF Range
      <3> QED
        BY <2>1, <3>1, EngineFundsNothing DEF IsFunding
    <2>6. ASSUME NEW i \in (N + 1)..(N + N) PROVE IsFunding(R, R[i])
      <3> DEFINE m == i - N
      <3>1. m \in 1..N /\ R[i] = suffix[m]
        BY <2>4
      <3> HIDE DEF m
      <3>2. /\ order[m] \in 1..N /\ suffix[m].fee = suffix[m].src
            /\ suffix[m].dst = ledger[order[m]].fee
            /\ suffix[m].src \in FundersFor(policy, ledger[order[m]].op)
        BY <2>2, <3>1 DEF FundedBy
      <3>3. ledger[order[m]].fee[1] >= 1 /\ ledger[order[m]].op \in AgentsOf(cfg)
        BY <2>1, <3>2, Fees
      <3>4. suffix[m].src[1] <= 0 /\ suffix[m].src[1] \in Int
        BY <2>1, <3>2, <3>3, FunderIds
      <3>5. suffix[m].dst \in FeePayers(R)
        <4>1. ledger[order[m]] \in Range(R)
          BY <2>4, <3>2 DEF Range
        <4> QED
          BY <3>2, <4>1 DEF FeePayers, Records
      <3> QED
        BY <3>1, <3>2, <3>3, <3>4, <3>5 DEF IsFunding
    <2>7. \A i \in 1..(N + N) : i \in 1..N \/ i \in (N + 1)..(N + N)
      BY <2>4
    <2>8. (N + 1)..(N + N) \subseteq 1..(N + N)
      BY <2>4
    <2>9. hits = (N + 1)..(N + N)
      BY <2>4, <2>5, <2>6, <2>7, <2>8
    <2>10. Cardinality((N + 1)..(N + N)) = N
      <3>1. N + 1 \in Int /\ N + N \in Int /\ (N + N) - (N + 1) + 1 = N
        BY <2>4
      <3>2. Cardinality((N + 1)..(N + N)) = IF N + 1 > N + N THEN 0 ELSE (N + N) - (N + 1) + 1
        BY <3>1, FS_Interval
      <3> QED
        BY <2>4, <3>1, <3>2
    <2> QED
      BY <2>3, <2>9, <2>10 DEF FundingRecords, R
  <1> QED
    BY <1>1, <1>2

(* Whom a funder funds in the returned ledger: the fee payers the suffix   *)
(* says, or one treasury and nobody else.                                  *)
Fundees(f) == {e[2] : e \in {x \in FundingEdges(Returned) : x[1] = f}}
Assigned(f) == {q.dst : q \in {x \in Range(suffix) : x.src = f}}

(* The post-pass pays from accounts that were never drawn by a wake.       *)
LEMMA SuffixRecords ==
  ASSUME EngineInv, ~NothingFunded, NEW order, FundedBy(suffix, order), NEW q \in Range(suffix)
  PROVE  /\ q.fee = q.src /\ q.src[1] <= 0 /\ q.src[1] \in Int
         /\ q.src[1] = 0 => \E b \in AgentsOf(cfg) : q.src = Initial(b, 1)
         /\ q.src # External
         /\ q.dst[1] >= 1 /\ \E r \in Range(ledger) : q.dst = r.fee
  <1>1. Cooked
    BY DEF NothingFunded, Cooked
  <1>2. /\ N \in Nat /\ DOMAIN ledger = 1..N /\ DOMAIN suffix = 1..N
        /\ Range(Returned) = Range(ledger) \cup Range(suffix)
    BY ReturnedShape DEF FundedBy
  <1>3. PICK m \in 1..N : q = suffix[m]
    BY <1>2 DEF Range
  <1>4. /\ order[m] \in 1..N /\ q.fee = q.src /\ q.dst = ledger[order[m]].fee
        /\ q.src \in FundersFor(policy, ledger[order[m]].op)
    BY <1>3 DEF FundedBy
  <1>5. ledger[order[m]].fee[1] >= 1 /\ ledger[order[m]].op \in AgentsOf(cfg)
    BY <1>1, <1>4, Fees
  <1>6. /\ q.src[1] <= 0 /\ q.src[1] \in Int /\ q.src # External
        /\ q.src[1] = 0 => \E b \in AgentsOf(cfg) : q.src = Initial(b, 1)
    BY <1>4, <1>5, FunderIds
  <1>7. ledger[order[m]] \in Range(ledger)
    BY <1>2, <1>4 DEF Range
  <1> QED
    BY <1>4, <1>5, <1>6, <1>7

(* The only account of a fleet that is a fee payer of the returned ledger  *)
(* and a destination of the engine's is a treasury.                        *)
LEMMA TreasuryPaid ==
  ASSUME EngineInv, ~NothingFunded, NEW order, FundedBy(suffix, order),
         NEW r \in Range(ledger), r.dst \in FeePayers(Returned)
  PROVE  \E k : k \in 2..cfg.subs[r.op] /\ r.src = Initial(r.op, k) /\ r.dst = Initial(r.op, 1)
  <1>1. Cooked
    BY DEF NothingFunded, Cooked
  <1>2. /\ N \in Nat /\ DOMAIN ledger = 1..N
        /\ Range(Returned) = Range(ledger) \cup Range(suffix)
    BY ReturnedShape DEF FundedBy
  <1>3. r.dst \notin FeePayers(ledger)
    BY <1>1, EngineFundsNothing
  <1>4. PICK q \in Range(suffix) : r.dst = q.fee
    BY <1>2, <1>3 DEF FeePayers, Records
  <1>5. r.dst[1] <= 0 /\ r.dst # External
    BY <1>4, SuffixRecords
  <1>6. RecOK(cfg, sim.rng, r)
    BY <1>2 DEF EngineInv, RunInv, RecsOK, Range, N
  <1>7. ~DrawnBefore(r.dst, SuccessorRole, sim.rng)
    BY <1>5 DEF DrawnBefore, EngineInv, RunInv, Shape
  <1> QED
    BY <1>5, <1>6, <1>7 DEF RecOK

LEMMA FundeesAreAssigned ==
  ASSUME EngineInv, funded, ~NothingFunded, NEW order, FundedBy(suffix, order), NEW f
  PROVE  \/ Fundees(f) = Assigned(f)
         \/ /\ \E d : Fundees(f) \subseteq {d}
            /\ \E b, k : k # 1 /\ f = Initial(b, k)
  <1>1. Cooked
    BY DEF NothingFunded, Cooked
  <1>2. /\ N \in Nat /\ DOMAIN ledger = 1..N /\ DOMAIN suffix = 1..N
        /\ Range(Returned) = Range(ledger) \cup Range(suffix)
    BY ReturnedShape DEF FundedBy
  <1>3. ASSUME NEW q \in Range(suffix)
        PROVE  /\ q.src[1] <= 0 /\ q.src[1] \in Int
               /\ q.src[1] = 0 => \E b \in AgentsOf(cfg) : q.src = Initial(b, 1)
               /\ q.dst[1] >= 1 /\ \E r \in Range(ledger) : q.dst = r.fee
    BY SuffixRecords
  <1>4. ASSUME NEW r \in Range(ledger), r.dst \in FeePayers(Returned)
        PROVE  \E k : k \in 2..cfg.subs[r.op] /\ r.src = Initial(r.op, k) /\ r.dst = Initial(r.op, 1)
    BY <1>4, TreasuryPaid
  <1>5. ASSUME NEW d
        PROVE  d \in Fundees(f) <=>
                 \E r \in Range(Returned) : /\ r.src = f /\ r.dst = d /\ f # d
                                            /\ d \in FeePayers(Returned)
    <2>1. \A e \in FundingEdges(Returned) : e = <<e[1], e[2]>>
      BY DEF FundingEdges
    <2>2. d \in Fundees(f) <=> <<f, d>> \in FundingEdges(Returned)
      BY <2>1 DEF Fundees
    <2>3. ASSUME <<f, d>> \in FundingEdges(Returned)
          PROVE  \E r \in Range(Returned) : /\ r.src = f /\ r.dst = d /\ f # d
                                            /\ d \in FeePayers(Returned)
      <3>1. PICK r \in Range(Returned) : /\ r.src # r.dst /\ r.dst \in FeePayers(Returned)
                                         /\ <<f, d>> = <<r.src, r.dst>>
        BY <2>3 DEF FundingEdges, Records
      <3> QED
        BY <3>1
    <2>4. ASSUME NEW r \in Range(Returned), r.src = f, r.dst = d, f # d, d \in FeePayers(Returned)
          PROVE  <<f, d>> \in FundingEdges(Returned)
      BY <2>4 DEF FundingEdges, Records
    <2> QED
      BY <2>2, <2>3, <2>4
  <1>6. Assigned(f) \subseteq Fundees(f)
    <2>1. SUFFICES ASSUME NEW q \in Range(suffix), q.src = f PROVE q.dst \in Fundees(f)
      BY DEF Assigned
    <2>2. PICK r \in Range(ledger) : q.dst = r.fee
      BY <1>3
    <2>3. q.dst \in FeePayers(Returned)
      BY <1>2, <2>2 DEF FeePayers, Records
    <2>4. q.dst # f /\ q \in Range(Returned)
      BY <1>2, <1>3, <2>1
    <2> QED
      BY <1>5, <2>1, <2>3, <2>4
  <1>7. CASE \E r \in Range(ledger) : r.src = f /\ r.dst \in FeePayers(Returned)
    <2>1. PICK r \in Range(ledger) : r.src = f /\ r.dst \in FeePayers(Returned)
      BY <1>7
    <2>2. PICK k : k \in 2..cfg.subs[r.op] /\ f = Initial(r.op, k)
      BY <1>4, <2>1
    <2>3. ASSUME NEW d \in Fundees(f) PROVE d = Initial(r.op, 1)
      <3>1. PICK x \in Range(Returned) : x.src = f /\ x.dst = d /\ d \in FeePayers(Returned)
        BY <1>5
      <3>2. CASE x \in Range(suffix)
        <4>1. f[1] = 0 /\ f[3] = k /\ k # 1
          BY <2>2, InitialId
        <4>2. PICK b \in AgentsOf(cfg) : f = Initial(b, 1)
          BY <1>3, <3>1, <3>2, <4>1
        <4> QED
          BY <4>1, <4>2, InitialId
      <3>3. CASE x \in Range(ledger)
        <4>1. PICK m : x.src = Initial(x.op, m) /\ x.dst = Initial(x.op, 1)
          BY <1>4, <3>1, <3>3
        <4>2. f[2] = x.op /\ f[2] = r.op
          <5>1. Initial(x.op, m)[2] = x.op /\ Initial(r.op, k)[2] = r.op
            BY InitialId
          <5> QED
            BY <2>2, <3>1, <4>1, <5>1
        <4> QED
          BY <3>1, <4>1, <4>2
      <3> QED
        BY <1>2, <3>1, <3>2, <3>3
    <2>4. k # 1
      BY <2>2
    <2> QED
      BY <2>2, <2>3, <2>4
  <1>8. CASE ~\E r \in Range(ledger) : r.src = f /\ r.dst \in FeePayers(Returned)
    <2>1. ASSUME NEW d \in Fundees(f) PROVE d \in Assigned(f)
      <3>1. PICK x \in Range(Returned) : x.src = f /\ x.dst = d /\ d \in FeePayers(Returned)
        BY <1>5
      <3>2. x \in Range(suffix)
        BY <1>2, <1>8, <3>1
      <3> QED
        BY <3>1, <3>2 DEF Assigned
    <2> QED
      BY <1>6, <2>1
  <1> QED
    BY <1>7, <1>8

(* The metric reads the funding graph right: of a cooked run it counts the *)
(* appended transfers and nothing else, and the operators it finds behind  *)
(* a funder are the ones whose fee payers that funder paid for, under      *)
(* every policy (funding_in_ledger, funding_layer_metric).                 *)
THEOREM MetricSeesFundingRight == Spec => []MetricSeesFunding
  <1>1. ASSUME EngineInv, FundInv PROVE MetricSeesFunding
    <2>1. FundingRecords(Returned) = Len(suffix)
      BY <1>1, SuffixIsFunding
    <2>2. ASSUME cfg.mode # "naive" PROVE FundingEdges(ledger) = {}
      BY <1>1, <2>2, EngineFundsNothing DEF FundingEdges, Records, Cooked
    <2>3. ASSUME funded, ~NothingFunded, NEW f \in DOMAIN AnonymitySets(Returned)
          PROVE  AnonymitySets(Returned)[f] =
                   {r.op : r \in {q \in Range(ledger) : \E s \in Range(suffix) :
                                    s.src = f /\ s.dst = q.fee}}
      <3>1. Cooked
        BY <2>3 DEF NothingFunded, Cooked
      <3>2. PICK order : FundedBy(suffix, order)
        BY <1>1, <2>3 DEF FundInv
      <3>3. /\ Cardinality(Fundees(f)) >= 2
            /\ AnonymitySets(Returned)[f] = OperatorsBehind(Returned, Fundees(f))
        BY <2>3 DEF AnonymitySets, Fundees
      <3>4. ASSUME NEW d, Fundees(f) \subseteq {d} PROVE FALSE
        <4>1. IsFiniteSet({d}) /\ Cardinality({d}) = 1
          BY FS_Singleton
        <4>2. Cardinality(Fundees(f)) <= 1 /\ IsFiniteSet(Fundees(f))
          BY <3>4, <4>1, FS_Subset
        <4>3. Cardinality(Fundees(f)) \in Nat
          BY <4>2, FS_CardinalityType
        <4> QED
          BY <3>3, <4>2, <4>3
      <3>5. Fundees(f) = Assigned(f)
        BY <1>1, <2>3, <3>2, <3>4, FundeesAreAssigned
      <3>6. /\ DOMAIN ledger = 1..N /\ DOMAIN suffix = 1..N
            /\ Range(Returned) = Range(ledger) \cup Range(suffix)
        BY <1>1, <3>2, ReturnedShape DEF FundedBy
      <3>7. ASSUME NEW q \in Range(suffix) PROVE q.fee = q.src
        BY <3>2, <3>6 DEF FundedBy, Range
      <3>8. ASSUME NEW r \in Range(ledger) PROVE r.fee # r.src /\ r.op # NoOperator
        <4>1. r.op \in 1..Len(cfg.subs)
          BY <1>1, <3>1, <3>6, Fees DEF Range, AgentsOf
        <4> QED
          BY <1>1, <3>1, <4>1, EngineFundsNothing DEF NoOperator
      <3>9. OperatorsBehind(Returned, Assigned(f)) =
              {r.op : r \in {q \in Range(ledger) : q.fee \in Assigned(f)}}
        BY <3>6, <3>7, <3>8 DEF OperatorsBehind, Records
      <3>10. {q \in Range(ledger) : q.fee \in Assigned(f)} =
             {q \in Range(ledger) : \E s \in Range(suffix) : s.src = f /\ s.dst = q.fee}
        BY DEF Assigned
      <3> QED
        BY <3>3, <3>5, <3>9, <3>10
    <2> QED
      BY <2>1, <2>2, <2>3 DEF MetricSeesFunding
  <1> QED
    BY <1>1, FundInvHolds, PTL

-----------------------------------------------------------------------------
(* Reachability over links: the sets that ClusterOf computes.              *)
Reaching(links, x, n, f) ==
  f = [m \in 0..n |-> IF m = 0 THEN {x} ELSE Linked(links, f[m - 1])]

LEMMA ReachingExists ==
  ASSUME NEW links, NEW x, NEW n \in Nat
  PROVE  \E f : Reaching(links, x, n, f)
  <1> DEFINE T == {m \in Nat : ~\E f : Reaching(links, x, m, f)}
  <1>1. SUFFICES ASSUME T # {} PROVE FALSE
    OBVIOUS
  <1>2. PICK k \in T : \A y \in T : k <= y
    BY <1>1, LeastElement
  <1>3. k # 0
    <2> DEFINE e == [m \in 0..0 |-> {x}]
    <2>1. Reaching(links, x, 0, e)
      BY DEF Reaching
    <2> QED
      BY <2>1
  <1>4. k - 1 \in Nat /\ k - 1 \notin T
    BY <1>2, <1>3
  <1>5. PICK f : Reaching(links, x, k - 1, f)
    BY <1>4
  <1> DEFINE g == [m \in 0..k |-> IF m < k THEN f[m] ELSE Linked(links, f[m - 1])]
  <1>6. ASSUME NEW m \in 0..k
        PROVE  g[m] = IF m = 0 THEN {x} ELSE Linked(links, g[m - 1])
    <2>1. m < k => m \in 0..(k - 1)
      BY <1>4
    <2>2. m < k => f[m] = IF m = 0 THEN {x} ELSE Linked(links, f[m - 1])
      BY <1>5, <2>1 DEF Reaching
    <2>3. m # 0 => m - 1 \in 0..k /\ m - 1 < k
      BY <1>4
    <2>4. m = k => m # 0
      BY <1>3
    <2>5. m < k \/ m = k
      BY <1>4
    <2> QED
      BY <2>2, <2>3, <2>4, <2>5
  <1>7. Reaching(links, x, k, g)
    BY <1>6 DEF Reaching
  <1> QED
    BY <1>2, <1>7

LEMMA ClusterReaches ==
  ASSUME NEW links, NEW x, NEW n \in Nat
  PROVE  \E f : Reaching(links, x, n, f) /\ ClusterOf(links, x, n) = f[n]
  <1> DEFINE f == CHOOSE g : Reaching(links, x, n, g)
  <1>1. Reaching(links, x, n, f)
    BY ReachingExists
  <1>2. ClusterOf(links, x, n) = f[n]
    BY DEF ClusterOf, Reaching
  <1> QED
    BY <1>1, <1>2

(* What no link leaves is not left.                                        *)
LEMMA ReachStays ==
  ASSUME NEW links, NEW x, NEW n \in Nat, NEW B, x \in B,
         \A l \in links : l[1] \in B <=> l[2] \in B
  PROVE  ClusterOf(links, x, n) \subseteq B
  <1>1. PICK f : Reaching(links, x, n, f) /\ ClusterOf(links, x, n) = f[n]
    BY ClusterReaches
  <1> DEFINE T == {m \in Nat : m \in 0..n /\ ~(f[m] \subseteq B)}
  <1>2. T = {}
    <2>1. SUFFICES ASSUME T # {} PROVE FALSE
      OBVIOUS
    <2>2. PICK k \in T : \A m \in T : k <= m
      BY <2>1, LeastElement
    <2>3. f[k] = IF k = 0 THEN {x} ELSE Linked(links, f[k - 1])
      BY <1>1 DEF Reaching
    <2>4. k # 0
      BY <2>3
    <2>5. k - 1 \in Nat /\ k - 1 \in 0..n /\ ~(k <= k - 1)
      BY <2>4
    <2>6. f[k - 1] \subseteq B
      BY <2>2, <2>5
    <2>7. Linked(links, f[k - 1]) \subseteq B
      BY <2>6 DEF Linked
    <2> QED
      BY <2>3, <2>4, <2>7
  <1>3. n \in 0..n
    OBVIOUS
  <1> QED
    BY <1>1, <1>2, <1>3

(* What is reached stays reached.                                          *)
LEMMA ReachKeeps ==
  ASSUME NEW links, NEW x, NEW n \in Nat, NEW f, Reaching(links, x, n, f),
         NEW j \in 0..n, NEW y \in f[j]
  PROVE  y \in f[n]
  <1> DEFINE T == {m \in Nat : m \in j..n /\ y \notin f[m]}
  <1>1. T = {}
    <2>1. SUFFICES ASSUME T # {} PROVE FALSE
      OBVIOUS
    <2>2. PICK k \in T : \A m \in T : k <= m
      BY <2>1, LeastElement
    <2>3. k # j
      BY <2>2
    <2>4. k \in 0..n /\ k # 0 /\ k - 1 \in Nat /\ k - 1 \in j..n /\ ~(k <= k - 1)
      BY <2>2, <2>3
    <2>5. f[k] = Linked(links, f[k - 1])
      BY <2>4 DEF Reaching
    <2>6. y \in f[k - 1]
      BY <2>2, <2>4
    <2> QED
      BY <2>2, <2>5, <2>6 DEF Linked
  <1>2. n \in j..n
    OBVIOUS
  <1> QED
    BY <1>1, <1>2

(* Two links from one account bring together whatever they lead to.        *)
LEMMA ReachJoins ==
  ASSUME NEW links, NEW x, NEW y, NEW h, NEW n \in Nat,
         x # y => n >= 2 /\ <<h, x>> \in links /\ <<h, y>> \in links
  PROVE  y \in ClusterOf(links, x, n)
  <1>1. PICK f : Reaching(links, x, n, f) /\ ClusterOf(links, x, n) = f[n]
    BY ClusterReaches
  <1>2. 0 \in 0..n /\ f[0] = {x}
    BY <1>1 DEF Reaching
  <1>3. CASE x = y
    BY <1>1, <1>2, <1>3, ReachKeeps
  <1>4. CASE x # y
    <2>1. 1 \in 0..n /\ 2 \in 0..n
      BY <1>4
    <2>2. f[1] = Linked(links, f[0]) /\ f[2] = Linked(links, f[1])
      <3>1. \A m \in 0..n : m # 0 => f[m] = Linked(links, f[m - 1])
        BY <1>1 DEF Reaching
      <3>2. 1 - 1 = 0 /\ 2 - 1 = 1
        OBVIOUS
      <3>3. f[1] = Linked(links, f[1 - 1]) /\ f[2] = Linked(links, f[2 - 1])
        BY <2>1, <3>1
      <3> QED
        BY <3>2, <3>3
    <2>3. h \in f[1]
      BY <1>2, <1>4, <2>2 DEF Linked
    <2>4. y \in f[2]
      BY <1>4, <2>2, <2>3 DEF Linked
    <2> QED
      BY <1>1, <2>1, <2>4, ReachKeeps
  <1> QED
    BY <1>3, <1>4

-----------------------------------------------------------------------------
(* The accounts that are one agent's for an analyst of payers and funders: *)
(* those it signed with, those that paid its fees, and those that may fund *)
(* them.  No account is two agents'.                                       *)
RealmOf(a) ==
  {r.src : r \in {q \in Range(ledger) : q.op = a}} \cup
  {r.fee : r \in {q \in Range(ledger) : q.op = a}} \cup {Initial(a, 1), FundingDraw(a)}

(* All that can be told of whose an account is says that it is a's.        *)
Tells(x, a) ==
  /\ \A r \in Range(ledger) : r.src = x \/ r.fee = x => r.op = a
  /\ \A b \in AgentsOf(cfg) : x = Initial(b, 1) \/ x = FundingDraw(b) => b = a

LEMMA LedgerRecords ==
  ASSUME EngineInv
  PROVE  /\ \A r \in Range(ledger) : RecOK(cfg, sim.rng, r)
         /\ \A r, q \in Range(ledger) : r.src = q.src => r.op = q.op
         /\ \A r \in Range(ledger) : \A b \in AgentsOf(cfg) : r.src = Initial(b, 1) => b = r.op
         /\ Cooked => \A r, q \in Range(ledger) : r.fee = q.fee => r.op = q.op
  <1>1. DOMAIN ledger = 1..Len(ledger) /\ cfg \in Configs /\ Shape(cfg, sim)
    BY SeqShape DEF EngineInv, RunInv
  <1>2. /\ RecsOK(cfg, sim, ledger) /\ FeesApart(cfg, ledger) /\ OneSigner(cfg, sim, ledger)
    BY DEF EngineInv, RunInv
  <1>3. \A r \in Range(ledger) : RecOK(cfg, sim.rng, r)
    BY <1>1, <1>2 DEF RecsOK, Range
  <1>4. \A r, q \in Range(ledger) : r.src = q.src => r.op = q.op
    BY <1>1, <1>2 DEF OneSigner, Range
  <1>5. Cooked => \A r, q \in Range(ledger) : r.fee = q.fee => r.op = q.op
    BY <1>1, <1>2 DEF FeesApart, Cooked, Range
  <1>6. ASSUME NEW r \in Range(ledger), NEW b \in AgentsOf(cfg), r.src = Initial(b, 1)
        PROVE  b = r.op
    <2>1. 1 \in 1..cfg.subs[b] /\ sim.subs[b][1] = Initial(b, 1)
      BY <1>1, ConfigFacts DEF Shape
    <2>2. PICK i \in 1..Len(ledger) : r = ledger[i]
      BY <1>1 DEF Range
    <2> QED
      BY <1>2, <1>6, <2>1, <2>2 DEF OneSigner
  <1> QED
    BY <1>3, <1>4, <1>5, <1>6

LEMMA RecordIds ==
  ASSUME EngineInv, NEW r \in Range(ledger)
  PROVE  /\ r.op \in AgentsOf(cfg)
         /\ r.src[1] \in Nat /\ (r.src[1] = 0 \/ r.src[2] = 2)
         /\ Cooked => r.fee[1] \in Nat \ {0} /\ r.fee[2] = 1
         /\ ~Cooked => r.fee = Initial(r.op, 1)
  <1>1. RecOK(cfg, sim.rng, r)
    BY LedgerRecords
  <1>2. sim.rng \in Nat
    BY DEF EngineInv, RunInv, Shape
  <1>3. r.src[1] \in Nat /\ (r.src[1] = 0 \/ r.src[2] = 2)
    <2>1. CASE Original(cfg, r.src)
      BY <2>1, OriginalId
    <2>2. CASE DrawnBefore(r.src, SuccessorRole, sim.rng)
      BY <1>2, <2>2, OtherIds DEF DrawnBefore
    <2> QED
      BY <1>1, <2>1, <2>2 DEF RecOK
  <1>4. Cooked => r.fee[1] \in Nat \ {0} /\ r.fee[2] = 1
    BY <1>1, <1>2, OtherIds DEF RecOK, DrawnBefore, Cooked
  <1>5. ~Cooked => r.fee = Initial(r.op, 1)
    BY <1>1 DEF RecOK, Cooked
  <1> QED
    BY <1>1, <1>3, <1>4, <1>5 DEF RecOK

LEMMA RealmsTell ==
  ASSUME EngineInv, NEW a \in AgentsOf(cfg), NEW x \in RealmOf(a)
  PROVE  Tells(x, a)
  <1>1. \A b : /\ FundingDraw(b)[1] = -2 /\ FundingDraw(b)[3] = b
               /\ Initial(b, 1)[1] = 0 /\ Initial(b, 1)[2] = b
    BY DEF FundingDraw, Initial
  <1>2. \A b : \A r \in Range(ledger) : r.src # FundingDraw(b) /\ r.fee # FundingDraw(b)
    <2>1. SUFFICES ASSUME NEW b, NEW r \in Range(ledger)
                   PROVE  r.src # FundingDraw(b) /\ r.fee # FundingDraw(b)
      OBVIOUS
    <2>2. r.src[1] \in Nat /\ r.fee[1] \in Nat
      <3>1. Initial(r.op, 1)[1] = 0
        BY <1>1
      <3> QED
        BY <3>1, RecordIds
    <2>3. FundingDraw(b)[1] = -2
      BY <1>1
    <2> QED
      BY <2>2, <2>3
  <1>3. CASE x = FundingDraw(a)
    BY <1>1, <1>2, <1>3 DEF Tells
  <1>4. CASE x = Initial(a, 1)
    <2>1. ASSUME NEW r \in Range(ledger), r.fee = x PROVE r.op = a
      <3>1. CASE Cooked
        BY <1>1, <1>4, <2>1, <3>1, RecordIds
      <3>2. CASE ~Cooked
        <4>1. Initial(r.op, 1) = Initial(a, 1)
          BY <1>4, <2>1, <3>2, RecordIds
        <4> QED
          BY <1>1, <4>1
      <3> QED
        BY <3>1, <3>2
    <2> QED
      BY <1>1, <1>4, <2>1, LedgerRecords DEF Tells
  <1>5. CASE \E r \in Range(ledger) : r.src = x /\ r.op = a
    <2>1. PICK q \in Range(ledger) : q.src = x /\ q.op = a
      BY <1>5
    <2>2. ASSUME NEW r \in Range(ledger), r.fee = x PROVE r.op = a
      <3>1. CASE Cooked
        BY <2>1, <2>2, <3>1, RecordIds
      <3>2. CASE ~Cooked
        <4>1. q.src = Initial(r.op, 1) /\ r.op \in AgentsOf(cfg)
          BY <2>1, <2>2, <3>2, RecordIds
        <4> QED
          BY <2>1, <4>1, LedgerRecords
      <3> QED
        BY <3>1, <3>2
    <2>3. \A r \in Range(ledger) : r.src = x => r.op = a
      BY <2>1, LedgerRecords
    <2>4. \A b \in AgentsOf(cfg) : x = Initial(b, 1) => b = a
      BY <2>1, LedgerRecords
    <2>5. \A b : x # FundingDraw(b)
      BY <1>2, <2>1
    <2> QED
      BY <2>2, <2>3, <2>4, <2>5 DEF Tells
  <1>6. CASE \E r \in Range(ledger) : r.fee = x /\ r.op = a
    <2>1. PICK q \in Range(ledger) : q.fee = x /\ q.op = a
      BY <1>6
    <2>2. CASE ~Cooked
      BY <1>4, <2>1, <2>2, RecordIds
    <2>3. CASE Cooked
      <3>1. \A r \in Range(ledger) : r.fee = x => r.op = a
        BY <2>1, <2>3, LedgerRecords
      <3>2. \A r \in Range(ledger) : r.src # x
        BY <2>1, <2>3, RecordIds
      <3>3. \A b : x # Initial(b, 1)
        BY <1>1, <2>1, <2>3, RecordIds
      <3>4. \A b : x # FundingDraw(b)
        BY <1>2, <2>1
      <3> QED
        BY <3>1, <3>2, <3>3, <3>4 DEF Tells
    <2> QED
      BY <2>2, <2>3
  <1> QED
    BY <1>3, <1>4, <1>5, <1>6 DEF RealmOf

LEMMA RealmsApart ==
  ASSUME EngineInv, NEW a \in AgentsOf(cfg), NEW b \in AgentsOf(cfg),
         NEW x \in RealmOf(a), x \in RealmOf(b)
  PROVE  a = b
  <1>1. Tells(x, a)
    BY RealmsTell
  <1> QED
    BY <1>1 DEF Tells, RealmOf

(* A run whose records an analyst of payers and funders cannot confuse:    *)
(* what a record shows of payers is the realm of the agent that sent it.   *)
Telling == cfg.mode = "naive" \/ policy.kind \in {"hub", "dedicated"}
RecordWithin(r) ==
  /\ r.op \in AgentsOf(cfg) /\ r.src \in RealmOf(r.op) /\ r.fee \in RealmOf(r.op)
  /\ r.dst \in FeePayers(Returned) => r.dst \in RealmOf(r.op)

LEMMA RealmMembers ==
  ASSUME NEW r \in Range(ledger)
  PROVE  r.src \in RealmOf(r.op) /\ r.fee \in RealmOf(r.op) /\ Initial(r.op, 1) \in RealmOf(r.op)
  BY DEF RealmOf

(* The one funder that the policies other than relayers let an agent have. *)
FunderOf(a) == IF policy.kind = "hub" THEN Initial(a, 1) ELSE FundingDraw(a)

LEMMA OneFunder ==
  ASSUME EngineInv, Telling, Cooked, NEW a \in AgentsOf(cfg)
  PROVE  FundersFor(policy, a) = {FunderOf(a)}
  <1>1. sim.main[a] = Initial(a, 1)
    BY DEF EngineInv, RunInv, Shape
  <1>2. policy.kind \in {"hub", "dedicated"}
    BY DEF Telling, Cooked
  <1> QED
    BY <1>1, <1>2 DEF FundersFor, FunderOf

LEMMA FundersDiffer ==
  ASSUME NEW a, NEW b, FunderOf(a) = FunderOf(b)
  PROVE  a = b
  BY DEF FunderOf, Initial, FundingDraw

LEMMA FunderWithin ==
  ASSUME NEW a
  PROVE  FunderOf(a) \in RealmOf(a)
  BY DEF FunderOf, RealmOf

LEMMA RecordsWithin ==
  ASSUME EngineInv, FundInv, funded, Telling, NEW r \in Range(Returned)
  PROVE  RecordWithin(r)
  <1>1. CASE ~Cooked
    <2>1. suffix = << >>
      BY <1>1 DEF FundInv, NothingFunded, Cooked
    <2>2. Returned = ledger
      BY <2>1, ConcatEmpty DEF Returned, EngineInv, RunInv
    <2>3. RecOK(cfg, sim.rng, r)
      BY <2>2, LedgerRecords
    <2>4. r.dst = External \/ r.dst = Initial(r.op, 1)
      BY <1>1, <2>3 DEF RecOK, Cooked
    <2>5. \A q \in Range(ledger) : q.fee # External
      <3>1. \A b : Initial(b, 1)[1] = 0
        BY InitialId
      <3> QED
        BY <1>1, <3>1, RecordIds, OtherIds
    <2>6. External \notin FeePayers(Returned)
      BY <2>2, <2>5 DEF FeePayers, Records
    <2> QED
      BY <2>2, <2>4, <2>6, RealmMembers, RecordIds DEF RecordWithin
  <1>2. CASE Cooked
    <2>1. ~NothingFunded /\ policy.kind \in {"hub", "dedicated"}
      BY <1>2 DEF NothingFunded, Telling, Cooked
    <2>2. PICK order : FundedBy(suffix, order)
      BY <2>1 DEF FundInv
    <2>3. /\ DOMAIN suffix = 1..N /\ DOMAIN ledger = 1..N
          /\ Range(Returned) = Range(ledger) \cup Range(suffix)
      BY <2>2, ReturnedShape DEF FundedBy
    <2>4. CASE r \in Range(ledger)
      <3>1. r.dst \in FeePayers(Returned) => r.dst = Initial(r.op, 1)
        BY <2>1, <2>2, <2>4, TreasuryPaid
      <3> QED
        BY <2>4, <3>1, RealmMembers, RecordIds DEF RecordWithin
    <2>5. CASE r \in Range(suffix)
      <3>1. PICK m \in 1..N : r = suffix[m]
        BY <2>3, <2>5 DEF Range
      <3>2. /\ order[m] \in 1..N /\ r.fee = r.src /\ r.dst = ledger[order[m]].fee
            /\ r.src \in FundersFor(policy, ledger[order[m]].op) /\ r.op = Label(policy, order[m])
        BY <2>2, <3>1 DEF FundedBy
      <3>3. ledger[order[m]] \in Range(ledger)
        BY <2>3, <3>2 DEF Range
      <3>4. r.op = ledger[order[m]].op
        BY <2>1, <3>2 DEF Label
      <3>5. r.op \in AgentsOf(cfg) /\ r.dst \in RealmOf(r.op)
        BY <3>2, <3>3, <3>4, RealmMembers, RecordIds
      <3>6. r.src = FunderOf(r.op)
        BY <1>2, <3>2, <3>4, <3>5, OneFunder
      <3> QED
        BY <3>2, <3>5, <3>6, FunderWithin DEF RecordWithin
    <2> QED
      BY <2>3, <2>4, <2>5
  <1> QED
    BY <1>1, <1>2

(* The links of the two heuristics stay within a realm.                    *)
Links == FeePayerLinks(Returned) \cup FunderLinks(Analyst, Returned)
Together(x, y) == \E a \in AgentsOf(cfg) : x \in RealmOf(a) /\ y \in RealmOf(a)

LEMMA LinksWithin ==
  ASSUME EngineInv, FundInv, funded, Telling, NEW l \in Links
  PROVE  Together(l[1], l[2])
  <1>1. \A r \in Range(Returned) : RecordWithin(r)
    BY RecordsWithin
  <1>2. ASSUME NEW r \in Range(Returned), NEW q \in Range(Returned), r.fee = q.fee
        PROVE  r.op = q.op
    BY <1>1, <1>2, RealmsApart DEF RecordWithin
  <1>3. CASE \E r \in Range(Returned) : l = <<r.fee, r.src>>
    BY <1>1, <1>3 DEF RecordWithin, Together
  <1>4. CASE \E i, j \in DOMAIN Returned :
               Returned[i].fee = Returned[j].fee /\ l = <<Returned[i].src, Returned[j].src>>
    <2>1. PICK i, j \in DOMAIN Returned :
            Returned[i].fee = Returned[j].fee /\ l = <<Returned[i].src, Returned[j].src>>
      BY <1>4
    <2>2. Returned[i] \in Range(Returned) /\ Returned[j] \in Range(Returned)
      BY DEF Range
    <2>3. Returned[i].op = Returned[j].op
      BY <1>2, <2>1, <2>2
    <2> QED
      BY <1>1, <2>1, <2>2, <2>3 DEF RecordWithin, Together
  <1>5. CASE \E q, r \in Range(Returned) : /\ l = <<q.src, r.src>> /\ q.dst = r.fee
    <2>1. PICK q, r \in Range(Returned) : l = <<q.src, r.src>> /\ q.dst = r.fee
      BY <1>5
    <2>2. q.dst \in FeePayers(Returned)
      BY <2>1 DEF FeePayers, Records
    <2>3. q.op = r.op
      BY <1>1, <2>1, <2>2, RealmsApart DEF RecordWithin
    <2> QED
      BY <1>1, <2>1, <2>3 DEF RecordWithin, Together
  <1>6. ASSUME l \in FeePayerLinks(Returned)
        PROVE  \/ \E r \in Range(Returned) : l = <<r.fee, r.src>>
               \/ \E i, j \in DOMAIN Returned :
                    Returned[i].fee = Returned[j].fee /\ l = <<Returned[i].src, Returned[j].src>>
    BY <1>6 DEF FeePayerLinks, Records
  <1>7. ASSUME l \in FunderLinks(Analyst, Returned)
        PROVE  \E q, r \in Range(Returned) : l = <<q.src, r.src>> /\ q.dst = r.fee
    <2> DEFINE Served(f) == {r.src : r \in {q \in Records(Returned) :
                                              q.fee # q.src /\ q.fee \in Fundees(f)}}
    <2>1. \E f : l \in {f} \X Served(f)
      BY <1>7 DEF FunderLinks, Fundees
    <2>2. PICK f : l \in {f} \X Served(f)
      BY <2>1
    <2>3. PICK r \in Range(Returned) : r.fee \in Fundees(f) /\ l = <<f, r.src>>
      BY <2>2 DEF Records
    <2>4. \E q \in Range(Returned) : f = q.src /\ r.fee = q.dst
      <3>1. PICK e \in FundingEdges(Returned) : e[1] = f /\ e[2] = r.fee
        BY <2>3 DEF Fundees
      <3> QED
        BY <3>1 DEF FundingEdges, Records
    <2> QED
      BY <2>3, <2>4
  <1> QED
    BY <1>3, <1>4, <1>5, <1>6, <1>7 DEF Links

(* Whose an account is, by the labels: the agent whose realm it is in.     *)
LEMMA OwnerHome ==
  ASSUME EngineInv, FundInv, funded, Telling, NEW x \in Owned(Returned)
  PROVE  OwnerOf(Returned, x) \in AgentsOf(cfg) /\ x \in RealmOf(OwnerOf(Returned, x))
  <1> DEFINE P(r) == r.src = x /\ r.op # NoOperator
             r == CHOOSE q \in Records(Returned) : P(q)
  <1>1. \E q \in Records(Returned) : P(q)
    BY DEF Owned
  <1>2. r \in Records(Returned) /\ P(r)
    <2> HIDE DEF P
    <2> QED
      BY <1>1
  <1>3. OwnerOf(Returned, x) = r.op
    BY DEF OwnerOf
  <1>4. RecordWithin(r)
    BY <1>2, RecordsWithin DEF Records
  <1> QED
    BY <1>2, <1>3, <1>4 DEF RecordWithin

(* Nothing leads from one agent's realm to another's.                      *)
LEMMA NeverTwoOwners ==
  ASSUME EngineInv, FundInv, funded, Telling, NEW n \in Nat,
         NEW x \in Owned(Returned), NEW y \in Owned(Returned), y \in ClusterOf(Links, x, n)
  PROVE  OwnerOf(Returned, x) = OwnerOf(Returned, y)
  <1> DEFINE a == OwnerOf(Returned, x)
             B == RealmOf(a)
  <1>1. a \in AgentsOf(cfg) /\ x \in B
    BY OwnerHome
  <1>2. ASSUME NEW l \in Links PROVE l[1] \in B <=> l[2] \in B
    <2>1. PICK b \in AgentsOf(cfg) : l[1] \in RealmOf(b) /\ l[2] \in RealmOf(b)
      BY LinksWithin DEF Together
    <2> QED
      BY <1>1, <2>1, RealmsApart
  <1>3. ClusterOf(Links, x, n) \subseteq B
    <2> HIDE DEF B
    <2> QED
      BY <1>1, <1>2, ReachStays
  <1>4. y \in B
    BY <1>3
  <1>5. OwnerOf(Returned, y) \in AgentsOf(cfg) /\ y \in RealmOf(OwnerOf(Returned, y))
    BY OwnerHome
  <1> QED
    BY <1>1, <1>4, <1>5, RealmsApart

(* A set with two members counts to at least two.                          *)
LEMMA TwoMembers ==
  ASSUME NEW S, IsFiniteSet(S), NEW x \in S, NEW y \in S, x # y
  PROVE  Cardinality(S) \in Nat /\ Cardinality(S) >= 2
  <1>1. Cardinality({x, y}) = 2
    <2>1. Cardinality({x}) = 1 /\ IsFiniteSet({x})
      BY FS_Singleton
    <2>2. Cardinality({x} \cup {y}) = Cardinality({x}) + 1
      BY <2>1, FS_AddElement
    <2>3. {x, y} = {x} \cup {y}
      OBVIOUS
    <2> QED
      BY <2>1, <2>2, <2>3
  <1>2. {x, y} \subseteq S
    OBVIOUS
  <1> QED
    BY <1>1, <1>2, FS_Subset, FS_CardinalityType

LEMMA FiniteImage ==
  ASSUME NEW S, IsFiniteSet(S), NEW f
  PROVE  IsFiniteSet({f[x] : x \in S})
  <1> DEFINE T == {f[x] : x \in S}
             g == [x \in S |-> f[x]]
  <1>1. g \in [S -> T] /\ \A t \in T : \E x \in S : g[x] = t
    OBVIOUS
  <1>2. g \in Surjection(S, T)
    <2> HIDE DEF T, g
    <2> QED
      BY <1>1 DEF Surjection
  <1> QED
    BY <1>2, FS_Surjection

LEMMA FiniteFields ==
  ASSUME NEW R, IsFiniteSet(R)
  PROVE  /\ IsFiniteSet({r.fee : r \in R}) /\ IsFiniteSet({r.src : r \in R})
         /\ IsFiniteSet({r.dst : r \in R})
  <1> DEFINE fee == [r \in R |-> r.fee]
             src == [r \in R |-> r.src]
             dst == [r \in R |-> r.dst]
  <1>1. /\ {r.fee : r \in R} = {fee[r] : r \in R} /\ {r.src : r \in R} = {src[r] : r \in R}
        /\ {r.dst : r \in R} = {dst[r] : r \in R}
    OBVIOUS
  <1>2. /\ IsFiniteSet({fee[r] : r \in R}) /\ IsFiniteSet({src[r] : r \in R})
        /\ IsFiniteSet({dst[r] : r \in R})
    <2> HIDE DEF fee, src, dst
    <2> QED
      BY FiniteImage
  <1> QED
    BY <1>1, <1>2

LEMMA FiniteRecords ==
  ASSUME EngineInv, IsSeq(suffix)
  PROVE  /\ IsFiniteSet(Range(ledger)) /\ IsFiniteSet(Range(suffix))
         /\ IsFiniteSet(AccountsOf(Returned))
  <1>1. ASSUME NEW s, IsSeq(s) PROVE IsFiniteSet(Range(s))
    <2>1. Len(s) \in Nat /\ DOMAIN s = 1..Len(s)
      BY <1>1, SeqShape
    <2>2. IsFiniteSet(1..Len(s))
      BY <2>1, FS_Interval
    <2>3. Range(s) = {s[i] : i \in 1..Len(s)}
      BY <2>1 DEF Range
    <2> QED
      BY <2>2, <2>3, FiniteImage
  <1>2. IsFiniteSet(Range(ledger)) /\ IsFiniteSet(Range(suffix)) /\ IsFiniteSet(Range(Returned))
    BY <1>1, ReturnedShape DEF EngineInv, RunInv
  <1> DEFINE R == Range(Returned)
  <1>3. IsFiniteSet({r.fee : r \in R}) /\ IsFiniteSet({r.src : r \in R}) /\ IsFiniteSet({r.dst : r \in R})
    BY <1>2, FiniteFields
  <1> QED
    BY <1>2, <1>3, FS_Union DEF AccountsOf, FeePayers, ActiveSources, DestsOf, Records

(* What the funder of a cooked agent paid for is the agent's fees, so what *)
(* it served is the agent's sources.                                       *)
SourcesOfAgent(a) == {r.src : r \in {q \in Range(ledger) : q.op = a}}
FeesOfAgent(a) == {r.fee : r \in {q \in Range(ledger) : q.op = a}}

LEMMA FunderServes ==
  ASSUME EngineInv, FundInv, funded, Telling, Cooked, NEW a \in AgentsOf(cfg)
  PROVE  /\ Fundees(FunderOf(a)) = FeesOfAgent(a)
         /\ {r.src : r \in {q \in Records(Returned) :
               q.fee # q.src /\ q.fee \in Fundees(FunderOf(a))}} = SourcesOfAgent(a)
  <1> DEFINE h == FunderOf(a)
  <1>1. ~NothingFunded
    BY DEF NothingFunded, Telling, Cooked
  <1>2. PICK order : FundedBy(suffix, order)
    BY <1>1 DEF FundInv
  <1>3. /\ DOMAIN suffix = 1..N /\ DOMAIN ledger = 1..N
        /\ Range(Returned) = Range(ledger) \cup Range(suffix)
    BY <1>2, ReturnedShape DEF FundedBy
  <1>4. ASSUME NEW b, NEW k, h = Initial(b, k) PROVE k = 1
    <2>1. Initial(b, k)[1] = 0 /\ Initial(b, k)[3] = k
      BY InitialId
    <2>2. FundingDraw(a)[1] = -2 /\ Initial(a, 1)[3] = 1
      BY DEF FundingDraw, Initial
    <2> QED
      BY <1>4, <2>1, <2>2 DEF FunderOf
  <1>5. Fundees(h) = Assigned(h)
    BY <1>1, <1>2, <1>4, FundeesAreAssigned
  <1>6. ASSUME NEW m \in 1..N
        PROVE  /\ order[m] \in 1..N /\ suffix[m].dst = ledger[order[m]].fee
               /\ suffix[m].src = FunderOf(ledger[order[m]].op)
    <2>1. /\ order[m] \in 1..N /\ suffix[m].dst = ledger[order[m]].fee
          /\ suffix[m].src \in FundersFor(policy, ledger[order[m]].op)
      BY <1>2 DEF FundedBy
    <2>2. ledger[order[m]].op \in AgentsOf(cfg)
      BY <2>1, Fees
    <2> QED
      BY <2>1, <2>2, OneFunder
  <1>7. Assigned(h) \subseteq FeesOfAgent(a)
    <2>1. SUFFICES ASSUME NEW q \in Range(suffix), q.src = h PROVE q.dst \in FeesOfAgent(a)
      BY DEF Assigned
    <2>2. PICK m \in 1..N : q = suffix[m]
      BY <1>3 DEF Range
    <2>3. ledger[order[m]].op = a
      BY <1>6, <2>1, <2>2, FundersDiffer
    <2> QED
      BY <1>3, <1>6, <2>2, <2>3 DEF FeesOfAgent, Range
  <1>8. FeesOfAgent(a) \subseteq Assigned(h)
    <2>1. SUFFICES ASSUME NEW r \in Range(ledger), r.op = a PROVE r.fee \in Assigned(h)
      BY DEF FeesOfAgent
    <2>2. PICK i \in 1..N : r = ledger[i]
      BY <1>3 DEF Range
    <2>3. PICK m \in 1..N : order[m] = i
      BY <1>2 DEF FundedBy
    <2>4. suffix[m] \in Range(suffix)
      BY <1>3 DEF Range
    <2> QED
      BY <1>6, <2>1, <2>2, <2>3, <2>4 DEF Assigned
  <1>9. Fundees(h) = FeesOfAgent(a)
    BY <1>5, <1>7, <1>8
  <1>10. ASSUME NEW r \in Range(suffix) PROVE r.fee = r.src
    BY <1>1, <1>2, SuffixRecords
  <1>11. ASSUME NEW r \in Range(ledger) PROVE r.fee # r.src
    BY EngineFundsNothing
  <1>12. ASSUME NEW r \in Range(ledger) PROVE r.fee \in FeesOfAgent(a) <=> r.op = a
    BY LedgerRecords DEF FeesOfAgent
  <1>13. {q \in Records(Returned) : q.fee # q.src /\ q.fee \in FeesOfAgent(a)} =
         {q \in Range(ledger) : q.op = a}
    BY <1>3, <1>10, <1>11, <1>12 DEF Records
  <1> QED
    BY <1>9, <1>13 DEF SourcesOfAgent

(* An agent that pays from one account is given away by it.                *)
GivenAwayBy(a) ==
  \/ cfg.mode = "naive"
  \/ /\ Cardinality(FeesOfAgent(a)) >= Analyst.minFundees
     /\ Cardinality(SourcesOfAgent(a)) <= Analyst.maxFunded

LEMMA FunderLinksAll ==
  ASSUME EngineInv, FundInv, funded, Telling, NEW a \in AgentsOf(cfg), GivenAwayBy(a),
         NEW x \in SourcesOfAgent(a), NEW y \in SourcesOfAgent(a)
  PROVE  y \in ClusterOf(Links, x, Cardinality(AccountsOf(Returned)))
  <1>1. IsSeq(suffix)
    <2>1. CASE suffix = << >>
      BY <2>1, NoElements
    <2>2. CASE suffix # << >>
      BY <2>2 DEF FundInv, FundedBy
    <2> QED
      BY <2>1, <2>2
  <1>2. /\ IsFiniteSet(Range(ledger)) /\ IsFiniteSet(AccountsOf(Returned))
        /\ Range(ledger) \subseteq Range(Returned)
    BY <1>1, FiniteRecords, ReturnedShape
  <1>3. Cardinality(AccountsOf(Returned)) \in Nat
    BY <1>2, FS_CardinalityType
  <1>4. ASSUME x # y PROVE Cardinality(AccountsOf(Returned)) >= 2
    <2>1. x \in AccountsOf(Returned) /\ y \in AccountsOf(Returned)
      BY <1>2 DEF SourcesOfAgent, AccountsOf, ActiveSources, Records
    <2> QED
      BY <1>2, <1>4, <2>1, TwoMembers
  <1>5. PICK h : x # y => <<h, x>> \in Links /\ <<h, y>> \in Links
    <2>1. CASE ~Cooked
      <3>1. ASSUME NEW z \in SourcesOfAgent(a) PROVE <<Initial(a, 1), z>> \in Links
        <4>1. PICK r \in Range(ledger) : r.op = a /\ z = r.src
          BY DEF SourcesOfAgent
        <4>2. r.fee = Initial(a, 1)
          BY <2>1, <4>1, RecordIds
        <4> QED
          BY <1>2, <4>1, <4>2 DEF Links, FeePayerLinks, Records
      <3> QED
        BY <3>1
    <2>2. CASE Cooked
      <3> DEFINE h == FunderOf(a)
                 Served(f) == {r.src : r \in {q \in Records(Returned) :
                                                q.fee # q.src /\ q.fee \in Fundees(f)}}
      <3>1. Fundees(h) = FeesOfAgent(a) /\ Served(h) = SourcesOfAgent(a)
        BY <2>2, FunderServes
      <3>2. /\ Cardinality(FeesOfAgent(a)) >= Analyst.minFundees
            /\ Cardinality(SourcesOfAgent(a)) <= Analyst.maxFunded
        BY <2>2 DEF GivenAwayBy, Cooked
      <3>3. ASSUME x # y PROVE Cardinality(SourcesOfAgent(a)) \in 2..Analyst.maxFunded
        <4>1. IsFiniteSet({q \in Range(ledger) : q.op = a})
          BY <1>2, FS_Subset
        <4>2. IsFiniteSet(SourcesOfAgent(a))
          BY <4>1, FiniteFields DEF SourcesOfAgent
        <4>3. /\ Cardinality(SourcesOfAgent(a)) \in Nat
              /\ Cardinality(SourcesOfAgent(a)) >= 2
          BY <3>3, <4>2, TwoMembers
        <4> QED
          BY <3>2, <4>3, FundingAssumption
      <3>4. h \in {e[1] : e \in FundingEdges(Returned)}
        <4>1. PICK d : d \in Fundees(h)
          BY <3>1 DEF SourcesOfAgent, FeesOfAgent
        <4> QED
          BY <4>1 DEF Fundees
      <3>5. ASSUME x # y PROVE h \in {e[1] : e \in {k \in FundingEdges(Returned) :
                                 /\ Cardinality(Fundees(k[1])) >= Analyst.minFundees
                                 /\ Cardinality(Served(k[1])) \in 2..Analyst.maxFunded}}
        <4>1. PICK e \in FundingEdges(Returned) : e[1] = h
          BY <3>4
        <4> HIDE DEF h, Served
        <4> QED
          BY <3>1, <3>2, <3>3, <3>5, <4>1
      <3>6. ASSUME NEW z \in Served(h), x # y PROVE <<h, z>> \in FunderLinks(Analyst, Returned)
        <4> DEFINE givers == {e[1] : e \in {k \in FundingEdges(Returned) :
                                 /\ Cardinality(Fundees(k[1])) >= Analyst.minFundees
                                 /\ Cardinality(Served(k[1])) \in 2..Analyst.maxFunded}}
        <4>1. FunderLinks(Analyst, Returned) = UNION {{f} \X Served(f) : f \in givers}
          BY DEF FunderLinks, Fundees
        <4>2. h \in givers
          BY <3>5, <3>6
        <4> HIDE DEF h, Served, givers
        <4> QED
          BY <3>6, <4>1, <4>2
      <3> QED
        BY <3>1, <3>6 DEF Links
    <2> QED
      BY <2>1, <2>2
  <1> QED
    BY <1>3, <1>4, <1>5, ReachJoins

(* What the funding model shows, for every fleet: an operator that pays    *)
(* its fee payers from its own hub or from a wallet of its own is given    *)
(* away by them to an analyst of payers and funders, as every naive one is *)
(* by its main account, and the analyst is never wrong about an account    *)
(* (apply_funding, fee_payer_links, funder_graph_links).                   *)
THEOREM OwnFundersGiveAway == Spec => []FundersGiveAway
  <1>1. ASSUME EngineInv, FundInv PROVE FundersGiveAway
    <2>1. SUFFICES ASSUME funded, Telling
                   PROVE  \A x, y \in Owned(Returned) :
                            LET cluster == ClusterOf(Links, x, Cardinality(AccountsOf(Returned)))
                            IN /\ y \in cluster => OwnerOf(Returned, x) = OwnerOf(Returned, y)
                               /\ \A a \in AgentsOfRun :
                                    GivenAwayBy(a) /\ {x, y} \subseteq SourcesOfAgent(a) =>
                                      y \in cluster
      BY DEF FundersGiveAway, Telling, Links, GivenAwayBy, SourcesOfAgent, FeesOfAgent
    <2>2. IsSeq(suffix)
      <3>1. CASE suffix = << >>
        BY <3>1, NoElements
      <3>2. CASE suffix # << >>
        BY <1>1, <3>2 DEF FundInv, FundedBy
      <3> QED
        BY <3>1, <3>2
    <2>3. Cardinality(AccountsOf(Returned)) \in Nat
      BY <1>1, <2>2, FiniteRecords, FS_CardinalityType
    <2>4. AgentsOfRun = AgentsOf(cfg)
      BY <1>1 DEF AgentsOfRun, EngineInv, RunInv, Shape, IsMap
    <2>5. ASSUME NEW x \in Owned(Returned), NEW y \in Owned(Returned),
                 y \in ClusterOf(Links, x, Cardinality(AccountsOf(Returned)))
          PROVE  OwnerOf(Returned, x) = OwnerOf(Returned, y)
      BY <1>1, <2>1, <2>3, <2>5, NeverTwoOwners
    <2>6. ASSUME NEW x, NEW y, NEW a \in AgentsOfRun, GivenAwayBy(a),
                 {x, y} \subseteq SourcesOfAgent(a)
          PROVE  y \in ClusterOf(Links, x, Cardinality(AccountsOf(Returned)))
      BY <1>1, <2>1, <2>4, <2>6, FunderLinksAll
    <2> QED
      BY <2>5, <2>6
  <1> QED
    BY <1>1, FundInvHolds, PTL

-----------------------------------------------------------------------------
(* Powers of two, and rounding: the nearest number is off by at most one   *)
(* part in 2^Precision, or by that part of the least number.               *)
LEMMA PowersDefined ==
  /\ Pow2 \in [Nat -> Nat] /\ Pow2[0] = 1
  /\ \A n \in Nat : Pow2[n + 1] = 2 * Pow2[n]
  <1> DEFINE step == [x \in Nat \X Nat |-> 2 * x[2]]
             IsPow(f) == f = [n \in Nat |-> IF n = 0 THEN 1 ELSE 2 * f[n - 1]]
  <1>1. \A i \in Nat : \A v \in Nat : step[<<i, v>>] = 2 * v
    OBVIOUS
  <1>2. StaysIn(step, Nat)
    <2>1. ASSUME NEW i \in Nat, NEW v \in Nat PROVE step[<<i, v>>] \in Nat
      <3>1. step[<<i, v>>] = 2 * v
        BY <1>1
      <3> QED
        BY <3>1
    <2> QED
      BY <2>1 DEF StaysIn
  <1> HIDE DEF step
  <1>3. PICK f : Recursive(f, Nat, 1, step)
    BY <1>2, RecursionExists
  <1>4. \A n \in Nat : f[n] = IF n = 0 THEN 1 ELSE 2 * f[n - 1]
    <2>1. \A n \in Nat : n # 0 => n - 1 \in Nat /\ (n - 1) + 1 = n
      OBVIOUS
    <2> QED
      BY <1>1, <1>3, <2>1 DEF Recursive
  <1>5. IsPow(f)
    <2>1. f = [n \in Nat |-> f[n]]
      BY <1>3 DEF Recursive
    <2> QED
      BY <1>4, <2>1
  <1>6. IsPow(Pow2)
    <2>1. Pow2 = CHOOSE g : IsPow(g)
      BY DEF Pow2
    <2> HIDE DEF IsPow
    <2> QED
      BY <1>5, <2>1
  <1>7. \A n \in Nat : Pow2[n] = IF n = 0 THEN 1 ELSE 2 * Pow2[n - 1]
    BY <1>6
  <1>8. Pow2 = [n \in Nat |-> Pow2[n]]
    BY <1>6
  <1>9. ASSUME NEW n \in Nat PROVE Pow2[n] \in Nat
    <2> DEFINE bad == {k \in Nat : Pow2[k] \notin Nat}
    <2>1. ASSUME bad # {} PROVE FALSE
      <3>1. PICK k \in bad : \A j \in bad : k <= j
        <4>1. bad \subseteq Nat
          OBVIOUS
        <4> HIDE DEF bad
        <4> QED
          BY <2>1, <4>1, LeastElement
      <3>2. k = 0 \/ (k - 1 \in Nat /\ ~(k <= k - 1))
        BY <3>1
      <3> QED
        BY <1>7, <3>1, <3>2
    <2> QED
      BY <2>1
  <1> HIDE DEF IsPow
  <1>10. Pow2[0] = 1 /\ \A n \in Nat : Pow2[n + 1] = 2 * Pow2[n]
    <2>1. \A n \in Nat : n + 1 \in Nat /\ n + 1 # 0 /\ (n + 1) - 1 = n
      OBVIOUS
    <2> QED
      BY <1>7, <2>1
  <1> QED
    BY <1>8, <1>9, <1>10

LEMMA PowersAdd ==
  ASSUME NEW a \in Nat, NEW b \in Nat
  PROVE  Pow2[a + b] = Pow2[a] * Pow2[b]
  <1> DEFINE bad == {k \in Nat : Pow2[a + k] # Pow2[a] * Pow2[k]}
  <1>1. ASSUME bad # {} PROVE FALSE
    <2>1. PICK k \in bad : \A j \in bad : k <= j
      <3>1. bad \subseteq Nat
        OBVIOUS
      <3> HIDE DEF bad
      <3> QED
        BY <1>1, <3>1, LeastElement
    <2>2. k # 0
      BY <2>1, PowersDefined
    <2>3. k - 1 \in Nat /\ ~(k <= k - 1)
      BY <2>1, <2>2
    <2>4. Pow2[a + (k - 1)] = Pow2[a] * Pow2[k - 1]
      BY <2>1, <2>3
    <2>5. Pow2[a + k] = 2 * Pow2[a + (k - 1)] /\ Pow2[k] = 2 * Pow2[k - 1]
      <3>1. a + (k - 1) \in Nat /\ (a + (k - 1)) + 1 = a + k /\ (k - 1) + 1 = k
        BY <2>1, <2>3
      <3> QED
        BY <2>3, <3>1, PowersDefined
    <2>6. Pow2[a] \in Nat /\ Pow2[k - 1] \in Nat
      BY <2>3, PowersDefined
    <2>7. 2 * (Pow2[a] * Pow2[k - 1]) = Pow2[a] * (2 * Pow2[k - 1])
      BY <2>6
    <2> QED
      BY <2>1, <2>4, <2>5, <2>7
  <1> QED
    BY <1>1

LEMMA PowersPositive ==
  ASSUME NEW n \in Nat
  PROVE  Pow2[n] \in Nat \ {0}
  <1> DEFINE bad == {k \in Nat : Pow2[k] = 0}
  <1>1. ASSUME bad # {} PROVE FALSE
    <2>1. PICK k \in bad : \A j \in bad : k <= j
      <3>1. bad \subseteq Nat
        OBVIOUS
      <3> HIDE DEF bad
      <3> QED
        BY <1>1, <3>1, LeastElement
    <2>2. k - 1 \in Nat /\ ~(k <= k - 1) /\ (k - 1) + 1 = k
      BY <2>1, PowersDefined
    <2>3. Pow2[k] = 2 * Pow2[k - 1] /\ Pow2[k - 1] \in Nat
      BY <2>2, PowersDefined
    <2> QED
      BY <2>1, <2>2, <2>3
  <1> QED
    BY <1>1, PowersDefined

LEMMA NearestOff ==
  ASSUME NEW num \in Nat, NEW den \in Nat \ {0}
  PROVE  LET q == Nearest(num, den)
         IN q \in Nat /\ -den <= 2 * (q * den - num) /\ 2 * (q * den - num) <= den
  <1> DEFINE q == num \div den
             r == num % den
  <1>1. q \in Nat /\ r \in 0..(den - 1) /\ num = q * den + r /\ q % 2 \in {0, 1}
    OBVIOUS
  <1>2. Nearest(num, den) \in {q, q + 1} /\ (Nearest(num, den) = q => 2 * r <= den)
          /\ (Nearest(num, den) = q + 1 => 2 * r >= den)
    BY <1>1 DEF Nearest
  <1> HIDE DEF q, r
  <1>3. CASE Nearest(num, den) = q
    BY <1>1, <1>2, <1>3
  <1>4. CASE Nearest(num, den) = q + 1
    <2>1. (q + 1) * den = q * den + den
      BY <1>1
    <2> QED
      BY <1>1, <1>2, <1>4, <2>1
  <1> QED
    BY <1>2, <1>3, <1>4

Grid == Pow2[Precision]

Below(num, den, k) == IF k >= 0 THEN num < den * Pow2[k] ELSE num * Pow2[-k] < den

(* A quotient below an integer, before it is truncated or after.           *)
LEMMA BelowTruncated ==
  ASSUME NEW num \in Nat, NEW den \in Nat, NEW p \in Nat \ {0}
  PROVE  num \div p < den <=> num < den * p
  <1> DEFINE q == num \div p
             r == num % p
  <1>1. q \in Nat /\ r \in Nat /\ r < p /\ num = q * p + r
    OBVIOUS
  <1> HIDE DEF q, r
  <1>2. ASSUME q < den PROVE num < den * p
    <2>1. den - q - 1 \in Nat /\ (den - q - 1) * p \in Nat
      BY <1>1, <1>2
    <2>2. den * p = q * p + p + (den - q - 1) * p
      BY <1>1
    <2> QED
      BY <1>1, <2>1, <2>2
  <1>3. ASSUME ~(q < den) PROVE ~(num < den * p)
    <2>1. q - den \in Nat /\ (q - den) * p \in Nat
      BY <1>1, <1>3
    <2>2. q * p = den * p + (q - den) * p
      BY <1>1
    <2> QED
      BY <1>1, <2>1, <2>2
  <1> QED
    BY <1>2, <1>3 DEF q

(* The exponent of a number that is in range bounds it, and no smaller one *)
(* does.                                                                   *)
LEMMA ExponentLeast ==
  ASSUME NEW num \in Nat, NEW den \in Nat \ {0}, num < den * Denominator
  PROVE  LET k == Exponent(num, den)
         IN /\ k \in (-MaxExponent)..MaxExponent
            /\ Below(num, den, k)
            /\ k # -MaxExponent => ~Below(num, den, k - 1)
  <1> DEFINE S == {k \in (-MaxExponent)..MaxExponent : Below(num, den, k)}
             T == {k + MaxExponent : k \in S}
  <1>1. MaxExponent \in Nat
    BY FloatAssumption
  <1>2. MaxExponent \in S
    BY <1>1 DEF Below, Denominator
  <1>3. S \subseteq Int /\ T \subseteq Nat /\ T # {}
    BY <1>1, <1>2
  <1>4. \E k \in S : \A j \in S : k <= j
    <2>1. PICK t \in T : \A u \in T : t <= u
      <3> HIDE DEF T
      <3> QED
        BY <1>3, LeastElement
    <2>2. PICK k \in S : t = k + MaxExponent
      BY <2>1
    <2>3. ASSUME NEW j \in S PROVE k <= j
      <3>1. t <= j + MaxExponent
        BY <2>1, <2>3
      <3> QED
        BY <1>1, <2>2, <3>1
    <2> QED
      BY <2>2, <2>3
  <1>5. Exponent(num, den) = Min(S)
    <2>1. ASSUME NEW k \in (-MaxExponent)..MaxExponent, k >= 0
          PROVE  num \div Pow2[k] < den <=> num < den * Pow2[k]
      <3>1. Pow2[k] \in Nat \ {0}
        BY <1>1, <2>1, PowersPositive
      <3> QED
        BY <3>1, BelowTruncated
    <2>2. S = {k \in (-MaxExponent)..MaxExponent :
                 IF k >= 0 THEN num \div Pow2[k] < den ELSE num * Pow2[-k] < den}
      BY <2>1 DEF Below
    <2> QED
      BY <2>2 DEF Exponent
  <1>6. Min(S) \in S /\ \A j \in S : Min(S) <= j
    <2> HIDE DEF S
    <2> QED
      BY <1>4 DEF Min
  <1> DEFINE k == Min(S)
  <1>7. k \in (-MaxExponent)..MaxExponent /\ Below(num, den, k)
    BY <1>6
  <1>8. ASSUME k # -MaxExponent, Below(num, den, k - 1) PROVE FALSE
    <2>1. k - 1 \in (-MaxExponent)..MaxExponent /\ ~(k <= k - 1)
      BY <1>1, <1>7, <1>8
    <2>2. k - 1 \in S
      BY <1>8, <2>1
    <2> QED
      BY <1>6, <2>1, <2>2
  <1> HIDE DEF k
  <1> QED
    BY <1>5, <1>7, <1>8 DEF k

LEMMA GridFacts ==
  /\ Precision \in Nat \ {0} /\ MaxExponent \in Nat /\ Grid \in Nat /\ Grid >= 2
  /\ Denominator \in Nat /\ Denominator >= Grid
  <1>1. Precision \in Nat \ {0} /\ MaxExponent \in Nat /\ MaxExponent - Precision \in Nat
    BY FloatAssumption
  <1>2. Pow2[Precision] = 2 * Pow2[Precision - 1]
    <2>1. Precision - 1 \in Nat /\ (Precision - 1) + 1 = Precision
      BY <1>1
    <2> QED
      BY <2>1, PowersDefined
  <1>3. Pow2[Precision - 1] \in Nat \ {0}
    BY <1>1, PowersPositive
  <1>4. Denominator = Pow2[Precision] * Pow2[MaxExponent - Precision]
    <2>1. Precision + (MaxExponent - Precision) = MaxExponent
      BY <1>1
    <2> QED
      BY <1>1, <2>1, PowersAdd DEF Denominator
  <1>5. Pow2[MaxExponent - Precision] \in Nat \ {0}
    BY <1>1, PowersPositive
  <1>6. \A g \in Nat, m \in Nat \ {0} : g * m >= g
    <2>1. ASSUME NEW g \in Nat, NEW m \in Nat \ {0} PROVE g * m >= g
      <3>1. m - 1 \in Nat /\ g * m = g * (m - 1) + g /\ g * (m - 1) \in Nat
        OBVIOUS
      <3> QED
        BY <3>1
    <2> QED
      BY <2>1
  <1> QED
    BY <1>1, <1>2, <1>3, <1>4, <1>5, <1>6 DEF Grid

(* How far a number lies from num/den, over the product of denominators.   *)
Off(r, num, den) == r[1] * den - num * r[2]
IsNumber(r) == r \in Nat \X (Nat \ {0})
NearBy(r, num, den) ==
  -(num * r[2]) <= Off(r, num, den) * Grid /\ Off(r, num, den) * Grid <= num * r[2]
TinyBy(r, num, den) ==
  /\ num # 0
  /\ -(den * r[2]) <= Off(r, num, den) * Grid * Denominator
  /\ Off(r, num, den) * Grid * Denominator <= den * r[2]

LEMMA FineRounds ==
  ASSUME NEW num \in Nat \ {0}, NEW den \in Nat \ {0}, NEW k \in Int,
         k <= Precision, k >= -MaxExponent, Below(num, den, k),
         k # -MaxExponent => ~Below(num, den, k - 1)
  PROVE  LET s == Pow2[Precision - k]
             r == <<Nearest(num * s, den), s>>
         IN IsNumber(r) /\ (NearBy(r, num, den) \/ TinyBy(r, num, den))
  <1> DEFINE s == Pow2[Precision - k]
             q == Nearest(num * s, den)
             r == <<q, s>>
             off == q * den - num * s
  <1>1. Precision - k \in Nat /\ s \in Nat \ {0}
    BY GridFacts, PowersPositive
  <1>2. num * s \in Nat
    BY <1>1
  <1>3. q \in Nat /\ -den <= 2 * off /\ 2 * off <= den
    BY <1>2, NearestOff
  <1>4. r[1] = q /\ r[2] = s /\ Off(r, num, den) = off
    BY DEF Off
  <1>5. off \in Int /\ IsNumber(r)
    BY <1>1, <1>3, <1>4 DEF IsNumber
  <1>6. SUFFICES \/ -(num * s) <= off * Grid /\ off * Grid <= num * s
                 \/ /\ -(den * s) <= off * Grid * Denominator
                    /\ off * Grid * Denominator <= den * s
    <2>1. NearBy(r, num, den) \/ TinyBy(r, num, den)
      <3> HIDE DEF r, off, q
      <3> QED
        BY <1>4, <1>6 DEF NearBy, TinyBy
    <2> HIDE DEF off
    <2> QED
      BY <1>5, <2>1
  <1>7. CASE k = -MaxExponent
    <2>1. s = Grid * Denominator
      <3>1. Precision - k = Precision + MaxExponent
        BY <1>7, GridFacts
      <3> QED
        BY <3>1, GridFacts, PowersAdd DEF Grid, Denominator
    <2>3. s \in Nat /\ off * Grid * Denominator = off * s
      BY <1>1, <1>5, <2>1, GridFacts
    <2>4. -den <= off /\ off <= den
      BY <1>3, <1>5
    <2> HIDE DEF s, off
    <2>5. -(den * s) <= off * s /\ off * s <= den * s
      BY <1>5, <2>3, <2>4, Scaled
    <2> QED
      BY <2>3, <2>5
  <1>8. CASE k # -MaxExponent /\ k >= 1
    <2> DEFINE p == Pow2[k - 1]
    <2>1. k - 1 \in Nat /\ p \in Nat \ {0}
      BY <1>8, PowersPositive
    <2>2. num >= den * p
      <3>1. ~(num < den * p)
        BY <1>8 DEF Below
      <3> QED
        BY <2>1, <3>1
    <2>3. Grid = 2 * (s * p)
      <3>1. (Precision - k) + (k - 1) \in Nat /\ ((Precision - k) + (k - 1)) + 1 = Precision
        BY <1>1, <2>1, GridFacts
      <3> QED
        BY <1>1, <2>1, <3>1, PowersAdd, PowersDefined DEF Grid
    <2> HIDE DEF s, p, off
    <2>4. s * p \in Nat /\ off * Grid = (2 * off) * (s * p)
      BY <1>1, <1>5, <2>1, <2>3
    <2>5. -(den * (s * p)) <= (2 * off) * (s * p) /\ (2 * off) * (s * p) <= den * (s * p)
      BY <1>3, <1>5, <2>4, Scaled
    <2>6. den * (s * p) <= num * s
      <3>1. (num - den * p) * s >= 0 /\ (num - den * p) * s = num * s - den * (s * p)
        BY <1>1, <2>1, <2>2
      <3> QED
        BY <1>1, <2>1, <3>1
    <2> QED
      BY <1>1, <1>5, <2>1, <2>4, <2>5, <2>6
  <1>9. CASE k # -MaxExponent /\ k <= 0
    <2> DEFINE p == Pow2[1 - k]
    <2>1. 1 - k \in Nat /\ p \in Nat \ {0}
      BY <1>9, PowersPositive
    <2>2. num * p >= den
      <3>1. -(k - 1) = 1 - k /\ ~(k - 1 >= 0)
        BY <1>9
      <3>2. ~(num * p < den)
        BY <1>9, <3>1 DEF Below
      <3> QED
        BY <2>1, <3>2
    <2>3. 2 * s = Grid * p
      <3>1. Precision + (1 - k) = (Precision - k) + 1
        BY <1>1, <2>1, GridFacts
      <3> QED
        BY <1>1, <2>1, <3>1, GridFacts, PowersAdd, PowersDefined DEF Grid
    <2> HIDE DEF s, p, off
    <2>4. -(num * p) <= 2 * off /\ 2 * off <= num * p /\ num * p \in Nat
      BY <1>3, <1>5, <2>1, <2>2
    <2>5. -((num * p) * Grid) <= (2 * off) * Grid /\ (2 * off) * Grid <= (num * p) * Grid
      BY <1>5, <2>4, GridFacts, Scaled
    <2>6. (num * p) * Grid = num * (2 * s)
      BY <1>1, <2>1, <2>3, GridFacts
    <2>7. num * (2 * s) = 2 * (num * s) /\ (2 * off) * Grid = 2 * (off * Grid)
      BY <1>1, <1>5, GridFacts
    <2>8. num * s \in Int /\ off * Grid \in Int
      BY <1>1, <1>5, GridFacts
    <2> QED
      BY <2>5, <2>6, <2>7, <2>8
  <1> QED
    BY <1>7, <1>8, <1>9

LEMMA CoarseRounds ==
  ASSUME NEW num \in Nat \ {0}, NEW den \in Nat \ {0}, NEW k \in Int,
         k > Precision, ~Below(num, den, k - 1)
  PROVE  LET p == Pow2[k - Precision]
             r == <<Nearest(num, den * p) * p, 1>>
         IN IsNumber(r) /\ NearBy(r, num, den)
  <1> DEFINE p == Pow2[k - Precision]
             q == Nearest(num, den * p)
             r == <<q * p, 1>>
             off == q * (den * p) - num
  <1>1. k - Precision \in Nat /\ p \in Nat \ {0} /\ den * p \in Nat \ {0}
    <2>1. k - Precision \in Nat
      BY GridFacts
    <2>2. p \in Nat \ {0}
      BY <2>1, PowersPositive
    <2>3. \A a, b \in Nat \ {0} : a * b \in Nat \ {0}
      OBVIOUS
    <2> QED
      BY <2>1, <2>2, <2>3
  <1>2. q \in Nat /\ -(den * p) <= 2 * off /\ 2 * off <= den * p
    BY <1>1, NearestOff
  <1>3. r[1] = q * p /\ r[2] = 1 /\ off \in Int /\ IsNumber(r)
    BY <1>1, <1>2 DEF IsNumber
  <1>4. Off(r, num, den) = off
    BY <1>1, <1>2, <1>3 DEF Off
  <1>5. num >= den * Pow2[k - 1]
    <2>1. k - 1 >= 0 /\ k - 1 \in Nat
      BY GridFacts
    <2>2. Pow2[k - 1] \in Nat
      BY <2>1, PowersPositive
    <2> QED
      BY <2>1, <2>2 DEF Below
  <1>6. p * Grid = 2 * Pow2[k - 1] /\ Pow2[k - 1] \in Nat
    <2>1. k - 1 \in Nat /\ (k - 1) + 1 = (k - Precision) + Precision
      BY GridFacts
    <2> QED
      BY <1>1, <2>1, GridFacts, PowersAdd, PowersDefined DEF Grid
  <1> HIDE DEF p, off
  <1>7. -((den * p) * Grid) <= (2 * off) * Grid /\ (2 * off) * Grid <= (den * p) * Grid
    BY <1>1, <1>2, <1>3, GridFacts, Scaled
  <1>8. (den * p) * Grid = 2 * (den * Pow2[k - 1]) /\ (2 * off) * Grid = 2 * (off * Grid)
    <2>1. (den * p) * Grid = den * (p * Grid)
      BY <1>1, GridFacts
    <2> QED
      BY <1>3, <1>6, <2>1, GridFacts
  <1>9. den * Pow2[k - 1] \in Int /\ off * Grid \in Int
    BY <1>3, <1>6, GridFacts
  <1>10. -num <= off * Grid /\ off * Grid <= num
    BY <1>5, <1>7, <1>8, <1>9
  <1>11. num * r[2] = num
    BY <1>3
  <1> HIDE DEF r
  <1> QED
    BY <1>3, <1>4, <1>10, <1>11 DEF NearBy, r, q, p

(* Rounding is off by one part in 2^Precision of the exact result, or of   *)
(* the least number when the result is smaller than that.                  *)
LEMMA RoundedOff ==
  ASSUME NEW num \in Nat, NEW den \in Nat \ {0}, num < den * Denominator
  PROVE  /\ IsNumber(Rounded(num, den))
         /\ NearBy(Rounded(num, den), num, den) \/ TinyBy(Rounded(num, den), num, den)
         /\ num = 0 => Rounded(num, den) = <<0, 1>>
  <1>1. CASE num = 0
    <2>1. Rounded(num, den) = <<0, 1>>
      BY <1>1 DEF Rounded
    <2>2. IsNumber(<<0, 1>>) /\ Off(<<0, 1>>, num, den) = 0
      BY <1>1 DEF IsNumber, Off
    <2>3. NearBy(<<0, 1>>, num, den)
      BY <1>1, <2>2, GridFacts DEF NearBy
    <2> QED
      BY <2>1, <2>2, <2>3
  <1>2. CASE num # 0
    <2> DEFINE k == Exponent(num, den)
    <2>1. /\ k \in (-MaxExponent)..MaxExponent /\ Below(num, den, k)
          /\ k # -MaxExponent => ~Below(num, den, k - 1)
      BY ExponentLeast
    <2> HIDE DEF k
    <2>2. k \in Int /\ k >= -MaxExponent
      BY <2>1, GridFacts
    <2>3. CASE k <= Precision
      <3>1. Precision - k >= 0
        BY <2>2, <2>3, GridFacts
      <3>2. Rounded(num, den) = <<Nearest(num * Pow2[Precision - k], den), Pow2[Precision - k]>>
        BY <1>2, <3>1 DEF Rounded, k
      <3> QED
        BY <1>2, <2>1, <2>2, <2>3, <3>2, FineRounds
    <2>4. CASE k > Precision
      <3>1. ~(Precision - k >= 0) /\ -(Precision - k) = k - Precision /\ k # -MaxExponent
        BY <2>2, <2>4, GridFacts
      <3>2. Rounded(num, den) =
              <<Nearest(num, den * Pow2[k - Precision]) * Pow2[k - Precision], 1>>
        BY <1>2, <3>1 DEF Rounded, k
      <3> QED
        BY <1>2, <2>1, <2>2, <2>4, <3>1, <3>2, CoarseRounds
    <2> QED
      BY <2>2, <2>3, <2>4, GridFacts
  <1> QED
    BY <1>1, <1>2

(* The result r of some operations stands for the ideal v/u: after j       *)
(* roundings it is off by at most j(m + 1)/m times b/u in 2^Precision,     *)
(* where no ideal result is larger than b/u and there are at most m        *)
(* roundings in all, m(m + 1) of them being no more than 2^Precision.      *)
Tracks(r, v, u, b, j, m) ==
  /\ -(r[2] * (j * (m + 1) * b)) <= (r[1] * u - r[2] * v) * (m * Grid)
  /\ (r[1] * u - r[2] * v) * (m * Grid) <= r[2] * (j * (m + 1) * b)

LEMMA InRange ==
  ASSUME NEW num \in Nat, NEW den \in Nat \ {0}, NEW v \in Int, NEW u \in Nat \ {0}, NEW b \in Nat,
         NEW j \in Nat, NEW m \in Nat \ {0}, j * (m + 1) <= Grid, v <= b, 
         Tracks(<<num, den>>, v, u, b, j, m)
  PROVE  m * (num * u) <= (m + 1) * (den * b) /\ num * u <= 2 * (den * b)
  <1>1. Grid \in Nat \ {0}
    BY GridFacts
  <1>2. (num * u - den * v) * (m * Grid) <= den * (j * (m + 1) * b)
    BY DEF Tracks
  <1>3. den * (j * (m + 1) * b) <= den * (Grid * b)
    <2>1. (Grid - j * (m + 1)) * b \in Nat /\ j * (m + 1) \in Nat
      BY <1>1
    <2>2. (Grid - j * (m + 1)) * b = Grid * b - j * (m + 1) * b
      BY <1>1, <2>1
    <2>3. j * (m + 1) * b <= Grid * b /\ j * (m + 1) * b \in Nat /\ Grid * b \in Nat
      BY <1>1, <2>1, <2>2
    <2>4. \A x, y \in Nat : x <= y => den * x <= den * y
      <3>1. ASSUME NEW x \in Nat, NEW y \in Nat, x <= y PROVE den * x <= den * y
        <4>1. y - x \in Nat /\ den * (y - x) \in Nat /\ den * (y - x) = den * y - den * x
          BY <3>1
        <4> QED
          BY <4>1
      <3> QED
        BY <3>1
    <2> QED
      BY <2>3, <2>4
  <1>4. (den * v) * (m * Grid) <= (den * b) * (m * Grid)
    <2>1. (den * (b - v)) * (m * Grid) \in Nat
      <3>1. b - v \in Nat /\ m * Grid \in Nat
        BY <1>1
      <3>2. den * (b - v) \in Nat
        BY <3>1
      <3> QED
        BY <3>1, <3>2
    <2>2. (den * (b - v)) * (m * Grid) = (den * b) * (m * Grid) - (den * v) * (m * Grid)
      BY <1>1
    <2>3. (den * b) * (m * Grid) \in Int /\ (den * v) * (m * Grid) \in Int
      BY <1>1
    <2> QED
      BY <2>1, <2>2, <2>3
  <1>5. Grid * (m * (num * u)) <= Grid * ((m + 1) * (den * b))
    <2>1. (num * u - den * v) * (m * Grid) = Grid * (m * (num * u)) - (den * v) * (m * Grid)
      BY <1>1
    <2>2. den * (Grid * b) + (den * b) * (m * Grid) = Grid * ((m + 1) * (den * b))
      BY <1>1
    <2>3. /\ (den * v) * (m * Grid) \in Int /\ (den * b) * (m * Grid) \in Int
          /\ Grid * (m * (num * u)) \in Int /\ den * (Grid * b) \in Int
          /\ den * (j * (m + 1) * b) \in Int
      BY <1>1
    <2> QED
      BY <1>2, <1>3, <1>4, <2>1, <2>2, <2>3
  <1>6. m * (num * u) <= (m + 1) * (den * b)
    <2>1. m * (num * u) \in Int /\ (m + 1) * (den * b) \in Int
      OBVIOUS
    <2> QED
      BY <1>1, <1>5, <2>1, Cancelled
  <1>7. m * (num * u) <= m * (2 * (den * b))
    <2>1. den * b \in Nat
      OBVIOUS
    <2>2. (m - 1) * (den * b) \in Nat /\ (m - 1) * (den * b) = m * (2 * (den * b)) - (m + 1) * (den * b)
      BY <2>1
    <2>3. m * (2 * (den * b)) \in Int /\ (m + 1) * (den * b) \in Int
      BY <2>1
    <2> QED
      BY <1>6, <2>2, <2>3
  <1>8. num * u \in Int /\ 2 * (den * b) \in Int
    OBVIOUS
  <1> QED
    BY <1>6, <1>7, <1>8, Cancelled

(* One rounding more leaves a result that follows its ideal on course.     *)
LEMMA RoundStep ==
  ASSUME NEW num \in Nat, NEW den \in Nat \ {0}, NEW v \in Int, NEW u \in Nat \ {0}, NEW b \in Nat,
         NEW j \in Nat, NEW m \in Nat \ {0}, j * (m + 1) <= Grid, v <= b,
         Tracks(<<num, den>>, v, u, b, j, m),
         2 * b < u * Denominator, num = 0 \/ u <= b * Denominator
  PROVE  /\ num < den * Denominator
         /\ IsNumber(Rounded(num, den))
         /\ Tracks(Rounded(num, den), v, u, b, j + 1, m)
  <1>1. Grid \in Nat \ {0} /\ Denominator \in Nat \ {0}
    BY GridFacts
  <1>2. m * (num * u) <= (m + 1) * (den * b) /\ num * u <= 2 * (den * b)
    BY InRange
  <1>3. num < den * Denominator
    <2>1. SUFFICES ASSUME num >= den * Denominator PROVE FALSE
      BY <1>1
    <2>2. (num - den * Denominator) * u >= 0 /\ (num - den * Denominator) * u = num * u - den * (u * Denominator)
      BY <1>1, <2>1
    <2>3. u * Denominator - 2 * b - 1 >= 0 /\ den * (u * Denominator - 2 * b - 1) >= 0
      BY <1>1
    <2>4. den * (u * Denominator - 2 * b - 1) = den * (u * Denominator) - 2 * (den * b) - den
      BY <1>1
    <2>5. num * u \in Int /\ den * b \in Int /\ den * (u * Denominator) \in Int
      BY <1>1
    <2> QED
      BY <1>2, <2>2, <2>3, <2>4, <2>5
  <1> DEFINE r == Rounded(num, den)
             off == Off(r, num, den)
  <1>4. IsNumber(r) /\ (NearBy(r, num, den) \/ TinyBy(r, num, den))
    BY <1>3, RoundedOff
  <1>5. r[1] \in Nat /\ r[2] \in Nat \ {0}
    BY <1>4 DEF IsNumber
  <1> HIDE DEF r
  <1>6. off \in Int /\ off = r[1] * den - num * r[2]
    BY <1>5 DEF Off
  <1> HIDE DEF off
  (* What this rounding adds.                                              *)
  <1> DEFINE e == r[2] * ((m + 1) * (den * b))
  <1>7. e \in Nat
    <2>1. den * b \in Nat /\ (m + 1) * (den * b) \in Nat
      BY <1>1
    <2> QED
      BY <1>5, <2>1
  <1>8. -e <= (off * Grid) * (m * u) /\ (off * Grid) * (m * u) <= e
    <2>1. CASE NearBy(r, num, den)
      <3>1. -(num * r[2]) <= off * Grid /\ off * Grid <= num * r[2]
        BY <2>1 DEF NearBy, off
      <3>2. off * Grid \in Int /\ num * r[2] \in Int /\ m * u \in Nat
        BY <1>1, <1>5, <1>6
      <3>3. /\ -((num * r[2]) * (m * u)) <= (off * Grid) * (m * u)
            /\ (off * Grid) * (m * u) <= (num * r[2]) * (m * u)
        BY <3>1, <3>2, Scaled
      <3>4. (num * r[2]) * (m * u) <= e
        <4>1. m * (num * u) \in Int /\ (m + 1) * (den * b) \in Int
          BY <1>1
        <4>2. ((m + 1) * (den * b) - m * (num * u)) * r[2] >= 0
          <5>1. (m + 1) * (den * b) - m * (num * u) \in Nat
            BY <1>2, <4>1
          <5> QED
            BY <1>5, <5>1
        <4>3. ((m + 1) * (den * b) - m * (num * u)) * r[2]
                = r[2] * ((m + 1) * (den * b)) - (num * r[2]) * (m * u)
          BY <1>5, <4>1
        <4>4. (num * r[2]) * (m * u) \in Int
          BY <1>5
        <4> QED
          BY <1>7, <4>2, <4>3, <4>4
      <3>5. (off * Grid) * (m * u) \in Int /\ (num * r[2]) * (m * u) \in Int
        BY <3>2
      <3> HIDE DEF e
      <3> QED
        BY <1>7, <3>3, <3>4, <3>5
    <2>2. CASE TinyBy(r, num, den)
      <3>1. /\ num # 0 /\ -(den * r[2]) <= off * Grid * Denominator
            /\ off * Grid * Denominator <= den * r[2]
        BY <2>2 DEF TinyBy, off
      <3>2. u <= b * Denominator
        BY <3>1
      <3> DEFINE x == off * Grid
      <3>3. x \in Int
        BY <1>1, <1>6
      <3> HIDE DEF x
      <3>4. -(den * r[2]) <= x * Denominator /\ x * Denominator <= den * r[2]
        BY <3>1 DEF x
      <3>5. /\ -((den * r[2]) * (m * b)) <= (x * Denominator) * (m * b)
            /\ (x * Denominator) * (m * b) <= (den * r[2]) * (m * b)
        <4>1. x * Denominator \in Int /\ den * r[2] \in Int /\ m * b \in Nat
          BY <1>1, <1>5, <3>3
        <4> QED
          BY <3>4, <4>1, Scaled
      <3>6. (den * r[2]) * (m * b) <= e
        <4>1. den * b \in Nat /\ r[2] * (den * b) \in Nat
          BY <1>1, <1>5
        <4>2. e = (den * r[2]) * (m * b) + r[2] * (den * b)
          BY <1>1, <1>5
        <4>3. (den * r[2]) * (m * b) \in Int
          BY <1>5
        <4> QED
          BY <4>1, <4>2, <4>3
      <3>7. \/ x >= 0 /\ 0 <= x * (m * u) /\ x * (m * u) <= (x * Denominator) * (m * b)
            \/ x <= 0 /\ 0 >= x * (m * u) /\ x * (m * u) >= (x * Denominator) * (m * b)
        <4>1. (b * Denominator - u) * m \in Nat
          <5>1. b * Denominator - u \in Nat
            BY <1>1, <3>2
          <5> QED
            BY <5>1
        <4>2. x * ((b * Denominator - u) * m) = (x * Denominator) * (m * b) - x * (m * u)
          BY <1>1, <3>3
        <4>3. x * (m * u) \in Int /\ (x * Denominator) * (m * b) \in Int /\ m * u \in Nat
          BY <1>1, <3>3
        <4>4. CASE x >= 0
          <5>1. x * ((b * Denominator - u) * m) >= 0 /\ x * (m * u) >= 0
            BY <3>3, <4>1, <4>3, <4>4
          <5> QED
            BY <4>2, <4>3, <4>4, <5>1
        <4>5. CASE x <= 0
          <5>1. x * ((b * Denominator - u) * m) <= 0 /\ x * (m * u) <= 0
            BY <3>3, <4>1, <4>3, <4>5
          <5> QED
            BY <4>2, <4>3, <4>5, <5>1
        <4> QED
          BY <3>3, <4>4, <4>5
      <3>8. x * (m * u) \in Int /\ (x * Denominator) * (m * b) \in Int /\ (den * r[2]) * (m * b) \in Int
        BY <1>1, <1>5, <3>3
      <3> HIDE DEF e
      <3>9. -e <= x * (m * u) /\ x * (m * u) <= e
        BY <1>7, <3>5, <3>6, <3>7, <3>8
      <3> QED
        BY <3>9 DEF x
    <2> QED
      BY <1>4, <2>1, <2>2
  (* What was off before.                                                  *)
  <1> DEFINE g == (num * u - den * v) * (m * Grid)
             c == den * (j * (m + 1) * b)
  <1>9. -c <= g /\ g <= c
    BY DEF Tracks
  <1>10. g \in Int /\ c \in Int
    BY <1>1
  <1> HIDE DEF g, c
  <1>11. -(c * r[2]) <= g * r[2] /\ g * r[2] <= c * r[2]
    BY <1>5, <1>9, <1>10, Scaled
  (* Together.                                                             *)
  <1> DEFINE h == (r[1] * u - r[2] * v) * (m * Grid)
             f == r[2] * ((j + 1) * (m + 1) * b)
  <1>12. den * h = (off * Grid) * (m * u) + g * r[2]
    <2>1. den * (r[1] * u - r[2] * v) = u * off + r[2] * (num * u - den * v)
      BY <1>5, <1>6
    <2>2. r[1] * u - r[2] * v \in Int /\ num * u - den * v \in Int /\ m * Grid \in Int
      BY <1>1, <1>5
    <2>3. den * h = (den * (r[1] * u - r[2] * v)) * (m * Grid)
      BY <2>2
    <2>4. (u * off + r[2] * (num * u - den * v)) * (m * Grid)
            = (off * Grid) * (m * u) + ((num * u - den * v) * (m * Grid)) * r[2]
      BY <1>1, <1>5, <1>6, <2>2
    <2> QED
      BY <2>1, <2>3, <2>4 DEF g
  <1>13. e + c * r[2] = den * f
    BY <1>1, <1>5 DEF c
  <1>14. h \in Int /\ f \in Int
    BY <1>1, <1>5
  <1> HIDE DEF e, h, f
  <1>15. -(den * f) <= den * h /\ den * h <= den * f
    <2>1. (off * Grid) * (m * u) \in Int /\ g * r[2] \in Int /\ c * r[2] \in Int
      BY <1>1, <1>5, <1>6, <1>10
    <2> QED
      BY <1>7, <1>8, <1>11, <1>12, <1>13, <2>1
  <1>16. den * (-f) <= den * h
    BY <1>14, <1>15
  <1>17. -f <= h /\ h <= f
    <2>1. -f \in Int
      BY <1>14
    <2> QED
      BY <1>14, <1>15, <1>16, <2>1, Cancelled
  <1>18. Tracks(r, v, u, b, j + 1, m)
    BY <1>17 DEF Tracks, h, f
  <1> QED
    BY <1>3, <1>4, <1>18 DEF r

(* One operation more: adding or taking away a number that stands for its  *)
(* ideal exactly, or scaling by a random number.                           *)
LEMMA ZeroTracked ==
  ASSUME NEW r, IsNumber(r), NEW u \in Nat \ {0}, NEW j \in Nat, NEW m \in Nat \ {0},
         NEW v \in Int, v <= 0, Tracks(r, v, u, 0, j, m)
  PROVE  r[1] = 0
  <1>1. r[1] \in Nat /\ r[2] \in Nat \ {0} /\ Grid \in Nat \ {0}
    BY GridFacts DEF IsNumber
  <1>2. (r[1] * u - r[2] * v) * (m * Grid) <= 0
    <2>1. r[2] * (j * (m + 1) * 0) = 0
      BY <1>1
    <2> QED
      BY <2>1 DEF Tracks
  <1>3. m * Grid \in Nat \ {0} /\ -(r[2] * v) >= 0 /\ r[1] * u \in Nat
    <2>1. r[2] * (-v) >= 0 /\ r[2] * (-v) = -(r[2] * v)
      BY <1>1
    <2>2. \A a, b \in Nat \ {0} : a * b \in Nat \ {0}
      OBVIOUS
    <2> QED
      BY <1>1, <2>1, <2>2
  <1>4. r[1] * u - r[2] * v <= 0
    <2>1. r[1] * u - r[2] * v \in Int
      BY <1>1
    <2>2. (m * Grid) * (r[1] * u - r[2] * v) <= (m * Grid) * 0
      BY <1>2, <1>3, <2>1
    <2>3. 0 \in Int
      OBVIOUS
    <2> QED
      BY <1>3, <2>1, <2>2, <2>3, Cancelled
  <1>5. r[1] * u <= 0
    BY <1>1, <1>3, <1>4
  <1>6. r[1] # 0 => r[1] * u > 0
    BY <1>1
  <1> QED
    BY <1>5, <1>6, <1>3

LEMMA PlusTracks ==
  ASSUME NEW x, IsNumber(x), NEW y, IsNumber(y), NEW u \in Nat \ {0}, NEW b \in Nat,
         NEW j \in Nat, NEW m \in Nat \ {0}, j * (m + 1) <= Grid,
         NEW v \in Nat, Tracks(x, v, u, b, j, m), NEW w \in Nat, y[1] * u = w * y[2],
         v + w <= b, 2 * b < u * Denominator, u <= Denominator
  PROVE  IsNumber(Plus(x, y)) /\ Tracks(Plus(x, y), v + w, u, b, j + 1, m)
  <1> DEFINE num == x[1] * y[2] + y[1] * x[2]
             den == x[2] * y[2]
  <1>1. /\ x[1] \in Nat /\ x[2] \in Nat \ {0} /\ y[1] \in Nat /\ y[2] \in Nat \ {0}
        /\ Grid \in Nat \ {0} /\ Denominator \in Nat
    BY GridFacts DEF IsNumber
  <1>2. num \in Nat /\ den \in Nat \ {0}
    <2>1. \A a, c \in Nat \ {0} : a * c \in Nat \ {0}
      OBVIOUS
    <2> QED
      BY <1>1, <2>1
  <1>3. num * u - den * (v + w) = (x[1] * u - x[2] * v) * y[2]
    <2>1. num * u - den * (v + w)
            = (x[1] * u - x[2] * v) * y[2] + x[2] * (y[1] * u) - x[2] * (w * y[2])
      BY <1>1
    <2>2. x[2] * (w * y[2]) \in Int /\ (x[1] * u - x[2] * v) * y[2] \in Int
      BY <1>1
    <2> QED
      BY <2>1, <2>2
  <1>4. Tracks(<<num, den>>, v + w, u, b, j, m)
    <2> DEFINE g == (x[1] * u - x[2] * v) * (m * Grid)
               c == x[2] * (j * (m + 1) * b)
    <2>1. -c <= g /\ g <= c
      BY DEF Tracks
    <2>2. g \in Int /\ c \in Int
      BY <1>1
    <2>3. (num * u - den * (v + w)) * (m * Grid) = g * y[2] /\ den * (j * (m + 1) * b) = c * y[2]
      <3>1. ((x[1] * u - x[2] * v) * y[2]) * (m * Grid) = g * y[2]
        BY <1>1
      <3>2. den * (j * (m + 1) * b) = c * y[2]
        BY <1>1
      <3> HIDE DEF g, c, num, den
      <3> QED
        BY <1>3, <3>1, <3>2
    <2> HIDE DEF g, c, num, den
    <2>4. -(c * y[2]) <= g * y[2] /\ g * y[2] <= c * y[2]
      BY <1>1, <2>1, <2>2, Scaled
    <2>5. <<num, den>>[1] = num /\ <<num, den>>[2] = den
      OBVIOUS
    <2> QED
      BY <2>3, <2>4, <2>5 DEF Tracks
  <1>5. num = 0 \/ u <= b * Denominator
    <2>1. CASE b = 0
      <3>1. v = 0 /\ w = 0
        BY <2>1
      <3>2. x[1] = 0
        BY <2>1, <3>1, ZeroTracked
      <3>3. y[1] = 0
        BY <1>1, <3>1
      <3> QED
        BY <1>1, <3>2, <3>3
    <2>2. CASE b # 0
      <3>1. (b - 1) * Denominator >= 0 /\ (b - 1) * Denominator = b * Denominator - Denominator
        BY <1>1, <2>2
      <3> QED
        BY <1>1, <3>1
    <2> QED
      BY <2>1, <2>2
  <1>6. Plus(x, y) = Rounded(num, den)
    BY DEF Plus
  <1>7. v + w \in Int
    OBVIOUS
  <1> HIDE DEF num, den
  <1> QED
    BY <1>2, <1>4, <1>5, <1>6, <1>7, RoundStep

LEMMA MinusTracks ==
  ASSUME NEW x, IsNumber(x), NEW y, IsNumber(y), NEW u \in Nat \ {0}, NEW b \in Nat,
         NEW j \in Nat, NEW m \in Nat \ {0}, j * (m + 1) <= Grid,
         NEW v \in Int, Tracks(x, v, u, b, j, m), NEW w \in Nat, y[1] * u = w * y[2],
         v <= b, ~AtMost(x, y), 2 * b < u * Denominator, u <= b * Denominator
  PROVE  IsNumber(Minus(x, y)) /\ Tracks(Minus(x, y), v - w, u, b, j + 1, m)
  <1> DEFINE num == x[1] * y[2] - y[1] * x[2]
             den == x[2] * y[2]
  <1>1. /\ x[1] \in Nat /\ x[2] \in Nat \ {0} /\ y[1] \in Nat /\ y[2] \in Nat \ {0}
        /\ Grid \in Nat \ {0} /\ Denominator \in Nat
    BY GridFacts DEF IsNumber
  <1>2. num \in Nat /\ den \in Nat \ {0}
    <2>1. \A a, c \in Nat \ {0} : a * c \in Nat \ {0}
      OBVIOUS
    <2>2. x[1] * y[2] > y[1] * x[2]
      BY <1>1 DEF AtMost
    <2>3. x[1] * y[2] \in Int /\ y[1] * x[2] \in Int
      BY <1>1
    <2> QED
      BY <1>1, <2>1, <2>2, <2>3
  <1>3. num * u - den * (v - w) = (x[1] * u - x[2] * v) * y[2]
    <2>1. num * u - den * (v - w)
            = (x[1] * u - x[2] * v) * y[2] - x[2] * (y[1] * u) + x[2] * (w * y[2])
      <3>1. num * u = (x[1] * u) * y[2] - x[2] * (y[1] * u)
        BY <1>1
      <3>2. den * (v - w) = (x[2] * v) * y[2] - x[2] * (w * y[2])
        BY <1>1
      <3>3. (x[1] * u - x[2] * v) * y[2] = (x[1] * u) * y[2] - (x[2] * v) * y[2]
        BY <1>1
      <3>4. /\ (x[1] * u) * y[2] \in Int /\ x[2] * (y[1] * u) \in Int
            /\ (x[2] * v) * y[2] \in Int /\ x[2] * (w * y[2]) \in Int
        BY <1>1
      <3> HIDE DEF num, den
      <3> QED
        BY <3>1, <3>2, <3>3, <3>4
    <2>2. x[2] * (w * y[2]) \in Int /\ (x[1] * u - x[2] * v) * y[2] \in Int
      BY <1>1
    <2> QED
      BY <2>1, <2>2
  <1>4. Tracks(<<num, den>>, v - w, u, b, j, m)
    <2> DEFINE g == (x[1] * u - x[2] * v) * (m * Grid)
               c == x[2] * (j * (m + 1) * b)
    <2>1. -c <= g /\ g <= c
      BY DEF Tracks
    <2>2. g \in Int /\ c \in Int
      BY <1>1
    <2>3. (num * u - den * (v - w)) * (m * Grid) = g * y[2] /\ den * (j * (m + 1) * b) = c * y[2]
      <3>1. ((x[1] * u - x[2] * v) * y[2]) * (m * Grid) = g * y[2]
        BY <1>1
      <3>2. den * (j * (m + 1) * b) = c * y[2]
        BY <1>1
      <3> HIDE DEF g, c, num, den
      <3> QED
        BY <1>3, <3>1, <3>2
    <2> HIDE DEF g, c, num, den
    <2>4. -(c * y[2]) <= g * y[2] /\ g * y[2] <= c * y[2]
      BY <1>1, <2>1, <2>2, Scaled
    <2>5. <<num, den>>[1] = num /\ <<num, den>>[2] = den
      OBVIOUS
    <2> QED
      BY <2>3, <2>4, <2>5 DEF Tracks
  <1>5. Minus(x, y) = Rounded(num, den)
    BY DEF Minus
  <1>6. v - w \in Int /\ v - w <= b
    OBVIOUS
  <1> HIDE DEF num, den
  <1> QED
    BY <1>2, <1>4, <1>5, <1>6, RoundStep

(* A random number is a in 2^Precision parts.                              *)
LEMMA ProductTracks ==
  ASSUME NEW x, IsNumber(x), NEW b \in Nat, b # 0,
         NEW j \in Nat, NEW m \in Nat \ {0}, j * (m + 1) <= Grid,
         Tracks(x, b, Denominator, b, j, m), NEW a \in 0..(Grid - 1),
         2 * b < Denominator * Denominator
  PROVE  LET p == Product(<<a, Grid>>, x)
         IN IsNumber(p) /\ Tracks(p, a * b, Denominator * Grid, b * Grid, j + 1, m)
  <1> DEFINE num == a * x[1]
             den == Grid * x[2]
             u == Denominator * Grid
  <1>1. /\ x[1] \in Nat /\ x[2] \in Nat \ {0} /\ Grid \in Nat \ {0} /\ a \in Nat /\ a <= Grid
        /\ Denominator \in Nat \ {0}
    BY GridFacts DEF IsNumber
  <1>2. num \in Nat /\ den \in Nat \ {0} /\ u \in Nat \ {0} /\ b * Grid \in Nat /\ a * b \in Nat
    <2>1. \A c, d \in Nat \ {0} : c * d \in Nat \ {0}
      OBVIOUS
    <2> QED
      BY <1>1, <2>1
  <1>3. Tracks(<<num, den>>, a * b, u, b * Grid, j, m)
    <2> DEFINE g == (x[1] * Denominator - x[2] * b) * (m * Grid)
               c == x[2] * (j * (m + 1) * b)
    <2>1. -c <= g /\ g <= c
      BY DEF Tracks
    <2>2. g \in Int /\ c \in Int
      BY <1>1
    <2>3. (num * u - den * (a * b)) * (m * Grid) = g * (a * Grid)
      <3>1. num * u - den * (a * b) = (a * Grid) * (x[1] * Denominator - x[2] * b)
        BY <1>1
      <3>2. x[1] * Denominator - x[2] * b \in Int /\ a * Grid \in Int /\ m * Grid \in Int
        BY <1>1
      <3> HIDE DEF num, den, u
      <3> QED
        BY <3>1, <3>2
    <2>4. den * (j * (m + 1) * (b * Grid)) = c * (Grid * Grid)
      BY <1>1
    <2> HIDE DEF g, c, num, den, u
    <2>5. -(c * (a * Grid)) <= g * (a * Grid) /\ g * (a * Grid) <= c * (a * Grid)
      <3>1. a * Grid \in Nat
        BY <1>1
      <3> QED
        BY <2>1, <2>2, <3>1, Scaled
    <2>6. c * (a * Grid) <= c * (Grid * Grid)
      <3>1. c >= 0
        BY <2>1, <2>2
      <3>2. c * ((Grid - a) * Grid) >= 0
        <4>1. (Grid - a) * Grid \in Nat
          <5>1. Grid - a \in Nat
            BY <1>1
          <5> QED
            BY <1>1, <5>1
        <4> QED
          BY <2>2, <3>1, <4>1
      <3>3. c * ((Grid - a) * Grid) = c * (Grid * Grid) - c * (a * Grid)
        BY <1>1, <2>2
      <3>4. c * (Grid * Grid) \in Int /\ c * (a * Grid) \in Int
        BY <1>1, <2>2
      <3> QED
        BY <3>2, <3>3, <3>4
    <2>7. g * (a * Grid) \in Int /\ c * (a * Grid) \in Int /\ c * (Grid * Grid) \in Int
      BY <1>1, <2>2
    <2>8. -(c * (Grid * Grid)) <= g * (a * Grid) /\ g * (a * Grid) <= c * (Grid * Grid)
      BY <2>5, <2>6, <2>7
    <2>9. <<num, den>>[1] = num /\ <<num, den>>[2] = den
      OBVIOUS
    <2> QED
      BY <2>3, <2>4, <2>8, <2>9 DEF Tracks
  <1>4. a * b <= b * Grid
    <2>1. (Grid - a) * b >= 0 /\ (Grid - a) * b = b * Grid - a * b
      BY <1>1
    <2> QED
      BY <1>2, <2>1
  <1>5. 2 * (b * Grid) < u * Denominator
    <2>1. (Denominator * Denominator - 2 * b - 1) * Grid >= 0
      BY <1>1
    <2>2. (Denominator * Denominator - 2 * b - 1) * Grid = u * Denominator - 2 * (b * Grid) - Grid
      BY <1>1
    <2>3. u * Denominator \in Int
      BY <1>1
    <2> QED
      BY <1>1, <1>2, <2>1, <2>2, <2>3
  <1>6. u <= (b * Grid) * Denominator
    <2>1. (b - 1) * (Denominator * Grid) >= 0
      BY <1>1, <1>2
    <2>2. (b - 1) * (Denominator * Grid) = (b * Grid) * Denominator - u
      BY <1>1
    <2>3. (b * Grid) * Denominator \in Int
      BY <1>1
    <2> QED
      BY <1>2, <2>1, <2>2, <2>3
  <1>7. Product(<<a, Grid>>, x) = Rounded(num, den)
    BY DEF Product
  <1>8. a * b \in Int
    BY <1>2
  <1> HIDE DEF num, den, u
  <1>9. /\ IsNumber(Rounded(num, den)) /\ Tracks(Rounded(num, den), a * b, u, b * Grid, j + 1, m)
    BY <1>2, <1>3, <1>4, <1>5, <1>6, <1>8, RoundStep
  <1> QED
    BY <1>7, <1>9 DEF u

(* A sum is taken number by number.                                        *)
SumsUp(f, xs) == f[0] = <<0, 1>> /\ \A i \in 0..(Len(xs) - 1) : f[i + 1] = Plus(f[i], xs[i + 1])

(* The numbers xs stand for X exactly.                                     *)
StandsFor(xs, X) ==
  \A i \in 1..Len(xs) : X[i] \in Nat /\ IsNumber(xs[i]) /\ xs[i][1] * Denominator = X[i] * xs[i][2]

InReach(xs, X, m) ==
  Len(xs) * (m + 1) <= Grid /\ 2 * SumUpto(X, Len(xs)) < Denominator * Denominator

SumTracks(v, i, xs, X, m) ==
  IsNumber(v) /\ Tracks(v, SumUpto(X, i), Denominator, SumUpto(X, Len(xs)), i, m)

LEMMA NothingTracks ==
  ASSUME NEW xs, Len(xs) \in Nat, NEW X, StandsFor(xs, X), NEW m \in Nat \ {0}
  PROVE  SumTracks(<<0, 1>>, 0, xs, X, m)
  <1>1. SumUpto(X, 0) = 0 /\ SumUpto(X, Len(xs)) \in Nat
    BY PartialSums DEF StandsFor
  <1>2. 0 * Denominator - 1 * 0 = 0 /\ 0 * (m * Grid) = 0 /\ 1 * (0 * (m + 1) * SumUpto(X, Len(xs))) = 0
    BY <1>1, GridFacts
  <1>3. <<0, 1>>[1] = 0 /\ <<0, 1>>[2] = 1 /\ IsNumber(<<0, 1>>)
    BY DEF IsNumber
  <1> QED
    BY <1>1, <1>2, <1>3 DEF SumTracks, Tracks

LEMMA NextTracks ==
  ASSUME NEW xs, Len(xs) \in Nat, NEW X, StandsFor(xs, X), NEW m \in Nat \ {0}, InReach(xs, X, m),
         NEW i \in 0..(Len(xs) - 1), NEW v, SumTracks(v, i, xs, X, m)
  PROVE  SumTracks(Plus(v, xs[i + 1]), i + 1, xs, X, m)
  <1> DEFINE b == SumUpto(X, Len(xs))
             w == X[i + 1]
             y == xs[i + 1]
  <1>1. /\ SumUpto(X, i) \in Nat /\ b \in Nat /\ SumUpto(X, i + 1) <= b
        /\ SumUpto(X, i + 1) = SumUpto(X, i) + w
    <2>1. i \in 0..Len(xs) /\ i + 1 \in 0..Len(xs) /\ Len(xs) \in 0..Len(xs)
      OBVIOUS
    <2> QED
      BY <2>1, PartialSums DEF StandsFor
  <1>2. w \in Nat /\ IsNumber(y) /\ y[1] * Denominator = w * y[2]
    <2>1. i + 1 \in 1..Len(xs)
      OBVIOUS
    <2> QED
      BY <2>1 DEF StandsFor
  <1>3. i \in Nat /\ i * (m + 1) <= Grid
    <2>1. (Len(xs) - i) * (m + 1) >= 0 /\ (Len(xs) - i) * (m + 1) = Len(xs) * (m + 1) - i * (m + 1)
      OBVIOUS
    <2>2. Len(xs) * (m + 1) <= Grid /\ Len(xs) * (m + 1) \in Int /\ i * (m + 1) \in Int
      BY DEF InReach
    <2> QED
      BY <2>1, <2>2, GridFacts
  <1>4. Denominator \in Nat \ {0} /\ 2 * b < Denominator * Denominator
    BY GridFacts DEF InReach
  <1>5. IsNumber(v) /\ Tracks(v, SumUpto(X, i), Denominator, b, i, m)
    BY DEF SumTracks
  <1> HIDE DEF b, w, y
  <1>6. IsNumber(Plus(v, y)) /\ Tracks(Plus(v, y), SumUpto(X, i) + w, Denominator, b, i + 1, m)
    BY <1>1, <1>2, <1>3, <1>4, <1>5, PlusTracks
  <1> QED
    BY <1>1, <1>6 DEF SumTracks, b, y

LEMMA SumStaysNear ==
  ASSUME NEW xs, Len(xs) \in Nat, NEW X, StandsFor(xs, X), NEW m \in Nat \ {0}, InReach(xs, X, m),
         NEW f, SumsUp(f, xs)
  PROVE  \A i \in 0..Len(xs) : SumTracks(f[i], i, xs, X, m)
  <1> DEFINE bad == {i \in 0..Len(xs) : ~SumTracks(f[i], i, xs, X, m)}
  <1>1. ASSUME bad # {} PROVE FALSE
    <2>1. PICK k \in bad : \A j \in bad : k <= j
      <3>1. bad \subseteq Nat
        OBVIOUS
      <3> HIDE DEF bad
      <3> QED
        BY <1>1, <3>1, LeastElement
    <2>2. k # 0
      BY <2>1, NothingTracks DEF SumsUp
    <2>3. k - 1 \in 0..(Len(xs) - 1) /\ k - 1 \in 0..Len(xs) /\ ~(k <= k - 1) /\ (k - 1) + 1 = k
      BY <2>1, <2>2
    <2>4. SumTracks(f[k - 1], k - 1, xs, X, m)
      BY <2>1, <2>3
    <2>5. SumTracks(Plus(f[k - 1], xs[(k - 1) + 1]), (k - 1) + 1, xs, X, m)
      BY <2>3, <2>4, NextTracks
    <2>6. f[k] = Plus(f[k - 1], xs[k])
      BY <2>3 DEF SumsUp
    <2> QED
      BY <2>1, <2>3, <2>5, <2>6
  <1> QED
    BY <1>1

IsTotal(f, xs) == f = [i \in 0..Len(xs) |-> IF i = 0 THEN <<0, 1>> ELSE Plus(f[i - 1], xs[i])]

LEMMA TotalExists ==
  ASSUME NEW xs, Len(xs) \in Nat, NEW X, StandsFor(xs, X), NEW m \in Nat \ {0}, InReach(xs, X, m)
  PROVE  \E f : IsTotal(f, xs)
  <1> DEFINE V == Nat \X (Nat \ {0})
             Goes(i, v) == i < Len(xs) /\ SumTracks(v, i, xs, X, m)
             step == [x \in Nat \X V |-> IF Goes(x[1], x[2]) THEN Plus(x[2], xs[x[1] + 1]) ELSE x[2]]
  <1>1. ASSUME NEW i \in Nat, NEW v \in V
        PROVE  step[<<i, v>>] = IF Goes(i, v) THEN Plus(v, xs[i + 1]) ELSE v
    <2>1. <<i, v>> \in Nat \X V /\ <<i, v>>[1] = i /\ <<i, v>>[2] = v
      OBVIOUS
    <2> HIDE DEF Goes, V
    <2> QED
      BY <2>1
  <1>2. ASSUME NEW i \in Nat, NEW v \in V, Goes(i, v)
        PROVE  SumTracks(Plus(v, xs[i + 1]), i + 1, xs, X, m)
    <2>1. i \in 0..(Len(xs) - 1)
      BY <1>2
    <2> QED
      BY <1>2, <2>1, NextTracks
  <1>3. StaysIn(step, V)
    <2>1. ASSUME NEW i \in Nat, NEW v \in V PROVE step[<<i, v>>] \in V
      <3>1. CASE Goes(i, v)
        <4>1. Plus(v, xs[i + 1]) \in V
          BY <1>2, <3>1 DEF SumTracks, IsNumber
        <4> HIDE DEF step, Goes, V
        <4> QED
          BY <1>1, <3>1, <4>1
      <3>2. CASE ~Goes(i, v)
        <4> HIDE DEF step, Goes, V
        <4> QED
          BY <1>1, <3>2
      <3> QED
        BY <3>1, <3>2
    <2> HIDE DEF step, V
    <2> QED
      BY <2>1 DEF StaysIn
  <1>4. <<0, 1>> \in V
    OBVIOUS
  <1> HIDE DEF step
  <1>5. PICK f : Recursive(f, V, <<0, 1>>, step)
    BY <1>3, <1>4, RecursionExists
  <1>6. f[0] = <<0, 1>> /\ \A i \in Nat : f[i] \in V /\ f[i + 1] = step[<<i, f[i]>>]
    BY <1>5 DEF Recursive
  <1> DEFINE bad == {i \in 0..Len(xs) : ~SumTracks(f[i], i, xs, X, m)}
  <1>7. ASSUME bad # {} PROVE FALSE
    <2>1. PICK k \in bad : \A j \in bad : k <= j
      <3>1. bad \subseteq Nat
        OBVIOUS
      <3> HIDE DEF bad
      <3> QED
        BY <1>7, <3>1, LeastElement
    <2>2. k # 0
      BY <1>6, <2>1, NothingTracks
    <2>3. k - 1 \in Nat /\ k - 1 \in 0..Len(xs) /\ ~(k <= k - 1) /\ (k - 1) + 1 = k /\ k - 1 < Len(xs)
      BY <2>1, <2>2
    <2>4. SumTracks(f[k - 1], k - 1, xs, X, m)
      BY <2>1, <2>3
    <2>5. Goes(k - 1, f[k - 1])
      BY <2>3, <2>4
    <2>6. f[k - 1] \in V /\ f[k] = step[<<k - 1, f[k - 1]>>]
      BY <1>6, <2>3
    <2>7. SumTracks(Plus(f[k - 1], xs[(k - 1) + 1]), (k - 1) + 1, xs, X, m)
      BY <1>2, <2>3, <2>5, <2>6
    <2>8. f[k] = Plus(f[k - 1], xs[(k - 1) + 1])
      <3> HIDE DEF Goes, V
      <3> QED
        BY <1>1, <2>3, <2>5, <2>6
    <2> QED
      BY <2>1, <2>3, <2>7, <2>8
  <1> DEFINE g == [i \in 0..Len(xs) |-> f[i]]
  <1>8. ASSUME NEW i \in 0..Len(xs) PROVE g[i] = IF i = 0 THEN <<0, 1>> ELSE Plus(g[i - 1], xs[i])
    <2>1. CASE i = 0
      BY <1>6, <2>1
    <2>2. CASE i # 0
      <3>1. i - 1 \in Nat /\ i - 1 \in 0..Len(xs) /\ i - 1 < Len(xs) /\ (i - 1) + 1 = i
        BY <2>2
      <3>2. Goes(i - 1, f[i - 1])
        BY <1>7, <3>1
      <3>3. f[i] = Plus(f[i - 1], xs[i])
        <4>1. f[i] = step[<<i - 1, f[i - 1]>>] /\ f[i - 1] \in V
          BY <1>6, <3>1
        <4> HIDE DEF Goes, V
        <4> QED
          BY <1>1, <3>1, <3>2, <4>1
      <3> QED
        BY <2>2, <3>1, <3>3
    <2> QED
      BY <2>1, <2>2
  <1>9. g = [i \in 0..Len(xs) |-> IF i = 0 THEN <<0, 1>> ELSE Plus(g[i - 1], xs[i])]
    <2>1. g = [i \in 0..Len(xs) |-> g[i]]
      OBVIOUS
    <2> HIDE DEF g
    <2> QED
      BY <1>8, <2>1
  <1> QED
    BY <1>9 DEF IsTotal

(* What a sum in floating point is off by.                                 *)
LEMMA TotalTracks ==
  ASSUME NEW xs, Len(xs) \in Nat, NEW X, StandsFor(xs, X), NEW m \in Nat \ {0}, InReach(xs, X, m)
  PROVE  SumTracks(Total(xs), Len(xs), xs, X, m)
  <1> DEFINE sum == CHOOSE f : IsTotal(f, xs)
  <1>1. Total(xs) = sum[Len(xs)]
    BY DEF Total, IsTotal
  <1>2. IsTotal(sum, xs)
    BY TotalExists
  <1> HIDE DEF sum
  <1>3. \A i \in 0..Len(xs) : sum[i] = IF i = 0 THEN <<0, 1>> ELSE Plus(sum[i - 1], xs[i])
    BY <1>2 DEF IsTotal
  <1>4. SumsUp(sum, xs)
    <2>1. sum[0] = <<0, 1>>
      BY <1>3
    <2>2. ASSUME NEW i \in 0..(Len(xs) - 1) PROVE sum[i + 1] = Plus(sum[i], xs[i + 1])
      <3>1. i + 1 \in 0..Len(xs) /\ i + 1 # 0 /\ (i + 1) - 1 = i
        OBVIOUS
      <3> QED
        BY <1>3, <3>1
    <2> QED
      BY <2>1, <2>2 DEF SumsUp
  <1>5. Len(xs) \in 0..Len(xs)
    OBVIOUS
  <1> QED
    BY <1>1, <1>4, <1>5, SumStaysNear

(* A weight is a whole number of units of 1/Denominator.                   *)
LEMMA NumbersExact ==
  ASSUME NEW x \in Numbers
  PROVE  /\ IsNumber(x) /\ Exact(x) \in Nat /\ x[1] * Denominator = Exact(x) * x[2]
         /\ x[1] > 0 => Exact(x) > 0
  <1>1. x[1] \in Nat /\ x = <<x[1], x[2]>> /\ \E k \in 0..MaxExponent : x[2] = Pow2[k]
    BY DEF Numbers
  <1>2. PICK k \in 0..MaxExponent : x[2] = Pow2[k]
    BY <1>1
  <1> DEFINE a == Pow2[k]
             b == Pow2[MaxExponent - k]
             q == Denominator \div a
  <1>3. k \in Nat /\ MaxExponent - k \in Nat /\ k + (MaxExponent - k) = MaxExponent
    BY GridFacts
  <1>4. a \in Nat \ {0} /\ b \in Nat \ {0} /\ Denominator = a * b
    BY <1>3, PowersAdd, PowersPositive DEF Denominator
  <1> HIDE DEF a, b
  <1>5. q = b
    <2>1. \A d \in Nat, e \in Nat \ {0} :
            d \div e \in Nat /\ d % e \in 0..(e - 1) /\ d = (d \div e) * e + (d % e)
      OBVIOUS
    <2>2. q \in Nat /\ Denominator % a \in 0..(a - 1) /\ a * b = q * a + (Denominator % a)
      BY <1>4, <2>1, GridFacts
    <2> HIDE DEF q
    <2>3. a * (b - q) = Denominator % a
      BY <1>4, <2>2
    <2>4. b - q >= 0
      <3>1. b - q < 0 => a * (b - q) < 0
        BY <1>4, <2>2
      <3> QED
        BY <1>4, <2>2, <2>3, <3>1
    <2>5. b - q <= 0
      <3>1. b - q >= 1 => a * (b - q - 1) >= 0 /\ a * (b - q) = a * (b - q - 1) + a
        BY <1>4, <2>2
      <3> QED
        BY <1>4, <2>2, <2>3, <3>1
    <2> QED
      BY <1>4, <2>2, <2>4, <2>5
  <1>6. Exact(x) = x[1] * b
    BY <1>2, <1>5 DEF Exact, a
  <1>7. x[2] = a
    BY <1>2 DEF a
  <1> HIDE DEF q
  <1>8. x[1] * (a * b) = (x[1] * b) * a /\ x[1] * b \in Nat /\ (x[1] > 0 => x[1] * b > 0)
    BY <1>1, <1>4
  <1> QED
    BY <1>1, <1>4, <1>6, <1>7, <1>8 DEF IsNumber

(* What is known of a table: its weights and what they are exactly.        *)
Weights(t) == [i \in DOMAIN t |-> t[i].weight]
Exactly(t) == [i \in DOMAIN t |-> Exact(t[i].weight)]

LEMMA TablesExact ==
  ASSUME TablesInReach, NEW t \in Tables
  PROVE  /\ Len(t) \in Nat \ {0} /\ DOMAIN t = 1..Len(t) /\ Len(Weights(t)) = Len(t)
         /\ \A i \in 1..Len(t) : t[i].weight \in Numbers /\ Exactly(t)[i] = Exact(t[i].weight)
         /\ StandsFor(Weights(t), Exactly(t))
         /\ SumUpto(Exactly(t), Len(t)) \in Nat \ {0}
         /\ (2 * Len(t) + 1) * (2 * Len(t) + 2) <= Grid
         /\ 2 * SumUpto(Exactly(t), Len(t)) < Denominator * Denominator
  <1>1. /\ t \in Seq([key : STRING, weight : Numbers])
        /\ \E i \in DOMAIN t : t[i].weight[1] > 0
    BY PaymentAssumption DEF Valid
  <1>2. Len(t) \in Nat /\ DOMAIN t = 1..Len(t) /\ \A i \in 1..Len(t) : t[i].weight \in Numbers
    <2> DEFINE E == [key : STRING, weight : Numbers]
    <2>1. \A e \in E : e.weight \in Numbers
      OBVIOUS
    <2>2. t \in Seq(E)
      BY <1>1
    <2> HIDE DEF E
    <2>3. Len(t) \in Nat /\ DOMAIN t = 1..Len(t) /\ \A i \in 1..Len(t) : t[i] \in E
      BY <2>2
    <2> QED
      BY <2>1, <2>3
  <1>3. Len(Weights(t)) = Len(t) /\ Len(t) # 0
    BY <1>1, <1>2 DEF Weights
  <1>4. \A i \in 1..Len(t) : Exactly(t)[i] = Exact(t[i].weight) /\ Weights(t)[i] = t[i].weight
    BY <1>2 DEF Exactly, Weights
  <1>5. StandsFor(Weights(t), Exactly(t))
    BY <1>2, <1>3, <1>4, NumbersExact DEF StandsFor
  <1>6. \A i \in 1..Len(t) : Exactly(t)[i] \in Nat
    BY <1>2, <1>4, NumbersExact
  <1>7. SumUpto(Exactly(t), Len(t)) \in Nat \ {0}
    <2>1. PICK i \in 1..Len(t) : t[i].weight[1] > 0
      BY <1>1, <1>2
    <2>2. Exactly(t)[i] > 0
      BY <1>2, <1>4, <2>1, NumbersExact
    <2>3. i - 1 \in 0..(Len(t) - 1) /\ i - 1 \in 0..Len(t) /\ i \in 0..Len(t) /\ (i - 1) + 1 = i
          /\ Len(t) \in 0..Len(t)
      BY <1>2, <2>1
    <2>4. SumUpto(Exactly(t), i) = SumUpto(Exactly(t), i - 1) + Exactly(t)[i]
      BY <1>2, <1>6, <2>3, PartialSums
    <2>5. /\ SumUpto(Exactly(t), i - 1) \in Nat /\ SumUpto(Exactly(t), Len(t)) \in Nat
          /\ SumUpto(Exactly(t), i) <= SumUpto(Exactly(t), Len(t))
      BY <1>2, <1>6, <2>3, PartialSums
    <2> QED
      BY <1>6, <2>1, <2>2, <2>4, <2>5
  <1>8. SumFunction([i \in DOMAIN t |-> Exact(t[i].weight)]) = SumUpto(Exactly(t), Len(t))
    BY <1>2 DEF SumFunction, SumUpto, SumOf, Exactly
  <1> QED
    BY <1>2, <1>3, <1>4, <1>5, <1>7, <1>8 DEF TablesInReach, Grid

LEMMA TotalWeightTracks ==
  ASSUME TablesInReach, NEW t \in Tables
  PROVE  /\ IsNumber(TotalWeight(t))
         /\ Tracks(TotalWeight(t), SumUpto(Exactly(t), Len(t)), Denominator,
                   SumUpto(Exactly(t), Len(t)), Len(t), 2 * Len(t) + 1)
  <1> DEFINE xs == Weights(t)
             X == Exactly(t)
             m == 2 * Len(t) + 1
  <1>1. /\ Len(t) \in Nat \ {0} /\ Len(xs) = Len(t) /\ StandsFor(xs, X)
        /\ (2 * Len(t) + 1) * (2 * Len(t) + 2) <= Grid
        /\ 2 * SumUpto(X, Len(t)) < Denominator * Denominator
    BY TablesExact
  <1>2. TotalWeight(t) = Total(xs)
    BY DEF TotalWeight, Weights
  <1> HIDE DEF xs, X
  <1>3. InReach(xs, X, m)
    <2>1. /\ (Len(t) + 1) * (2 * Len(t) + 2) >= 0
          /\ (Len(t) + 1) * (2 * Len(t) + 2)
               = (2 * Len(t) + 1) * (2 * Len(t) + 2) - Len(t) * (m + 1)
      BY <1>1
    <2>2. Len(t) * (m + 1) \in Int /\ (2 * Len(t) + 1) * (2 * Len(t) + 2) \in Int
      BY <1>1
    <2> QED
      BY <1>1, <2>1, <2>2, GridFacts DEF InReach
  <1>4. m \in Nat \ {0} /\ Len(xs) \in Nat
    BY <1>1
  <1>5. SumTracks(Total(xs), Len(xs), xs, X, m)
    BY <1>1, <1>3, <1>4, TotalTracks
  <1> QED
    BY <1>1, <1>2, <1>5 DEF SumTracks, X

(* A bound that holds after j roundings holds after more of them.          *)
LEMMA TracksOn ==
  ASSUME NEW r, IsNumber(r), NEW v \in Int, NEW u \in Nat, NEW b \in Nat, NEW j \in Nat, NEW k \in Nat,
         j <= k, NEW m \in Nat, Tracks(r, v, u, b, j, m)
  PROVE  Tracks(r, v, u, b, k, m)
  <1> DEFINE c == r[2] * (j * (m + 1) * b)
             d == r[2] * (k * (m + 1) * b)
             g == (r[1] * u - r[2] * v) * (m * Grid)
  <1>1. r[1] \in Nat /\ r[2] \in Nat /\ Grid \in Nat
    BY GridFacts DEF IsNumber
  <1>2. c \in Int /\ d \in Int /\ g \in Int
    BY <1>1
  <1>3. c <= d
    <2>1. (k - j) * (m + 1) * b \in Nat
      <3>1. k - j \in Nat
        OBVIOUS
      <3>2. (k - j) * (m + 1) \in Nat
        BY <3>1
      <3> QED
        BY <3>2
    <2>2. r[2] * ((k - j) * (m + 1) * b) \in Nat
      BY <1>1, <2>1
    <2>3. r[2] * ((k - j) * (m + 1) * b) = d - c
      BY <1>1
    <2> HIDE DEF c, d
    <2> QED
      BY <1>2, <2>2, <2>3
  <1>4. -c <= g /\ g <= c
    BY DEF Tracks
  <1>5. -d <= g /\ g <= d
    <2> HIDE DEF c, d, g
    <2> QED
      BY <1>2, <1>3, <1>4
  <1> QED
    BY <1>5 DEF Tracks

(* What is left of the pick stands for what is left of the draw.           *)
Everything(t) == SumUpto(Exactly(t), Len(t))
Place(k) == draw[1] * Everything(table) - Grid * SumUpto(Exactly(table), k)
PickTracks ==
  /\ IsNumber(pick)
  /\ Tracks(pick, Place(at - 1), Denominator * Grid, Everything(table) * Grid,
            Len(table) + at, 2 * Len(table) + 1)

(* What choose_action keeps true until it returns: whatever was passed     *)
(* over is gone from the pick, and an entry that was chosen holds what was *)
(* left of it.                                                             *)
ChoosingInv ==
  pc \in {"choose", "chosen"} =>
    /\ table \in Tables /\ draw \in Randoms /\ at \in 1..(Len(table) + 1)
    /\ PickTracks
    /\ pc = "chosen" /\ at <= Len(table) => Weight[1] > 0 /\ AtMost(pick, Weight)

LEMMA ChoosingFacts ==
  ASSUME TablesInReach, table \in Tables, draw \in Randoms, at \in 1..(Len(table) + 1)
  PROVE  /\ draw[1] \in 0..(Grid - 1) /\ draw[2] = Grid /\ draw = <<draw[1], Grid>>
         /\ Everything(table) \in Nat \ {0} /\ Place(at - 1) \in Int /\ Place(at - 1) <= Everything(table) * Grid
         /\ at - 1 \in 0..Len(table)
         /\ SumUpto(Exactly(table), at - 1) \in Nat
         /\ SumUpto(Exactly(table), at - 1) <= Everything(table)
         /\ Len(table) \in Nat /\ (Len(table) + at) \in Nat
         /\ at <= Len(table) =>
              /\ SumUpto(Exactly(table), at) = SumUpto(Exactly(table), at - 1) + Exact(Weight)
              /\ Weight \in Numbers /\ SumUpto(Exactly(table), at) \in Nat
  <1>1. PICK k \in 0..(Pow2[Precision] - 1) : draw = <<k, Pow2[Precision]>>
    BY DEF Randoms
  <1>2. draw[1] \in 0..(Grid - 1) /\ draw[2] = Grid /\ draw = <<draw[1], Grid>>
    BY <1>1 DEF Grid
  <1>3. /\ Len(table) \in Nat \ {0} /\ Everything(table) \in Nat \ {0}
        /\ \A i \in 1..Len(table) : table[i].weight \in Numbers /\ Exactly(table)[i] = Exact(table[i].weight)
    BY TablesExact DEF Everything
  <1>4. \A i \in 1..Len(table) : Exactly(table)[i] \in Nat
    BY <1>3, NumbersExact
  <1>5. at - 1 \in 0..Len(table) /\ Len(table) \in 0..Len(table) /\ (at - 1) + 1 = at
    BY <1>3
  <1>6. SumUpto(Exactly(table), at - 1) \in Nat /\ SumUpto(Exactly(table), at - 1) <= Everything(table)
    BY <1>3, <1>4, <1>5, PartialSums DEF Everything
  <1>7. Grid * SumUpto(Exactly(table), at - 1) \in Nat
    BY <1>6, GridFacts
  <1>8. (Grid - draw[1]) * Everything(table) \in Nat
          /\ (Grid - draw[1]) * Everything(table) = Everything(table) * Grid - draw[1] * Everything(table)
          /\ draw[1] * Everything(table) \in Int /\ Everything(table) * Grid \in Int
    <2>1. \A g, s \in Nat : \A a \in 0..g :
            /\ (g - a) * s \in Nat /\ (g - a) * s = s * g - a * s
            /\ a * s \in Int /\ s * g \in Int
      OBVIOUS
    <2>2. draw[1] \in 0..Grid /\ Everything(table) \in Nat /\ Grid \in Nat
      BY <1>2, <1>3, GridFacts
    <2> QED
      BY <2>1, <2>2
  <1>9. Place(at - 1) \in Int /\ Place(at - 1) <= Everything(table) * Grid
    BY <1>7, <1>8 DEF Place
  <1>10. ASSUME at <= Len(table)
         PROVE  /\ SumUpto(Exactly(table), at) = SumUpto(Exactly(table), at - 1) + Exact(Weight)
                /\ Weight \in Numbers /\ SumUpto(Exactly(table), at) \in Nat
    <2>1. at - 1 \in 0..(Len(table) - 1) /\ at \in 0..Len(table) /\ at \in 1..Len(table)
      BY <1>3, <1>10
    <2>2. SumUpto(Exactly(table), (at - 1) + 1) = SumUpto(Exactly(table), at - 1) + Exactly(table)[(at - 1) + 1]
      BY <1>3, <1>4, <2>1, PartialSums
    <2>3. SumUpto(Exactly(table), at) \in Nat
      BY <1>3, <1>4, <2>1, PartialSums
    <2> QED
      BY <1>3, <1>5, <2>1, <2>2, <2>3 DEF Weight
  <1> QED
    BY <1>2, <1>3, <1>5, <1>6, <1>9, <1>10

LEMMA ChoosingStarts ==
  ASSUME TablesInReach, PaymentInit
  PROVE  ChoosingInv
  <1>1. /\ pc = "choose" /\ table \in Tables /\ draw \in Randoms
        /\ at = 1 /\ pick = Product(draw, TotalWeight(table))
    BY DEF PaymentInit
  <1> DEFINE b == Everything(table)
             n == Len(table)
             x == TotalWeight(table)
             a == draw[1]
  <1>2. n \in Nat \ {0} /\ (2 * n + 1) * (2 * n + 2) <= Grid /\ 2 * b < Denominator * Denominator
    BY <1>1, TablesExact DEF Everything
  <1>3. at \in 1..(Len(table) + 1)
    BY <1>1, <1>2
  <1>4. /\ a \in 0..(Grid - 1) /\ draw = <<a, Grid>> /\ b \in Nat \ {0}
    BY <1>1, <1>3, ChoosingFacts
  <1>5. IsNumber(x) /\ Tracks(x, b, Denominator, b, n, 2 * n + 1)
    BY <1>1, TotalWeightTracks DEF Everything
  <1>6. SumUpto(Exactly(table), 0) = 0
    <2>1. \A i \in 1..n : Exactly(table)[i] \in Nat
      BY <1>1, TablesExact, NumbersExact
    <2> QED
      BY <1>2, <2>1, PartialSums
  <1>7. Place(at - 1) = a * b
    BY <1>1, <1>4, <1>6, GridFacts DEF Place
  <1> HIDE DEF a, b, n, x
  <1>8. n * ((2 * n + 1) + 1) <= Grid
    <2>1. (n + 1) * (2 * n + 2) >= 0
          /\ (n + 1) * (2 * n + 2) = (2 * n + 1) * (2 * n + 2) - n * ((2 * n + 1) + 1)
      BY <1>2
    <2>2. n * ((2 * n + 1) + 1) \in Int /\ (2 * n + 1) * (2 * n + 2) \in Int
      BY <1>2
    <2> QED
      BY <1>2, <2>1, <2>2, GridFacts
  <1>9. n \in Nat /\ b \in Nat /\ b # 0 /\ 2 * n + 1 \in Nat \ {0}
    BY <1>2, <1>4
  <1>10. /\ IsNumber(Product(<<a, Grid>>, x))
         /\ Tracks(Product(<<a, Grid>>, x), a * b, Denominator * Grid, b * Grid, n + 1, 2 * n + 1)
    BY <1>2, <1>4, <1>5, <1>8, <1>9, ProductTracks
  <1>11. PickTracks
    BY <1>1, <1>4, <1>7, <1>10 DEF PickTracks, x, b, n
  <1> QED
    BY <1>1, <1>3, <1>11 DEF ChoosingInv

LEMMA SkipTracks ==
  ASSUME TablesInReach, ChoosingInv, Skip
  PROVE  ChoosingInv'
  <1>1. /\ pc = "choose" /\ at <= Len(table) /\ Weight[1] = 0 /\ at' = at + 1
        /\ UNCHANGED <<pc, table, draw, pick>>
    BY DEF Skip, Looking
  <1>2. table \in Tables /\ draw \in Randoms /\ at \in 1..(Len(table) + 1) /\ PickTracks
    BY <1>1 DEF ChoosingInv
  <1>3. /\ Len(table) \in Nat /\ Weight \in Numbers /\ (Len(table) + at) \in Nat
        /\ SumUpto(Exactly(table), at) = SumUpto(Exactly(table), at - 1) + Exact(Weight)
        /\ Everything(table) \in Nat \ {0} /\ SumUpto(Exactly(table), at - 1) \in Nat
        /\ Place(at - 1) \in Int
    BY <1>1, <1>2, ChoosingFacts
  <1>4. Exact(Weight) = 0
    <2>1. Exact(Weight) * Weight[2] = 0 /\ Exact(Weight) \in Nat /\ Weight[2] \in Nat \ {0}
      BY <1>1, <1>3, NumbersExact, GridFacts DEF IsNumber
    <2>2. \A c, d \in Nat \ {0} : c * d # 0
      OBVIOUS
    <2> QED
      BY <2>1, <2>2
  <1>5. Place(at) = Place(at - 1)
    BY <1>3, <1>4 DEF Place
  <1> DEFINE v == Place(at - 1)
             u == Denominator * Grid
             b == Everything(table) * Grid
             j == Len(table) + at
             m == 2 * Len(table) + 1
  <1>6. IsNumber(pick) /\ Tracks(pick, v, u, b, j, m)
    BY <1>2 DEF PickTracks
  <1>7. v \in Int /\ u \in Nat /\ b \in Nat /\ j \in Nat /\ j + 1 \in Nat /\ j <= j + 1 /\ m \in Nat
    BY <1>2, <1>3, GridFacts
  <1> HIDE DEF v, u, b, m, j
  <1>8. Tracks(pick, v, u, b, j + 1, m)
    BY <1>6, <1>7, TracksOn
  <1>9. (at + 1) - 1 = at /\ j + 1 = Len(table) + (at + 1) /\ at + 1 \in 1..(Len(table) + 1)
    BY <1>1, <1>2, <1>3 DEF j
  <1>10. PickTracks'
    <2>1. IsNumber(pick) /\ Tracks(pick, Place((at + 1) - 1), u, b, Len(table) + (at + 1), m)
      BY <1>5, <1>6, <1>8, <1>9 DEF v
    <2>2. Place(at - 1)' = Place((at + 1) - 1)
      BY <1>1 DEF Place, Everything
    <2> QED
      BY <1>1, <2>1, <2>2 DEF PickTracks, u, b, m, Everything
  <1> QED
    BY <1>1, <1>2, <1>9, <1>10 DEF ChoosingInv

LEMMA PassTracks ==
  ASSUME TablesInReach, ChoosingInv, Pass
  PROVE  ChoosingInv'
  <1>1. /\ pc = "choose" /\ at <= Len(table) /\ Weight[1] > 0 /\ at' = at + 1
        /\ pick' = Minus(pick, Weight) /\ ~AtMost(pick, Weight)
        /\ UNCHANGED <<pc, table, draw>>
    BY DEF Pass, Looking
  <1>2. table \in Tables /\ draw \in Randoms /\ at \in 1..(Len(table) + 1) /\ PickTracks
    BY <1>1 DEF ChoosingInv
  <1>3. /\ Len(table) \in Nat /\ Weight \in Numbers /\ (Len(table) + at) \in Nat
        /\ SumUpto(Exactly(table), at) = SumUpto(Exactly(table), at - 1) + Exact(Weight)
        /\ Everything(table) \in Nat \ {0} /\ SumUpto(Exactly(table), at - 1) \in Nat
        /\ Place(at - 1) \in Int /\ Place(at - 1) <= Everything(table) * Grid
        /\ draw[1] \in 0..(Grid - 1)
    BY <1>1, <1>2, ChoosingFacts
  <1>4. /\ (2 * Len(table) + 1) * (2 * Len(table) + 2) <= Grid
        /\ 2 * Everything(table) < Denominator * Denominator
    BY <1>2, TablesExact DEF Everything
  <1> DEFINE v == Place(at - 1)
             u == Denominator * Grid
             s == Everything(table)
             b == s * Grid
             j == Len(table) + at
             m == 2 * Len(table) + 1
             w == Grid * Exact(Weight)
             y == Weight
  <1>5. IsNumber(pick) /\ Tracks(pick, v, u, b, j, m)
    BY <1>2 DEF PickTracks
  <1>6. IsNumber(y) /\ Exact(Weight) \in Nat /\ y[1] * Denominator = Exact(Weight) * y[2]
    BY <1>3, NumbersExact
  <1>7. y[1] * u = w * y[2] /\ w \in Nat
    <2>1. y[1] \in Nat /\ y[2] \in Nat /\ Grid \in Nat /\ Denominator \in Nat
      BY <1>6, GridFacts DEF IsNumber
    <2>2. y[1] * u = (y[1] * Denominator) * Grid /\ w * y[2] = (Exact(Weight) * y[2]) * Grid
      BY <1>6, <2>1
    <2> QED
      BY <1>6, <2>1, <2>2
  <1>8. /\ Grid \in Nat \ {0} /\ Denominator \in Nat \ {0} /\ s \in Nat \ {0} /\ 2 * s < Denominator * Denominator
    BY <1>3, <1>4, GridFacts
  <1>9. v \in Int /\ v <= b /\ j \in Nat /\ m \in Nat \ {0}
    BY <1>3
  <1>10. j * (m + 1) <= Grid
    <2>1. /\ (m - j) * (m + 1) \in Nat /\ (m - j) * (m + 1) = m * (m + 1) - j * (m + 1)
          /\ m * (m + 1) \in Int /\ j * (m + 1) \in Int
      <3>1. m - j \in Nat /\ m + 1 \in Nat
        BY <1>1, <1>2, <1>3
      <3>2. m \in Int /\ j \in Int
        BY <1>9
      <3> HIDE DEF m, j
      <3> QED
        BY <3>1, <3>2
    <2>2. m * (m + 1) <= Grid
      BY <1>3, <1>4
    <2> HIDE DEF m, j
    <2> QED
      BY <1>8, <2>1, <2>2
  <1> HIDE DEF v, s, w, y, j, m
  <1>11. u \in Nat \ {0} /\ b \in Nat
    <2>1. \A c, d \in Nat \ {0} : c * d \in Nat \ {0}
      OBVIOUS
    <2> QED
      BY <1>8, <2>1
  <1>12. 2 * b < u * Denominator
    <2>1. (Denominator * Denominator - 2 * s - 1) * Grid >= 0
      BY <1>8
    <2>2. (Denominator * Denominator - 2 * s - 1) * Grid = u * Denominator - 2 * b - Grid
      BY <1>8
    <2>3. u * Denominator \in Int
      BY <1>8
    <2> QED
      BY <1>8, <1>11, <2>1, <2>2, <2>3
  <1>13. u <= b * Denominator
    <2>1. (s - 1) * (Denominator * Grid) >= 0
      BY <1>8
    <2>2. (s - 1) * (Denominator * Grid) = b * Denominator - u
      BY <1>8
    <2>3. b * Denominator \in Int
      BY <1>8
    <2> QED
      BY <1>11, <2>1, <2>2, <2>3
  <1>14. ~AtMost(pick, y)
    BY <1>1 DEF y
  <1> HIDE DEF u, b
  <1>15. IsNumber(Minus(pick, y)) /\ Tracks(Minus(pick, y), v - w, u, b, j + 1, m)
    BY <1>5, <1>6, <1>7, <1>9, <1>10, <1>11, <1>12, <1>13, <1>14, MinusTracks
  <1>16. Place(at) = v - w
    <2>1. Grid * (SumUpto(Exactly(table), at - 1) + Exact(Weight))
            = Grid * SumUpto(Exactly(table), at - 1) + Grid * Exact(Weight)
      BY <1>3, <1>6, <1>8
    <2>2. /\ draw[1] * Everything(table) \in Int /\ Grid * SumUpto(Exactly(table), at - 1) \in Int
          /\ Grid * Exact(Weight) \in Int
      BY <1>3, <1>6, <1>8
    <2> QED
      BY <1>3, <2>1, <2>2 DEF Place, v, w
  <1>17. (at + 1) - 1 = at /\ j + 1 = Len(table) + (at + 1) /\ at + 1 \in 1..(Len(table) + 1)
    BY <1>1, <1>2, <1>3 DEF j
  <1>18. PickTracks'
    <2>1. Tracks(Minus(pick, y), Place((at + 1) - 1), u, b, Len(table) + (at + 1), m)
      BY <1>15, <1>16, <1>17
    <2>2. Place(at - 1)' = Place((at + 1) - 1)
      BY <1>1 DEF Place, Everything
    <2> QED
      BY <1>1, <1>15, <2>1, <2>2 DEF PickTracks, u, b, s, m, Everything, y
  <1> QED
    BY <1>1, <1>2, <1>17, <1>18 DEF ChoosingInv

LEMMA ChoosingSteps ==
  ASSUME TablesInReach, ChoosingInv, [PaymentNext]_paymentVars
  PROVE  ChoosingInv'
  <1>1. CASE Skip
    BY <1>1, SkipTracks
  <1>2. CASE Pass
    BY <1>2, PassTracks
  <1>3. ASSUME Choose \/ FallBack PROVE ChoosingInv'
    <2>1. pc = "choose" /\ pc' = "chosen" /\ UNCHANGED choosing
          /\ (at <= Len(table) => Weight[1] > 0 /\ AtMost(pick, Weight))
      <3>1. CASE Choose
        BY <3>1 DEF Choose, Looking
      <3>2. CASE FallBack
        <4>1. pc = "choose" /\ pc' = "chosen" /\ UNCHANGED choosing /\ at > Len(table)
          BY <3>2 DEF FallBack
        <4>2. Len(table) \in Nat /\ at \in Nat
          BY <4>1, TablesExact DEF ChoosingInv
        <4> QED
          BY <4>1, <4>2
      <3> QED
        BY <1>3, <3>1, <3>2
    <2>2. UNCHANGED <<table, draw, at, pick>>
      BY <2>1 DEF choosing
    <2>3. /\ table \in Tables /\ draw \in Randoms /\ at \in 1..(Len(table) + 1)
          /\ PickTracks
      BY <2>1 DEF ChoosingInv
    <2>4. PickTracks' /\ (AtMost(pick, Weight))' = AtMost(pick, Weight) /\ Weight' = Weight
      BY <2>2, <2>3 DEF PickTracks, Place, Everything, Weight, AtMost
    <2> QED
      BY <2>1, <2>2, <2>3, <2>4 DEF ChoosingInv
  <1>4. ASSUME pc' \notin {"choose", "chosen"} PROVE ChoosingInv'
    BY <1>4 DEF ChoosingInv
  <1>5. CASE ChooseReturns
    BY <1>4, <1>5 DEF ChooseReturns
  <1>6. CASE \E amount \in Amounts : Plan(amount)
    BY <1>4, <1>6 DEF Plan
  <1>7. CASE Whole \/ Distribute \/ Leftover
    BY <1>4, <1>7 DEF Whole, Distribute, Leftover
  <1>8. CASE UNCHANGED paymentVars
    <2>1. UNCHANGED <<pc, table, draw, at, pick>>
      BY <1>8 DEF paymentVars
    <2> QED
      BY <2>1 DEF ChoosingInv, PickTracks, Place, Everything, Weight, AtMost
  <1> QED
    BY <1>1, <1>2, <1>3, <1>5, <1>6, <1>7, <1>8 DEF PaymentNext

(* After no more than m roundings the ideal is known to within m + 1       *)
(* units.                                                                  *)
LEMMA TracksBounds ==
  ASSUME NEW r, IsNumber(r), NEW v \in Int, NEW u \in Nat, NEW s \in Nat, NEW j \in Nat,
         NEW m \in Nat \ {0}, j <= m, Tracks(r, v, u, s * Grid, j, m)
  PROVE  /\ r[2] * (v - (m + 1) * s) <= r[1] * u
         /\ r[1] * u <= r[2] * (v + (m + 1) * s)
  <1> DEFINE b == s * Grid
             e == r[1] * u - r[2] * v
             f == r[2] * ((m + 1) * s)
  <1>1. r[1] \in Nat /\ r[2] \in Nat /\ Grid \in Nat \ {0} /\ b \in Nat
    BY GridFacts DEF IsNumber
  <1>2. Tracks(r, v, u, b, m, m)
    BY <1>1, TracksOn
  <1>3. -(r[2] * (m * (m + 1) * b)) <= e * (m * Grid) /\ e * (m * Grid) <= r[2] * (m * (m + 1) * b)
    BY <1>2 DEF Tracks
  <1>4. r[2] * (m * (m + 1) * b) = (m * Grid) * f
    BY <1>1
  <1>5. e \in Int /\ f \in Int /\ m * Grid \in Nat \ {0}
    <2>1. \A c, d \in Nat \ {0} : c * d \in Nat \ {0}
      OBVIOUS
    <2> QED
      BY <1>1, <2>1
  <1>6. e * (m * Grid) = (m * Grid) * e /\ (m * Grid) * (-f) = -((m * Grid) * f)
    BY <1>5
  <1>7. r[2] * (v - (m + 1) * s) = r[2] * v - f /\ r[2] * (v + (m + 1) * s) = r[2] * v + f
    BY <1>1
  <1>8. r[1] * u \in Int /\ r[2] * v \in Int
    BY <1>1
  <1> DEFINE d == m * Grid
  <1>9. d \in Nat \ {0} /\ d * e <= d * f /\ d * (-f) <= d * e
    <2> HIDE DEF e, f, b
    <2> QED
      BY <1>3, <1>4, <1>5, <1>6
  <1>10. e <= f /\ -f <= e
    <2> HIDE DEF e, f, b, d
    <2>1. -f \in Int
      BY <1>5
    <2> QED
      BY <1>5, <1>9, <2>1, Cancelled
  <1>11. r[1] * u - r[2] * v <= f /\ -f <= r[1] * u - r[2] * v
    BY <1>10
  <1> HIDE DEF f, e, b, d
  <1> QED
    BY <1>5, <1>7, <1>8, <1>11

LEMMA ChosenNear ==
  ASSUME TablesInReach, ChoosingInv
  PROVE  ChosenByWeight
  <1>1. SUFFICES ASSUME pc = "chosen" PROVE ChosenByWeight
    BY DEF ChosenByWeight
  <1>2. /\ table \in Tables /\ draw \in Randoms /\ at \in 1..(Len(table) + 1) /\ PickTracks
        /\ at <= Len(table) => Weight[1] > 0 /\ AtMost(pick, Weight)
    BY <1>1 DEF ChoosingInv
  <1>3. /\ Len(table) \in Nat /\ (Len(table) + at) \in Nat
        /\ Everything(table) \in Nat \ {0} /\ SumUpto(Exactly(table), at - 1) \in Nat
        /\ Place(at - 1) \in Int /\ draw[2] = Grid
        /\ draw[1] \in 0..(Grid - 1)
        /\ at <= Len(table) =>
             /\ SumUpto(Exactly(table), at) = SumUpto(Exactly(table), at - 1) + Exact(Weight)
             /\ Weight \in Numbers
    BY <1>2, ChoosingFacts
  <1> DEFINE v == Place(at - 1)
             u == Denominator * Grid
             s == Everything(table)
             j == Len(table) + at
             m == 2 * Len(table) + 1
             slack == 2 * (Len(table) + 1) * s
             place == draw[1] * s
             before == SumUpto(Exactly(table), at - 1)
             y == Weight
  <1>4. IsNumber(pick) /\ Tracks(pick, v, u, s * Grid, j, m)
    BY <1>2 DEF PickTracks
  <1>5. j \in Nat /\ m \in Nat \ {0} /\ j <= m /\ u \in Nat /\ v \in Int /\ s \in Nat
    BY <1>2, <1>3, GridFacts
  <1>6. (m + 1) * s = slack /\ slack \in Nat /\ place \in Nat /\ v = place - Grid * before
        /\ before \in Nat /\ Grid * before \in Nat /\ Grid \in Nat
    BY <1>3, GridFacts DEF Place
  <1> HIDE DEF v, s, j, m, u, slack, place, before, y
  <1>7. /\ pick[2] * (v - slack) <= pick[1] * u
        /\ pick[1] * u <= pick[2] * (v + slack)
    BY <1>4, <1>5, <1>6, TracksBounds
  <1>8. pick[1] \in Nat /\ pick[2] \in Nat \ {0} /\ pick[1] * u \in Nat
    BY <1>4, <1>5 DEF IsNumber
  <1>9. 0 <= v + slack
    <2>1. pick[2] * 0 <= pick[2] * (v + slack) /\ v + slack \in Int /\ 0 \in Int
      BY <1>5, <1>6, <1>7, <1>8
    <2> QED
      BY <1>8, <2>1, Cancelled
  <1>10. before * draw[2] <= place + slack
    <2>1. before * draw[2] = Grid * before
      BY <1>3, <1>6
    <2> QED
      BY <1>6, <1>9, <2>1
  <1>11. ASSUME at <= Len(table)
         PROVE  Weight[1] > 0 /\ place <= SumUpto(Exactly(table), at) * draw[2] + slack
    <2> DEFINE w == Grid * Exact(Weight)
    <2>1. /\ IsNumber(y) /\ Exact(Weight) \in Nat /\ y[1] * Denominator = Exact(Weight) * y[2]
          /\ y[1] * pick[2] >= pick[1] * y[2]
      BY <1>2, <1>3, <1>11, NumbersExact DEF AtMost, y
    <2>2. y[1] \in Nat /\ y[2] \in Nat \ {0} /\ Denominator \in Nat /\ w \in Nat
      BY <1>6, <2>1, GridFacts DEF IsNumber
    <2>3. y[1] * u = w * y[2]
      <3>1. y[1] * u = (y[1] * Denominator) * Grid /\ w * y[2] = (Exact(Weight) * y[2]) * Grid
        BY <1>6, <2>1, <2>2 DEF u
      <3> QED
        BY <2>1, <3>1
    <2> HIDE DEF w
    <2>4. (pick[1] * u) * y[2] <= (pick[2] * w) * y[2]
      <3>1. (y[1] * pick[2] - pick[1] * y[2]) * u >= 0
        <4>1. y[1] * pick[2] - pick[1] * y[2] \in Nat
          BY <1>8, <2>1, <2>2
        <4> QED
          BY <1>5, <4>1
      <3>2. (y[1] * pick[2] - pick[1] * y[2]) * u = (y[1] * u) * pick[2] - (pick[1] * u) * y[2]
        BY <1>5, <1>8, <2>2
      <3>3. (y[1] * u) * pick[2] = (pick[2] * w) * y[2]
        <4>1. (w * y[2]) * pick[2] = (pick[2] * w) * y[2]
          BY <1>8, <2>2
        <4> QED
          BY <2>3, <4>1
      <3>4. (pick[2] * w) * y[2] \in Int /\ (pick[1] * u) * y[2] \in Int
        BY <1>8, <2>2
      <3> QED
        BY <3>1, <3>2, <3>3, <3>4
    <2>5. pick[1] * u <= pick[2] * w
      <3>1. y[2] * (pick[1] * u) <= y[2] * (pick[2] * w)
        <4>1. y[2] * (pick[1] * u) = (pick[1] * u) * y[2] /\ y[2] * (pick[2] * w) = (pick[2] * w) * y[2]
          BY <1>8, <2>2
        <4> QED
          BY <2>4, <4>1
      <3>2. pick[2] * w \in Int /\ pick[1] * u \in Int
        BY <1>8, <2>2
      <3> QED
        BY <2>2, <3>1, <3>2, Cancelled
    <2>6. v - slack <= w
      <3>1. pick[2] * (v - slack) \in Int /\ pick[2] * w \in Int /\ v - slack \in Int /\ w \in Int
        BY <1>5, <1>6, <1>8, <2>2
      <3>2. pick[2] * (v - slack) <= pick[2] * w
        BY <1>7, <1>8, <2>5, <3>1
      <3> QED
        BY <1>8, <3>1, <3>2, Cancelled
    <2>7. SumUpto(Exactly(table), at) * draw[2] = Grid * before + w
      <3>1. SumUpto(Exactly(table), at) = before + Exact(Weight)
        BY <1>3, <1>11 DEF before
      <3>2. (before + Exact(Weight)) * Grid = Grid * before + Grid * Exact(Weight)
        BY <1>6, <2>1
      <3> QED
        BY <1>3, <3>1, <3>2 DEF w
    <2>8. place <= Grid * before + w + slack
      BY <1>6, <2>2, <2>6
    <2> QED
      BY <1>2, <1>6, <1>11, <2>2, <2>7, <2>8
  <1>12. \A k : Before(k) = SumUpto(Exactly(table), k)
    BY DEF Before, SumUpto, SumOf, Exactly
  <1>13. /\ Before(at - 1) * draw[2] <= draw[1] * Before(Len(table)) + 2 * (Len(table) + 1) * Before(Len(table))
         /\ at <= Len(table) =>
              /\ Weight[1] > 0
              /\ draw[1] * Before(Len(table))
                   <= Before(at) * draw[2] + 2 * (Len(table) + 1) * Before(Len(table))
    <2>1. Before(Len(table)) = s /\ Before(at - 1) = before /\ Before(at) = SumUpto(Exactly(table), at)
      BY <1>12 DEF s, Everything, before
    <2> QED
      BY <1>10, <1>11, <2>1 DEF place, slack
  <1> QED
    BY <1>13 DEF ChosenByWeight

(* Every kind gets the share of the draws that its weight is of all the    *)
(* weights to within the rounding of floating-point numbers, whatever the  *)
(* precision, the tables and their weights, as long as the entries are few *)
(* enough for the precision (choose_action).                               *)
THEOREM ActionsChosenByWeight ==
  ASSUME TablesInReach
  PROVE  PaymentSpec => []ChosenByWeight
  <1>1. PaymentInit => ChoosingInv
    BY ChoosingStarts
  <1>2. ChoosingInv /\ [PaymentNext]_paymentVars => ChoosingInv'
    BY ChoosingSteps
  <1>3. ChoosingInv => ChosenByWeight
    BY ChosenNear
  <1> QED
    BY <1>1, <1>2, <1>3, PTL DEF PaymentSpec

(* A result that is not tiny is near.                                      *)
LEMMA NotTiny ==
  ASSUME NEW num \in Nat, NEW den \in Nat \ {0}, NEW r, IsNumber(r),
         den <= num * Denominator, NearBy(r, num, den) \/ TinyBy(r, num, den)
  PROVE  r[1] * den * Grid <= num * r[2] * (Grid + 1)
  <1> DEFINE off == Off(r, num, den)
  <1>1. /\ r[1] \in Nat /\ r[2] \in Nat \ {0} /\ Grid \in Nat /\ Denominator \in Nat \ {0}
      BY GridFacts DEF IsNumber
  <1>2. off = r[1] * den - num * r[2] /\ off \in Int
    BY <1>1 DEF Off
  <1> HIDE DEF off
  <1>3. off * Grid <= num * r[2]
    <2>1. CASE NearBy(r, num, den)
      BY <2>1 DEF NearBy, off
    <2>2. CASE TinyBy(r, num, den)
      <3>1. off * Grid * Denominator <= den * r[2]
        BY <2>2 DEF TinyBy, off
      <3>2. den * r[2] <= (num * Denominator) * r[2]
        BY <1>1, Multiplied
      <3>3. /\ (num * Denominator) * r[2] = Denominator * (num * r[2])
            /\ off * Grid * Denominator = Denominator * (off * Grid)
            /\ off * Grid \in Int /\ num * r[2] \in Int
        BY <1>1, <1>2
      <3>4. Denominator * (off * Grid) <= Denominator * (num * r[2])
        <4>1. den * r[2] \in Int /\ Denominator * (num * r[2]) \in Int /\ Denominator * (off * Grid) \in Int
          BY <1>1, <3>3
        <4> QED
          BY <3>1, <3>2, <3>3, <4>1
      <3> QED
        BY <1>1, <3>3, <3>4, Cancelled
    <2> QED
      BY <2>1, <2>2
  <1>4. /\ off * Grid = r[1] * den * Grid - num * r[2] * Grid
        /\ num * r[2] * (Grid + 1) = num * r[2] * Grid + num * r[2]
    BY <1>1, <1>2
  <1>5. off * Grid \in Int /\ r[1] * den * Grid \in Int /\ num * r[2] * Grid \in Int /\ num * r[2] \in Int
    BY <1>1, <1>2
  <1> QED
    BY <1>3, <1>4, <1>5

LEMMA TruncatedNear ==
  ASSUME NEW num \in Nat, NEW den \in Nat \ {0}, num < den * Denominator
  PROVE  LET a == Truncated(Rounded(num, den))
         IN a \in Nat /\ a * den * Grid <= num * (Grid + 1)
  <1> DEFINE r == Rounded(num, den)
             a == Truncated(r)
  <1>1. IsNumber(r) /\ (NearBy(r, num, den) \/ TinyBy(r, num, den))
    BY RoundedOff
  <1> HIDE DEF r
  <1>2. /\ r[1] \in Nat /\ r[2] \in Nat \ {0} /\ Grid \in Nat /\ Grid >= 2
        /\ Denominator \in Nat /\ Denominator >= Grid
    BY <1>1, GridFacts DEF IsNumber
  <1>3. a \in Nat /\ a * r[2] <= r[1]
    <2>1. \A d \in Nat, e \in Nat \ {0} :
            d \div e \in Nat /\ d % e \in 0..(e - 1) /\ d = (d \div e) * e + (d % e)
      OBVIOUS
    <2>2. a = r[1] \div r[2]
      BY DEF Truncated
    <2>3. a \in Nat /\ r[1] % r[2] \in 0..(r[2] - 1) /\ r[1] = a * r[2] + (r[1] % r[2])
      BY <1>2, <2>1, <2>2
    <2> HIDE DEF a
    <2>4. a * r[2] \in Nat
      BY <1>2, <2>3
    <2> QED
      BY <1>2, <2>3, <2>4
  <1> HIDE DEF a
  <1>4. CASE a = 0
    <2>1. a * den * Grid = 0 /\ num * (Grid + 1) >= 0
      BY <1>2, <1>4
    <2> QED
      BY <1>3, <2>1 DEF a, r
  <1>5. CASE a >= 1
    <2>1. r[2] <= r[1]
      <3>1. 1 * r[2] <= a * r[2] /\ a * r[2] \in Int
        BY <1>2, <1>3, <1>5, Multiplied
      <3> QED
        BY <1>2, <1>3, <3>1
    <2>2. r[1] * den * Grid <= num * r[2] * (Grid + 1)
      <3>1. CASE den <= num * Denominator
        BY <1>1, <3>1, NotTiny
      <3>2. CASE den > num * Denominator
        <4> DEFINE off == Off(r, num, den)
        <4>1. off = r[1] * den - num * r[2] /\ off \in Int
          BY <1>2 DEF Off
        <4> HIDE DEF off
        <4> DEFINE k == den - num
        <4>2. k >= num + 1 /\ 2 * k >= den + 1 /\ k \in Nat
          <5>1. num * 2 <= num * Denominator
            BY <1>2, Multiplied
          <5>2. den >= num * Denominator + 1 /\ num * Denominator \in Nat
            BY <1>2, <3>2
          <5> QED
            BY <5>1, <5>2
        <4>3. off >= r[2] * k /\ r[2] * k \in Nat
          <5>1. r[1] * den >= r[2] * den
            BY <1>2, <2>1, Multiplied
          <5>2. r[2] * k = r[2] * den - num * r[2]
            BY <1>2
          <5>3. r[1] * den \in Int /\ r[2] * den \in Int /\ num * r[2] \in Int
            BY <1>2
          <5>4. r[2] * k \in Nat
            BY <1>2, <4>2
          <5> QED
            BY <4>1, <5>1, <5>2, <5>3, <5>4
        <4> HIDE DEF k
        <4>4. r[2] * k >= r[2] * num + r[2] /\ 2 * (r[2] * k) >= den * r[2] + r[2]
          <5>1. r[2] * (num + 1) <= r[2] * k /\ r[2] * (den + 1) <= r[2] * (2 * k)
            BY <1>2, <4>2, Multiplied
          <5>2. r[2] * (num + 1) = r[2] * num + r[2] /\ r[2] * (den + 1) = den * r[2] + r[2]
                /\ r[2] * (2 * k) = 2 * (r[2] * k)
            BY <1>2, <4>2
          <5> QED
            BY <5>1, <5>2
        <4>5. 2 * off <= Grid * off /\ off * Grid = Grid * off /\ off * Grid \in Int /\ off * Grid >= 2 * off
          <5>1. off \in Nat
            BY <4>1, <4>3
          <5> QED
            BY <1>2, <5>1, Multiplied
        <4>6. CASE NearBy(r, num, den)
          <5>1. off * Grid <= num * r[2]
            BY <4>6 DEF NearBy, off
          <5>2. num * r[2] = r[2] * num /\ r[2] * num \in Nat
            BY <1>2
          <5> QED
            BY <1>2, <4>1, <4>3, <4>4, <4>5, <5>1, <5>2
        <4>7. CASE TinyBy(r, num, den)
          <5>1. off * Grid * Denominator <= den * r[2]
            BY <4>7 DEF TinyBy, off
          <5>2. (off * Grid) * 1 <= (off * Grid) * Denominator
            <6>1. off * Grid \in Nat
              BY <4>1, <4>3, <4>5
            <6> QED
              BY <1>2, <6>1, Multiplied
          <5>3. den * r[2] \in Int /\ (off * Grid) * Denominator \in Int
            BY <1>2, <4>1
          <5> QED
            BY <1>2, <4>1, <4>3, <4>4, <4>5, <5>1, <5>2, <5>3
        <4> QED
          BY <1>1, <4>6, <4>7
      <3> QED
        BY <1>2, <3>1, <3>2
    <2>3. (a * r[2]) * (den * Grid) <= r[1] * (den * Grid)
      <3>1. a * r[2] \in Int /\ den * Grid \in Nat
        BY <1>2, <1>3
      <3> QED
        BY <1>2, <1>3, <3>1, Multiplied
    <2>4. /\ (a * r[2]) * (den * Grid) = r[2] * (a * den * Grid)
          /\ r[1] * (den * Grid) = r[1] * den * Grid
          /\ num * r[2] * (Grid + 1) = r[2] * (num * (Grid + 1))
      BY <1>2, <1>3
    <2>5. /\ r[2] * (a * den * Grid) \in Int /\ r[1] * den * Grid \in Int
          /\ r[2] * (num * (Grid + 1)) \in Int
      BY <1>2, <1>3
    <2>6. r[2] * (a * den * Grid) <= r[2] * (num * (Grid + 1))
      BY <2>2, <2>3, <2>4, <2>5
    <2>7. a * den * Grid \in Int /\ num * (Grid + 1) \in Int
      BY <1>2, <1>3
    <2>8. a * den * Grid <= num * (Grid + 1)
      BY <1>2, <2>6, <2>7, Cancelled
    <2> QED
      BY <1>3, <2>8 DEF a, r
  <1> QED
    BY <1>3, <1>4, <1>5

LEMMA RoundedNear ==
  ASSUME NEW num \in Nat, NEW den \in Nat \ {0}, num < den * Denominator,
         num = 0 \/ den <= num * Denominator
  PROVE  LET r == Rounded(num, den)
         IN IsNumber(r) /\ r[1] * den * Grid <= num * r[2] * (Grid + 1)
  <1> DEFINE r == Rounded(num, den)
  <1>1. IsNumber(r) /\ (NearBy(r, num, den) \/ TinyBy(r, num, den)) /\ (num = 0 => r = <<0, 1>>)
    BY RoundedOff
  <1>2. CASE num = 0
    <2>1. r[1] = 0 /\ r[2] = 1
      BY <1>1, <1>2
    <2>2. 0 * den * Grid = 0 /\ num * 1 * (Grid + 1) = 0
      BY <1>2, GridFacts
    <2> HIDE DEF r
    <2> QED
      BY <1>1, <2>1, <2>2 DEF r
  <1>3. CASE num # 0
    <2> HIDE DEF r
    <2> QED
      BY <1>1, <1>3, NotTiny DEF r
  <1> QED
    BY <1>2, <1>3

(* A part's weight over the sum of them all, T, as it was rounded.         *)
LEMMA FractionNear ==
  ASSUME NEW w \in Nat \ {0}, NEW W \in Nat, w <= W, 2 * W < Denominator,
         NEW T, IsNumber(T), NEW c \in Nat, c >= 4, c <= Grid,
         T[1] <= T[2] * (2 * W), T[2] * (W * c) <= T[1] * Grid
  PROVE  LET q == Quotient(<<w, 1>>, T)
         IN IsNumber(q) /\ q[1] * (W * c) <= w * q[2] * (Grid + 1)
  <1> DEFINE q == Quotient(<<w, 1>>, T)
             num == w * T[2]
             den == T[1]
  <1>1. /\ T[1] \in Nat /\ T[2] \in Nat \ {0} /\ Grid \in Nat \ {0}
        /\ Denominator \in Nat \ {0} /\ Grid <= Denominator
    BY GridFacts DEF IsNumber
  <1>2. num \in Nat /\ num >= 1 /\ q = Rounded(num, den)
    <2>1. num \in Nat /\ num >= 1
      BY <1>1
    <2>2. <<w, 1>>[1] * T[2] = num /\ <<w, 1>>[2] * T[1] = den
      BY <1>1
    <2> HIDE DEF num, den
    <2> QED
      BY <2>1, <2>2 DEF Quotient
  <1>3. num * c <= den * Grid /\ num * c \in Nat /\ den * Grid \in Nat
    <2>1. w * (T[2] * c) <= W * (T[2] * c)
      <3>1. T[2] * c \in Nat
        BY <1>1
      <3> QED
        BY <3>1, Multiplied
    <2>2. w * (T[2] * c) = num * c /\ W * (T[2] * c) = T[2] * (W * c)
      BY <1>1
    <2>3. T[2] * (W * c) \in Int /\ num * c \in Nat /\ den * Grid \in Nat
      BY <1>1
    <2> QED
      BY <2>1, <2>2, <2>3
  <1>4. num < den * Denominator /\ den # 0
    <2>1. den * Grid <= den * Denominator /\ den * Denominator \in Int
      BY <1>1, Multiplied
    <2>2. num * 4 <= num * c
      BY <1>2, Multiplied
    <2>3. num < den * Denominator
      <3> HIDE DEF num, den
      <3> QED
        BY <1>2, <1>3, <2>1, <2>2
    <2>4. den = 0 => den * Grid = 0
      BY <1>1
    <2>5. den # 0
      <3> HIDE DEF num, den
      <3> QED
        BY <1>2, <1>3, <2>2, <2>4
    <2> QED
      BY <2>3, <2>5
  <1>5. den <= num * Denominator
    <2>1. T[2] * (2 * W) <= T[2] * Denominator
      <3>1. 2 * W <= Denominator /\ 2 * W \in Int
        BY <1>1
      <3> QED
        BY <1>1, <3>1, Multiplied
    <2>2. 1 * (T[2] * Denominator) <= w * (T[2] * Denominator)
      <3>1. T[2] * Denominator \in Nat
        BY <1>1
      <3> QED
        BY <3>1, Multiplied
    <2>3. w * (T[2] * Denominator) = num * Denominator /\ 1 * (T[2] * Denominator) = T[2] * Denominator
      BY <1>1
    <2>4. T[2] * (2 * W) \in Int /\ T[2] * Denominator \in Int /\ num * Denominator \in Int
      BY <1>1
    <2> QED
      BY <1>1, <2>1, <2>2, <2>3, <2>4
  <1> HIDE DEF q
  <1>6. IsNumber(q) /\ q[1] * den * Grid <= num * q[2] * (Grid + 1)
    BY <1>1, <1>2, <1>4, <1>5, RoundedNear
  <1>7. q[1] \in Nat /\ q[2] \in Nat
    BY <1>6 DEF IsNumber
  <1>8. q[1] * (T[2] * (W * c)) <= q[1] * (T[1] * Grid)
    <2>1. T[2] * (W * c) \in Int /\ T[1] * Grid \in Int
      BY <1>1
    <2> QED
      BY <1>7, <2>1, Multiplied
  <1>9. T[2] * (q[1] * (W * c)) <= T[2] * (w * q[2] * (Grid + 1))
    <2>1. /\ q[1] * (T[2] * (W * c)) = T[2] * (q[1] * (W * c))
          /\ q[1] * (T[1] * Grid) = q[1] * den * Grid
          /\ num * q[2] * (Grid + 1) = T[2] * (w * q[2] * (Grid + 1))
      BY <1>1, <1>7
    <2>2. /\ T[2] * (q[1] * (W * c)) \in Int /\ q[1] * den * Grid \in Int
          /\ T[2] * (w * q[2] * (Grid + 1)) \in Int
      BY <1>1, <1>7
    <2> QED
      BY <1>6, <1>8, <2>1, <2>2
  <1>10. q[1] * (W * c) \in Int /\ w * q[2] * (Grid + 1) \in Int
    BY <1>1, <1>7
  <1> QED
    BY <1>1, <1>6, <1>9, <1>10, Cancelled DEF q

(* A share exceeds its part of the remainder by no more than the three     *)
(* roundings, the quotient, the remainder and the product, that lead to    *)
(* it, and the roundings of the sum; one that is too small to be near is   *)
(* truncated to nothing.                                                   *)
LEMMA ShareNear ==
  ASSUME NEW w \in Nat \ {0}, NEW W \in Nat, w <= W, 2 * W < Denominator,
         NEW T, IsNumber(T), NEW c \in Nat, c >= 4, c <= Grid,
         T[1] <= T[2] * (2 * W), T[2] * (W * c) <= T[1] * Grid,
         NEW rem \in Nat, 6 * rem <= c
  PROVE  LET a == Truncated(Product(Quotient(<<w, 1>>, T), Rounded(rem, 1)))
         IN /\ a \in Nat
            /\ a * (Grid * (W * c * Grid)) <= w * (rem * ((Grid + 1) * ((Grid + 1) * (Grid + 1))))
  <1> DEFINE q == Quotient(<<w, 1>>, T)
             r == Rounded(rem, 1)
             num == q[1] * r[1]
             den == q[2] * r[2]
             a == Truncated(Product(q, r))
             K == W * c * Grid
             h == (Grid + 1) * (Grid + 1)
  <1>1. /\ Grid \in Nat /\ Grid >= 4 /\ Denominator \in Nat \ {0} /\ Grid <= Denominator
    BY GridFacts
  <1>2. IsNumber(q) /\ q[1] * (W * c) <= w * q[2] * (Grid + 1)
    BY FractionNear
  <1>3. IsNumber(r) /\ r[1] * Grid <= rem * r[2] * (Grid + 1)
    <2>1. rem < 1 * Denominator
      BY <1>1
    <2>2. rem = 0 \/ 1 <= rem * Denominator
      <3>1. rem # 0 => 1 * Denominator <= rem * Denominator /\ rem * Denominator \in Int
        BY <1>1, Multiplied
      <3> QED
        BY <1>1, <3>1
    <2>3. IsNumber(r) /\ r[1] * 1 * Grid <= rem * r[2] * (Grid + 1)
      BY <2>1, <2>2, RoundedNear
    <2>4. r[1] \in Nat
      BY <2>3 DEF IsNumber
    <2> HIDE DEF r
    <2>5. r[1] * 1 * Grid = r[1] * Grid
      BY <1>1, <2>4
    <2> QED
      BY <2>3, <2>5
  <1>4. a = Truncated(Rounded(num, den))
    BY DEF Product
  <1> HIDE DEF q, r
  <1>5. q[1] \in Nat /\ q[2] \in Nat \ {0} /\ r[1] \in Nat /\ r[2] \in Nat \ {0}
    BY <1>2, <1>3 DEF IsNumber
  <1>6. num \in Nat /\ den \in Nat \ {0}
    <2>1. \A x, y \in Nat \ {0} : x * y \in Nat \ {0}
      OBVIOUS
    <2> QED
      BY <1>5, <2>1
  <1>7. num * K <= den * (w * (rem * h))
    <2>1. (q[1] * (W * c)) * (r[1] * Grid) <= (w * q[2] * (Grid + 1)) * (rem * r[2] * (Grid + 1))
      <3>1. /\ q[1] * (W * c) \in Nat /\ w * q[2] * (Grid + 1) \in Nat
            /\ r[1] * Grid \in Nat /\ rem * r[2] * (Grid + 1) \in Nat
        <4>1. w * q[2] \in Nat /\ rem * r[2] \in Nat /\ W * c \in Nat
          BY <1>5
        <4> QED
          BY <1>1, <1>5, <4>1
      <3> QED
        BY <1>2, <1>3, <3>1, BothBound
    <2>2. (q[1] * (W * c)) * (r[1] * Grid) = num * K
      BY <1>1, <1>5
    <2>3. (w * q[2] * (Grid + 1)) * (rem * r[2] * (Grid + 1)) = den * (w * (rem * h))
      <3>1. \A x, y, z, t, e \in Nat : (x * y * e) * (z * t * e) = (y * t) * (x * (z * (e * e)))
        OBVIOUS
      <3>2. Grid + 1 \in Nat
        BY <1>1
      <3> QED
        BY <1>5, <3>1, <3>2
    <2> QED
      BY <2>1, <2>2, <2>3
  <1>8. h \in Nat /\ h <= 2 * (Grid * Grid) /\ rem * h \in Nat
    <2>1. h = Grid * Grid + 2 * Grid + 1 /\ 4 * Grid <= Grid * Grid /\ Grid * Grid \in Nat
      BY <1>1, Multiplied
    <2> HIDE DEF h
    <2>2. h \in Nat /\ h <= 2 * (Grid * Grid)
      BY <1>1, <2>1
    <2> QED
      BY <2>2
  <1>9. K \in Nat \ {0}
    <2>1. \A x, y \in Nat \ {0} : x * y \in Nat \ {0}
      OBVIOUS
    <2>2. W * c \in Nat \ {0}
      BY <2>1
    <2> QED
      BY <1>1, <2>1, <2>2
  <1> HIDE DEF num, den, h, a, K
  <1>10. num < den * Denominator
    <2>1. 3 * (rem * h) <= c * Grid * Denominator
      <3>1. rem * h <= rem * (2 * (Grid * Grid))
        <4>1. 2 * (Grid * Grid) \in Int
          BY <1>1
        <4> QED
          BY <1>8, <4>1, Multiplied
      <3>2. (6 * rem) * (Grid * Grid) <= c * (Grid * Grid)
        <4>1. Grid * Grid \in Nat
          BY <1>1
        <4> QED
          BY <4>1, Multiplied
      <3>3. (c * Grid) * Grid <= (c * Grid) * Denominator
        <4>1. c * Grid \in Nat
          BY <1>1
        <4> QED
          BY <1>1, <4>1, Multiplied
      <3>4. 3 * (rem * (2 * (Grid * Grid))) = (6 * rem) * (Grid * Grid) /\ c * (Grid * Grid) = (c * Grid) * Grid
        BY <1>1
      <3>5. /\ rem * h \in Int /\ rem * (2 * (Grid * Grid)) \in Int /\ (6 * rem) * (Grid * Grid) \in Int
            /\ (c * Grid) * Grid \in Int /\ (c * Grid) * Denominator \in Int
        BY <1>1, <1>8
      <3> QED
        BY <3>1, <3>2, <3>3, <3>4, <3>5
    <2>2. den * (w * (rem * h)) <= den * (W * (rem * h))
      <3>1. w * (rem * h) <= W * (rem * h)
        BY <1>8, Multiplied
      <3>2. w * (rem * h) \in Int /\ W * (rem * h) \in Int
        BY <1>8
      <3> QED
        BY <1>6, <3>1, <3>2, Multiplied
    <2>3. (den * W) * (3 * (rem * h)) <= (den * W) * (c * Grid * Denominator)
      <3>1. den * W \in Nat
        BY <1>6
      <3>2. 3 * (rem * h) \in Int /\ c * Grid * Denominator \in Int
        BY <1>1, <1>8
      <3> QED
        BY <2>1, <3>1, <3>2, Multiplied
    <2>4. /\ (den * W) * (3 * (rem * h)) = 3 * (den * (W * (rem * h)))
          /\ K * (3 * num) = 3 * (num * K)
      BY <1>6, <1>8, <1>9
    <2>5. (den * W) * (c * Grid * Denominator) = K * (den * Denominator)
      BY <1>1, <1>6 DEF K
    <2>6. /\ 3 * (den * (W * (rem * h))) \in Int /\ den * (W * (rem * h)) \in Int
          /\ den * (w * (rem * h)) \in Int /\ num * K \in Int /\ K * (den * Denominator) \in Int
      BY <1>1, <1>6, <1>8, <1>9
    <2>7. K * (3 * num) <= K * (den * Denominator)
      BY <1>7, <2>2, <2>3, <2>4, <2>5, <2>6
    <2>8. 3 * num \in Int /\ den * Denominator \in Int /\ den * Denominator > 0
      <3>1. \A x, y \in Nat \ {0} : x * y \in Nat \ {0}
        OBVIOUS
      <3>2. den * Denominator \in Nat \ {0}
        BY <1>1, <1>6, <3>1
      <3> QED
        BY <1>6, <3>2
    <2>9. 3 * num <= den * Denominator
      BY <1>9, <2>7, <2>8, Cancelled
    <2> QED
      BY <1>6, <2>8, <2>9
  <1>11. a \in Nat /\ a * den * Grid <= num * (Grid + 1)
    BY <1>4, <1>6, <1>10, TruncatedNear
  <1>12. den * (a * (Grid * K)) <= den * (w * (rem * ((Grid + 1) * h)))
    <2>1. (a * den * Grid) * K <= (num * (Grid + 1)) * K
      <3>1. a * den * Grid \in Int /\ num * (Grid + 1) \in Int
        BY <1>1, <1>6, <1>11
      <3> QED
        BY <1>9, <1>11, <3>1, Multiplied
    <2>2. (num * K) * (Grid + 1) <= (den * (w * (rem * h))) * (Grid + 1)
      <3>1. num * K \in Int /\ den * (w * (rem * h)) \in Int /\ Grid + 1 \in Nat
        BY <1>1, <1>6, <1>8, <1>9
      <3> QED
        BY <1>7, <3>1, Multiplied
    <2>3. /\ (a * den * Grid) * K = den * (a * (Grid * K))
          /\ (num * (Grid + 1)) * K = (num * K) * (Grid + 1)
      BY <1>1, <1>6, <1>9, <1>11
    <2>4. (den * (w * (rem * h))) * (Grid + 1) = den * (w * (rem * ((Grid + 1) * h)))
      BY <1>1, <1>6, <1>8
    <2>5. /\ den * (a * (Grid * K)) \in Int /\ (num * K) * (Grid + 1) \in Int
          /\ den * (w * (rem * ((Grid + 1) * h))) \in Int
      BY <1>1, <1>6, <1>8, <1>9, <1>11
    <2> QED
      BY <2>1, <2>2, <2>3, <2>4, <2>5
  <1>13. a * (Grid * K) \in Int /\ w * (rem * ((Grid + 1) * h)) \in Int
    BY <1>1, <1>8, <1>9, <1>11
  <1>14. a * (Grid * K) <= w * (rem * ((Grid + 1) * h))
    BY <1>6, <1>12, <1>13, Cancelled
  <1> QED
    BY <1>11, <1>14 DEF a, K, h, q, r

(* The shares are whole: when the roundings come to less than one in all,  *)
(* they do not sum up to more than there is.                               *)
LEMMA CannotExceed ==
  ASSUME NEW n \in Nat \ {0}, NEW rem \in Nat, rem * (n + 5) + n + 1 <= Grid, n + 5 <= Grid,
         NEW A \in Int,
         A * (Grid * ((Grid - n - 1) * Grid)) <= rem * ((Grid + 1) * ((Grid + 1) * (Grid + 1)))
  PROVE  A <= rem
  <1> DEFINE G == Grid
             c == G - n - 1
             h == (G + 1) * ((G + 1) * (G + 1))
  <1>1. G \in Nat /\ G >= 6 /\ c \in Nat /\ c >= 4 /\ rem * (n + 5) \in Nat
    BY GridFacts
  <1>2. SUFFICES ASSUME A >= rem + 1 PROVE FALSE
    BY <1>1
  <1> HIDE DEF G
  <1>3. G * (c * G) = c * (G * G) /\ G * G \in Nat \ {0}
    BY <1>1
  <1>4. (rem + 1) * (c * (G * G)) <= rem * h
    <2>1. (rem + 1) * (c * (G * G)) <= A * (c * (G * G))
      <3>1. c * (G * G) \in Nat
        BY <1>1, <1>3
      <3> QED
        BY <1>2, <3>1, Multiplied
    <2>2. A * (c * (G * G)) <= rem * h
      BY <1>3 DEF G
    <2>3. (rem + 1) * (c * (G * G)) \in Int /\ A * (c * (G * G)) \in Int /\ rem * h \in Int
      BY <1>1, <1>3
    <2> QED
      BY <2>1, <2>2, <2>3
  <1>5. h + 1 <= (G * G) * (G + 4)
    <2>1. h = G * G * G + 3 * (G * G) + 3 * G + 1
      BY <1>1
    <2>2. (G * G) * (G + 4) = G * G * G + 4 * (G * G)
      BY <1>1
    <2>3. G * 6 <= G * G /\ G * G * G \in Int /\ G * G \in Int
      BY <1>1, Multiplied
    <2> QED
      BY <1>1, <2>1, <2>2, <2>3
  <1>6. rem # 0
    <2>1. h \in Int
      BY <1>1
    <2>2. c * (G * G) \in Nat /\ c * (G * G) > 0
      <3>1. \A x, y \in Nat \ {0} : x * y \in Nat /\ x * y > 0
        OBVIOUS
      <3>2. c \in Nat \ {0}
        BY <1>1
      <3> HIDE DEF c
      <3> QED
        BY <1>3, <3>1, <3>2
    <2> DEFINE k == c * (G * G)
    <2>3. k \in Nat /\ k > 0 /\ (rem + 1) * k <= rem * h
      BY <1>4, <2>2
    <2> HIDE DEF h, k
    <2>4. rem = 0 => (rem + 1) * k = k /\ rem * h = 0
      BY <2>1, <2>3
    <2> QED
      BY <2>3, <2>4
  <1>7. (G * G) * ((rem + 1) * c + 1) <= (G * G) * (rem * (G + 4))
    <2>1. rem * (h + 1) <= rem * ((G * G) * (G + 4))
      <3>1. h + 1 \in Int /\ (G * G) * (G + 4) \in Int
        BY <1>1
      <3> QED
        BY <1>5, <3>1, Multiplied
    <2>2. rem * (h + 1) = rem * h + rem /\ rem * h \in Int
      BY <1>1
    <2>3. (G * G) * ((rem + 1) * c) <= (G * G) * (rem * (G + 4)) - rem
      <3>1. (rem + 1) * (c * (G * G)) = (G * G) * ((rem + 1) * c)
        BY <1>1
      <3>2. rem * ((G * G) * (G + 4)) = (G * G) * (rem * (G + 4))
        BY <1>1
      <3>3. (G * G) * ((rem + 1) * c) \in Int /\ (G * G) * (rem * (G + 4)) \in Int
        BY <1>1
      <3> QED
        BY <1>4, <2>1, <2>2, <3>1, <3>2, <3>3
    <2>4. (G * G) * ((rem + 1) * c) < (G * G) * (rem * (G + 4))
      <3>1. (G * G) * ((rem + 1) * c) \in Int /\ (G * G) * (rem * (G + 4)) \in Int
        BY <1>1
      <3> QED
        BY <1>6, <2>3, <3>1
    <2> DEFINE x == (rem + 1) * c
               y == rem * (G + 4)
    <2>5. x \in Int /\ y \in Int
      BY <1>1
    <2> HIDE DEF x, y
    <2>6. x < y
      <3>1. (G * G) * x < (G * G) * y
        BY <2>4 DEF x, y
      <3>2. x >= y => (G * G) * y <= (G * G) * x
        BY <1>3, <2>5, Multiplied
      <3>3. (G * G) * x \in Int /\ (G * G) * y \in Int
        BY <1>3, <2>5
      <3> QED
        BY <2>5, <3>1, <3>2, <3>3
    <2>7. (G * G) * (x + 1) <= (G * G) * y
      BY <1>3, <2>5, <2>6, Multiplied
    <2> QED
      BY <2>7 DEF x, y
  <1>8. (rem + 1) * c + 1 <= rem * (G + 4)
    <2>1. (rem + 1) * c + 1 \in Int /\ rem * (G + 4) \in Int
      BY <1>1
    <2> QED
      BY <1>3, <1>7, <2>1, Cancelled
  <1>9. (rem + 1) * c = rem * G + G - rem * (n + 5) + 4 * rem - n - 1
    BY <1>1
  <1>10. rem * (G + 4) = rem * G + 4 * rem /\ rem * G \in Int
    BY <1>1
  <1>11. rem * (n + 5) + n + 1 <= G
    BY DEF G
  <1> HIDE DEF c
  <1> QED
    BY <1>1, <1>8, <1>9, <1>10, <1>11

(* The sum of a split's weights, as it was rounded.                        *)
LEMMA WeightSumNear ==
  ASSUME NEW n \in Nat \ {0}, NEW weights, DOMAIN weights = 1..n, \A i \in 1..n : weights[i] \in Nat \ {0},
         2 * SumOf(weights, 1..n) < Denominator, n * (n + 1) <= Grid
  PROVE  LET T == Total([i \in DOMAIN weights |-> <<weights[i], 1>>])
             W == SumOf(weights, 1..n)
         IN /\ IsNumber(T) /\ T[1] <= T[2] * (2 * W)
            /\ T[2] * (W * (Grid - n - 1)) <= T[1] * Grid
  <1> DEFINE xs == [i \in DOMAIN weights |-> <<weights[i], 1>>]
             X == [i \in 1..n |-> Denominator * weights[i]]
             W == SumOf(weights, 1..n)
             T == Total(xs)
             D == Denominator
  <1>1. D \in Nat \ {0} /\ Grid \in Nat \ {0}
    BY GridFacts
  <1>2. Len(xs) = n
    OBVIOUS
  <1>3. ASSUME NEW i \in 1..n PROVE xs[i] = <<weights[i], 1>> /\ X[i] = D * weights[i] /\ X[i] \in Nat
    <2>1. weights[i] \in Nat
      OBVIOUS
    <2>2. D * weights[i] \in Nat
      BY <1>1, <2>1
    <2> QED
      BY <2>2
  <1> HIDE DEF xs, X, D
  <1>4. StandsFor(xs, X)
    <2>1. ASSUME NEW i \in 1..Len(xs)
          PROVE  X[i] \in Nat /\ IsNumber(xs[i]) /\ xs[i][1] * Denominator = X[i] * xs[i][2]
      <3>1. i \in 1..n /\ weights[i] \in Nat
        BY <1>2
      <3>2. xs[i][1] = weights[i] /\ xs[i][2] = 1 /\ IsNumber(xs[i])
        <4>1. xs[i] = <<weights[i], 1>>
          BY <1>3, <3>1
        <4>2. \A k \in Nat : IsNumber(<<k, 1>>) /\ <<k, 1>>[1] = k /\ <<k, 1>>[2] = 1
          BY DEF IsNumber
        <4> QED
          BY <3>1, <4>1, <4>2
      <3>3. weights[i] * D = (D * weights[i]) * 1
        BY <1>1, <3>1
      <3> QED
        BY <1>3, <3>1, <3>2, <3>3 DEF D
    <2> QED
      BY <2>1 DEF StandsFor
  <1>5. IsFiniteSet(1..n) /\ W \in Nat
    <2>1. IsFiniteSet(1..n)
      BY FS_Interval
    <2>2. \A i \in 1..n : weights[i] \in Int /\ weights[i] >= 0
      OBVIOUS
    <2> QED
      BY <2>1, <2>2, SumTyped
  <1>6. SumUpto(X, n) = D * W
    <2>1. \A i \in 1..n : weights[i] \in Int /\ X[i] = D * weights[i]
      BY <1>3
    <2>2. SumOf(X, 1..n) = D * SumOf(weights, 1..n)
      <3>1. D \in Int /\ IsFiniteSet(1..n)
        BY <1>1, <1>5
      <3> HIDE DEF W
      <3> QED
        BY <2>1, <3>1, SumScales
    <2> QED
      BY <2>2 DEF SumUpto
  <1> HIDE DEF W
  <1>7. InReach(xs, X, n)
    <2>1. 2 * W < D
      BY DEF W, D
    <2>2. (D - 2 * W - 1) * D >= 0 /\ (D - 2 * W - 1) * D = D * D - 2 * (D * W) - D
      BY <1>1, <1>5, <2>1
    <2>3. D * D \in Int /\ D * W \in Int
      BY <1>1, <1>5
    <2>4. 2 * (D * W) < D * D
      BY <1>1, <2>2, <2>3
    <2> QED
      BY <1>2, <1>6, <2>4 DEF InReach, D
  <1>8. SumTracks(T, n, xs, X, n)
    BY <1>2, <1>4, <1>7, TotalTracks
  <1>9. IsNumber(T) /\ Tracks(T, D * W, D, D * W, n, n)
    BY <1>2, <1>6, <1>8 DEF SumTracks, D
  <1> HIDE DEF T
  <1>10. T[1] \in Nat /\ T[2] \in Nat
    BY <1>9 DEF IsNumber
  <1> DEFINE d == n * D
             e == (T[1] - T[2] * W) * Grid
             f == T[2] * ((n + 1) * W)
  <1>11. d \in Nat \ {0} /\ e \in Int /\ f \in Int
    <2>1. \A x, y \in Nat \ {0} : x * y \in Nat \ {0}
      OBVIOUS
    <2> QED
      BY <1>1, <1>5, <1>10, <2>1
  <1>12. -(d * f) <= d * e /\ d * e <= d * f
    <2>1. (T[1] * D - T[2] * (D * W)) * (n * Grid) = d * e
      BY <1>1, <1>5, <1>10
    <2>2. T[2] * (n * (n + 1) * (D * W)) = d * f
      BY <1>1, <1>5, <1>10
    <2> HIDE DEF d, e, f
    <2> QED
      BY <1>9, <2>1, <2>2 DEF Tracks
  <1>13. -f <= e /\ e <= f
    <2> HIDE DEF d, e, f
    <2>1. -f \in Int /\ d * (-f) = -(d * f)
      BY <1>11
    <2> QED
      BY <1>11, <1>12, <2>1, Cancelled
  <1>14. e = T[1] * Grid - T[2] * W * Grid /\ T[1] * Grid \in Int /\ T[2] * W * Grid \in Int
    <2>1. \A x, y, g \in Int : (x - y) * g = x * g - y * g /\ x * g \in Int /\ y * g \in Int
      OBVIOUS
    <2>2. T[2] * W \in Int
      BY <1>5, <1>10
    <2> QED
      BY <1>1, <1>10, <2>1, <2>2
  <1>15. T[2] * (W * (Grid - n - 1)) = T[2] * W * Grid - f
    BY <1>1, <1>5, <1>10
  <1>16. Grid * T[1] <= Grid * (T[2] * (2 * W))
    <2>1. f <= T[2] * W * Grid
      <3>1. n + 1 <= n * (n + 1)
        <4>1. 1 * (n + 1) <= n * (n + 1) /\ n * (n + 1) \in Int
          BY Multiplied
        <4> QED
          BY <4>1
      <3>2. n * (n + 1) \in Int /\ n + 1 <= Grid
        BY <1>1, <3>1
      <3>3. (T[2] * W) * (n + 1) <= (T[2] * W) * Grid
        <4> DEFINE t == T[2] * W
        <4>1. t \in Nat /\ n + 1 \in Int /\ Grid \in Int
          BY <1>1, <1>5, <1>10
        <4> HIDE DEF t
        <4>2. t * (n + 1) <= t * Grid
          BY <3>2, <4>1, Multiplied
        <4> QED
          BY <4>2 DEF t
      <3>4. f = (T[2] * W) * (n + 1)
        <4>1. \A x, y, z \in Int : x * (z * y) = (x * y) * z
          OBVIOUS
        <4>2. T[2] \in Int /\ W \in Int /\ n + 1 \in Int
          BY <1>5, <1>10
        <4>3. T[2] * ((n + 1) * W) = (T[2] * W) * (n + 1)
          BY <4>1, <4>2, Zenon
        <4> QED
          BY <4>3
      <3> QED
        BY <3>3, <3>4
    <2>2. Grid * (T[2] * (2 * W)) = T[2] * W * Grid + T[2] * W * Grid /\ Grid * T[1] = T[1] * Grid
      BY <1>1, <1>5, <1>10
    <2> HIDE DEF e, f
    <2> QED
      BY <1>11, <1>13, <1>14, <2>1, <2>2
  <1>17. T[1] <= T[2] * (2 * W)
    <2>1. T[2] * (2 * W) \in Int
      BY <1>5, <1>10
    <2> QED
      BY <1>1, <1>10, <1>16, <2>1, Cancelled
  <1>18. T[2] * (W * (Grid - n - 1)) <= T[1] * Grid
    <2> HIDE DEF e, f
    <2> QED
      BY <1>11, <1>13, <1>14, <1>15
  <1> QED
    BY <1>9, <1>17, <1>18 DEF T, W, xs

LEMMA CountsFacts ==
  ASSUME splitting \in Policies, total \in Nat
  PROVE  /\ Floor \in Nat \ {0} /\ total \div Floor \in Nat
         /\ splitting.max \in Nat /\ splitting.min \in Nat
         /\ Max({splitting.max, 1}) \in Nat \ {0}
         /\ \A n \in Counts : total > Floor =>
              /\ n \in Nat \ {0} /\ n <= Max({splitting.max, 1}) /\ Floor * n <= total /\ n <= total
              /\ Min({Max({splitting.min, 1}), Max({splitting.max, 1}), Max({total \div Floor, 1})}) <= n
  <1> DEFINE lo == Max({splitting.min, 1})
             hi == Max({splitting.max, 1})
             q == total \div Floor
             most == Min({hi, q})
             least == Min({lo, most})
  <1>1. splitting.min \in Nat /\ splitting.max \in Nat /\ splitting.floor \in Nat
    BY PaymentAssumption
  <1>2. Floor \in Nat \ {0} /\ lo \in Nat \ {0} /\ hi \in Nat \ {0}
    <2>1. ASSUME NEW a \in Nat PROVE Max({a, 1}) \in Nat \ {0}
      <3>1. a \in Int /\ 1 \in Int
        OBVIOUS
      <3>2. Max({a, 1}) \in {a, 1} /\ Max({a, 1}) >= 1
        BY <3>1, OfTwo
      <3> QED
        BY <3>2
    <2> QED
      BY <1>1, <2>1 DEF Floor
  <1>3. q \in Nat /\ q * Floor <= total /\ (total > Floor => q >= 1)
    <2>1. total > Floor => total >= Floor
      BY <1>2
    <2> QED
      BY <1>2, <2>1, DividedBy
  <1> HIDE DEF lo, hi, q
  <1>4. most \in {hi, q} /\ most <= hi /\ most <= q
    <2>1. hi \in Int /\ q \in Int
      BY <1>2, <1>3
    <2> QED
      BY <2>1, OfTwo
  <1> HIDE DEF most
  <1>5. least \in {lo, most} /\ least <= lo /\ least <= most
    <2>1. lo \in Int /\ most \in Int
      BY <1>2, <1>3, <1>4
    <2> QED
      BY <2>1, OfTwo
  <1>6. Counts = least..most
    BY DEF Counts, least, most, lo, hi, q
  <1> HIDE DEF least
  <1>7. ASSUME NEW n \in Counts, total > Floor
        PROVE  /\ n \in Nat \ {0} /\ n <= hi /\ Floor * n <= total /\ n <= total
               /\ Min({lo, hi, Max({q, 1})}) <= n
    <2>1. n \in Nat \ {0} /\ n <= hi /\ n <= q /\ n >= least
      BY <1>2, <1>3, <1>4, <1>5, <1>6, <1>7
    <2>2. Floor * n <= Floor * q /\ Floor * q = q * Floor
      BY <1>2, <1>3, <2>1, Multiplied
    <2>3. 1 * n <= Floor * n
      BY <1>2, <2>1, Multiplied
    <2>4. Floor * n \in Nat /\ q * Floor \in Nat
      BY <1>2, <1>3, <2>1
    <2>5. Max({q, 1}) = q
      <3>1. q \in Int /\ 1 \in Int /\ q >= 1
        BY <1>3, <1>7
      <3>2. Max({q, 1}) \in {q, 1} /\ Max({q, 1}) >= q
        BY <3>1, OfTwo
      <3> QED
        BY <3>1, <3>2
    <2>6. /\ Min({lo, hi, q}) <= lo /\ Min({lo, hi, q}) <= hi /\ Min({lo, hi, q}) <= q
          /\ Min({lo, hi, q}) \in {lo, hi, q}
      <3>1. lo \in Int /\ hi \in Int /\ q \in Int
        BY <1>2, <1>3
      <3> QED
        BY <3>1, OfThree
    <2> QED
      BY <1>2, <1>3, <1>4, <1>5, <2>1, <2>2, <2>3, <2>4, <2>5, <2>6
  <1> QED
    BY <1>1, <1>2, <1>3, <1>7 DEF lo, hi, q

(* The shares of the parts are no more than there is to share.             *)
LEMMA SharesFit ==
  ASSUME NEW n \in Nat \ {0}, NEW weights \in [1..n -> Shares],
         \A w \in Shares : 2 * n * w < Denominator,
         n * (n + 1) <= Grid, n + 5 <= Grid,
         NEW rem \in Nat, rem * (n + 5) + n + 1 <= Grid,
         NEW shares, \A i \in 1..n : shares[i] = ShareOf(weights[i], weights, rem)
  PROVE  (\A i \in 1..n : shares[i] \in Nat) /\ SumOf(shares, 1..n) <= rem
  <1> DEFINE W == SumOf(weights, 1..n)
             T == Total([i \in DOMAIN weights |-> <<weights[i], 1>>])
             c == Grid - n - 1
             S == 1..n
             h == (Grid + 1) * ((Grid + 1) * (Grid + 1))
             K == Grid * (W * c * Grid)
             A == SumOf(shares, S)
  <1>1. Grid \in Nat \ {0} /\ Denominator \in Nat \ {0}
    BY GridFacts
  <1>2. IsFiniteSet(S) /\ Cardinality(S) = n
    BY FS_Interval
  <1>3. DOMAIN weights = S /\ \A i \in S : weights[i] \in Nat \ {0} /\ weights[i] \in Int
                              /\ weights[i] >= 0 /\ weights[i] \in Shares
    <2>1. DOMAIN weights = S /\ \A i \in S : weights[i] \in Shares
      OBVIOUS
    <2>2. \A w \in Shares : w \in Nat \ {0} /\ w \in Int /\ w >= 0
      BY PaymentAssumption
    <2> HIDE DEF S
    <2> QED
      BY <2>1, <2>2
  <1>4. W \in Nat /\ \A i \in S : weights[i] <= W
    <2>1. W \in Int /\ W >= 0
      BY <1>2, <1>3, SumTyped
    <2>2. ASSUME NEW i \in S PROVE weights[i] <= W
      <3>1. W = weights[i] + SumOf(weights, S \ {i})
        BY <1>2, <1>3, SumTakes
      <3>2. SumOf(weights, S \ {i}) \in Int /\ SumOf(weights, S \ {i}) >= 0
        <4>1. IsFiniteSet(S \ {i}) /\ \A x \in S \ {i} : weights[x] \in Int /\ weights[x] >= 0
          BY <1>2, <1>3, FS_Subset
        <4> QED
          BY <4>1, SumTyped
      <3> QED
        BY <1>3, <3>1, <3>2
    <2> QED
      BY <2>1, <2>2
  <1>5. 2 * W < Denominator
    <2> DEFINE g == [i \in S |-> (2 * n) * weights[i]]
               f == [i \in S |-> Denominator - 1]
    <2>1. \A i \in S : /\ g[i] = (2 * n) * weights[i] /\ f[i] = Denominator - 1
                       /\ g[i] \in Int /\ f[i] \in Int /\ g[i] <= f[i]
      <3>1. ASSUME NEW i \in S
            PROVE  (2 * n) * weights[i] \in Int /\ (2 * n) * weights[i] <= Denominator - 1
        <4>1. 2 * n * weights[i] < Denominator
          BY <1>3
        <4>2. (2 * n) * weights[i] \in Int
          BY <1>3
        <4> QED
          BY <1>1, <4>1, <4>2
      <3> QED
        BY <1>1, <3>1
    <2> HIDE DEF g, f
    <2>2. SumOf(g, S) = (2 * n) * W
      <3>1. 2 * n \in Int
        OBVIOUS
      <3>2. \A x \in S : weights[x] \in Int /\ g[x] = (2 * n) * weights[x]
        BY <1>3, <2>1
      <3> DEFINE k == 2 * n
      <3> HIDE DEF k, S
      <3>3. k \in Int /\ \A x \in S : weights[x] \in Int /\ g[x] = k * weights[x]
        BY <3>1, <3>2 DEF k
      <3>4. SumOf(g, S) = k * SumOf(weights, S)
        BY <1>2, <3>3, SumScales
      <3> QED
        BY <3>4 DEF k, S
    <2>3. SumOf(f, S) = (Denominator - 1) * n
      <3> DEFINE k == Denominator - 1
      <3>1. k \in Int
        BY <1>1
      <3>2. \A x \in S : f[x] = k
        BY <2>1
      <3> HIDE DEF k, S
      <3>3. SumOf(f, S) = k * Cardinality(S)
        BY <1>2, <3>1, <3>2, SumConstant
      <3> QED
        BY <1>2, <3>3 DEF k
    <2>4. SumOf(g, S) <= SumOf(f, S)
      BY <1>2, <2>1, SumAtMost
    <2> HIDE DEF W
    <2>5. (2 * n) * W = n * (2 * W) /\ (Denominator - 1) * n = n * (Denominator - 1)
      BY <1>1, <1>4
    <2>6. 2 * W \in Int /\ Denominator - 1 \in Int
      BY <1>1, <1>4
    <2>7. n * (2 * W) <= n * (Denominator - 1)
      BY <2>2, <2>3, <2>4, <2>5
    <2>8. 2 * W <= Denominator - 1
      BY <2>6, <2>7, Cancelled
    <2> QED
      BY <1>1, <1>4, <2>8
  <1>6. IsNumber(T) /\ T[1] <= T[2] * (2 * W) /\ T[2] * (W * c) <= T[1] * Grid
    BY <1>3, <1>5, WeightSumNear
  <1>7. c \in Nat /\ c >= 4 /\ c <= Grid /\ 6 * rem <= c
    <2>1. rem * 6 <= rem * (n + 5) /\ rem * (n + 5) \in Nat
      BY Multiplied
    <2> QED
      BY <1>1, <2>1
  <1> HIDE DEF W, T, c
  <1>8. ASSUME NEW i \in S PROVE shares[i] \in Nat /\ shares[i] * K <= weights[i] * (rem * h)
    <2>1. shares[i] = Truncated(Product(Quotient(<<weights[i], 1>>, T), Rounded(rem, 1)))
      BY DEF ShareOf, T
    <2>2. weights[i] \in Nat \ {0} /\ weights[i] <= W
      BY <1>3, <1>4
    <2> QED
      BY <1>4, <1>5, <1>6, <1>7, <2>1, <2>2, ShareNear
  <1>9. h \in Int /\ rem * h \in Int /\ K \in Int
    BY <1>1, <1>4, <1>7
  <1> HIDE DEF K, h
  <1>10. K * A <= (rem * h) * W
    <2> DEFINE g == [i \in S |-> K * shares[i]]
               f == [i \in S |-> (rem * h) * weights[i]]
    <2>1. \A i \in S : /\ g[i] = K * shares[i] /\ f[i] = (rem * h) * weights[i]
                       /\ g[i] \in Int /\ f[i] \in Int /\ g[i] <= f[i]
      <3>1. ASSUME NEW i \in S
            PROVE  K * shares[i] \in Int /\ (rem * h) * weights[i] \in Int
                   /\ K * shares[i] <= (rem * h) * weights[i]
        <4>1. shares[i] \in Int /\ weights[i] \in Int
          BY <1>3, <1>8
        <4>2. \A x, y \in Int : x * y = y * x /\ x * y \in Int
          OBVIOUS
        <4>3. shares[i] * K = K * shares[i] /\ weights[i] * (rem * h) = (rem * h) * weights[i]
              /\ K * shares[i] \in Int /\ (rem * h) * weights[i] \in Int
          BY <1>9, <4>1, <4>2
        <4> QED
          BY <1>8, <4>3
      <3> QED
        BY <3>1
    <2> HIDE DEF g, f
    <2>2. SumOf(g, S) = K * A
      <3>1. \A i \in S : shares[i] \in Int
        BY <1>8
      <3> QED
        BY <1>2, <1>9, <2>1, <3>1, SumScales
    <2>3. SumOf(f, S) = (rem * h) * W
      BY <1>2, <1>3, <1>9, <2>1, SumScales DEF W
    <2>4. SumOf(g, S) <= SumOf(f, S)
      BY <1>2, <2>1, SumAtMost
    <2> QED
      BY <2>2, <2>3, <2>4
  <1>11. A \in Int
    <2>1. \A i \in S : shares[i] \in Int
      BY <1>8
    <2> QED
      BY <1>2, <2>1, SumTyped
  <1>12. W \in Nat \ {0}
    <2>1. 1 \in S
      OBVIOUS
    <2>2. weights[1] >= 1 /\ weights[1] <= W /\ weights[1] \in Int
      BY <1>3, <1>4, <2>1
    <2> QED
      BY <1>4, <2>2
  <1> HIDE DEF A, S
  <1>13. A * (Grid * (c * Grid)) <= rem * h
    <2>1. K * A = W * (A * (Grid * (c * Grid))) /\ (rem * h) * W = W * (rem * h)
      <3>1. K * A = W * (A * (Grid * (c * Grid)))
        BY <1>1, <1>7, <1>11, <1>12 DEF K
      <3>2. \A x, y \in Int : x * y = y * x
        OBVIOUS
      <3> QED
        BY <1>9, <1>12, <3>1, <3>2
    <2>2. A * (Grid * (c * Grid)) \in Int
      BY <1>1, <1>7, <1>11
    <2> QED
      BY <1>9, <1>10, <1>12, <2>1, <2>2, Cancelled
  <1>14. A <= rem
    BY <1>11, <1>13, CannotExceed DEF c, h
  <1> QED
    BY <1>8, <1>14 DEF A, S

(* n parts that are at least the floor and sum up to no more than planned. *)
PartsFit(p, n) ==
  /\ n \in Nat \ {0} /\ DOMAIN p = 1..n /\ p = [i \in 1..n |-> p[i]]
  /\ \A i \in 1..n : p[i] \in Nat /\ p[i] >= Floor
  /\ SumOf(p, 1..n) <= total

(* Between the planning of a payment and its last part.                    *)
SendInv ==
  /\ splitting \in Policies /\ pc # "panic"
  /\ pc \in {"split", "leftover", "sent"} =>
       total \in Amounts \cup {0} /\ (total = 0 <=> kind = "memo")
  /\ pc = "leftover" => total > Floor /\ \E n \in Counts : PartsFit(parts, n)
  /\ SplitIsExact

(* What the bound on payments says of a split into n parts.                *)
LEMMA SplitInReach ==
  ASSUME SplitsInReach, splitting \in Policies, total \in Amounts, total > Floor, NEW n \in Counts
  PROVE  /\ n \in Nat \ {0} /\ n * (n + 1) <= Grid /\ n + 5 <= Grid
         /\ total - Floor * n \in Nat /\ (total - Floor * n) * (n + 5) + n + 1 <= Grid
         /\ \A w \in Shares : 2 * n * w < Denominator
  <1> DEFINE most == Max({splitting.max, 1})
             rem == total - Floor * n
  <1>1. total \in Nat \ {0} /\ \A w \in Shares : w \in Nat \ {0}
    BY PaymentAssumption
  <1>2. /\ Floor \in Nat \ {0} /\ most \in Nat \ {0} /\ n \in Nat \ {0} /\ n <= most
        /\ Floor * n <= total /\ n <= total
    BY <1>1, CountsFacts
  <1>3. total * (most + 5) <= Grid /\ \A w \in Shares : 2 * most * w < Denominator
    BY DEF SplitsInReach, Grid
  <1> HIDE DEF most
  <1>4. total * (n + 5) <= Grid /\ total * (n + 5) \in Nat
    <2>1. total * (n + 5) <= total * (most + 5)
      <3>1. n + 5 \in Int /\ most + 5 \in Int /\ n + 5 <= most + 5
        BY <1>2
      <3> QED
        BY <1>1, <3>1, Multiplied
    <2>2. total * (n + 5) \in Nat /\ total * (most + 5) \in Nat
      BY <1>1, <1>2
    <2> QED
      BY <1>3, <2>1, <2>2, GridFacts
  <1>5. n * (n + 1) <= Grid
    <2>1. n * (n + 1) <= total * (n + 5)
      <3>1. n \in Nat /\ n + 1 \in Nat /\ n + 5 \in Nat /\ total \in Nat /\ n + 1 <= n + 5
        BY <1>1, <1>2
      <3> QED
        BY <1>2, <3>1, BothBound
    <2>2. n * (n + 1) \in Nat
      BY <1>2
    <2> QED
      BY <1>4, <2>1, <2>2, GridFacts
  <1>6. n + 5 <= Grid
    <2>1. 1 * (n + 5) <= total * (n + 5)
      <3>1. 1 <= total /\ n + 5 \in Nat
        BY <1>1, <1>2
      <3> QED
        BY <1>1, <3>1, Multiplied
    <2> QED
      BY <1>2, <1>4, <2>1, GridFacts
  <1>7. rem \in Nat /\ rem <= total - n
    <2>1. 1 * n <= Floor * n /\ Floor * n \in Nat
      BY <1>2, Multiplied
    <2> QED
      BY <1>1, <1>2, <2>1
  <1> HIDE DEF rem
  <1>8. rem * (n + 5) + n + 1 <= Grid
    <2>1. rem * (n + 5) <= (total - n) * (n + 5)
      <3>1. total - n \in Int /\ n + 5 \in Nat
        BY <1>1, <1>2
      <3> QED
        BY <1>7, <3>1, Multiplied
    <2>2. (total - n) * (n + 5) = total * (n + 5) - n * (n + 5)
      BY <1>1, <1>2
    <2>3. n * 6 <= n * (n + 5)
      <3>1. 6 <= n + 5 /\ n + 5 \in Int
        BY <1>2
      <3> QED
        BY <1>2, <3>1, Multiplied
    <2>4. n * (n + 5) \in Int /\ rem * (n + 5) \in Int
      BY <1>2, <1>7
    <2> QED
      BY <1>2, <1>4, <2>1, <2>2, <2>3, <2>4, GridFacts
  <1>9. ASSUME NEW w \in Shares PROVE 2 * n * w < Denominator
    <2>1. 2 * most * w < Denominator /\ w \in Nat
      BY <1>1, <1>3
    <2>2. (2 * n) * w <= (2 * most) * w
      <3>1. 2 * n \in Int /\ 2 * most \in Int /\ 2 * n <= 2 * most
        BY <1>2
      <3> QED
        BY <2>1, <3>1, Multiplied
    <2>3. (2 * n) * w \in Int /\ (2 * most) * w \in Int
      BY <1>2, <2>1
    <2> QED
      BY <2>1, <2>2, <2>3, GridFacts
  <1> QED
    BY <1>2, <1>5, <1>6, <1>7, <1>8, <1>9 DEF rem

LEMMA DistributeFits ==
  ASSUME SplitsInReach, SendInv, Distribute
  PROVE  SendInv'
  <1>1. /\ pc = "split" /\ pc' = "leftover" /\ total > Floor
        /\ UNCHANGED <<kind, total, splitting>>
    BY DEF Distribute
  <1>2. PICK n \in Counts : \E weights \in [1..n -> Shares] :
          parts' = [i \in 1..n |-> Floor + ShareOf(weights[i], weights, total - Floor * n)]
    BY DEF Distribute
  <1>3. PICK weights \in [1..n -> Shares] :
          parts' = [i \in 1..n |-> Floor + ShareOf(weights[i], weights, total - Floor * n)]
    BY <1>2
  <1>4. splitting \in Policies /\ total \in Amounts \cup {0} /\ (total = 0 <=> kind = "memo")
    BY <1>1 DEF SendInv
  <1>5. Floor \in Nat \ {0} /\ total \in Amounts /\ total \in Nat
    <2>1. total \in Nat
      BY <1>4, PaymentAssumption
    <2>2. Floor \in Nat \ {0}
      BY <1>4, <2>1, CountsFacts
    <2> QED
      BY <1>1, <1>4, <2>1, <2>2
  <1> DEFINE rem == total - Floor * n
             shares == [i \in 1..n |-> ShareOf(weights[i], weights, rem)]
             floors == [i \in 1..n |-> Floor]
             S == 1..n
  <1>6. /\ n \in Nat \ {0} /\ n * (n + 1) <= Grid /\ n + 5 <= Grid
        /\ rem \in Nat /\ rem * (n + 5) + n + 1 <= Grid
        /\ \A w \in Shares : 2 * n * w < Denominator
    BY <1>1, <1>4, <1>5, SplitInReach
  <1> HIDE DEF rem
  <1>7. \A i \in S : shares[i] = ShareOf(weights[i], weights, rem)
    OBVIOUS
  <1>8. \A i \in S : parts'[i] = Floor + shares[i] /\ floors[i] = Floor
    BY <1>3 DEF rem
  <1>9. DOMAIN parts' = S /\ parts' = [i \in S |-> parts'[i]]
    <2>1. DOMAIN parts' = S
      BY <1>3
    <2>2. parts' = [i \in DOMAIN parts' |-> parts'[i]]
      BY <1>3
    <2> QED
      BY <2>1, <2>2
  <1> HIDE DEF shares, floors
  <1>10. (\A i \in S : shares[i] \in Nat) /\ SumOf(shares, S) <= rem
    BY <1>6, <1>7, SharesFit
  <1>11. IsFiniteSet(S) /\ Cardinality(S) = n
    BY <1>6, FS_Interval
  <1>12. \A i \in S : parts'[i] \in Nat /\ parts'[i] >= Floor
    BY <1>5, <1>8, <1>10
  <1>13. SumOf(parts', S) <= total
    <2> DEFINE p == parts'
    <2>1. \A i \in S : floors[i] \in Int /\ shares[i] \in Int /\ p[i] = floors[i] + shares[i]
      BY <1>5, <1>8, <1>10
    <2> HIDE DEF p
    <2>2. SumOf(p, S) = SumOf(floors, S) + SumOf(shares, S)
      BY <1>11, <2>1, SumAdds
    <2>3. SumOf(floors, S) = Floor * n
      <3>1. Floor \in Int /\ \A i \in S : floors[i] = Floor
        BY <1>5, <1>8
      <3> DEFINE k == Floor
      <3> HIDE DEF k, S
      <3>2. SumOf(floors, S) = k * n
        BY <1>11, <3>1, SumConstant DEF k
      <3> QED
        BY <3>2 DEF k, S
    <2>4. SumOf(shares, S) \in Int
      BY <1>11, <2>1, SumTyped
    <2>5. Floor * n \in Int
      BY <1>5, <1>6
    <2>6. SumOf(p, S) <= total
      BY <1>5, <1>10, <2>2, <2>3, <2>4, <2>5 DEF rem
    <2> QED
      BY <2>6 DEF p
  <1>14. Floor' = Floor /\ Counts' = Counts
    BY <1>1 DEF Floor, Counts
  <1>15. PartsFit(parts, n)'
    BY <1>1, <1>6, <1>9, <1>12, <1>13, <1>14 DEF PartsFit
  <1>16. SplitIsExact'
    BY <1>1 DEF SplitIsExact
  <1>17. \E k \in Counts' : PartsFit(parts, k)'
    BY <1>14, <1>15
  <1> QED
    BY <1>1, <1>4, <1>14, <1>16, <1>17 DEF SendInv

LEMMA WholeExact ==
  ASSUME SendInv, Whole
  PROVE  SendInv'
  <1>1. /\ pc = "split" /\ pc' = "sent" /\ total <= Floor /\ parts' = <<total>>
        /\ UNCHANGED <<kind, total, splitting>>
    BY DEF Whole
  <1>2. splitting \in Policies /\ total \in Amounts \cup {0} /\ (total = 0 <=> kind = "memo")
    BY <1>1 DEF SendInv
  <1>3. total \in Nat
    BY <1>2, PaymentAssumption
  <1>4. /\ Floor \in Nat \ {0} /\ total \div Floor \in Nat
        /\ splitting.max \in Nat /\ splitting.min \in Nat
        /\ Max({splitting.max, 1}) \in Nat \ {0}
    BY <1>2, <1>3, CountsFacts
  <1> DEFINE p == <<total>>
  <1>5. DOMAIN p = {1} /\ p[1] = total /\ Len(p) = 1
    OBVIOUS
  <1>6. SumFunction(p) = total
    <2> DEFINE one == {1}
    <2>1. IsFiniteSet(one) /\ Cardinality(one) = 1
      BY FS_Singleton
    <2>2. \A x \in one : p[x] = total
      OBVIOUS
    <2> HIDE DEF p, one
    <2>3. total \in Int
      BY <1>3
    <2>4. SumOf(p, one) = total * 1
      BY <2>1, <2>2, <2>3, SumConstant
    <2> QED
      BY <1>3, <1>5, <2>4 DEF SumFunction, SumOf, one
  <1> DEFINE lo == Max({splitting.min, 1})
             hi == Max({splitting.max, 1})
             q == Max({total \div Floor, 1})
  <1>7. 1 \in Min({lo, hi, q})..hi
    <2>1. lo \in Int
      <3>1. splitting.min \in Int /\ 1 \in Int
        BY <1>4
      <3>2. Max({splitting.min, 1}) \in {splitting.min, 1}
        BY <3>1, OfTwo
      <3> QED
        BY <3>1, <3>2
    <2>2. q = 1
      <3>1. total \div Floor <= 1
        BY <1>1, <1>3, <1>4, DividedBy
      <3>2. total \div Floor \in Int /\ 1 \in Int
        BY <1>4
      <3>3. q \in {total \div Floor, 1} /\ q >= 1
        BY <3>2, OfTwo
      <3> QED
        BY <3>1, <3>2, <3>3
    <2>3. hi \in Int /\ hi >= 1 /\ q \in Int
      BY <1>4, <2>2
    <2> HIDE DEF lo, hi, q
    <2>4. Min({lo, hi, q}) \in {lo, hi, q} /\ Min({lo, hi, q}) <= q
      BY <2>1, <2>3, OfThree
    <2> QED
      BY <2>1, <2>2, <2>3, <2>4
  <1>8. Floor' = Floor
    BY <1>1 DEF Floor
  <1>9. SplitIsExact'
    <2>1. \A i \in DOMAIN p : (p[i] >= Floor \/ Len(p) = 1) /\ (p[i] = 0 <=> kind = "memo")
      BY <1>2, <1>5
    <2>2. (Min({lo, hi, q})..hi)' = Min({lo, hi, q})..hi
      BY <1>1, <1>8
    <2> HIDE DEF p, lo, hi, q
    <2>3. pc' = "sent" /\ parts' = p /\ total' = total /\ kind' = kind
      BY <1>1 DEF p
    <2>4. /\ SumFunction(parts') = total'
          /\ \A i \in DOMAIN parts' : parts'[i] >= Floor' \/ Len(parts') = 1
          /\ \A i \in DOMAIN parts' : parts'[i] = 0 <=> kind' = "memo"
          /\ Len(parts') \in (Min({lo, hi, q})..hi)'
      BY <1>5, <1>6, <1>7, <1>8, <2>1, <2>2, <2>3
    <2> QED
      BY <2>3, <2>4 DEF SplitIsExact, lo, hi, q
  <1> QED
    BY <1>1, <1>2, <1>9 DEF SendInv

LEMMA LeftoverExact ==
  ASSUME SendInv, Leftover
  PROVE  SendInv'
  <1>1. pc = "leftover" /\ UNCHANGED <<kind, total, splitting>>
    BY DEF Leftover
  <1>2. /\ splitting \in Policies /\ total \in Amounts \cup {0} /\ (total = 0 <=> kind = "memo")
        /\ total > Floor
    BY <1>1 DEF SendInv
  <1>3. PICK n \in Counts : PartsFit(parts, n)
    BY <1>1 DEF SendInv
  <1>4. /\ n \in Nat \ {0} /\ DOMAIN parts = 1..n /\ parts = [i \in 1..n |-> parts[i]]
        /\ \A i \in 1..n : parts[i] \in Nat /\ parts[i] \in Int /\ parts[i] >= Floor
        /\ SumOf(parts, 1..n) <= total
    BY <1>3 DEF PartsFit
  <1>5. total \in Nat
    BY <1>2, PaymentAssumption
  <1>6. Floor \in Nat \ {0} /\ n <= Max({splitting.max, 1}) /\ Max({splitting.max, 1}) \in Nat
        /\ splitting.min \in Nat /\ total \div Floor \in Nat
        /\ Min({Max({splitting.min, 1}), Max({splitting.max, 1}), Max({total \div Floor, 1})}) <= n
    BY <1>2, <1>3, <1>5, CountsFacts
  <1> DEFINE S == 1..n
             d == total - SumOf(parts, S)
  <1>7. SumFunction(parts) = SumOf(parts, S) /\ SumOf(parts, S) \in Int
    <2>1. IsFiniteSet(S)
      BY <1>4, FS_Interval
    <2> QED
      BY <1>4, <2>1, SumTyped DEF SumFunction, SumOf
  <1>8. d \in Nat
    BY <1>4, <1>5, <1>7
  <1>9. ~(SumFunction(parts) > total)
    BY <1>4, <1>5, <1>7
  <1>10. pc' = "sent" /\ \E i \in S : parts' = [parts EXCEPT ![i] = @ + d]
    BY <1>4, <1>7, <1>9 DEF Leftover
  <1>11. PICK i \in S : parts' = [parts EXCEPT ![i] = @ + d]
    BY <1>10
  <1> HIDE DEF d
  <1> DEFINE r == [parts EXCEPT ![i] = @ + d]
  <1>12. DOMAIN r = S /\ Len(r) = n
    BY <1>4
  <1>13. \A k \in S : r[k] \in Nat /\ r[k] >= Floor
    BY <1>4, <1>6, <1>8
  <1>14. SumFunction(r) = total
    <2>1. SumOf(r, S) = SumOf(parts, S) + d
      <3>1. n \in Nat /\ d \in Int /\ DOMAIN parts = 1..n /\ \A k \in 1..n : parts[k] \in Int
        BY <1>4, <1>8
      <3>2. SumOf([parts EXCEPT ![i] = @ + d], 1..n) = SumOf(parts, 1..n) + d
        BY <3>1, SumChanges
      <3> QED
        BY <3>2 DEF r
    <2>2. SumFunction(r) = SumOf(r, S)
      BY <1>12 DEF SumFunction, SumOf
    <2> QED
      BY <1>5, <1>7, <2>1, <2>2 DEF d
  <1> HIDE DEF r
  <1> DEFINE lo == Max({splitting.min, 1})
             hi == Max({splitting.max, 1})
             q == Max({total \div Floor, 1})
             lowest == Min({lo, hi, q})
  <1>15. lowest \in Int
    <2>1. splitting.min \in Int /\ splitting.max \in Int /\ total \div Floor \in Int /\ 1 \in Int
      <3>1. splitting.max \in Nat
        BY <1>2, <1>5, CountsFacts
      <3> QED
        BY <1>6, <3>1
    <2>2. lo \in Int /\ hi \in Int /\ q \in Int
      <3>1. \A a, b \in Int : Max({a, b}) \in Int
        <4>1. ASSUME NEW a \in Int, NEW b \in Int PROVE Max({a, b}) \in Int
          <5>1. Max({a, b}) \in {a, b}
            BY OfTwo
          <5> QED
            BY <5>1
        <4> QED
          BY <4>1
      <3> QED
        BY <2>1, <3>1
    <2> HIDE DEF lo, hi, q
    <2>3. lowest \in {lo, hi, q}
      BY <2>2, OfThree
    <2> HIDE DEF lowest
    <2> QED
      BY <2>2, <2>3
  <1>16. n \in lowest..hi
    BY <1>4, <1>6, <1>15
  <1>17. Floor' = Floor
    BY <1>1 DEF Floor
  <1>18. SplitIsExact'
    <2>1. (lowest..hi)' = lowest..hi
      BY <1>1, <1>17
    <2>2. pc' = "sent" /\ parts' = r /\ total' = total /\ kind' = kind
      BY <1>1, <1>10, <1>11 DEF r
    <2>3. total # 0 /\ kind # "memo"
      BY <1>2, <1>5, <1>6
    <2>4. \A k \in S : r[k] # 0
      BY <1>6, <1>13
    <2> HIDE DEF lowest, hi
    <2>5. /\ SumFunction(parts') = total'
          /\ \A k \in DOMAIN parts' : parts'[k] >= Floor' \/ Len(parts') = 1
          /\ \A k \in DOMAIN parts' : parts'[k] = 0 <=> kind' = "memo"
          /\ Len(parts') \in (lowest..hi)'
      BY <1>12, <1>13, <1>14, <1>16, <1>17, <2>1, <2>2, <2>3, <2>4
    <2> QED
      BY <2>2, <2>5 DEF SplitIsExact, lowest, lo, hi, q
  <1> QED
    BY <1>1, <1>2, <1>10, <1>18 DEF SendInv

LEMMA SendSteps ==
  ASSUME SplitsInReach, SendInv, [PaymentNext]_paymentVars
  PROVE  SendInv'
  <1>1. ASSUME pc \in {"choose", "chosen"}, pc' \in {"choose", "chosen", "sample"}, splitting' = splitting
        PROVE  SendInv'
    BY <1>1 DEF SendInv, SplitIsExact
  <1>2. CASE Skip \/ Pass \/ Choose
    BY <1>1, <1>2 DEF Skip, Pass, Choose, Looking, sending
  <1>3. CASE FallBack \/ ChooseReturns
    BY <1>1, <1>3 DEF FallBack, ChooseReturns, sending
  <1>4. ASSUME NEW amount \in Amounts, Plan(amount) PROVE SendInv'
    <2>1. /\ pc' = "split" /\ total' = (IF kind = "memo" THEN 0 ELSE amount)
          /\ kind' = kind /\ splitting' = splitting
      BY <1>4 DEF Plan
    <2>2. amount # 0
      BY PaymentAssumption
    <2> QED
      BY <2>1, <2>2 DEF SendInv, SplitIsExact
  <1>5. CASE Whole
    BY <1>5, WholeExact
  <1>6. CASE Distribute
    BY <1>6, DistributeFits
  <1>7. CASE Leftover
    BY <1>7, LeftoverExact
  <1>8. CASE UNCHANGED paymentVars
    <2>1. UNCHANGED <<pc, kind, total, splitting, parts>>
      BY <1>8 DEF paymentVars
    <2>2. Floor' = Floor /\ Counts' = Counts
      BY <2>1 DEF Floor, Counts
    <2>3. \A n : PartsFit(parts, n)' <=> PartsFit(parts, n)
      BY <2>1, <2>2 DEF PartsFit
    <2>4. SplitIsExact'
      BY <2>1, <2>2 DEF SendInv, SplitIsExact
    <2> QED
      BY <2>1, <2>2, <2>3, <2>4 DEF SendInv
  <1> QED
    BY <1>2, <1>3, <1>4, <1>5, <1>6, <1>7, <1>8 DEF PaymentNext

(* The amounts sent sum exactly to what was planned, none of the parts is  *)
(* below the floor and none but a memo is nothing, and the subtraction of  *)
(* what was shared out never fails, whatever the weights of the parts and  *)
(* the precision, for payments up to 2^Precision over the number of parts  *)
(* and five (split_amount).                                                *)
THEOREM PaymentsSplitExactly ==
  ASSUME SplitsInReach
  PROVE  PaymentSpec => []SplitIsExact
  <1>1. PaymentInit => SendInv
    BY DEF PaymentInit, SendInv, SplitIsExact
  <1>2. SendInv /\ [PaymentNext]_paymentVars => SendInv'
    BY SendSteps
  <1>3. SendInv => SplitIsExact
    BY DEF SendInv
  <1> QED
    BY <1>1, <1>2, <1>3, PTL DEF PaymentSpec
=============================================================================
