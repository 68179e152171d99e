--------------------------- MODULE UnionFindProofs ---------------------------
(* The union-find implements a partition, for every set of accounts.        *)
EXTENDS UnionFind, SeqFacts

-----------------------------------------------------------------------------
(* Ancestors are awkward to reason about step by step: a link changes those *)
(* of a whole tree.  The invariant speaks of representatives instead.  R    *)
(* gives every account the root of its tree, it only depends on the tree,   *)
(* and a call in progress is at an account of the tree it was asked about.  *)
Represents(R) ==
  /\ R \in [Known -> Known]
  /\ \A x \in Known : R[parent[x]] = R[x] /\ IsRoot(R[x])
  /\ \A x \in Known : IsRoot(x) => R[x] = x

OnCourse(R) ==
  /\ call.at = "left" => R[call.x] = R[call.a]
  /\ call.at = "right" =>
       /\ R[call.x] = R[call.b]
       /\ IsRoot(call.root) /\ R[call.a] = call.root

RanksEnd == \E bound \in Nat : \A x \in Known : rank[x] <= bound

TreeInv ==
  /\ TypeOK /\ RanksGrow /\ RanksEnd
  /\ \E R : Represents(R) /\ OnCourse(R)

(* The same account represents x before and after a step that merges        *)
(* nothing, whether or not it is known.                                     *)
Rep(R, x) == IF x \in Known THEN R[x] ELSE x

-----------------------------------------------------------------------------
(* Whatever is closed under parent and has an account has its              *)
(* representative: among the accounts of the set that R maps there, one of *)
(* greatest rank is a root.                                                *)
LEMMA RepresentativeReached ==
  ASSUME TypeOK, RanksGrow, RanksEnd, NEW R, Represents(R),
         NEW S \in SUBSET Known, Closed(S), NEW x \in S
  PROVE  R[x] \in S
  <1> DEFINE Tree == {y \in S : R[y] = R[x]}
  <1>1. PICK bound \in Nat : \A y \in Known : rank[y] <= bound
    BY DEF RanksEnd
  <1> DEFINE Heights == {bound - rank[y] : y \in Tree}
  <1>2. \A y \in Known : rank[y] \in Nat /\ parent[y] \in Known
    BY DEF TypeOK
  <1>3. Heights \subseteq Nat
    <2>1. \A y \in Known : bound - rank[y] \in Nat
      BY <1>1, <1>2
    <2> QED
      BY <2>1
  <1>4. Heights # {}
    OBVIOUS
  <1>5. PICK h \in Heights : \A k \in Heights : h <= k
    <2> HIDE DEF Heights
    <2> QED
      BY <1>3, <1>4, LeastElement
  <1>6. PICK top \in Tree : h = bound - rank[top]
    OBVIOUS
  <1>7. IsRoot(top)
    <2> SUFFICES ASSUME ~IsRoot(top) PROVE FALSE
      OBVIOUS
    <2>1. top \in S /\ top \in Known
      OBVIOUS
    <2>2. parent[top] \in Tree
      BY <2>1 DEF Closed, Represents
    <2>3. rank[top] < rank[parent[top]]
      BY <2>1 DEF RanksGrow
    <2>4. bound - rank[parent[top]] \in Heights
      BY <2>2
    <2>5. h <= bound - rank[parent[top]]
      BY <1>5, <2>4
    <2> QED
      BY <1>2, <1>6, <2>1, <2>3, <2>5
  <1> QED
    BY <1>7 DEF Represents

(* Classes are what representatives say.                                   *)
LEMMA ClassesAreTrees ==
  ASSUME TypeOK, RanksGrow, RanksEnd, NEW R, Represents(R), NEW x \in Account
  PROVE  /\ x \in Known => R[x] \in Ancestors(x)
         /\ ClassOf(x) = {y \in Account : Rep(R, y) = Rep(R, x)}
  <1>1. ASSUME NEW y \in Known PROVE R[y] \in Ancestors(y)
    BY RepresentativeReached DEF Ancestors, Represents
  <1>2. ASSUME NEW y \in Known, NEW z \in Ancestors(y) PROVE R[z] = R[y]
    <2> DEFINE S == {w \in Known : R[w] = R[y]}
    <2>1. Closed(S)
      BY DEF Closed, Represents, TypeOK
    <2>2. z \in S
      BY <2>1 DEF Ancestors
    <2> QED
      BY <2>2
  <1>3. ASSUME NEW y \in Known, NEW z \in Known
        PROVE  Ancestors(y) \cap Ancestors(z) # {} <=> R[y] = R[z]
    BY <1>1, <1>2
  <1>4. Known \subseteq Account /\ \A y \in Known : R[y] \in Known
    BY DEF TypeOK, Represents
  <1>5. CASE x \in Known
    BY <1>1, <1>3, <1>4, <1>5 DEF ClassOf, Rep
  <1>6. CASE x \notin Known
    BY <1>4, <1>6 DEF ClassOf, Rep
  <1> QED
    BY <1>1, <1>5, <1>6

-----------------------------------------------------------------------------
(* The steps, in terms of representatives: all but the end of a union keep *)
(* everyone's representative, known or not; the end of a union gives the   *)
(* two trees one.                                                          *)
LEMMA EnsureKeeps ==
  ASSUME TypeOK, RanksGrow, RanksEnd, NEW R, Represents(R), NEW a \in Account, Ensure(a)
  PROVE  /\ Known' = Known \cup {a} /\ parent' \in [Known' -> Known'] /\ rank' \in [Known' -> Nat]
         /\ RanksGrow' /\ RanksEnd'
         /\ \E Q : /\ Represents(Q)'
                   /\ \A x \in Known' : Q[x] = Rep(R, x)
                   /\ \A x \in Account : Rep(Q, x)' = Rep(R, x)
  <1>q. PICK Q : Q = [x \in Known \cup {a} |-> Rep(R, x)]
    OBVIOUS
  <1>1. /\ Known' = Known \cup {a} /\ parent' \in [Known' -> Known'] /\ rank' \in [Known' -> Nat]
        /\ \A x \in Known : parent'[x] = parent[x] /\ rank'[x] = rank[x]
        /\ a \notin Known => parent'[a] = a /\ rank'[a] = 0
    BY DEF Ensure, EnsuredParent, EnsuredRank, TypeOK, Known
  <1>2. \A x \in Known : parent[x] \in Known /\ R[x] \in Known
    BY DEF TypeOK, Represents
  <1>3. RanksGrow'
    BY <1>1, <1>2 DEF RanksGrow, IsRoot
  <1>4. RanksEnd'
    <2>1. PICK bound \in Nat : \A x \in Known : rank[x] <= bound
      BY DEF RanksEnd
    <2>2. \A x \in Known' : rank'[x] <= bound
      BY <1>1, <2>1
    <2> QED
      BY <2>2 DEF RanksEnd
  <1>5. Represents(Q)'
    <2>1. Q \in [Known' -> Known']
      BY <1>q, <1>1, <1>2 DEF Rep
    <2>2. ASSUME NEW x \in Known'
          PROVE  Q[parent'[x]] = Q[x] /\ IsRoot(Q[x])' /\ (IsRoot(x)' => Q[x] = x)
      BY <1>q, <1>1, <1>2 DEF Rep, Represents, IsRoot
    <2> QED
      BY <2>1, <2>2 DEF Represents
  <1>6. \A x \in Known' : Q[x] = Rep(R, x)
    BY <1>q, <1>1
  <1>7. \A x \in Account : Rep(Q, x)' = Rep(R, x)
    BY <1>1, <1>6 DEF Rep
  <1> QED
    BY <1>1, <1>3, <1>4, <1>5, <1>6, <1>7

(* Halving a path moves one account up its own tree.                        *)
LEMMA HalveKeeps ==
  ASSUME TypeOK, RanksGrow, RanksEnd, NEW R, Represents(R), NEW x \in Known, ~IsRoot(x),
         parent' = [parent EXCEPT ![x] = parent[parent[x]]], rank' = rank
  PROVE  /\ Known' = Known /\ parent' \in [Known' -> Known']
         /\ RanksGrow' /\ RanksEnd' /\ Represents(R)'
  <1>1. /\ \A y \in Known : parent[y] \in Known /\ rank[y] \in Nat
        /\ parent \in [Known -> Known]
    BY DEF TypeOK
  <1>2. /\ Known' = Known /\ parent' \in [Known' -> Known']
        /\ \A y \in Known : parent'[y] = IF y = x THEN parent[parent[x]] ELSE parent[y]
    <2>1. parent' \in [Known -> Known] /\ DOMAIN parent' = Known
      BY <1>1
    <2> QED
      BY <1>1, <2>1 DEF Known
  <1>3. rank[x] < rank[parent[x]] /\ rank[x] < rank[parent[parent[x]]]
    BY <1>1 DEF RanksGrow, IsRoot
  <1>4. parent[parent[x]] # x
    BY <1>1, <1>3
  <1>5. RanksGrow'
    BY <1>1, <1>2, <1>3 DEF RanksGrow, IsRoot
  <1>6. RanksEnd'
    BY <1>2 DEF RanksEnd
  <1>7. Represents(R)'
    BY <1>1, <1>2, <1>4 DEF Represents, IsRoot
  <1> QED
    BY <1>2, <1>5, <1>6, <1>7

(* Linking gives two trees the bigger root and leaves the others alone.     *)
LEMMA LinkJoins ==
  ASSUME TypeOK, RanksGrow, RanksEnd, NEW R, Represents(R),
         NEW ra \in Known, NEW rb \in Known, ra # rb, IsRoot(ra), IsRoot(rb), Link(ra, rb)
  PROVE  /\ Known' = Known /\ parent' \in [Known' -> Known'] /\ rank' \in [Known' -> Nat]
         /\ RanksGrow' /\ RanksEnd'
         /\ \E Q : /\ Represents(Q)'
                   /\ \A x \in Known :
                        Q[x] = IF R[x] \in {ra, rb} THEN Big(ra, rb) ELSE R[x]
  <1> DEFINE big == Big(ra, rb)
             small == IF big = ra THEN rb ELSE ra
  <1>1. /\ big \in Known /\ small \in Known /\ big # small /\ {big, small} = {ra, rb}
        /\ IsRoot(big) /\ IsRoot(small)
    BY DEF Big
  <1>2. /\ \A y \in Known : parent[y] \in Known /\ rank[y] \in Nat
        /\ parent \in [Known -> Known] /\ rank \in [Known -> Nat]
    BY DEF TypeOK
  <1>3. rank[small] <= rank[big] /\ (rank[small] = rank[big] <=> rank[ra] = rank[rb])
    BY <1>2 DEF Big
  <1>4. /\ Known' = Known /\ parent' \in [Known' -> Known']
        /\ \A y \in Known : parent'[y] = IF y = small THEN big ELSE parent[y]
    <2>1. parent' = [parent EXCEPT ![small] = big]
      BY DEF Link
    <2>2. parent' \in [Known -> Known] /\ DOMAIN parent' = Known
      BY <1>1, <1>2, <2>1
    <2> QED
      BY <1>1, <1>2, <2>1, <2>2 DEF Known
  <1>5. /\ rank' \in [Known' -> Nat]
        /\ \A y \in Known : rank'[y] = IF y = big /\ rank[ra] = rank[rb] THEN rank[y] + 1 ELSE rank[y]
    BY <1>1, <1>2, <1>4 DEF Link
  <1> HIDE DEF big, small
  <1>6. RanksGrow'
    <2> SUFFICES ASSUME NEW y \in Known, parent'[y] # y PROVE rank'[y] < rank'[parent'[y]]
      BY <1>4 DEF RanksGrow, IsRoot
    <2>1. CASE y = small
      BY <1>1, <1>2, <1>3, <1>4, <1>5, <2>1
    <2>2. CASE y # small
      <3>1. parent'[y] = parent[y] /\ parent[y] # y /\ y # big
        BY <1>1, <1>4, <2>2 DEF IsRoot
      <3>2. rank[y] < rank[parent[y]] /\ parent[y] \in Known
        BY <1>2, <3>1 DEF RanksGrow, IsRoot
      <3> QED
        BY <1>2, <1>5, <3>1, <3>2
    <2> QED
      BY <2>1, <2>2
  <1>7. RanksEnd'
    <2>1. PICK bound \in Nat : \A y \in Known : rank[y] <= bound
      BY DEF RanksEnd
    <2>2. \A y \in Known' : rank'[y] <= bound + 1
      BY <1>2, <1>4, <1>5, <2>1
    <2> QED
      BY <2>2 DEF RanksEnd
  <1>8. PICK Q : Q = [y \in Known |-> IF R[y] \in {ra, rb} THEN big ELSE R[y]]
    OBVIOUS
  <1>9. \A y \in Known : R[y] \in Known /\ R[parent[y]] = R[y] /\ IsRoot(R[y])
                         /\ (IsRoot(y) => R[y] = y)
    BY DEF Represents
  <1>10. Represents(Q)'
    <2>1. Q \in [Known' -> Known']
      BY <1>1, <1>4, <1>8, <1>9
    <2>2. ASSUME NEW y \in Known'
          PROVE  Q[parent'[y]] = Q[y] /\ parent'[Q[y]] = Q[y] /\ (parent'[y] = y => Q[y] = y)
      BY <1>1, <1>2, <1>4, <1>8, <1>9 DEF IsRoot
    <2> QED
      BY <2>1, <2>2 DEF Represents, IsRoot
  <1> QED
    BY <1>4, <1>5, <1>6, <1>7, <1>8, <1>10 DEF big

-----------------------------------------------------------------------------
(* What a step does to the partition: nothing, though a union may begin; or *)
(* a union ends and the two trees have one representative from then on.     *)
Pending == IF call.at \in {"left", "right"} THEN <<call.a, call.b>> ELSE << >>

Keeps(R, Q) ==
  /\ \A x \in Account : Rep(Q, x)' = Rep(R, x)
  /\ \/ Pending' = Pending
     \/ \E a, b \in Account : Pending = << >> /\ Pending' = <<a, b>>

Joins(R, Q) ==
  \E a, b \in Account :
    /\ Pending = <<a, b>> /\ Pending' = << >>
    /\ \A x, y \in Account :
         Rep(Q, x)' = Rep(Q, y)' <=>
           \/ Rep(R, x) = Rep(R, y)
           \/ {Rep(R, x), Rep(R, y)} \subseteq {Rep(R, a), Rep(R, b)}

(* The shape of a call in progress.                                        *)
LEMMA CallShape ==
  ASSUME TypeOK
  PROVE  /\ call.at \in {"idle", "find", "left", "right"}
         /\ call.at = "idle" => call = Idle
         /\ call.at = "find" => call = [at |-> "find", x |-> call.x] /\ call.x \in Known
         /\ call.at = "left" =>
              /\ call = [at |-> "left", a |-> call.a, b |-> call.b, x |-> call.x]
              /\ call.a \in Known /\ call.b \in Account /\ call.x \in Known
         /\ call.at = "right" =>
              /\ call = [at |-> "right", a |-> call.a, b |-> call.b, root |-> call.root, x |-> call.x]
              /\ call.a \in Known /\ call.b \in Known /\ call.root \in Known /\ call.x \in Known
  BY DEF TypeOK, Calls, Idle

(* Every step keeps the trees in shape, and keeps or joins them.            *)
LEMMA TreeStep ==
  ASSUME TypeOK, RanksGrow, RanksEnd, NEW R, Represents(R), OnCourse(R), Next
  PROVE  /\ TypeOK' /\ RanksGrow' /\ RanksEnd'
         /\ \E Q : Represents(Q)' /\ OnCourse(Q)' /\ (Keeps(R, Q) \/ Joins(R, Q))
  <1>k. /\ Known \subseteq Account /\ parent \in [Known -> Known] /\ rank \in [Known -> Nat]
        /\ \A x \in Known : R[x] \in Known /\ R[parent[x]] = R[x] /\ IsRoot(R[x])
                             /\ (IsRoot(x) => R[x] = x)
    BY DEF TypeOK, Represents
  <1>1. ASSUME NEW a \in Account, Find(a)
        PROVE  /\ TypeOK' /\ RanksGrow' /\ RanksEnd'
               /\ \E Q : Represents(Q)' /\ OnCourse(Q)' /\ Keeps(R, Q)
    <2>1. Ensure(a) /\ call.at = "idle" /\ call' = [at |-> "find", x |-> a]
      BY <1>1 DEF Find
    <2>2. /\ Known' = Known \cup {a} /\ parent' \in [Known' -> Known'] /\ rank' \in [Known' -> Nat]
          /\ RanksGrow' /\ RanksEnd'
      BY <2>1, EnsureKeeps
    <2>3. PICK Q : Represents(Q)' /\ \A x \in Account : Rep(Q, x)' = Rep(R, x)
      BY <2>1, EnsureKeeps
    <2>4. TypeOK'
      BY <1>k, <2>1, <2>2 DEF TypeOK, Calls
    <2>5. OnCourse(Q)' /\ Keeps(R, Q)
      BY <2>1, <2>3 DEF OnCourse, Keeps, Pending
    <2> QED
      BY <2>2, <2>3, <2>4, <2>5
  <1>2. ASSUME NEW a \in Account, NEW b \in Account, Union(a, b)
        PROVE  /\ TypeOK' /\ RanksGrow' /\ RanksEnd'
               /\ \E Q : Represents(Q)' /\ OnCourse(Q)' /\ Keeps(R, Q)
    <2>1. Ensure(a) /\ call.at = "idle" /\ call' = [at |-> "left", a |-> a, b |-> b, x |-> a]
      BY <1>2 DEF Union
    <2>2. /\ Known' = Known \cup {a} /\ parent' \in [Known' -> Known'] /\ rank' \in [Known' -> Nat]
          /\ RanksGrow' /\ RanksEnd'
      BY <2>1, EnsureKeeps
    <2>3. PICK Q : Represents(Q)' /\ \A x \in Account : Rep(Q, x)' = Rep(R, x)
      BY <2>1, EnsureKeeps
    <2>4. TypeOK'
      BY <1>k, <2>1, <2>2 DEF TypeOK, Calls
    <2>5. OnCourse(Q)'
      BY <2>1 DEF OnCourse
    <2>6. Keeps(R, Q)
      BY <2>1, <2>3 DEF Keeps, Pending
    <2> QED
      BY <2>2, <2>3, <2>4, <2>5, <2>6
  <1>3. CASE Halve
    <2>1. /\ call.at # "idle" /\ ~IsRoot(call.x) /\ rank' = rank /\ call.x \in Known
          /\ parent' = [parent EXCEPT ![call.x] = parent[parent[call.x]]]
      BY <1>3, CallShape DEF Halve
    <2>2. /\ Known' = Known /\ parent' \in [Known' -> Known']
          /\ RanksGrow' /\ RanksEnd' /\ Represents(R)'
      BY <2>1, HalveKeeps
    <2> DEFINE up == parent[parent[call.x]]
    <2>3. up \in Known /\ R[up] = R[call.x]
      BY <1>k, <2>1
    <2>4. /\ call.at = "find" => call' = [at |-> "find", x |-> up]
          /\ call.at = "left" => call' = [at |-> "left", a |-> call.a, b |-> call.b, x |-> up]
          /\ call.at = "right" =>
               call' = [at |-> "right", a |-> call.a, b |-> call.b, root |-> call.root, x |-> up]
      BY <1>3, CallShape DEF Halve
    <2> HIDE DEF up
    <2>5. call' \in Calls'
      BY <2>1, <2>2, <2>3, <2>4, CallShape DEF Calls
    <2>6. TypeOK'
      BY <1>k, <2>1, <2>2, <2>5 DEF TypeOK
    <2>7. Keeps(R, R)
      BY <2>1, <2>2, <2>4, CallShape DEF Keeps, Pending, Rep
    <2>8. OnCourse(R)'
      <3>1. call.at = "right" => parent'[call.root] = call.root
        BY <1>k, <2>1, <2>2, CallShape DEF OnCourse, IsRoot
      <3> QED
        BY <2>1, <2>3, <2>4, <3>1, CallShape DEF OnCourse, IsRoot
    <2> QED
      BY <2>2, <2>6, <2>7, <2>8
  <1>4. CASE FindDone
    <2>1. call.at = "find" /\ call' = Idle /\ UNCHANGED <<parent, rank>>
      BY <1>4 DEF FindDone
    <2>2. TypeOK' /\ RanksGrow' /\ RanksEnd' /\ Represents(R)'
      BY <2>1 DEF TypeOK, Calls, RanksGrow, RanksEnd, Represents, IsRoot, Known
    <2>3. OnCourse(R)' /\ Keeps(R, R)
      BY <2>1 DEF OnCourse, Keeps, Pending, Idle, Rep, Known
    <2> QED
      BY <2>2, <2>3
  <1>5. CASE LeftDone
    <2>1. /\ call.at = "left" /\ IsRoot(call.x) /\ Ensure(call.b)
          /\ call' = [at |-> "right", a |-> call.a, b |-> call.b, root |-> call.x, x |-> call.b]
          /\ call.a \in Known /\ call.b \in Account /\ call.x \in Known
      BY <1>5, CallShape DEF LeftDone
    <2>2. /\ Known' = Known \cup {call.b} /\ parent' \in [Known' -> Known'] /\ rank' \in [Known' -> Nat]
          /\ RanksGrow' /\ RanksEnd'
      BY <2>1, EnsureKeeps
    <2>3. PICK Q : /\ Represents(Q)' /\ \A x \in Known' : Q[x] = Rep(R, x)
                   /\ \A x \in Account : Rep(Q, x)' = Rep(R, x)
      BY <2>1, EnsureKeeps
    <2>4. TypeOK'
      BY <1>k, <2>1, <2>2 DEF TypeOK, Calls
    <2>5. OnCourse(Q)'
      <3>1. parent'[call.x] = call.x
        BY <2>1 DEF Ensure, EnsuredParent, IsRoot
      <3>2. Q[call.a] = call.x
        BY <1>k, <2>1, <2>2, <2>3 DEF Rep, OnCourse
      <3> QED
        BY <2>1, <3>1, <3>2 DEF OnCourse, IsRoot
    <2>6. Keeps(R, Q)
      BY <2>1, <2>3 DEF Keeps, Pending
    <2> QED
      BY <2>2, <2>3, <2>4, <2>5, <2>6
  <1>6. CASE RightDone
    <2>1. /\ call.at = "right" /\ IsRoot(call.x) /\ call' = Idle
          /\ call.a \in Known /\ call.b \in Known /\ call.root \in Known /\ call.x \in Known
      BY <1>6, CallShape DEF RightDone
    <2>2. R[call.a] = call.root /\ R[call.b] = call.x /\ IsRoot(call.root)
      BY <1>k, <2>1 DEF OnCourse
    <2>3. Pending = <<call.a, call.b>> /\ Pending' = << >>
      BY <2>1 DEF Pending, Idle
    <2>4. \A Q : OnCourse(Q)'
      BY <2>1 DEF OnCourse, Idle
    <2>5. CASE call.root = call.x
      <3>1. UNCHANGED <<parent, rank>>
        BY <1>6, <2>5 DEF RightDone
      <3>2. TypeOK' /\ RanksGrow' /\ RanksEnd' /\ Represents(R)'
        BY <2>1, <3>1 DEF TypeOK, Calls, RanksGrow, RanksEnd, Represents, IsRoot, Known
      <3>3. \A x \in Account : Rep(R, x)' = Rep(R, x)
        BY <3>1 DEF Rep, Known
      <3>4. Rep(R, call.a) = Rep(R, call.b)
        BY <2>1, <2>2, <2>5 DEF Rep
      <3>5. Joins(R, R)
        BY <1>k, <2>1, <2>3, <3>3, <3>4 DEF Joins
      <3> QED
        BY <2>4, <3>2, <3>5
    <2>6. CASE call.root # call.x
      <3>1. Link(call.root, call.x)
        BY <1>6, <2>6 DEF RightDone
      <3>2. /\ Known' = Known /\ parent' \in [Known' -> Known'] /\ rank' \in [Known' -> Nat]
            /\ RanksGrow' /\ RanksEnd'
        BY <2>1, <2>2, <2>6, <3>1, LinkJoins
      <3>3. PICK Q : /\ Represents(Q)'
                     /\ \A x \in Known : Q[x] = IF R[x] \in {call.root, call.x}
                                               THEN Big(call.root, call.x) ELSE R[x]
        BY <2>1, <2>2, <2>6, <3>1, LinkJoins
      <3>4. TypeOK'
        BY <1>k, <2>1, <3>2 DEF TypeOK, Calls
      <3>5. Big(call.root, call.x) \in {call.root, call.x}
        BY DEF Big
      <3>6. ASSUME NEW x \in Account, NEW y \in Account
            PROVE  Rep(Q, x)' = Rep(Q, y)' <=>
                     \/ Rep(R, x) = Rep(R, y)
                     \/ {Rep(R, x), Rep(R, y)} \subseteq {Rep(R, call.a), Rep(R, call.b)}
        <4>1. \A z \in Account : Rep(Q, z)' = IF Rep(R, z) \in {call.root, call.x}
                                            THEN Big(call.root, call.x) ELSE Rep(R, z)
          BY <2>1, <3>2, <3>3 DEF Rep
        <4>2. Rep(R, call.a) = call.root /\ Rep(R, call.b) = call.x
          BY <2>1, <2>2 DEF Rep
        <4> QED
          BY <3>5, <4>1, <4>2
      <3>7. Joins(R, Q)
        BY <1>k, <2>1, <2>3, <3>6 DEF Joins
      <3> QED
        BY <2>4, <3>2, <3>3, <3>4, <3>7
    <2> QED
      BY <2>5, <2>6
  <1> QED
    BY <1>1, <1>2, <1>3, <1>4, <1>5, <1>6 DEF Next, Step

(* So the trees are in shape in every state.                               *)
LEMMA TreeInvAlways == Spec => []TreeInv
  <1>1. Init => TreeInv
    <2> SUFFICES ASSUME Init PROVE TreeInv
      OBVIOUS
    <2>1. PICK accounts \in SUBSET Account :
            /\ parent = [x \in accounts |-> x] /\ rank = [x \in accounts |-> 0] /\ call = Idle
      BY DEF Init
    <2>2. Known = accounts
      BY <2>1 DEF Known
    <2>3. TypeOK
      BY <2>1, <2>2 DEF TypeOK, Calls
    <2>4. RanksGrow /\ \A x \in Known : rank[x] <= 0
      BY <2>1, <2>2 DEF RanksGrow, IsRoot
    <2>5. Represents(parent) /\ OnCourse(parent)
      BY <2>1, <2>2 DEF Represents, OnCourse, IsRoot, Idle
    <2> QED
      BY <2>3, <2>4, <2>5 DEF TreeInv, RanksEnd
  <1>2. TreeInv /\ [Next]_vars => TreeInv'
    <2> SUFFICES ASSUME TreeInv, [Next]_vars PROVE TreeInv'
      OBVIOUS
    <2>1. CASE Next
      BY <2>1, TreeStep DEF TreeInv
    <2>2. CASE UNCHANGED vars
      BY <2>2 DEF vars, TreeInv, TypeOK, Calls, RanksGrow, RanksEnd, Represents, OnCourse, IsRoot, Known
    <2> QED
      BY <2>1, <2>2
  <1> QED
    BY <1>1, <1>2, PTL DEF Spec

(* The pointers and the calls keep their shape; no account is ever lost.   *)
THEOREM TreesTyped == Spec => []TypeOK
  <1>1. TreeInv => TypeOK
    BY DEF TreeInv
  <1> QED
    BY <1>1, TreeInvAlways, PTL

(* Ranks grow along every pointer, so there are no cycles in which find    *)
(* could be caught.                                                        *)
THEOREM RanksAlwaysGrow == Spec => []RanksGrow
  <1>1. TreeInv => RanksGrow
    BY DEF TreeInv
  <1> QED
    BY <1>1, TreeInvAlways, PTL

(* The root that union remembers from its first find stays the root of its *)
(* first argument while the second find halves paths.                      *)
THEOREM RootsRemembered == Spec => []RootRemembered
  <1>1. TreeInv => RootRemembered
    <2> SUFFICES ASSUME TreeInv PROVE RootRemembered
      OBVIOUS
    <2>1. PICK R : Represents(R) /\ OnCourse(R)
      BY DEF TreeInv
    <2>2. TypeOK /\ RanksGrow /\ RanksEnd
      BY DEF TreeInv
    <2>3. Known \subseteq Account
      BY <2>2 DEF TypeOK
    <2>4. CASE call.at = "right"
      <3>1. call.a \in Known /\ call.b \in Known /\ call.x \in Known
        BY <2>2, <2>4, CallShape
      <3>2. R[call.a] \in Ancestors(call.a)
        BY <2>1, <2>2, <2>3, <3>1, ClassesAreTrees
      <3>3. ClassOf(call.b) = {y \in Account : Rep(R, y) = Rep(R, call.b)}
        BY <2>1, <2>2, <2>3, <3>1, ClassesAreTrees
      <3> QED
        BY <2>1, <2>3, <2>4, <3>1, <3>2, <3>3 DEF OnCourse, RootRemembered, Rep
    <2>5. CASE call.at = "left"
      <3>1. call.a \in Known /\ call.x \in Known
        BY <2>2, <2>5, CallShape
      <3>2. ClassOf(call.a) = {y \in Account : Rep(R, y) = Rep(R, call.a)}
        BY <2>1, <2>2, <2>3, <3>1, ClassesAreTrees
      <3> QED
        BY <2>1, <2>3, <2>5, <3>1, <3>2 DEF OnCourse, RootRemembered, Rep
    <2> QED
      BY <2>4, <2>5 DEF RootRemembered
  <1> QED
    BY <1>1, TreeInvAlways, PTL

-----------------------------------------------------------------------------
(* Refinement.  Before anyone is asked to union anything all classes are   *)
(* singletons; a step that keeps representatives is a Call or a stutter,   *)
(* one that joins two trees is the Return.                                 *)
Classes == [x \in Account |-> ClassOf(x)]
ClassesFollow ==
  \A R : Represents(R) =>
    \A x \in Account : ClassOf(x) = {y \in Account : Rep(R, y) = Rep(R, x)}

LEMMA StepRefines ==
  ASSUME TreeInv, ClassesFollow, ClassesFollow', Next
  PROVE  [Abstract!Next]_(Abstract!vars)
  <1>1. PICK R : Represents(R) /\ OnCourse(R)
    BY DEF TreeInv
  <1>2. TypeOK /\ RanksGrow /\ RanksEnd
    BY DEF TreeInv
  <1>3. PICK Q : Represents(Q)' /\ (Keeps(R, Q) \/ Joins(R, Q))
    BY <1>1, <1>2, TreeStep
  <1>4. \A x \in Account : ClassOf(x) = {y \in Account : Rep(R, y) = Rep(R, x)}
    BY <1>1 DEF ClassesFollow
  <1>5. \A x \in Account : ClassOf(x)' = {y \in Account : Rep(Q, y)' = Rep(Q, x)'}
    BY <1>3 DEF ClassesFollow
  <1>6. CASE Keeps(R, Q)
    <2>1. ASSUME NEW x \in Account PROVE ClassOf(x)' = ClassOf(x)
      <3>1. /\ ClassOf(x) = {y \in Account : Rep(R, y) = Rep(R, x)}
            /\ ClassOf(x)' = {y \in Account : Rep(Q, y)' = Rep(Q, x)'}
        BY <1>4, <1>5
      <3>2. \A y \in Account : Rep(Q, y)' = Rep(R, y)
        BY <1>6 DEF Keeps
      <3> QED
        BY <3>1, <3>2
    <2>2. Classes' = Classes
      BY <2>1 DEF Classes
    <2> QED
      BY <1>6, <2>2 DEF Keeps, Classes, Pending, Abstract!Next, Abstract!Call, Abstract!vars
  <1>7. CASE Joins(R, Q)
    <2>1. PICK a \in Account, b \in Account :
            /\ Pending = <<a, b>> /\ Pending' = << >>
            /\ \A x, y \in Account :
                 Rep(Q, x)' = Rep(Q, y)' <=>
                   \/ Rep(R, x) = Rep(R, y)
                   \/ {Rep(R, x), Rep(R, y)} \subseteq {Rep(R, a), Rep(R, b)}
      BY <1>7 DEF Joins
    <2>2. ASSUME NEW x \in Account
          PROVE  ClassOf(x)' = IF x \in ClassOf(a) \cup ClassOf(b) THEN ClassOf(a) \cup ClassOf(b)
                               ELSE ClassOf(x)
      <3>1. ClassOf(x)' = {y \in Account : Rep(Q, y)' = Rep(Q, x)'}
        BY <1>5
      <3>2. /\ ClassOf(x) = {y \in Account : Rep(R, y) = Rep(R, x)}
            /\ ClassOf(a) = {y \in Account : Rep(R, y) = Rep(R, a)}
            /\ ClassOf(b) = {y \in Account : Rep(R, y) = Rep(R, b)}
        BY <1>4
      <3> QED
        BY <2>1, <3>1, <3>2
    <2>3. Abstract!Return(a, b)
      BY <2>1, <2>2 DEF Pending, Abstract!Return
    <2> QED
      BY <2>3 DEF Abstract!Next
  <1> QED
    BY <1>3, <1>6, <1>7

(* Path halving, ranks and lazily learnt accounts are invisible: the       *)
(* union-find is a partition that unions, and nothing else, make coarser.  *)
THEOREM UnionFindImplements == Spec => ImplementsPartition
  <1>1. Init => Abstract!Init
    <2> SUFFICES ASSUME Init PROVE Abstract!Init
      OBVIOUS
    <2>1. PICK accounts \in SUBSET Account :
            /\ parent = [x \in accounts |-> x] /\ call = Idle
      BY DEF Init
    <2>2. Known = accounts
      BY <2>1 DEF Known
    <2>3. ASSUME NEW x \in Known PROVE Ancestors(x) = {x}
      <3>1. Closed({x}) /\ {x} \in SUBSET Known
        BY <2>1, <2>2 DEF Closed
      <3> QED
        BY <3>1 DEF Ancestors
    <2>4. \A x \in Account : ClassOf(x) = {x}
      BY <2>2, <2>3 DEF ClassOf
    <2> QED
      BY <2>1, <2>4 DEF Abstract!Init, Idle
  <1>2. TreeInv => ClassesFollow
    BY ClassesAreTrees DEF TreeInv, ClassesFollow
  <1>3. TreeInv /\ ClassesFollow /\ ClassesFollow' /\ [Next]_vars => [Abstract!Next]_(Abstract!vars)
    <2> SUFFICES ASSUME TreeInv, ClassesFollow, ClassesFollow', [Next]_vars
                 PROVE  [Abstract!Next]_(Abstract!vars)
      OBVIOUS
    <2>1. CASE Next
      BY <2>1, StepRefines
    <2>2. CASE UNCHANGED vars
      BY <2>2 DEF vars, Abstract!vars, ClassOf, Ancestors, Closed, Known
    <2> QED
      BY <2>1, <2>2
  <1> QED
    BY <1>1, <1>2, <1>3, TreeInvAlways, PTL DEF Spec, ImplementsPartition, Abstract!Spec
=============================================================================
