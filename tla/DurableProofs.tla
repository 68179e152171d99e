---------------------------- MODULE DurableProofs ----------------------------
(* Theorems about Durable: they hold for every fleet, tape, command set,   *)
(* number of crashes, with and without fsync and power losses.             *)
EXTENDS DurableProps, SeqFacts

-----------------------------------------------------------------------------
(* The inductive invariant behind ControlExact.  A state of c's engine is  *)
(* well formed when it has RunState's fields and the schedule build_fresh  *)
(* computes; it is exact when it is moreover the uninterrupted run's.  A   *)
(* checkpoint is faithful when it is the snapshot of an exact state: every *)
(* checkpoint that is visible, that a power loss may bring back, or that   *)
(* is being saved, is.                                                     *)
Fields == {"rng", "clock", "slot", "sig", "events", "sched", "subs", "main", "next"}
WellFormed(c, s) ==
  /\ s = [f \in Fields |-> s[f]]
  /\ s.sched = SchedEntries(c)

Exact(c, s) ==
  /\ WellFormed(c, s)
  /\ s.events \in 0..Golden[c].last
  /\ s = GoldenSim(c, s.events)

Faithful(cp) ==
  cp.tag = "checkpoint" =>
    \E s, n, len : Exact(cp.run, s) /\ cp = Snapshot(cp.run, s, n, len)

ControlInv ==
  /\ cmd \in Commands
  /\ Running \/ Resuming => Exact(cmd.cfg, sim)
  /\ pc \in {"rename", "syncdir"} => Faithful(snap) /\ snap.tag = "checkpoint"
  /\ Faithful(ckpt)
  /\ \A cp \in cdisk : Faithful(cp)

(* build_fresh makes a well-formed state and a wake keeps it well formed.  *)
LEMMA FreshWellFormed == ASSUME NEW c PROVE WellFormed(c, BuildFresh(c))
  BY DEF WellFormed, Fields, BuildFresh, Fresh

LEMMA WakeWellFormed ==
  ASSUME NEW c, NEW s, NEW d, WellFormed(c, s)
  PROVE  WellFormed(c, Wake(c, s, d).sim)
  <1> DEFINE e == Due(s)
             a == s.sched[e][1]
             recs == Stamp(s, a, ObservableAt(s, s.next[e]), PerformAction(c, s, e, d))
             t == [s EXCEPT !.rng     = @ + 1,
                            !.clock   = IF recs = << >> THEN ObservableAt(s, s.next[e])
                                        ELSE Last(recs).ts,
                            !.slot    = @ + Len(recs),
                            !.sig     = @ + Len(recs),
                            !.events  = @ + 1,
                            !.subs[a] = SubsAfter(c, s, a, d),
                            !.next[e] = NextAt(c, s.next[e], a, d.delay)]
  <1>1. Wake(c, s, d).sim = t
    BY DEF Wake
  <1>2. t = [f \in Fields |-> t[f]] /\ t.sched = s.sched
    <2>1. s = [f \in Fields |-> s[f]]
      BY DEF WellFormed
    <2>2. t = [f \in Fields |-> t[f]]
      BY <2>1
    <2>3. t.sched = s.sched
      BY <2>1 DEF Fields
    <2> QED
      BY <2>2, <2>3
  <1> QED
    BY <1>1, <1>2 DEF WellFormed

(* GoldenAssumption, fact by fact, for one configuration.                  *)
LEMMA GoldenRun ==
  ASSUME NEW c \in Configs
  PROVE  /\ Golden[c].last \in Nat
         /\ Golden[c].sim[0] = BuildFresh(c)
         /\ \A n \in 0..Golden[c].last : Golden[c].sim[n].events = n
         /\ \A n \in 0..Golden[c].last : Done(c, Golden[c].sim[n]) <=> n = Golden[c].last
  BY GoldenAssumption

LEMMA GoldenNext ==
  ASSUME NEW c \in Configs, NEW n \in 0..(Golden[c].last - 1)
  PROVE  Golden[c].sim[n + 1] = Wake(c, Golden[c].sim[n], DrawAt(c, Golden[c].sim[n])).sim
  BY GoldenAssumption

(* build_fresh is where the uninterrupted run starts.                      *)
LEMMA FreshExact ==
  ASSUME NEW c \in Configs
  PROVE  Exact(c, BuildFresh(c))
  <1>1. BuildFresh(c).events = 0
    BY DEF BuildFresh, Fresh
  <1>2. Golden[c].last \in Nat /\ BuildFresh(c) = GoldenSim(c, 0)
    BY GoldenRun DEF GoldenSim
  <1> QED
    BY <1>1, <1>2, FreshWellFormed DEF Exact

(* An event of an exact state that is not done leads to an exact state.    *)
LEMMA EventExact ==
  ASSUME NEW c \in Configs, NEW s, Exact(c, s), ~Done(c, s)
  PROVE  Exact(c, Wake(c, s, DrawAt(c, s)).sim)
  <1> DEFINE n == s.events
             t == Wake(c, s, DrawAt(c, s)).sim
  <1>1. Golden[c].last \in Nat /\ n \in 0..Golden[c].last /\ s = Golden[c].sim[n]
    BY GoldenRun DEF Exact, GoldenSim
  <1>2. n # Golden[c].last
    <2>1. Done(c, Golden[c].sim[n]) <=> n = Golden[c].last
      BY <1>1, GoldenRun
    <2> QED
      BY <1>1, <2>1
  <1>3. n \in 0..(Golden[c].last - 1) /\ n + 1 \in 0..Golden[c].last
    BY <1>1, <1>2
  <1>4. Golden[c].sim[n + 1] = t
    <2>1. Golden[c].sim[n + 1] = Wake(c, Golden[c].sim[n], DrawAt(c, Golden[c].sim[n])).sim
      BY <1>3, GoldenNext
    <2> QED
      BY <1>1, <2>1
  <1>6. WellFormed(c, t)
    BY WakeWellFormed DEF Exact
  <1> HIDE DEF t
  <1>5. t.events = n + 1
    <2>1. \A k \in 0..Golden[c].last : Golden[c].sim[k].events = k
      BY GoldenRun
    <2> QED
      BY <1>3, <1>4, <2>1
  <1> QED
    BY <1>3, <1>4, <1>5, <1>6 DEF Exact, GoldenSim, t

(* A snapshot of an exact state is faithful, and restoring a faithful      *)
(* checkpoint of the run gives the exact state back.                       *)
LEMMA SnapshotFaithful ==
  ASSUME NEW c, NEW s, NEW n, NEW len, Exact(c, s)
  PROVE  Faithful(Snapshot(c, s, n, len)) /\ Snapshot(c, s, n, len).tag = "checkpoint"
  <1>1. Snapshot(c, s, n, len).run = c /\ Snapshot(c, s, n, len).tag = "checkpoint"
    BY DEF Snapshot
  <1> QED
    BY <1>1 DEF Faithful

LEMMA RestoreExact ==
  ASSUME NEW c, NEW cp, Faithful(cp), cp.tag = "checkpoint", cp.run = c
  PROVE  Exact(c, Restore(c, cp))
  <1>1. PICK s, n, len : Exact(c, s) /\ cp = Snapshot(c, s, n, len)
    BY DEF Faithful
  <1>2. /\ cp.rng = s.rng /\ cp.clock = s.clock /\ cp.slot = s.slot /\ cp.sig = s.sig
        /\ cp.events = s.events /\ cp.subs = s.subs /\ cp.main = s.main /\ cp.next = s.next
    BY <1>1 DEF Snapshot
  <1> DEFINE b == BuildFresh(c)
             r == Restore(c, cp)
  <1>3. b = [f \in Fields |-> b[f]] /\ b.sched = s.sched
    BY <1>1, FreshWellFormed DEF Exact, WellFormed
  <1>4. r = [f \in Fields |-> r[f]]
    BY <1>3 DEF Restore
  <1>5. ASSUME NEW f \in Fields PROVE r[f] = s[f]
    BY <1>2, <1>3 DEF Restore, Fields
  <1>6. s = [f \in Fields |-> s[f]]
    BY <1>1 DEF Exact, WellFormed
  <1>7. r = s
    BY <1>4, <1>5, <1>6
  <1> QED
    BY <1>1, <1>7

(* What no checkpoint is, is trivially faithful.                           *)
LEMMA NoCheckpointFaithful == Faithful(NoFile) /\ Faithful(Torn)
  BY DEF Faithful, NoFile, Torn

-----------------------------------------------------------------------------
LEMMA ControlInvInit == Init => ControlInv
  <1> SUFFICES ASSUME Init PROVE ControlInv
    OBVIOUS
  <1>1. cdisk = {NoFile} /\ ckpt = NoFile /\ cmd \in Commands /\ pc = "down"
    BY DEF Init
  <1> QED
    BY <1>1, NoCheckpointFaithful DEF ControlInv, Running, Resuming

(* Every step keeps the process on the uninterrupted run and every         *)
(* checkpoint, current or past, a snapshot of it.                          *)
LEMMA ControlInvStep == ControlInv /\ [Next]_vars => ControlInv'
  <1> SUFFICES ASSUME ControlInv, [Next]_vars PROVE ControlInv'
    OBVIOUS
  <1> USE DEF ControlInv, Running, Resuming, proc, disk
  <1>c. cmd \in Commands => cmd.cfg \in Configs
    BY CommandsAssumption
  <1>1. ASSUME NEW m \in Commands, Invoke(m) PROVE ControlInv'
    BY <1>1 DEF Invoke
  <1>2. CASE CreateRemove
    BY <1>2, NoCheckpointFaithful DEF CreateRemove, Survive
  <1>3. CASE CreateTruncate
    BY <1>3, <1>c, FreshExact DEF CreateTruncate
  <1>4. CASE ReadCheckpoint
    <2>1. ckpt.tag = "checkpoint" /\ ckpt.run = cmd.cfg
      BY <1>4 DEF ReadCheckpoint, Resumable
    <2>2. Exact(cmd.cfg, Restore(cmd.cfg, ckpt))
      BY <2>1, RestoreExact
    <2> QED
      BY <1>4, <2>2 DEF ReadCheckpoint
  <1>5. CASE RefuseCheckpoint
    BY <1>5 DEF RefuseCheckpoint, Halt
  <1>6. CASE TruncateJournal
    BY <1>6 DEF TruncateJournal
  <1>7. CASE LoadPrefix
    BY <1>7 DEF LoadPrefix
  <1>8. CASE RefuseJournal
    BY <1>8 DEF RefuseJournal, Halt
  <1>9. CASE Event
    <2>1. /\ pc \in {"boundary", "event"} /\ pc' = "boundary" /\ ~Done(cmd.cfg, sim)
          /\ sim' = Wake(cmd.cfg, sim, DrawAt(cmd.cfg, sim)).sim
          /\ cmd' = cmd /\ ckpt' = ckpt /\ cdisk' = cdisk
      BY <1>9 DEF Event, Passed
    <2>2. Exact(cmd.cfg, sim')
      BY <2>1, <1>c, EventExact
    <2> QED
      BY <2>1, <2>2
  <1>10. CASE Spill
    BY <1>10 DEF Spill
  <1>11. CASE Flush
    BY <1>11 DEF Flush
  <1>12. CASE SyncJournal
    <2>1. Faithful(Snapshot(cmd.cfg, sim, Len(mem), Len(journal)))
      BY <1>12, SnapshotFaithful DEF SyncJournal
    <2>2. Snapshot(cmd.cfg, sim, Len(mem), Len(journal)).tag = "checkpoint"
      BY <1>12, SnapshotFaithful DEF SyncJournal
    <2> QED
      BY <1>12, <2>1, <2>2 DEF SyncJournal
  <1>13. CASE Publish
    BY <1>13, NoCheckpointFaithful DEF Publish, Survive
  <1>14. CASE SyncDirectory
    BY <1>14 DEF SyncDirectory
  <1>15. CASE Finish
    BY <1>15 DEF Finish, Halt
  <1>16. CASE Kill
    BY <1>16 DEF Kill, Halt
  <1>17. CASE LosePower
    BY <1>17 DEF LosePower, Halt
  <1>18. CASE UNCHANGED vars
    BY <1>18 DEF vars
  <1> QED
    BY <1>1, <1>2, <1>3, <1>4, <1>5, <1>6, <1>7, <1>8, <1>9, <1>10, <1>11, <1>12, <1>13,
       <1>14, <1>15, <1>16, <1>17, <1>18 DEF Next, Step

LEMMA ControlInvAlways == Spec => []ControlInv
  BY ControlInvInit, ControlInvStep, PTL DEF Spec

(* A resumed process is in the very state the uninterrupted run is in      *)
(* after as many events, whatever was killed, lost or reordered before:    *)
(* this holds of resume_durable whether or not fsync is on.                *)
THEOREM ControlIsExact == Spec => []ControlExact
  <1>1. ControlInv => ControlExact
    BY DEF ControlInv, ControlExact, Exact
  <1> QED
    BY <1>1, ControlInvAlways, PTL

-----------------------------------------------------------------------------
(* A state of the engine is a real one: its event count is a number and it *)
(* is not the memory of a process that does not run.                       *)
LEMMA ExactIsRunning ==
  ASSUME NEW c \in Configs, NEW s, Exact(c, s)
  PROVE  s # Gone /\ s.events \in Nat
  <1>1. Golden[c].last \in Nat
    BY GoldenAssumption
  <1>2. "rng" \in DOMAIN s
    BY DEF Exact, WellFormed, Fields
  <1> QED
    BY <1>1, <1>2 DEF Exact, Gone

LEMMA TypeOKStep == TypeOK /\ ControlInv /\ ControlInv' /\ [Next]_vars => TypeOK'
  <1> SUFFICES ASSUME TypeOK, ControlInv, ControlInv', [Next]_vars PROVE TypeOK'
    OBVIOUS
  <1> USE DEF TypeOK, Running, Resuming, proc, disk
  <1>c. Running' \/ Resuming' => sim' # Gone /\ sim'.events \in Nat
    BY ExactIsRunning, CommandsAssumption DEF ControlInv
  <1>1. ASSUME NEW m \in Commands, Invoke(m) PROVE TypeOK'
    BY <1>1 DEF Invoke
  <1>2. CASE CreateRemove
    BY <1>2 DEF CreateRemove, Survive
  <1>3. CASE CreateTruncate
    BY <1>3, <1>c DEF CreateTruncate, Survive
  <1>4. CASE ReadCheckpoint
    BY <1>4, <1>c DEF ReadCheckpoint, Resumable, Gone
  <1>5. CASE RefuseCheckpoint
    BY <1>5 DEF RefuseCheckpoint, Halt
  <1>6. CASE TruncateJournal
    BY <1>6 DEF TruncateJournal, Survive
  <1>7. CASE LoadPrefix
    BY <1>7 DEF LoadPrefix
  <1>8. CASE RefuseJournal
    BY <1>8 DEF RefuseJournal, Halt
  <1>9. CASE Event
    BY <1>9, <1>c DEF Event, Passed
  <1>10. CASE Spill
    BY <1>10 DEF Spill, AppendToJournal, Survive
  <1>11. CASE Flush
    BY <1>11 DEF Flush, AppendToJournal, Survive
  <1>12. CASE SyncJournal
    BY <1>12 DEF SyncJournal, Snapshot, Gone
  <1>13. CASE Publish
    BY <1>13 DEF Publish, Survive
  <1>14. CASE SyncDirectory
    BY <1>14, <1>c DEF SyncDirectory
  <1>15. CASE Finish
    BY <1>15 DEF Finish, Halt
  <1>16. CASE Kill
    BY <1>16, FlagsAssumption DEF Kill, Halt
  <1>17. CASE LosePower
    BY <1>17, FlagsAssumption DEF LosePower, Halt
  <1>18. CASE UNCHANGED vars
    BY <1>18 DEF vars
  <1> QED
    BY <1>1, <1>2, <1>3, <1>4, <1>5, <1>6, <1>7, <1>8, <1>9, <1>10, <1>11, <1>12, <1>13,
       <1>14, <1>15, <1>16, <1>17, <1>18 DEF Next, Step

(* The control state, the memory and the files of the runner always agree, *)
(* for all fleets, commands and crashes.                                   *)
THEOREM TypeCorrect == Spec => []TypeOK
  <1>1. Init => TypeOK
    BY FlagsAssumption DEF Init, TypeOK, Running, Resuming
  <1> QED
    BY <1>1, TypeOKStep, ControlInvAlways, PTL DEF Spec

-----------------------------------------------------------------------------
(* The journal: its bytes are those of the records in memory, for every    *)
(* command set and sequence of crashes, with and without fsync.            *)

(* Bytes of a file: half lines, each a pair.                               *)
IsBytes(bytes) ==
  IsSeq(bytes) /\ \A i \in 1..Len(bytes) : bytes[i] = <<bytes[i][1], bytes[i][2]>>

LEMMA EncodeSeq ==
  ASSUME NEW recs, IsSeq(recs)
  PROVE  /\ IsBytes(Encode(recs)) /\ Len(Encode(recs)) = 2 * Len(recs)
         /\ \A i \in 1..(2 * Len(recs)) :
              Encode(recs)[i] = <<recs[(i + 1) \div 2], IF i % 2 = 1 THEN 1 ELSE 2>>
  <1>1. Len(recs) \in Nat /\ 2 * Len(recs) \in Nat
    BY SeqShape
  <1>2. Encode(recs) = [i \in 1..(2 * Len(recs)) |-> Encode(recs)[i]]
    BY DEF Encode
  <1>3. IsSeq(Encode(recs)) /\ Len(Encode(recs)) = 2 * Len(recs)
    BY <1>1, <1>2, ShapeSeq
  <1>4. \A i \in 1..(2 * Len(recs)) :
          Encode(recs)[i] = <<recs[(i + 1) \div 2], IF i % 2 = 1 THEN 1 ELSE 2>>
    BY DEF Encode
  <1>5. \A i \in 1..(2 * Len(recs)) : Encode(recs)[i] = <<Encode(recs)[i][1], Encode(recs)[i][2]>>
    BY <1>4
  <1> QED
    BY <1>3, <1>4, <1>5 DEF IsBytes

(* Journalling records one batch after the other is journalling them all.  *)
LEMMA EncodeConcat ==
  ASSUME NEW r, NEW q, IsSeq(r), IsSeq(q)
  PROVE  Encode(r \o q) = Encode(r) \o Encode(q)
  <1> DEFINE m == Len(r)
             n == Len(q)
             left == Encode(r \o q)
             right == Encode(r) \o Encode(q)
  <1>1. m \in Nat /\ n \in Nat
    BY SeqShape
  <1>2. IsSeq(r \o q) /\ Len(r \o q) = m + n
    BY ConcatSeq
  <1>3. IsSeq(left) /\ Len(left) = 2 * (m + n)
    BY <1>2, EncodeSeq DEF IsBytes
  <1>4. /\ IsSeq(Encode(r)) /\ Len(Encode(r)) = 2 * m
        /\ IsSeq(Encode(q)) /\ Len(Encode(q)) = 2 * n
    BY EncodeSeq DEF IsBytes
  <1>5. IsSeq(right) /\ Len(right) = 2 * m + 2 * n
    BY <1>4, ConcatSeq
  <1>6. ASSUME NEW i \in 1..(2 * (m + n)) PROVE left[i] = right[i]
    <2> DEFINE half == IF i % 2 = 1 THEN 1 ELSE 2
               k == (i + 1) \div 2
    <2>1. k \in 1..(m + n) /\ (k <= m <=> i <= 2 * m)
      BY <1>1
    <2>2. left[i] = <<(r \o q)[k], half>>
      BY <1>2, EncodeSeq
    <2>3. (r \o q)[k] = IF k <= m THEN r[k] ELSE q[k - m]
      BY <2>1, ConcatSeq
    <2>4. right[i] = IF i <= 2 * m THEN Encode(r)[i] ELSE Encode(q)[i - 2 * m]
      BY <1>1, <1>4, ConcatSeq
    <2>5. CASE i <= 2 * m
      <3>1. Encode(r)[i] = <<r[k], half>>
        BY <1>1, <2>5, EncodeSeq
      <3> QED
        BY <2>1, <2>2, <2>3, <2>4, <2>5, <3>1
    <2>6. CASE ~(i <= 2 * m)
      <3>1. /\ i - 2 * m \in 1..(2 * n)
            /\ ((i - 2 * m) + 1) \div 2 = k - m
            /\ (i - 2 * m) % 2 = i % 2
        BY <1>1, <2>6
      <3>2. Encode(q)[i - 2 * m] = <<q[k - m], half>>
        BY <3>1, EncodeSeq
      <3> QED
        BY <2>1, <2>2, <2>3, <2>4, <2>6, <3>2
    <2> QED
      BY <2>5, <2>6
  <1>7. Len(left) = Len(right) /\ \A i \in 1..Len(left) : left[i] = right[i]
    BY <1>1, <1>3, <1>5, <1>6
  <1> HIDE DEF left, right
  <1>8. left = right
    <2> HIDE DEF m, n
    <2>1. IsSeq(left) /\ IsSeq(right)
      BY <1>3, <1>5
    <2> QED
      BY <2>1, <1>7, SeqShape
  <1> QED
    BY <1>8 DEF left, right

(* Reading back what was journalled, and journalling what was read back.   *)
LEMMA EncodeDecode ==
  ASSUME NEW bytes, IsBytes(bytes), NEW n \in Nat, Len(bytes) = 2 * n, Intact(bytes, n)
  PROVE  IsSeq(Decode(bytes, n)) /\ Encode(Decode(bytes, n)) = bytes
  <1> DEFINE recs == Decode(bytes, n)
  <1>1. recs = [i \in 1..n |-> recs[i]]
    BY DEF Decode
  <1>2. IsSeq(recs) /\ Len(recs) = n
    BY <1>1, ShapeSeq
  <1>3. IsSeq(Encode(recs)) /\ Len(Encode(recs)) = 2 * n
    BY <1>2, EncodeSeq DEF IsBytes
  <1>4. ASSUME NEW i \in 1..(2 * n) PROVE Encode(recs)[i] = bytes[i]
    <2> DEFINE k == (i + 1) \div 2
    <2>1. k \in 1..n
      OBVIOUS
    <2>2. Encode(recs)[i] = <<recs[k], IF i % 2 = 1 THEN 1 ELSE 2>>
      BY <1>2, EncodeSeq
    <2>3. recs[k] = bytes[2 * k][1]
      BY <2>1 DEF Decode
    <2>4. /\ bytes[2 * k - 1][2] = 1
          /\ bytes[2 * k] = <<bytes[2 * k - 1][1], 2>>
      BY <2>1 DEF Intact
    <2>5. bytes[2 * k][1] = bytes[2 * k - 1][1]
      BY <2>4
    <2>6. CASE i % 2 = 1
      <3>1. i = 2 * k - 1
        BY <2>6
      <3>2. bytes[i] = <<bytes[i][1], bytes[i][2]>>
        BY DEF IsBytes
      <3> QED
        BY <2>2, <2>3, <2>4, <2>5, <2>6, <3>1, <3>2
    <2>7. CASE i % 2 # 1
      <3>1. i = 2 * k
        BY <2>7
      <3> QED
        BY <2>2, <2>3, <2>4, <2>5, <2>7, <3>1
    <2> QED
      BY <2>6, <2>7
  <1>5. IsSeq(bytes)
    BY DEF IsBytes
  <1>6. Len(Encode(recs)) = Len(bytes) /\ \A i \in 1..Len(Encode(recs)) : Encode(recs)[i] = bytes[i]
    BY <1>3, <1>4
  <1>7. Encode(recs) = bytes
    <2> HIDE DEF recs
    <2>1. IsSeq(Encode(recs)) /\ IsSeq(bytes)
      BY <1>3, <1>5
    <2> QED
      BY <2>1, <1>6, SeqShape
  <1> QED
    BY <1>2, <1>7

(* What a power loss may leave of an append is a file of half lines, too,  *)
(* and so is a file cut or zero-filled by set_len.                         *)
LEMMA ConcatBytes ==
  ASSUME NEW a, NEW b, IsBytes(a), IsBytes(b)
  PROVE  IsBytes(a \o b) /\ Len(a \o b) = Len(a) + Len(b)
  <1>1. IsSeq(a) /\ IsSeq(b) /\ Len(a) \in Nat /\ Len(b) \in Nat
    BY SeqShape DEF IsBytes
  <1>2. /\ IsSeq(a \o b) /\ Len(a \o b) = Len(a) + Len(b)
        /\ \A i \in 1..(Len(a) + Len(b)) :
             (a \o b)[i] = IF i <= Len(a) THEN a[i] ELSE b[i - Len(a)]
    BY <1>1, ConcatSeq
  <1>3. ASSUME NEW i \in 1..(Len(a) + Len(b))
        PROVE  (a \o b)[i] = <<(a \o b)[i][1], (a \o b)[i][2]>>
    <2>1. CASE i <= Len(a)
      BY <1>1, <1>2, <2>1 DEF IsBytes
    <2>2. CASE ~(i <= Len(a))
      <3>1. i - Len(a) \in 1..Len(b)
        BY <1>1, <2>2
      <3> QED
        BY <1>2, <2>2, <3>1 DEF IsBytes
    <2> QED
      BY <2>1, <2>2
  <1> QED
    BY <1>2, <1>3 DEF IsBytes

LEMMA SubSeqBytes ==
  ASSUME NEW a, IsBytes(a), NEW n \in 0..Len(a)
  PROVE  /\ IsBytes(SubSeq(a, 1, n)) /\ IsBytes(SubSeq(a, n + 1, Len(a)))
         /\ SubSeq(a, 1, n) \o SubSeq(a, n + 1, Len(a)) = a
  <1>1. IsSeq(a) /\ Len(a) \in Nat
    BY SeqShape DEF IsBytes
  <1>2. ASSUME NEW k \in 1..(Len(a) + 1), NEW m \in 0..Len(a), k <= m + 1
        PROVE  IsBytes(SubSeq(a, k, m))
    <2>1. /\ IsSeq(SubSeq(a, k, m)) /\ Len(SubSeq(a, k, m)) = m - k + 1
          /\ \A i \in 1..(m - k + 1) : SubSeq(a, k, m)[i] = a[i + k - 1]
      BY <1>1, <1>2, SubSeqSeq
    <2>2. \A i \in 1..(m - k + 1) : i + k - 1 \in 1..Len(a)
      BY <1>1
    <2> QED
      BY <2>1, <2>2 DEF IsBytes
  <1>3. IsBytes(SubSeq(a, 1, n))
    BY <1>1, <1>2
  <1>4. IsBytes(SubSeq(a, n + 1, Len(a)))
    BY <1>1, <1>2
  <1> QED
    BY <1>1, <1>3, <1>4, CutSeq

LEMMA ZeroFilledBytes ==
  ASSUME NEW a, IsBytes(a), NEW n \in Nat
  PROVE  /\ IsBytes(SetLen(a, n)) /\ Len(SetLen(a, n)) = n
         /\ IsBytes(Lost(a, n)) /\ Len(Lost(a, n)) = Len(a)
  <1>1. IsSeq(a) /\ Len(a) \in Nat /\ DOMAIN a = 1..Len(a)
    BY SeqShape DEF IsBytes
  <1>2. SetLen(a, n) = [i \in 1..n |-> SetLen(a, n)[i]]
    BY DEF SetLen
  <1>3. Lost(a, n) = [i \in 1..Len(a) |-> Lost(a, n)[i]]
    BY <1>1 DEF Lost
  <1>4. IsSeq(SetLen(a, n)) /\ Len(SetLen(a, n)) = n
    BY <1>2, ShapeSeq
  <1>5. IsSeq(Lost(a, n)) /\ Len(Lost(a, n)) = Len(a)
    BY <1>1, <1>3, ShapeSeq
  <1>6. Zero = <<Zero[1], Zero[2]>>
    BY DEF Zero
  <1>7. \A i \in 1..n : SetLen(a, n)[i] = <<SetLen(a, n)[i][1], SetLen(a, n)[i][2]>>
    BY <1>1, <1>6 DEF SetLen, IsBytes
  <1>8. \A i \in 1..Len(a) : Lost(a, n)[i] = <<Lost(a, n)[i][1], Lost(a, n)[i][2]>>
    BY <1>1, <1>6 DEF Lost, IsBytes
  <1> QED
    BY <1>4, <1>5, <1>7, <1>8 DEF IsBytes

(* Appending bytes to the journal leaves files of half lines.              *)
LEMMA AppendBytes ==
  ASSUME NEW bytes, IsBytes(bytes), IsBytes(journal),
         \A b \in jdisk : IsBytes(b), AppendToJournal(bytes)
  PROVE  IsBytes(journal') /\ \A b \in jdisk' : IsBytes(b)
  <1>1. IsBytes(journal')
    BY ConcatBytes DEF AppendToJournal
  <1>2. Len(bytes) \in Nat
    BY SeqShape DEF IsBytes
  <1>3. \A n \in 0..Len(bytes) : IsBytes(SubSeq(bytes, 1, n)) /\ IsBytes(Lost(bytes, n))
    <2> TAKE n \in 0..Len(bytes)
    <2>1. n \in Nat
      BY <1>2
    <2> QED
      BY <2>1, SubSeqBytes, ZeroFilledBytes
  <1>4. \A n \in 0..Len(bytes) :
          IsBytes(journal \o SubSeq(bytes, 1, n)) /\ IsBytes(journal \o Lost(bytes, n))
    BY <1>3, ConcatBytes
  <1> QED
    BY <1>1, <1>4 DEF AppendToJournal, Survive

-----------------------------------------------------------------------------
(* The invariant behind JournalIsLedger.  The prefix that a resume keeps   *)
(* must have exactly the length the checkpoint gives for the number of     *)
(* records it counts, or what is read back and what stays in the file      *)
(* would differ: every checkpoint must count well.                         *)
Counted(cp) == cp.tag = "checkpoint" => cp.records \in Nat /\ cp.jlen = 2 * cp.records

JournalInv ==
  /\ IsBytes(journal) /\ \A b \in jdisk : IsBytes(b)
  /\ Running => IsSeq(mem) /\ IsBytes(buf) /\ journal \o buf = Encode(mem)
  /\ Counted(ckpt) /\ \A cp \in cdisk : Counted(cp)
  /\ pc \in {"setlen", "load", "rename", "syncdir"} => Counted(snap) /\ snap.tag = "checkpoint"
  /\ pc = "load" => Len(journal) = snap.jlen

LEMMA EmptyBytes == IsBytes(<< >>) /\ Encode(<< >>) = << >>
  <1>1. ASSUME NEW e, IsSeq(e), Len(e) = 0
        PROVE  IsBytes(e) /\ Encode(e) = e
    <2>1. IsBytes(e)
      BY <1>1 DEF IsBytes
    <2>2. IsSeq(Encode(e)) /\ Len(Encode(e)) = 0
      BY <1>1, EncodeSeq DEF IsBytes
    <2> QED
      BY <1>1, <2>1, <2>2, SeqShape
  <1> QED
    BY <1>1, NoElements

LEMMA NoCheckpointCounted == Counted(NoFile) /\ Counted(Torn)
  BY DEF Counted, NoFile, Torn

LEMMA JournalInvInit == Init => JournalInv
  <1> SUFFICES ASSUME Init PROVE JournalInv
    OBVIOUS
  <1> QED
    BY EmptyBytes, NoCheckpointCounted DEF Init, JournalInv, Running

(* An event adds the same records to the ledger and to the BufWriter.      *)
LEMMA JournalInvEvent == ASSUME JournalInv, ControlInv, Event PROVE JournalInv'
  <1> DEFINE c == cmd.cfg
             w == Wake(c, sim, DrawAt(c, sim))
             n == sim.events
  <1>1. /\ pc \in {"boundary", "event"} /\ pc' = "boundary" /\ ~Done(c, sim)
        /\ mem' = mem \o w.recs /\ buf' = buf \o Encode(w.recs)
        /\ UNCHANGED <<snap, journal, jdisk, ckpt, cdisk>>
    BY DEF Event, Passed, disk
  <1>2. c \in Configs /\ Exact(c, sim)
    BY <1>1, CommandsAssumption DEF ControlInv, Running
  <1>3. Golden[c].last \in Nat /\ n \in 0..Golden[c].last /\ sim = Golden[c].sim[n]
    BY <1>2, GoldenRun DEF Exact, GoldenSim
  <1>4. n # Golden[c].last
    <2>1. \A k \in 0..Golden[c].last : Done(c, Golden[c].sim[k]) <=> k = Golden[c].last
      BY <1>2, GoldenRun
    <2>2. Done(c, sim) <=> n = Golden[c].last
      BY <1>3, <2>1
    <2> QED
      BY <1>1, <2>2
  <1>5. n \in 0..(Golden[c].last - 1)
    BY <1>3, <1>4
  <1>6. IsSeq(w.recs)
    BY <1>2, <1>3, <1>5, GoldenAssumption DEF IsSeq
  <1> HIDE DEF w
  <1>7. IsSeq(mem) /\ IsBytes(buf) /\ IsBytes(journal) /\ journal \o buf = Encode(mem)
    BY <1>1 DEF JournalInv, Running
  <1>8. IsBytes(Encode(w.recs))
    BY <1>6, EncodeSeq
  <1>9. IsSeq(mem') /\ IsBytes(buf')
    BY <1>1, <1>6, <1>7, <1>8, ConcatSeq, ConcatBytes
  <1>10. journal \o (buf \o Encode(w.recs)) = (journal \o buf) \o Encode(w.recs)
    <2>1. IsSeq(journal) /\ IsSeq(buf) /\ IsSeq(Encode(w.recs))
      BY <1>7, <1>8 DEF IsBytes
    <2> QED
      BY <2>1, ConcatRegroup
  <1>11. journal' \o buf' = Encode(mem')
    BY <1>1, <1>6, <1>7, <1>10, EncodeConcat
  <1> QED
    BY <1>1, <1>9, <1>11 DEF JournalInv, Running

(* Writing through any part of the BufWriter moves bytes, and adds none.   *)
LEMMA JournalInvSpill == ASSUME JournalInv, Spill PROVE JournalInv'
  <1>1. PICK n \in 1..Len(buf) : /\ AppendToJournal(SubSeq(buf, 1, n))
                                 /\ buf' = SubSeq(buf, n + 1, Len(buf))
    BY DEF Spill
  <1>2. /\ pc = "boundary" /\ pc' = pc
        /\ UNCHANGED <<mem, snap, ckpt, cdisk>>
    BY DEF Spill
  <1>3. /\ IsSeq(mem) /\ IsBytes(buf) /\ IsBytes(journal) /\ journal \o buf = Encode(mem)
        /\ \A b \in jdisk : IsBytes(b)
    BY <1>2 DEF JournalInv, Running
  <1>4. n \in 0..Len(buf)
    BY <1>3, SeqShape DEF IsBytes
  <1>5. /\ IsBytes(SubSeq(buf, 1, n)) /\ IsBytes(buf')
        /\ SubSeq(buf, 1, n) \o buf' = buf
    BY <1>1, <1>3, <1>4, SubSeqBytes
  <1>6. IsBytes(journal') /\ \A b \in jdisk' : IsBytes(b)
    BY <1>1, <1>3, <1>5, AppendBytes
  <1>7. journal' = journal \o SubSeq(buf, 1, n)
    BY <1>1 DEF AppendToJournal
  <1>8. journal' \o buf' = journal \o (SubSeq(buf, 1, n) \o buf')
    <2>1. IsSeq(journal) /\ IsSeq(SubSeq(buf, 1, n)) /\ IsSeq(buf')
      BY <1>3, <1>5 DEF IsBytes
    <2>2. journal \o (SubSeq(buf, 1, n) \o buf') = (journal \o SubSeq(buf, 1, n)) \o buf'
      BY <2>1, ConcatRegroup
    <2> QED
      BY <1>7, <2>2
  <1> QED
    BY <1>2, <1>3, <1>5, <1>6, <1>8 DEF JournalInv, Running

LEMMA JournalInvFlush == ASSUME JournalInv, Flush PROVE JournalInv'
  <1>1. /\ pc = "boundary" /\ pc' = "sync" /\ AppendToJournal(buf) /\ buf' = << >>
        /\ UNCHANGED <<mem, snap, ckpt, cdisk>>
    BY DEF Flush
  <1>2. /\ IsSeq(mem) /\ IsBytes(buf) /\ IsBytes(journal) /\ journal \o buf = Encode(mem)
        /\ \A b \in jdisk : IsBytes(b)
    BY <1>1 DEF JournalInv, Running
  <1>3. IsBytes(journal') /\ \A b \in jdisk' : IsBytes(b)
    BY <1>1, <1>2, AppendBytes
  <1>4. journal' = Encode(mem)
    BY <1>1, <1>2 DEF AppendToJournal
  <1>5. journal' \o buf' = journal'
    BY <1>1, <1>3, ConcatEmpty DEF IsBytes
  <1> QED
    BY <1>1, <1>2, <1>3, <1>4, <1>5, EmptyBytes DEF JournalInv, Running

(* A checkpoint is taken when everything has been flushed, so it counts    *)
(* the records that the journal holds.                                     *)
LEMMA JournalInvSync == ASSUME JournalInv, TypeOK, SyncJournal PROVE JournalInv'
  <1>1. /\ pc = "sync" /\ pc' = "rename"
        /\ snap' = Snapshot(cmd.cfg, sim, Len(mem), Len(journal))
        /\ jdisk' = (IF Fsync THEN {journal} ELSE jdisk)
        /\ UNCHANGED <<mem, buf, journal, ckpt, cdisk>>
    BY DEF SyncJournal
  <1>2. /\ IsSeq(mem) /\ IsBytes(journal) /\ journal \o buf = Encode(mem) /\ buf = << >>
    BY <1>1 DEF JournalInv, Running, TypeOK
  <1>3. journal = Encode(mem)
    BY <1>2, ConcatEmpty DEF IsBytes
  <1>4. Len(journal) = 2 * Len(mem) /\ Len(mem) \in Nat
    BY <1>2, <1>3, EncodeSeq, SeqShape
  <1>5. Counted(snap') /\ snap'.tag = "checkpoint"
    BY <1>1, <1>4 DEF Counted, Snapshot
  <1> QED
    BY <1>1, <1>5 DEF JournalInv, Running

(* What a resume reads back is what it left in the file.                   *)
LEMMA JournalInvLoad == ASSUME JournalInv, LoadPrefix PROVE JournalInv'
  <1>1. /\ pc = "load" /\ pc' = "boundary" /\ Intact(journal, snap.records)
        /\ mem' = Decode(journal, snap.records) /\ buf' = << >>
        /\ UNCHANGED <<journal, jdisk, ckpt, cdisk>>
    BY DEF LoadPrefix, disk
  <1>2. /\ IsBytes(journal) /\ snap.records \in Nat /\ Len(journal) = 2 * snap.records
    BY <1>1 DEF JournalInv, Counted
  <1>3. IsSeq(mem') /\ Encode(mem') = journal
    BY <1>1, <1>2, EncodeDecode
  <1>4. journal' \o buf' = journal
    BY <1>1, <1>2, ConcatEmpty DEF IsBytes
  <1> QED
    BY <1>1, <1>3, <1>4, EmptyBytes DEF JournalInv, Running

LEMMA JournalInvStep == JournalInv /\ TypeOK /\ ControlInv /\ [Next]_vars => JournalInv'
  <1> SUFFICES ASSUME JournalInv, TypeOK, ControlInv, [Next]_vars PROVE JournalInv'
    OBVIOUS
  <1>1. ASSUME NEW m \in Commands, Invoke(m) PROVE JournalInv'
    BY <1>1 DEF Invoke, JournalInv, Running, disk
  <1>2. CASE CreateRemove
    BY <1>2, NoCheckpointCounted DEF CreateRemove, Survive, JournalInv, Running, proc
  <1>3. CASE CreateTruncate
    <2>1. << >> \o << >> = << >>
      BY NoElements, ConcatEmpty
    <2> QED
      BY <1>3, <2>1, EmptyBytes, NoElements DEF CreateTruncate, Survive, JournalInv, Running
  <1>4. CASE ReadCheckpoint
    BY <1>4 DEF ReadCheckpoint, Resumable, JournalInv, Running, disk
  <1>5. CASE RefuseCheckpoint
    BY <1>5 DEF RefuseCheckpoint, Halt, JournalInv, Running, disk
  <1>6. CASE TruncateJournal
    <2>1. snap.jlen \in Nat
      BY <1>6 DEF TruncateJournal, JournalInv, Counted
    <2>2. IsBytes(SetLen(journal, snap.jlen)) /\ Len(SetLen(journal, snap.jlen)) = snap.jlen
      BY <2>1, ZeroFilledBytes DEF JournalInv
    <2> QED
      BY <1>6, <2>2 DEF TruncateJournal, Survive, JournalInv, Running, proc
  <1>7. CASE LoadPrefix
    BY <1>7, JournalInvLoad
  <1>8. CASE RefuseJournal
    BY <1>8 DEF RefuseJournal, Halt, JournalInv, Running, disk
  <1>9. CASE Event
    BY <1>9, JournalInvEvent
  <1>10. CASE Spill
    BY <1>10, JournalInvSpill
  <1>11. CASE Flush
    BY <1>11, JournalInvFlush
  <1>12. CASE SyncJournal
    BY <1>12, JournalInvSync
  <1>13. CASE Publish
    BY <1>13, NoCheckpointCounted DEF Publish, Survive, JournalInv, Running, proc
  <1>14. CASE SyncDirectory
    BY <1>14 DEF SyncDirectory, JournalInv, Running
  <1>15. CASE Finish
    BY <1>15 DEF Finish, Halt, JournalInv, Running, disk
  <1>16. CASE Kill
    BY <1>16 DEF Kill, Halt, JournalInv, Running, disk
  <1>17. CASE LosePower
    BY <1>17 DEF LosePower, Halt, JournalInv, Running
  <1>18. CASE UNCHANGED vars
    BY <1>18 DEF vars, JournalInv, Running
  <1> QED
    BY <1>1, <1>2, <1>3, <1>4, <1>5, <1>6, <1>7, <1>8, <1>9, <1>10, <1>11, <1>12, <1>13,
       <1>14, <1>15, <1>16, <1>17, <1>18 DEF Next, Step

LEMMA JournalInvAlways == Spec => []JournalInv
  BY JournalInvInit, JournalInvStep, TypeCorrect, ControlInvAlways, PTL DEF Spec

(* The journal and the BufWriter together are the ledger in memory: no     *)
(* record is lost and none is written twice, whatever was killed or lost   *)
(* before, with and without fsync, in a run of any length.                 *)
THEOREM JournalHoldsLedger == Spec => []JournalIsLedger
  <1>1. JournalInv => JournalIsLedger
    BY DEF JournalInv, JournalIsLedger
  <1> QED
    BY <1>1, JournalInvAlways, PTL

-----------------------------------------------------------------------------
(* The ledger of a resumed run is the uninterrupted run's, the runner      *)
(* implements RecoverableRun, a resume leaves other runs alone, and what   *)
(* was committed outlives a power loss.                                    *)

(* The uninterrupted ledgers of c grow: each is a prefix of the last.      *)
Full(c) == GoldenLedger(c, Golden[c].last)
Begins(s, t) == Len(s) <= Len(t) /\ \A i \in 1..Len(s) : s[i] = t[i]

LEMMA GoldenStep ==
  ASSUME NEW c \in Configs, NEW n \in 0..(Golden[c].last - 1)
  PROVE  \E recs : /\ IsSeq(recs)
                   /\ recs = Wake(c, GoldenSim(c, n), DrawAt(c, GoldenSim(c, n))).recs
                   /\ GoldenLedger(c, n + 1) = GoldenLedger(c, n) \o recs
  <1> DEFINE recs == Wake(c, GoldenSim(c, n), DrawAt(c, GoldenSim(c, n))).recs
  <1>1. recs \in Seq(Range(recs)) /\ GoldenLedger(c, n + 1) = GoldenLedger(c, n) \o recs
    BY GoldenAssumption DEF GoldenLedger, GoldenSim
  <1> HIDE DEF recs
  <1>2. IsSeq(recs)
    BY <1>1 DEF IsSeq
  <1> QED
    BY <1>1, <1>2 DEF recs

LEMMA GoldenSeq ==
  ASSUME NEW c \in Configs, NEW n \in 0..Golden[c].last
  PROVE  IsSeq(GoldenLedger(c, n))
  <1> DEFINE T == {m \in 0..Golden[c].last : ~IsSeq(GoldenLedger(c, m))}
  <1>0. Golden[c].last \in Nat
    BY GoldenAssumption
  <1>1. SUFFICES ASSUME T # {} PROVE FALSE
    OBVIOUS
  <1>2. PICK x \in T : \A y \in T : x <= y
    <2>1. T \subseteq Nat
      BY <1>0
    <2> HIDE DEF T
    <2> QED
      BY <1>1, <2>1, LeastElement
  <1>3. x # 0
    <2>1. GoldenLedger(c, 0) = << >>
      BY GoldenAssumption DEF GoldenLedger
    <2> QED
      BY <1>2, <2>1, NoElements
  <1>4. x - 1 \in 0..(Golden[c].last - 1) /\ x - 1 + 1 = x /\ x - 1 \in 0..Golden[c].last
    BY <1>0, <1>2, <1>3
  <1>5. IsSeq(GoldenLedger(c, x - 1))
    <2>1. x - 1 \notin T
      BY <1>2, <1>4
    <2> QED
      BY <1>4, <2>1
  <1>6. PICK recs : IsSeq(recs) /\ GoldenLedger(c, x - 1 + 1) = GoldenLedger(c, x - 1) \o recs
    BY <1>4, GoldenStep
  <1>7. IsSeq(GoldenLedger(c, x))
    BY <1>4, <1>5, <1>6, ConcatSeq
  <1> QED
    BY <1>2, <1>7

LEMMA FullSeq ==
  ASSUME NEW c \in Configs
  PROVE  IsSeq(Full(c)) /\ Len(Full(c)) \in Nat
  <1>1. Golden[c].last \in Nat
    BY GoldenAssumption
  <1>2. Golden[c].last \in 0..Golden[c].last
    BY <1>1
  <1> QED
    BY <1>2, GoldenSeq, SeqShape DEF Full

LEMMA GoldenGrows ==
  ASSUME NEW c \in Configs, NEW n \in 0..Golden[c].last
  PROVE  Begins(GoldenLedger(c, n), Full(c))
  <1> DEFINE last_ == Golden[c].last
             T == {m \in 0..last_ : ~Begins(GoldenLedger(c, last_ - m), Full(c))}
  <1>0. last_ \in Nat
    BY GoldenAssumption
  <1>1. SUFFICES ASSUME T # {} PROVE FALSE
    <2>1. last_ - n \in 0..last_ /\ last_ - (last_ - n) = n
      BY <1>0
    <2>2. last_ - n \notin T
      BY <1>1
    <2> QED
      BY <2>1, <2>2
  <1>2. PICK x \in T : \A y \in T : x <= y
    <2>1. T \subseteq Nat
      BY <1>0
    <2> HIDE DEF T
    <2> QED
      BY <1>1, <2>1, LeastElement
  <1>3. IsSeq(Full(c)) /\ Len(Full(c)) \in Nat
    BY FullSeq
  <1>4. x # 0
    <2>1. last_ - 0 = last_
      BY <1>0
    <2>2. Begins(GoldenLedger(c, last_ - 0), Full(c))
      BY <1>3, <2>1 DEF Begins, Full
    <2> QED
      BY <1>2, <2>2
  <1> DEFINE k == last_ - x
  <1>5. /\ k \in 0..(last_ - 1) /\ k \in 0..last_ /\ k + 1 \in 0..last_
        /\ k + 1 = last_ - (x - 1) /\ x - 1 \in 0..last_ /\ ~(x <= x - 1)
    BY <1>0, <1>2, <1>4
  <1>6. Begins(GoldenLedger(c, k + 1), Full(c))
    <2>1. x - 1 \notin T
      BY <1>2, <1>5
    <2> QED
      BY <1>5, <2>1
  <1>7. PICK recs : IsSeq(recs) /\ GoldenLedger(c, k + 1) = GoldenLedger(c, k) \o recs
    BY <1>5, GoldenStep
  <1>8. IsSeq(GoldenLedger(c, k))
    BY <1>5, GoldenSeq
  <1>9. ~Begins(GoldenLedger(c, k), Full(c))
    BY <1>2
  <1> HIDE DEF k, T
  <1> DEFINE g == GoldenLedger(c, k)
             h == GoldenLedger(c, k + 1)
  <1>10. /\ Len(g) \in Nat /\ Len(recs) \in Nat /\ Len(h) = Len(g) + Len(recs)
         /\ \A i \in 1..(Len(g) + Len(recs)) : h[i] = IF i <= Len(g) THEN g[i] ELSE recs[i - Len(g)]
    BY <1>7, <1>8, ConcatSeq, SeqShape
  <1> HIDE DEF g, h
  <1>11. Begins(g, Full(c))
    <2>1. Len(g) <= Len(Full(c))
      BY <1>3, <1>6, <1>10 DEF Begins, h
    <2>2. ASSUME NEW i \in 1..Len(g) PROVE g[i] = Full(c)[i]
      <3>1. i \in 1..(Len(g) + Len(recs)) /\ i <= Len(g)
        BY <1>10
      <3>2. h[i] = g[i]
        BY <1>10, <3>1
      <3>3. h[i] = Full(c)[i]
        BY <1>6, <1>10, <3>1 DEF Begins, h
      <3> QED
        BY <3>2, <3>3
    <2> QED
      BY <2>1, <2>2 DEF Begins
  <1> QED
    BY <1>9, <1>11 DEF g

-----------------------------------------------------------------------------
(* The part of the argument that does not depend on what crashes can do to *)
(* the journal: if what a resume reads back is the checkpoint's prefix,    *)
(* the ledger in memory is always the uninterrupted one.  A checkpoint is  *)
(* tallied when it counts the records of its events.                       *)
Tallied(cp) ==
  cp.tag = "checkpoint" =>
    /\ cp.run \in Configs /\ cp.events \in 0..Golden[cp.run].last
    /\ cp.records = Len(GoldenLedger(cp.run, cp.events))

HoldsSnapshot == pc \in {"setlen", "load", "rename", "syncdir"}

LedgerInv ==
  /\ LedgerExact
  /\ Tallied(ckpt) /\ \A cp \in cdisk : Tallied(cp)
  /\ HoldsSnapshot =>
       /\ Tallied(snap) /\ snap.tag = "checkpoint"
       /\ snap.run = cmd.cfg /\ snap.events = sim.events

LEMMA NoCheckpointTallied == Tallied(NoFile) /\ Tallied(Torn)
  BY DEF Tallied, NoFile, Torn

LEMMA LedgerInvInit == Init => LedgerInv
  <1> SUFFICES ASSUME Init PROVE LedgerInv
    OBVIOUS
  <1> QED
    BY NoCheckpointTallied DEF Init, LedgerInv, LedgerExact, Running, HoldsSnapshot

(* A run starts with no events and no records.                             *)
LEMMA FreshLedger ==
  ASSUME NEW c \in Configs
  PROVE  GoldenLedger(c, BuildFresh(c).events) = << >>
  <1>1. BuildFresh(c).events = 0
    BY DEF BuildFresh, Fresh
  <1> QED
    BY <1>1, GoldenAssumption DEF GoldenLedger

LEMMA RestoreEvents ==
  ASSUME NEW c, NEW cp
  PROVE  Restore(c, cp).events = cp.events
  <1> DEFINE b == BuildFresh(c)
  <1>1. b = [f \in Fields |-> b[f]]
    BY FreshWellFormed DEF WellFormed
  <1>2. "events" \in DOMAIN b
    BY <1>1 DEF Fields
  <1> HIDE DEF b
  <1> QED
    BY <1>2 DEF Restore, b

(* An exact state is done exactly at the uninterrupted run's last event;   *)
(* otherwise its wake adds that run's next records.                        *)
LEMMA ExactDone ==
  ASSUME NEW c \in Configs, NEW s, Exact(c, s)
  PROVE  Done(c, s) <=> s.events = Golden[c].last
  <1>1. s.events \in 0..Golden[c].last /\ s = Golden[c].sim[s.events]
    BY DEF Exact, GoldenSim
  <1>2. \A n \in 0..Golden[c].last : Done(c, Golden[c].sim[n]) <=> n = Golden[c].last
    BY GoldenAssumption
  <1> QED
    BY <1>1, <1>2

LEMMA ExactWake ==
  ASSUME NEW c \in Configs, NEW s, Exact(c, s), ~Done(c, s)
  PROVE  /\ Wake(c, s, DrawAt(c, s)).sim.events = s.events + 1
         /\ GoldenLedger(c, s.events + 1) = GoldenLedger(c, s.events) \o Wake(c, s, DrawAt(c, s)).recs
  <1> DEFINE n == s.events
             w == Wake(c, s, DrawAt(c, s))
  <1>1. Golden[c].last \in Nat /\ n \in 0..Golden[c].last /\ s = GoldenSim(c, n)
    BY GoldenAssumption DEF Exact
  <1>2. n # Golden[c].last
    BY ExactDone
  <1>3. n \in 0..(Golden[c].last - 1) /\ n + 1 \in 0..Golden[c].last
    BY <1>1, <1>2
  <1>4. GoldenLedger(c, n + 1) = GoldenLedger(c, n) \o w.recs
    BY <1>1, <1>3, GoldenStep
  <1>5. Exact(c, w.sim)
    BY EventExact
  <1>6. w.sim = Golden[c].sim[n + 1]
    <2>1. Golden[c].sim[n + 1] = Wake(c, Golden[c].sim[n], DrawAt(c, Golden[c].sim[n])).sim
      BY <1>3, GoldenNext
    <2> QED
      BY <1>1, <2>1 DEF GoldenSim
  <1>7. \A m \in 0..Golden[c].last : Golden[c].sim[m].events = m
    BY GoldenAssumption
  <1> HIDE DEF w
  <1>8. w.sim.events = n + 1
    BY <1>3, <1>6, <1>7
  <1> QED
    BY <1>4, <1>8 DEF w

(* An event takes the ledger from one uninterrupted ledger to the next.    *)
LEMMA EventLedger ==
  ASSUME ControlInv, LedgerInv, Event
  PROVE  mem' = GoldenLedger(cmd.cfg, sim'.events) /\ sim'.events = sim.events + 1
  <1>1. /\ pc \in {"boundary", "event"} /\ ~Done(cmd.cfg, sim)
        /\ mem' = mem \o Wake(cmd.cfg, sim, DrawAt(cmd.cfg, sim)).recs
        /\ sim' = Wake(cmd.cfg, sim, DrawAt(cmd.cfg, sim)).sim
    BY DEF Event, Passed
  <1>2. cmd.cfg \in Configs /\ Exact(cmd.cfg, sim) /\ mem = GoldenLedger(cmd.cfg, sim.events)
    BY <1>1, CommandsAssumption DEF ControlInv, LedgerInv, LedgerExact, Running
  <1> QED
    BY <1>1, <1>2, ExactWake

LEMMA LedgerInvStep ==
  ASSUME LedgerInv, ControlInv, [Next]_vars,
         LoadPrefix => mem' = GoldenLedger(cmd.cfg, sim.events)
  PROVE  LedgerInv'
  <1> USE DEF LedgerInv, LedgerExact, Running, HoldsSnapshot, proc, disk
  <1>c. cmd.cfg \in Configs
    BY CommandsAssumption DEF ControlInv
  <1>1. ASSUME NEW m \in Commands, Invoke(m) PROVE LedgerInv'
    BY <1>1 DEF Invoke
  <1>2. CASE CreateRemove
    BY <1>2, NoCheckpointTallied DEF CreateRemove, Survive
  <1>3. CASE CreateTruncate
    BY <1>3, <1>c, FreshLedger DEF CreateTruncate
  <1>4. CASE ReadCheckpoint
    <2>1. ckpt.tag = "checkpoint" /\ ckpt.run = cmd.cfg
      BY <1>4 DEF ReadCheckpoint, Resumable
    <2> QED
      BY <1>4, <2>1, RestoreEvents DEF ReadCheckpoint
  <1>5. CASE RefuseCheckpoint
    BY <1>5 DEF RefuseCheckpoint, Halt
  <1>6. CASE TruncateJournal
    BY <1>6 DEF TruncateJournal
  <1>7. CASE LoadPrefix
    BY <1>7 DEF LoadPrefix
  <1>8. CASE RefuseJournal
    BY <1>8 DEF RefuseJournal, Halt
  <1>9. CASE Event
    <2>1. mem' = GoldenLedger(cmd.cfg, sim'.events)
      BY <1>9, EventLedger
    <2> QED
      BY <1>9, <2>1 DEF Event
  <1>10. CASE Spill
    BY <1>10 DEF Spill
  <1>11. CASE Flush
    BY <1>11 DEF Flush
  <1>12. CASE SyncJournal
    <2>1. pc = "sync" /\ snap' = Snapshot(cmd.cfg, sim, Len(mem), Len(journal))
      BY <1>12 DEF SyncJournal
    <2>2. sim.events \in 0..Golden[cmd.cfg].last
      BY <2>1 DEF ControlInv, Exact
    <2>3. Tallied(snap') /\ snap'.tag = "checkpoint" /\ snap'.run = cmd.cfg /\ snap'.events = sim.events
      BY <1>c, <2>1, <2>2 DEF Tallied, Snapshot
    <2> QED
      BY <1>12, <2>3 DEF SyncJournal
  <1>13. CASE Publish
    BY <1>13, NoCheckpointTallied DEF Publish, Survive
  <1>14. CASE SyncDirectory
    BY <1>14 DEF SyncDirectory
  <1>15. CASE Finish
    <2>1. pc \in {"boundary", "event"} /\ Done(cmd.cfg, sim)
      BY <1>15 DEF Finish, Passed
    <2>2. sim.events = Golden[cmd.cfg].last
      BY <1>c, <2>1, ExactDone DEF ControlInv
    <2> QED
      BY <1>15, <2>1, <2>2 DEF Finish, Halt
  <1>16. CASE Kill
    BY <1>16 DEF Kill, Halt
  <1>17. CASE LosePower
    BY <1>17 DEF LosePower, Halt
  <1>18. CASE UNCHANGED vars
    BY <1>18 DEF vars
  <1> QED
    BY <1>1, <1>2, <1>3, <1>4, <1>5, <1>6, <1>7, <1>8, <1>9, <1>10, <1>11, <1>12, <1>13,
       <1>14, <1>15, <1>16, <1>17, <1>18 DEF Next, Step

-----------------------------------------------------------------------------
(* A directory that only ever loses processes, not power.  The journal     *)
(* covers the checkpoint at every instant, also between the steps that     *)
(* replace either: create drops the checkpoint before it empties the       *)
(* journal, and a checkpoint is published after what it counts.            *)
KilledInv ==
  /\ Covers(journal, ckpt)
  /\ HoldsSnapshot => Covers(journal, snap)
  /\ pc \in {"setlen", "load", "syncdir"} => ckpt = snap
  /\ pc = "truncate" => ckpt = NoFile
  /\ Running /\ ckpt.tag = "checkpoint" => ckpt.run = cmd.cfg /\ ckpt.events <= sim.events
  /\ pc \in {"boundary", "sync", "rename", "event"} /\ last # Never =>
       ckpt.tag = "checkpoint" /\ ckpt.events = last
  /\ pc = "event" => last = sim.events

(* Reading a covered prefix gives the records that were journalled.        *)
LEMMA DecodePrefix ==
  ASSUME NEW bytes, IsBytes(bytes), NEW recs, IsSeq(recs), IsPrefix(Encode(recs), bytes)
  PROVE  Decode(bytes, Len(recs)) = recs
  <1> DEFINE d == Decode(bytes, Len(recs))
             e == Encode(recs)
  <1>1. Len(recs) \in Nat
    BY SeqShape
  <1>2. /\ IsSeq(e) /\ Len(e) = 2 * Len(recs)
        /\ \A i \in 1..(2 * Len(recs)) : e[i] = <<recs[(i + 1) \div 2], IF i % 2 = 1 THEN 1 ELSE 2>>
    BY EncodeSeq DEF IsBytes
  <1>3. \A i \in 1..(2 * Len(recs)) : bytes[i] = e[i]
    BY <1>2, PrefixPointwise DEF IsBytes
  <1>4. d = [i \in 1..Len(recs) |-> d[i]] /\ \A i \in 1..Len(recs) : d[i] = bytes[2 * i][1]
    BY DEF Decode
  <1> HIDE DEF d, e
  <1>5. ASSUME NEW i \in 1..Len(recs) PROVE d[i] = recs[i]
    <2>1. 2 * i \in 1..(2 * Len(recs)) /\ (2 * i + 1) \div 2 = i
      BY <1>1
    <2>2. bytes[2 * i] = e[2 * i]
      BY <1>3, <2>1
    <2>3. e[2 * i][1] = recs[i]
      BY <1>2, <2>1
    <2> QED
      BY <1>4, <2>2, <2>3
  <1>6. IsSeq(d) /\ Len(d) = Len(recs)
    BY <1>1, <1>4, ShapeSeq
  <1> QED
    BY <1>5, <1>6, EqualSeqs DEF d

(* A covered checkpoint stays covered when the journal grows and when it   *)
(* is cut to no less than the length the checkpoint gives.                 *)
LEMMA PrefixGrows ==
  ASSUME NEW s, NEW t, NEW u, IsSeq(s), IsSeq(t), IsSeq(u), IsPrefix(s, t)
  PROVE  IsPrefix(s, t \o u)
  <1>1. Len(s) \in Nat /\ Len(t) \in Nat /\ Len(u) \in Nat
    BY SeqShape
  <1>2. Len(s) <= Len(t) /\ \A i \in 1..Len(s) : s[i] = t[i]
    BY PrefixPointwise
  <1>3. /\ IsSeq(t \o u) /\ Len(t \o u) = Len(t) + Len(u)
        /\ \A i \in 1..(Len(t) + Len(u)) : (t \o u)[i] = IF i <= Len(t) THEN t[i] ELSE u[i - Len(t)]
    BY ConcatSeq
  <1>4. Len(s) <= Len(t \o u) /\ \A i \in 1..Len(s) : s[i] = (t \o u)[i]
    BY <1>1, <1>2, <1>3
  <1> QED
    BY <1>3, <1>4, PrefixPointwise

LEMMA CoversGrown ==
  ASSUME NEW cp, Tallied(cp), NEW bytes, NEW more, IsBytes(bytes), IsBytes(more), Covers(bytes, cp)
  PROVE  Covers(bytes \o more, cp)
  <1> SUFFICES ASSUME cp.tag = "checkpoint" PROVE Covers(bytes \o more, cp)
    BY DEF Covers
  <1> DEFINE recs == GoldenLedger(cp.run, cp.events)
  <1>1. IsSeq(recs)
    BY GoldenSeq DEF Tallied
  <1> HIDE DEF recs
  <1>2. cp.records = Len(recs) /\ cp.jlen = 2 * Len(recs) /\ IsPrefix(Encode(recs), bytes)
    BY DEF Covers, recs
  <1>3. IsSeq(Encode(recs)) /\ IsSeq(bytes) /\ IsSeq(more)
    BY <1>1, EncodeSeq DEF IsBytes
  <1>4. IsPrefix(Encode(recs), bytes \o more)
    BY <1>2, <1>3, PrefixGrows
  <1> QED
    BY <1>2, <1>4 DEF Covers, recs

LEMMA CoversCut ==
  ASSUME NEW cp, Tallied(cp), NEW bytes, IsBytes(bytes), Covers(bytes, cp),
         NEW n \in Nat, cp.tag = "checkpoint" => cp.jlen <= n
  PROVE  Covers(SetLen(bytes, n), cp)
  <1> SUFFICES ASSUME cp.tag = "checkpoint" PROVE Covers(SetLen(bytes, n), cp)
    BY DEF Covers
  <1> DEFINE recs == GoldenLedger(cp.run, cp.events)
             e == Encode(recs)
             t == SetLen(bytes, n)
  <1>1. IsSeq(recs) /\ Len(recs) \in Nat
    BY GoldenSeq, SeqShape DEF Tallied
  <1>2. cp.records = Len(recs) /\ cp.jlen = 2 * Len(recs) /\ IsPrefix(e, bytes)
    BY DEF Covers
  <1>3. IsSeq(e) /\ Len(e) = cp.jlen /\ IsSeq(bytes) /\ cp.jlen \in Nat
    BY <1>1, <1>2, EncodeSeq DEF IsBytes
  <1>4. IsSeq(t) /\ Len(t) = n
    BY ZeroFilledBytes DEF IsBytes
  <1>5. \A i \in 1..n : t[i] = IF i <= Len(bytes) THEN bytes[i] ELSE Zero
    BY DEF SetLen
  <1> HIDE DEF e, t, recs
  <1>6. Len(e) <= Len(bytes) /\ \A i \in 1..Len(e) : e[i] = bytes[i]
    BY <1>2, <1>3, PrefixPointwise
  <1>7. Len(e) <= Len(t) /\ \A i \in 1..Len(e) : e[i] = t[i]
    <2>1. Len(bytes) \in Nat /\ cp.jlen <= n
      BY <1>3, SeqShape
    <2> QED
      BY <1>3, <1>4, <1>5, <1>6, <2>1
  <1>8. IsPrefix(e, t)
    BY <1>3, <1>4, <1>7, PrefixPointwise
  <1> QED
    BY <1>2, <1>8 DEF Covers, e, t, recs

LEMMA NoFileCovered == ASSUME NEW bytes PROVE Covers(bytes, NoFile)
  BY DEF Covers, NoFile

(* A checkpoint counts what has just been flushed.                         *)
LEMMA SnapshotCovered ==
  ASSUME TypeOK, JournalInv, LedgerInv, SyncJournal
  PROVE  Covers(journal, snap')
  <1>1. pc = "sync" /\ snap' = Snapshot(cmd.cfg, sim, Len(mem), Len(journal))
    BY DEF SyncJournal
  <1>2. /\ IsSeq(mem) /\ IsBytes(journal) /\ journal \o buf = Encode(mem) /\ buf = << >>
        /\ mem = GoldenLedger(cmd.cfg, sim.events)
    BY <1>1 DEF JournalInv, LedgerInv, LedgerExact, Running, TypeOK
  <1>3. journal = Encode(mem) /\ IsSeq(journal) /\ Len(journal) \in Nat
    BY <1>2, ConcatEmpty, SeqShape DEF IsBytes
  <1>4. IsPrefix(Encode(mem), journal)
    BY <1>3, PrefixPointwise
  <1>5. Len(journal) = 2 * Len(mem)
    BY <1>2, <1>3, EncodeSeq
  <1>6. /\ snap'.run = cmd.cfg /\ snap'.events = sim.events
        /\ snap'.records = Len(mem) /\ snap'.jlen = Len(journal)
    BY <1>1 DEF Snapshot
  <1> QED
    BY <1>2, <1>4, <1>5, <1>6 DEF Covers

LEMMA KilledLoad ==
  ASSUME JournalInv, LedgerInv, KilledInv, LoadPrefix
  PROVE  mem' = GoldenLedger(cmd.cfg, sim.events)
  <1> DEFINE recs == GoldenLedger(cmd.cfg, sim.events)
  <1>1. pc = "load" /\ mem' = Decode(journal, snap.records)
    BY DEF LoadPrefix
  <1>2. /\ IsBytes(journal) /\ Covers(journal, snap) /\ Tallied(snap)
        /\ snap.tag = "checkpoint" /\ snap.run = cmd.cfg /\ snap.events = sim.events
    BY <1>1 DEF JournalInv, LedgerInv, KilledInv, HoldsSnapshot
  <1>3. snap.records = Len(recs) /\ IsPrefix(Encode(recs), journal)
    BY <1>2 DEF Covers
  <1>4. IsSeq(recs)
    BY <1>2, GoldenSeq DEF Tallied
  <1> HIDE DEF recs
  <1>5. Decode(journal, Len(recs)) = recs
    BY <1>2, <1>3, <1>4, DecodePrefix
  <1> QED
    BY <1>1, <1>3, <1>5 DEF recs

LEMMA KilledInvStep ==
  ASSUME ~PowerLoss, ~RemoveFails, TypeOK, ControlInv, JournalInv, LedgerInv, LedgerInv',
         KilledInv, [Next]_vars
  PROVE  KilledInv'
  <1> USE DEF KilledInv, Running, HoldsSnapshot, proc, disk
  <1>t. NoFile.tag # "checkpoint"
    BY DEF NoFile
  <1>e. Running => sim.events \in Nat
    BY ExactIsRunning, CommandsAssumption DEF ControlInv
  <1>1. ASSUME NEW m \in Commands, Invoke(m) PROVE KilledInv'
    BY <1>1 DEF Invoke
  <1>2. CASE CreateRemove
    BY <1>2, <1>t, NoFileCovered DEF CreateRemove
  <1>3. CASE CreateTruncate
    BY <1>3, <1>t, NoFileCovered DEF CreateTruncate
  <1>4. CASE ReadCheckpoint
    BY <1>4 DEF ReadCheckpoint
  <1>5. CASE RefuseCheckpoint
    BY <1>5 DEF RefuseCheckpoint, Halt
  <1>6. CASE TruncateJournal
    <2>1. snap.jlen \in Nat /\ snap.jlen <= snap.jlen
      BY <1>6 DEF TruncateJournal, JournalInv, Counted
    <2>2. Covers(SetLen(journal, snap.jlen), snap)
      BY <1>6, <2>1, CoversCut DEF TruncateJournal, JournalInv, LedgerInv
    <2> QED
      BY <1>6, <2>2 DEF TruncateJournal
  <1>7. CASE LoadPrefix
    <2>1. snap.run = cmd.cfg /\ snap.events = sim.events /\ pc = "load" /\ ckpt = snap
      BY <1>7 DEF LoadPrefix, LedgerInv
    <2>2. sim.events \in Nat
      BY <2>1, ExactIsRunning, CommandsAssumption DEF ControlInv, Resuming
    <2> QED
      BY <1>7, <2>1, <2>2 DEF LoadPrefix
  <1>8. CASE RefuseJournal
    BY <1>8 DEF RefuseJournal, Halt
  <1>9. CASE Event
    <2>1. sim'.events = sim.events + 1 /\ sim.events \in Nat
      BY <1>9, <1>e, EventLedger DEF Event, Passed
    <2>2. ckpt.tag = "checkpoint" => ckpt.events \in Nat
      BY GoldenRun DEF LedgerInv, Tallied
    <2> QED
      BY <1>9, <2>1, <2>2 DEF Event, Passed
  <1>10. CASE Spill
    <2>1. PICK n \in 1..Len(buf) : AppendToJournal(SubSeq(buf, 1, n))
      BY <1>10 DEF Spill
    <2>2. IsBytes(buf) /\ IsBytes(journal) /\ Len(buf) \in Nat
      BY <1>10, SeqShape DEF Spill, JournalInv, IsBytes
    <2>3. IsBytes(SubSeq(buf, 1, n))
      <3>1. n \in 0..Len(buf)
        BY <2>2
      <3> QED
        BY <2>2, <3>1, SubSeqBytes
    <2>4. journal' = journal \o SubSeq(buf, 1, n) /\ Covers(journal', ckpt)
      BY <2>1, <2>2, <2>3, CoversGrown DEF AppendToJournal, LedgerInv
    <2> QED
      BY <1>10, <2>4 DEF Spill
  <1>11. CASE Flush
    <2>1. journal' = journal \o buf /\ IsBytes(buf) /\ IsBytes(journal)
      BY <1>11 DEF Flush, AppendToJournal, JournalInv
    <2>2. Covers(journal', ckpt)
      BY <2>1, CoversGrown DEF LedgerInv
    <2> QED
      BY <1>11, <2>2 DEF Flush
  <1>12. CASE SyncJournal
    BY <1>12, SnapshotCovered DEF SyncJournal
  <1>13. CASE Publish
    BY <1>13, <1>e DEF Publish, LedgerInv
  <1>14. CASE SyncDirectory
    BY <1>14 DEF SyncDirectory, LedgerInv
  <1>15. CASE Finish
    BY <1>15 DEF Finish, Halt
  <1>16. CASE Kill
    BY <1>16 DEF Kill, Halt
  <1>17. CASE LosePower
    BY <1>17 DEF LosePower
  <1>18. CASE UNCHANGED vars
    BY <1>18 DEF vars
  <1> QED
    BY <1>1, <1>2, <1>3, <1>4, <1>5, <1>6, <1>7, <1>8, <1>9, <1>10, <1>11, <1>12, <1>13,
       <1>14, <1>15, <1>16, <1>17, <1>18 DEF Next, Step

LEMMA KilledInvAlways ==
  ASSUME ~PowerLoss, ~RemoveFails
  PROVE  Spec => [](LedgerInv /\ KilledInv)
  <1>1. Init => LedgerInv /\ KilledInv
    <2>1. Init => KilledInv
      BY NoFileCovered DEF Init, KilledInv, Running, HoldsSnapshot, NoFile
    <2> QED
      BY <2>1, LedgerInvInit
  <1>2. TypeOK /\ ControlInv /\ JournalInv /\ (LedgerInv /\ KilledInv) /\ [Next]_vars
          => (LedgerInv /\ KilledInv)'
    <2> SUFFICES ASSUME TypeOK, ControlInv, JournalInv, LedgerInv, KilledInv, [Next]_vars
                 PROVE  LedgerInv' /\ KilledInv'
      OBVIOUS
    <2>1. LedgerInv'
      BY KilledLoad, LedgerInvStep
    <2> QED
      BY <2>1, KilledInvStep
  <1> QED
    BY <1>1, <1>2, TypeCorrect, ControlInvAlways, JournalInvAlways, PTL DEF Spec

(* Where the machine keeps its power and files can be removed, a run that  *)
(* is killed and resumed any number of times, in a directory that other    *)
(* runs use too, has the uninterrupted run's ledger and prints it.         *)
THEOREM KilledRunsExact ==
  ASSUME ~PowerLoss, ~RemoveFails
  PROVE  Spec => []LedgerExact
  <1>1. LedgerInv => LedgerExact
    BY DEF LedgerInv
  <1> QED
    BY <1>1, KilledInvAlways, PTL

(* ... and every checkpoint finds its prefix in the journal, whichever two *)
(* steps the process was killed between.                                   *)
THEOREM KilledRunsCovered ==
  ASSUME ~PowerLoss, ~RemoveFails
  PROVE  Spec => []CheckpointCovered
  <1>1. KilledInv => CheckpointCovered
    BY DEF KilledInv, CheckpointCovered
  <1> QED
    BY <1>1, KilledInvAlways, PTL

-----------------------------------------------------------------------------
(* A directory that one run has for itself, on a machine that can lose     *)
(* power at any time and with or without fsync.  Nothing orders what       *)
(* survives, so a checkpoint may come back without its journal; but every  *)
(* half line that may come back is either missing or the run's own.        *)
Genuine(c, bytes) ==
  \A i \in 1..Len(bytes) :
    bytes[i] = Zero \/ (i <= 2 * Len(Full(c)) /\ bytes[i] = Encode(Full(c))[i])

OneRunInv(c) ==
  /\ LedgerInv
  /\ Genuine(c, journal) /\ \A b \in jdisk : Genuine(c, b)

(* The lines of the records in memory are the run's own.                   *)
LEMMA LedgerGenuine ==
  ASSUME NEW c \in Configs, NEW n \in 0..Golden[c].last
  PROVE  Genuine(c, Encode(GoldenLedger(c, n)))
  <1> DEFINE g == GoldenLedger(c, n)
             f == Full(c)
  <1>1. IsSeq(g) /\ Len(g) \in Nat
    BY GoldenSeq, SeqShape
  <1>2. IsSeq(f) /\ Len(f) \in Nat
    BY FullSeq
  <1>3. Len(g) <= Len(f) /\ \A i \in 1..Len(g) : g[i] = f[i]
    BY GoldenGrows DEF Begins
  <1> HIDE DEF g, f
  <1>4. /\ Len(Encode(g)) = 2 * Len(g)
        /\ \A i \in 1..(2 * Len(g)) : Encode(g)[i] = <<g[(i + 1) \div 2], IF i % 2 = 1 THEN 1 ELSE 2>>
    BY <1>1, EncodeSeq
  <1>5. \A i \in 1..(2 * Len(f)) : Encode(f)[i] = <<f[(i + 1) \div 2], IF i % 2 = 1 THEN 1 ELSE 2>>
    BY <1>2, EncodeSeq
  <1>6. ASSUME NEW i \in 1..(2 * Len(g))
        PROVE  i <= 2 * Len(f) /\ Encode(g)[i] = Encode(f)[i]
    <2>1. i \in 1..(2 * Len(f)) /\ (i + 1) \div 2 \in 1..Len(g)
      BY <1>1, <1>2, <1>3
    <2>2. g[(i + 1) \div 2] = f[(i + 1) \div 2]
      BY <1>3, <2>1
    <2>3. Encode(g)[i] = <<g[(i + 1) \div 2], IF i % 2 = 1 THEN 1 ELSE 2>>
      BY <1>4
    <2>4. Encode(f)[i] = <<f[(i + 1) \div 2], IF i % 2 = 1 THEN 1 ELSE 2>>
      BY <1>5, <2>1
    <2>5. i <= 2 * Len(f)
      BY <1>2, <2>1
    <2> QED
      BY <2>2, <2>3, <2>4, <2>5
  <1> QED
    BY <1>4, <1>6 DEF Genuine, f, g

(* Whatever part of an append survives, in whatever way, is genuine.       *)
LEMMA AppendGenuine ==
  ASSUME NEW c, NEW bytes, NEW rest, IsBytes(bytes), IsBytes(rest), IsBytes(journal),
         Genuine(c, journal), \A b \in jdisk : Genuine(c, b),
         Genuine(c, (journal \o bytes) \o rest), AppendToJournal(bytes)
  PROVE  Genuine(c, journal') /\ \A b \in jdisk' : Genuine(c, b)
  <1>1. Len(bytes) \in Nat /\ Len(rest) \in Nat /\ Len(journal) \in Nat
    BY SeqShape DEF IsBytes
  <1>2. IsSeq(journal \o bytes) /\ Len(journal \o bytes) = Len(journal) + Len(bytes)
    BY ConcatBytes DEF IsBytes
  <1>3. \A i \in 1..(Len(journal) + Len(bytes)) :
          (journal \o bytes)[i] = IF i <= Len(journal) THEN journal[i] ELSE bytes[i - Len(journal)]
    BY ConcatSeq DEF IsBytes
  <1>4. /\ Len((journal \o bytes) \o rest) = Len(journal \o bytes) + Len(rest)
        /\ \A i \in 1..(Len(journal \o bytes) + Len(rest)) :
             ((journal \o bytes) \o rest)[i] =
               IF i <= Len(journal \o bytes) THEN (journal \o bytes)[i] ELSE rest[i - Len(journal \o bytes)]
    BY <1>2, ConcatSeq DEF IsBytes
  <1>5. Genuine(c, journal \o bytes)
    BY <1>1, <1>2, <1>4 DEF Genuine
  <1>6. ASSUME NEW part, IsBytes(part), Len(part) <= Len(bytes),
               \A i \in 1..Len(part) : part[i] \in {bytes[i], Zero}
        PROVE  Genuine(c, journal \o part)
    <2>1. Len(part) \in Nat
      BY <1>6, SeqShape DEF IsBytes
    <2>2. /\ Len(journal \o part) = Len(journal) + Len(part)
          /\ \A i \in 1..(Len(journal) + Len(part)) :
               (journal \o part)[i] = IF i <= Len(journal) THEN journal[i] ELSE part[i - Len(journal)]
      BY <1>6, ConcatSeq DEF IsBytes
    <2>3. ASSUME NEW i \in 1..(Len(journal) + Len(part))
          PROVE  (journal \o part)[i] \in {(journal \o bytes)[i], Zero}
      <3>1. i \in 1..(Len(journal) + Len(bytes))
        BY <1>1, <1>6, <2>1
      <3>2. ~(i <= Len(journal)) => i - Len(journal) \in 1..Len(part)
        BY <1>1, <2>1
      <3> QED
        BY <1>3, <1>6, <2>2, <3>1, <3>2
    <2>4. \A i \in 1..(Len(journal) + Len(part)) : i \in 1..(Len(journal) + Len(bytes))
      BY <1>1, <1>6, <2>1
    <2> QED
      BY <1>2, <1>5, <2>2, <2>3, <2>4 DEF Genuine
  <1>7. ASSUME NEW n \in 0..Len(bytes) PROVE Genuine(c, journal \o SubSeq(bytes, 1, n))
    <2>1. 1 \in 1..(Len(bytes) + 1) /\ n \in 0..Len(bytes) /\ 1 <= n + 1 /\ n - 1 + 1 = n
      BY <1>1
    <2>2. /\ Len(SubSeq(bytes, 1, n)) = n - 1 + 1
          /\ \A i \in 1..(n - 1 + 1) : SubSeq(bytes, 1, n)[i] = bytes[i + 1 - 1]
      BY <2>1, SubSeqSeq DEF IsBytes
    <2>3. \A i \in 1..n : i + 1 - 1 = i
      BY <1>1
    <2>4. IsBytes(SubSeq(bytes, 1, n))
      BY SubSeqBytes
    <2> DEFINE part == SubSeq(bytes, 1, n)
    <2> HIDE DEF part
    <2>5. Len(part) = n /\ \A i \in 1..n : part[i] = bytes[i]
      BY <2>1, <2>2, <2>3 DEF part
    <2>6. n <= Len(bytes)
      BY <1>1
    <2>7. IsBytes(part)
      BY <2>4 DEF part
    <2>8. Genuine(c, journal \o part)
      BY <1>6, <2>5, <2>6, <2>7
    <2> QED
      BY <2>8 DEF part
  <1>8. ASSUME NEW n \in 0..Len(bytes) PROVE Genuine(c, journal \o Lost(bytes, n))
    <2>1. IsBytes(Lost(bytes, n)) /\ Len(Lost(bytes, n)) = Len(bytes)
      BY <1>1, ZeroFilledBytes
    <2>2. DOMAIN bytes = 1..Len(bytes)
      BY SeqShape DEF IsBytes
    <2>3. \A i \in 1..Len(bytes) : Lost(bytes, n)[i] \in {bytes[i], Zero}
      BY <2>2 DEF Lost
    <2>4. Len(bytes) <= Len(bytes)
      BY <1>1
    <2> QED
      BY <1>6, <2>1, <2>3, <2>4
  <1> QED
    BY <1>5, <1>7, <1>8 DEF AppendToJournal, Survive

(* A prefix of genuine bytes that parses is the run's own prefix.          *)
LEMMA DecodeGenuine ==
  ASSUME NEW c \in Configs, NEW n \in 0..Golden[c].last, NEW bytes, Genuine(c, bytes),
         IsBytes(bytes), Intact(bytes, Len(GoldenLedger(c, n)))
  PROVE  Decode(bytes, Len(GoldenLedger(c, n))) = GoldenLedger(c, n)
  <1> DEFINE g == GoldenLedger(c, n)
             f == Full(c)
             d == Decode(bytes, Len(g))
  <1>1. IsSeq(g) /\ Len(g) \in Nat /\ Len(bytes) \in Nat
    BY GoldenSeq, SeqShape DEF IsBytes
  <1>2. IsSeq(f) /\ Len(f) \in Nat
    BY FullSeq
  <1>3. Len(g) <= Len(f) /\ \A i \in 1..Len(g) : g[i] = f[i]
    BY GoldenGrows DEF Begins
  <1>4. /\ 2 * Len(g) <= Len(bytes)
        /\ \A i \in 1..Len(g) : bytes[2 * i] = <<bytes[2 * i - 1][1], 2>>
    BY DEF Intact
  <1>5. d = [i \in 1..Len(g) |-> d[i]] /\ \A i \in 1..Len(g) : d[i] = bytes[2 * i][1]
    BY DEF Decode
  <1>6. \A i \in 1..(2 * Len(f)) : Encode(f)[i] = <<f[(i + 1) \div 2], IF i % 2 = 1 THEN 1 ELSE 2>>
    BY <1>2, EncodeSeq
  <1>7. \A i \in 1..Len(bytes) : bytes[i] = Zero \/ (i <= 2 * Len(f) /\ bytes[i] = Encode(f)[i])
    BY DEF Genuine
  <1> HIDE DEF d, f, g
  <1>8. ASSUME NEW i \in 1..Len(g) PROVE d[i] = g[i]
    <2>1. /\ 2 * i \in 1..Len(bytes) /\ 2 * i \in 1..(2 * Len(f))
          /\ (2 * i + 1) \div 2 = i
      BY <1>1, <1>2, <1>3, <1>4
    <2>2. bytes[2 * i] # Zero
      BY <1>4 DEF Zero
    <2>3. bytes[2 * i] = Encode(f)[2 * i]
      BY <1>7, <2>1, <2>2
    <2>4. Encode(f)[2 * i][1] = f[i]
      BY <1>6, <2>1
    <2> QED
      BY <1>3, <1>5, <2>3, <2>4
  <1>9. IsSeq(d) /\ Len(d) = Len(g)
    BY <1>1, <1>5, ShapeSeq
  <1> QED
    BY <1>1, <1>8, <1>9, EqualSeqs DEF d, g

(* What is in the file and the BufWriter are the run's own lines.          *)
LEMMA MemoryGenuine ==
  ASSUME CommandsAssumption, ControlInv, JournalInv, LedgerInv, Running
  PROVE  /\ Genuine(cmd.cfg, journal \o buf)
         /\ IsBytes(journal) /\ IsBytes(buf) /\ \A b \in jdisk : IsBytes(b)
  <1>1. cmd.cfg \in Configs /\ sim.events \in 0..Golden[cmd.cfg].last
    BY DEF ControlInv, Exact, CommandsAssumption
  <1>2. journal \o buf = Encode(mem) /\ mem = GoldenLedger(cmd.cfg, sim.events)
    BY DEF JournalInv, LedgerInv, LedgerExact
  <1> QED
    BY <1>1, <1>2, LedgerGenuine DEF JournalInv

LEMMA OneRunSpill ==
  ASSUME ControlInv, JournalInv, OneRunInv(cmd.cfg), Spill
  PROVE  Genuine(cmd.cfg, journal') /\ \A b \in jdisk' : Genuine(cmd.cfg, b)
  <1>1. PICK n \in 1..Len(buf) : AppendToJournal(SubSeq(buf, 1, n))
    BY DEF Spill
  <1>2. /\ Genuine(cmd.cfg, journal \o buf) /\ IsBytes(journal) /\ IsBytes(buf)
    BY MemoryGenuine, CommandsAssumption DEF Spill, OneRunInv, Running
  <1>3. n \in 0..Len(buf)
    BY <1>2, SeqShape DEF IsBytes
  <1> DEFINE bytes == SubSeq(buf, 1, n)
             rest == SubSeq(buf, n + 1, Len(buf))
  <1>4. IsBytes(bytes) /\ IsBytes(rest) /\ bytes \o rest = buf
    BY <1>2, <1>3, SubSeqBytes
  <1> HIDE DEF bytes, rest
  <1>5. (journal \o bytes) \o rest = journal \o buf
    <2>1. IsSeq(journal) /\ IsSeq(bytes) /\ IsSeq(rest)
      BY <1>2, <1>4 DEF IsBytes
    <2>2. (journal \o bytes) \o rest = journal \o (bytes \o rest)
      BY <2>1, ConcatRegroup
    <2> QED
      BY <1>4, <2>2
  <1>6. AppendToJournal(bytes)
    BY <1>1 DEF bytes
  <1>7. Genuine(cmd.cfg, (journal \o bytes) \o rest)
    BY <1>2, <1>5
  <1> QED
    BY <1>2, <1>4, <1>6, <1>7, AppendGenuine DEF OneRunInv

LEMMA OneRunFlush ==
  ASSUME ControlInv, JournalInv, OneRunInv(cmd.cfg), Flush
  PROVE  Genuine(cmd.cfg, journal') /\ \A b \in jdisk' : Genuine(cmd.cfg, b)
  <1>1. AppendToJournal(buf)
    BY DEF Flush
  <1>2. /\ Genuine(cmd.cfg, journal \o buf) /\ IsBytes(journal) /\ IsBytes(buf)
    BY MemoryGenuine, CommandsAssumption DEF Flush, OneRunInv, Running
  <1>3. (journal \o buf) \o << >> = journal \o buf
    <2>1. IsSeq(journal \o buf)
      BY <1>2, ConcatBytes DEF IsBytes
    <2> QED
      BY <2>1, ConcatEmpty
  <1>4. Genuine(cmd.cfg, (journal \o buf) \o << >>)
    BY <1>2, <1>3
  <1> QED
    BY <1>1, <1>2, <1>4, EmptyBytes, AppendGenuine DEF OneRunInv

LEMMA OneRunLoad ==
  ASSUME ControlInv, JournalInv, OneRunInv(cmd.cfg), LoadPrefix
  PROVE  mem' = GoldenLedger(cmd.cfg, sim.events)
  <1>1. pc = "load" /\ mem' = Decode(journal, snap.records) /\ Intact(journal, snap.records)
    BY DEF LoadPrefix
  <1>2. /\ IsBytes(journal) /\ Genuine(cmd.cfg, journal) /\ Tallied(snap)
        /\ snap.tag = "checkpoint" /\ snap.run = cmd.cfg /\ snap.events = sim.events
    BY <1>1 DEF JournalInv, OneRunInv, LedgerInv, HoldsSnapshot
  <1>3. /\ cmd.cfg \in Configs /\ sim.events \in 0..Golden[cmd.cfg].last
        /\ snap.records = Len(GoldenLedger(cmd.cfg, sim.events))
    BY <1>2 DEF Tallied
  <1> QED
    BY <1>1, <1>2, <1>3, DecodeGenuine

LEMMA OneRunInvStep ==
  ASSUME NEW c, \A m \in Commands : m.cfg = c,
         ControlInv, JournalInv, OneRunInv(c), [Next]_vars
  PROVE  OneRunInv(c)'
  <1> USE DEF proc, disk
  <1>c. cmd.cfg = c
    BY DEF ControlInv
  <1>l. LedgerInv'
    BY <1>c, OneRunLoad, LedgerInvStep DEF OneRunInv
  <1>d. Genuine(c, journal) /\ \A b \in jdisk : Genuine(c, b)
    BY DEF OneRunInv
  <1> SUFFICES Genuine(c, journal)' /\ (\A b \in jdisk : Genuine(c, b))'
    BY <1>l DEF OneRunInv
  <1>1. CASE UNCHANGED <<journal, jdisk>>
    BY <1>1, <1>d DEF Genuine
  <1>2. CASE CreateTruncate
    <2>1. Genuine(c, << >>)
      BY NoElements DEF Genuine
    <2> QED
      BY <1>2, <1>d, <2>1 DEF CreateTruncate, Survive
  <1>3. CASE TruncateJournal
    <2>1. snap.jlen \in Nat /\ IsBytes(journal)
      BY <1>3 DEF TruncateJournal, JournalInv, Counted
    <2>2. Len(SetLen(journal, snap.jlen)) = snap.jlen /\ Len(journal) \in Nat
      BY <2>1, ZeroFilledBytes, SeqShape DEF IsBytes
    <2>3. \A i \in 1..snap.jlen :
            SetLen(journal, snap.jlen)[i] = IF i <= Len(journal) THEN journal[i] ELSE Zero
      BY DEF SetLen
    <2>4. \A i \in 1..snap.jlen : i <= Len(journal) => i \in 1..Len(journal)
      BY <2>1, <2>2
    <2>5. Genuine(c, SetLen(journal, snap.jlen))
      BY <1>d, <2>2, <2>3, <2>4 DEF Genuine
    <2> QED
      BY <1>3, <1>d, <2>5 DEF TruncateJournal, Survive
  <1>4. CASE Spill
    BY <1>4, <1>c, OneRunSpill
  <1>5. CASE Flush
    BY <1>5, <1>c, OneRunFlush
  <1>6. CASE SyncJournal
    BY <1>6, <1>d DEF SyncJournal
  <1>7. CASE LosePower
    BY <1>7, <1>d DEF LosePower
  <1>8. ASSUME NEW m \in Commands, Invoke(m) PROVE UNCHANGED <<journal, jdisk>>
    BY <1>8 DEF Invoke
  <1>9. CreateRemove \/ ReadCheckpoint \/ RefuseCheckpoint \/ LoadPrefix \/ RefuseJournal
          => UNCHANGED <<journal, jdisk>>
    BY DEF CreateRemove, ReadCheckpoint, RefuseCheckpoint, LoadPrefix, RefuseJournal
  <1>10. Event \/ Publish \/ SyncDirectory \/ Finish \/ Kill \/ UNCHANGED vars
          => UNCHANGED <<journal, jdisk>>
    BY DEF Event, Publish, SyncDirectory, Finish, Kill, vars
  <1> QED
    BY <1>1, <1>2, <1>3, <1>4, <1>5, <1>6, <1>7, <1>8, <1>9, <1>10 DEF Next, Step

(* A user who only ever works on one run in a directory gets that run's    *)
(* ledger, with any power losses and even without fsync: a resume that     *)
(* does not find the checkpoint's lines refuses, it never prints a wrong   *)
(* result.                                                                 *)
THEOREM OneRunExact ==
  ASSUME NEW c, \A m \in Commands : m.cfg = c
  PROVE  Spec => []LedgerExact
  <1>1. Init => OneRunInv(c)
    <2>1. Genuine(c, << >>)
      BY NoElements DEF Genuine
    <2> QED
      BY <2>1, LedgerInvInit DEF Init, OneRunInv
  <1>2. ControlInv /\ JournalInv /\ OneRunInv(c) /\ [Next]_vars => OneRunInv(c)'
    BY OneRunInvStep
  <1>3. OneRunInv(c) => LedgerExact
    BY DEF OneRunInv, LedgerInv
  <1> QED
    BY <1>1, <1>2, <1>3, ControlInvAlways, JournalInvAlways, PTL DEF Spec

-----------------------------------------------------------------------------
(* Refinement.  A published checkpoint is of the run that works on the     *)
(* directory and at least as far as the one it replaces: further, it is a  *)
(* Save; not further, nothing the abstract run sees has changed.           *)
LEMMA PublishSaves ==
  ASSUME ControlInv, LedgerInv, KilledInv, Publish
  PROVE  [Abstract!Next]_(Abstract!vars)
  <1>1. /\ pc = "rename" /\ ckpt' = snap /\ out' = out
        /\ snap.tag = "checkpoint" /\ snap.run = cmd.cfg /\ snap.events = sim.events
    BY DEF Publish, LedgerInv, HoldsSnapshot
  <1>2. /\ cmd.cfg \in Configs /\ Golden[cmd.cfg].last \in Nat
        /\ sim.events \in 0..Golden[cmd.cfg].last
    BY <1>1, CommandsAssumption, GoldenAssumption DEF ControlInv, Exact, Running
  <1>3. ckpt.tag = "checkpoint" => ckpt.run = cmd.cfg /\ ckpt.events <= sim.events
    BY <1>1 DEF KilledInv, Running
  <1>4. ckpt.tag = "checkpoint" => ckpt.events \in Int
    BY GoldenRun DEF LedgerInv, Tallied
  <1>5. RecordedRun(ckpt)' = cmd.cfg /\ Progress(ckpt)' = sim.events
    BY <1>1 DEF RecordedRun, Progress
  <1>6. CASE ckpt.tag = "checkpoint" /\ ckpt.events = sim.events
    <2>1. RecordedRun(ckpt) = cmd.cfg /\ Progress(ckpt) = sim.events
      BY <1>3, <1>6 DEF RecordedRun, Progress
    <2> QED
      BY <1>1, <1>5, <2>1 DEF Abstract!vars
  <1>7. CASE ~(ckpt.tag = "checkpoint" /\ ckpt.events = sim.events)
    <2>1. RecordedRun(ckpt) \in {NoFile, cmd.cfg} /\ sim.events > Progress(ckpt)
      BY <1>2, <1>3, <1>4, <1>7 DEF RecordedRun, Progress, Never
    <2>2. Abstract!Save(cmd.cfg, sim.events)
      BY <1>1, <1>5, <2>1 DEF Abstract!Save
    <2>3. sim.events \in 0..[c \in Configs |-> Golden[c].last][cmd.cfg]
      BY <1>2
    <2> QED
      BY <1>2, <2>2, <2>3 DEF Abstract!Next
  <1> QED
    BY <1>6, <1>7

(* A command prints its ledger when its terminal checkpoint is in place.   *)
LEMMA FinishReports ==
  ASSUME ControlInv, LedgerInv, KilledInv, Finish
  PROVE  [Abstract!Next]_(Abstract!vars)
  <1>1. /\ pc \in {"boundary", "event"} /\ Done(cmd.cfg, sim) /\ ckpt' = ckpt
        /\ pc = "boundary" => ~SaveDue
        /\ out' = [tag |-> "ledger", run |-> cmd.cfg, records |-> mem]
    BY DEF Finish, Passed, disk
  <1>2. /\ cmd.cfg \in Configs /\ Exact(cmd.cfg, sim) /\ Golden[cmd.cfg].last \in Nat
        /\ mem = GoldenLedger(cmd.cfg, sim.events)
    BY <1>1, CommandsAssumption, GoldenAssumption DEF ControlInv, LedgerInv, LedgerExact, Running
  <1>3. sim.events = Golden[cmd.cfg].last
    BY <1>1, <1>2, ExactDone
  <1>4. last = sim.events
    BY <1>1 DEF SaveDue, KilledInv
  <1>5. ckpt.tag = "checkpoint" /\ ckpt.events = sim.events /\ ckpt.run = cmd.cfg
    BY <1>1, <1>2, <1>3, <1>4 DEF KilledInv, Running, Never
  <1>6. Abstract!Report(cmd.cfg)
    BY <1>1, <1>2, <1>3, <1>5 DEF Abstract!Report, RecordedRun, Progress, GoldenLedger
  <1> QED
    BY <1>2, <1>6 DEF Abstract!Next

LEMMA StepImplements ==
  ASSUME ~PowerLoss, ~RemoveFails, ControlInv, LedgerInv, KilledInv, [Next]_vars
  PROVE  [Abstract!Next]_(Abstract!vars)
  <1>1. CASE UNCHANGED <<ckpt, out>>
    BY <1>1 DEF Abstract!vars, RecordedRun, Progress
  <1>2. CASE CreateRemove
    <2>1. ckpt' = NoFile /\ out' = out
      BY <1>2 DEF CreateRemove
    <2>2. RecordedRun(ckpt)' = NoFile /\ Progress(ckpt)' = -1
      BY <2>1 DEF RecordedRun, Progress, NoFile, Never
    <2> QED
      BY <2>1, <2>2 DEF Abstract!Next, Abstract!StartAfresh
  <1>3. CASE Publish
    BY <1>3, PublishSaves
  <1>4. CASE Finish
    BY <1>4, FinishReports
  <1>5. CASE LosePower
    BY <1>5 DEF LosePower
  <1>6. ASSUME NEW m \in Commands, Invoke(m) PROVE UNCHANGED <<ckpt, out>>
    BY <1>6 DEF Invoke, disk
  <1>7. CreateTruncate \/ ReadCheckpoint \/ RefuseCheckpoint \/ TruncateJournal \/ LoadPrefix
          \/ RefuseJournal \/ Event => UNCHANGED <<ckpt, out>>
    BY DEF CreateTruncate, ReadCheckpoint, RefuseCheckpoint, TruncateJournal, LoadPrefix,
           RefuseJournal, Event, disk
  <1>8. Spill \/ Flush \/ SyncJournal \/ SyncDirectory \/ Kill \/ UNCHANGED vars
          => UNCHANGED <<ckpt, out>>
    BY DEF Spill, Flush, SyncJournal, SyncDirectory, Kill, disk, vars
  <1> QED
    BY <1>1, <1>2, <1>3, <1>4, <1>5, <1>6, <1>7, <1>8 DEF Next, Step

(* Where only processes die, the files and their protocol implement the    *)
(* abstract recoverable run: recorded progress of a job grows until        *)
(* someone starts afresh, and only complete results are printed.           *)
THEOREM KilledRunsImplement ==
  ASSUME ~PowerLoss, ~RemoveFails
  PROVE  Spec => ImplementsRecoverableRun
  <1>1. Init => Abstract!Init
    BY DEF Init, Abstract!Init, RecordedRun, Progress, NoFile, Never
  <1>2. ControlInv /\ (LedgerInv /\ KilledInv) /\ [Next]_vars => [Abstract!Next]_(Abstract!vars)
    BY StepImplements
  <1> QED
    BY <1>1, <1>2, ControlInvAlways, KilledInvAlways, PTL
       DEF Spec, ImplementsRecoverableRun, Abstract!Spec

-----------------------------------------------------------------------------
(* Resuming a directory that another run has recorded leaves its journal   *)
(* and its checkpoint alone: all the process can do is refuse.             *)
THEOREM ForeignRunsUntouched ==
  ASSUME ~PowerLoss, ~RemoveFails
  PROVE  Spec => ForeignRunUntouched
  <1>1. TypeOK /\ (LedgerInv /\ KilledInv) /\ [Next]_vars
          => [cmd.resume /\ pc \notin {"down", "create", "truncate"}
                /\ ckpt.tag = "checkpoint" /\ ckpt.run # cmd.cfg
              => UNCHANGED <<journal, ckpt>>]_vars
    <2> SUFFICES ASSUME TypeOK, LedgerInv, KilledInv, Next, cmd.resume,
                        pc \notin {"down", "create", "truncate"},
                        ckpt.tag = "checkpoint", ckpt.run # cmd.cfg
                 PROVE  UNCHANGED <<journal, ckpt>>
      BY DEF vars
    <2>1. pc = "read"
      <3>1. ~Running
        BY DEF KilledInv
      <3>2. pc \notin {"setlen", "load"}
        BY DEF KilledInv, LedgerInv, HoldsSnapshot
      <3> QED
        BY <3>1, <3>2 DEF TypeOK, Running
    <2>2. ReadCheckpoint \/ RefuseCheckpoint \/ Kill
      BY <2>1 DEF Next, Invoke, Step, CreateRemove, CreateTruncate, TruncateJournal, LoadPrefix,
         RefuseJournal, Event, Passed, Flush, SyncJournal, Publish, SyncDirectory, Finish, Spill,
         LosePower
    <2> QED
      BY <2>2 DEF ReadCheckpoint, RefuseCheckpoint, Kill, disk
  <1> QED
    BY <1>1, TypeCorrect, KilledInvAlways, PTL DEF Spec, ForeignRunUntouched

-----------------------------------------------------------------------------
(* A user who always resumes, on a machine that can lose power.  A command *)
(* starts afresh only where no checkpoint is visible, and the process is   *)
(* never behind the visible checkpoint.                                    *)
Numbered(cp) == cp.tag = "checkpoint" => cp.events \in Nat

ResumeInv ==
  /\ \A cp \in cdisk : Numbered(cp)
  /\ pc \in {"create", "truncate"} => ckpt = NoFile
  /\ HoldsSnapshot => snap.tag = "checkpoint" /\ snap.events = sim.events
  /\ Running \/ Resuming => Progress(ckpt) <= sim.events

LEMMA NoFileProgress == Numbered(NoFile) /\ Progress(NoFile) = -1
  BY DEF Numbered, Progress, NoFile, Never

LEMMA ProgressIsInt == ASSUME NEW cp, Numbered(cp) PROVE Progress(cp) \in Int /\ -1 <= Progress(cp)
  BY DEF Numbered, Progress, Never

LEMMA ResumeInvStep ==
  ASSUME Fsync, \A m \in Commands : m.resume, TypeOK, TypeOK', ControlInv, ControlInv',
         ResumeInv, [Next]_vars
  PROVE  ResumeInv'
  <1> USE DEF ResumeInv, Running, Resuming, HoldsSnapshot, proc, disk
  <1>e. Running \/ Resuming => sim.events \in Nat
    BY ExactIsRunning, CommandsAssumption DEF ControlInv
  <1>f. (Running \/ Resuming)' => sim'.events \in Nat
    BY ExactIsRunning, CommandsAssumption DEF ControlInv
  <1>p. Numbered(ckpt) /\ Progress(ckpt) \in Int
    BY ProgressIsInt DEF TypeOK
  <1>1. ASSUME NEW m \in Commands, Invoke(m) PROVE ResumeInv'
    BY <1>1 DEF Invoke
  <1>2. CASE CreateRemove
    BY <1>2, NoFileProgress DEF CreateRemove, Survive
  <1>3. CASE CreateTruncate
    BY <1>3, <1>f, NoFileProgress DEF CreateTruncate
  <1>4. CASE ReadCheckpoint
    <2>1. ckpt.tag = "checkpoint" /\ snap' = ckpt /\ sim'.events = ckpt.events
      BY <1>4, RestoreEvents DEF ReadCheckpoint, Resumable
    <2>2. Progress(ckpt) = ckpt.events /\ ckpt.events <= ckpt.events
      BY <1>p, <2>1 DEF Progress
    <2> QED
      BY <1>4, <2>1, <2>2 DEF ReadCheckpoint
  <1>5. CASE RefuseCheckpoint
    BY <1>5 DEF RefuseCheckpoint, Halt
  <1>6. CASE TruncateJournal
    BY <1>6 DEF TruncateJournal
  <1>7. CASE LoadPrefix
    BY <1>7 DEF LoadPrefix
  <1>8. CASE RefuseJournal
    BY <1>8 DEF RefuseJournal, Halt
  <1>9. CASE Event
    <2>1. /\ pc \in {"boundary", "event"} /\ ~Done(cmd.cfg, sim)
          /\ sim' = Wake(cmd.cfg, sim, DrawAt(cmd.cfg, sim)).sim
      BY <1>9 DEF Event, Passed
    <2>2. sim'.events = sim.events + 1
      BY <2>1, CommandsAssumption, ExactWake DEF ControlInv
    <2>3. Progress(ckpt) <= sim'.events
      BY <1>e, <1>p, <2>1, <2>2
    <2> QED
      BY <1>9, <2>1, <2>3 DEF Event
  <1>10. CASE Spill
    BY <1>10 DEF Spill
  <1>11. CASE Flush
    BY <1>11 DEF Flush
  <1>12. CASE SyncJournal
    BY <1>12 DEF SyncJournal, Snapshot
  <1>13. CASE Publish
    <2>1. /\ pc = "rename" /\ ckpt' = snap /\ cdisk' = Survive(cdisk, snap)
          /\ sim' = sim /\ snap' = snap
      BY <1>13 DEF Publish
    <2>2. Numbered(snap) /\ Progress(snap) = sim.events /\ sim.events <= sim.events
      BY <1>e, <2>1 DEF Numbered, Progress
    <2> QED
      BY <1>13, <2>1, <2>2 DEF Publish, Survive
  <1>14. CASE SyncDirectory
    BY <1>14, <1>p DEF SyncDirectory
  <1>15. CASE Finish
    BY <1>15 DEF Finish, Halt
  <1>16. CASE Kill
    BY <1>16 DEF Kill, Halt
  <1>17. CASE LosePower
    BY <1>17 DEF LosePower, Halt
  <1>18. CASE UNCHANGED vars
    BY <1>18 DEF vars
  <1> QED
    BY <1>1, <1>2, <1>3, <1>4, <1>5, <1>6, <1>7, <1>8, <1>9, <1>10, <1>11, <1>12, <1>13,
       <1>14, <1>15, <1>16, <1>17, <1>18 DEF Next, Step

LEMMA ResumeInvAlways ==
  ASSUME Fsync, \A m \in Commands : m.resume
  PROVE  Spec => []ResumeInv
  <1>1. Init => ResumeInv
    BY NoFileProgress DEF Init, ResumeInv, Running, Resuming, HoldsSnapshot
  <1>2. TypeOK /\ TypeOK' /\ ControlInv /\ ControlInv' /\ ResumeInv /\ [Next]_vars => ResumeInv'
    BY ResumeInvStep
  <1> QED
    BY <1>1, <1>2, TypeCorrect, ControlInvAlways, PTL DEF Spec

(* Progress that was made durable stays: whatever checkpoint a power loss  *)
(* may leave after a step, one that is no further could be left before it. *)
THEOREM CommittedProgressKept ==
  ASSUME Fsync, \A m \in Commands : m.resume
  PROVE  Spec => CommittedNeverLost
  <1>1. TypeOK /\ ControlInv /\ ResumeInv /\ [Next]_vars
          => [\A cp \in cdisk' : \E old \in cdisk : Progress(old) <= Progress(cp)]_vars
    <2> SUFFICES ASSUME TypeOK, ControlInv, ResumeInv, Next, NEW cp \in cdisk'
                 PROVE  \E old \in cdisk : Progress(old) <= Progress(cp)
      OBVIOUS
    <2>1. \A old \in cdisk : Progress(old) <= Progress(old)
      BY ProgressIsInt DEF ResumeInv
    <2>2. ckpt \in cdisk
      BY DEF TypeOK
    <2>3. CASE cp \in cdisk
      BY <2>1, <2>3
    <2>4. CASE CreateRemove
      <3>1. ckpt = NoFile
        BY <2>4 DEF CreateRemove, ResumeInv
      <3>2. cp \in cdisk \cup {NoFile}
        BY <2>2, <2>4 DEF CreateRemove, Survive
      <3> QED
        BY <2>2, <2>3, <3>1, <3>2
    <2>5. CASE Publish
      <3>1. pc = "rename" /\ cdisk' = Survive(cdisk, snap)
        BY <2>5 DEF Publish
      <3>2. Progress(snap) = sim.events /\ Progress(ckpt) <= sim.events
        BY <3>1 DEF ResumeInv, HoldsSnapshot, Running, Progress
      <3>3. cp \in cdisk \cup {snap}
        BY <3>1 DEF Survive
      <3> QED
        BY <2>2, <2>3, <3>2, <3>3
    <2>6. CASE SyncDirectory \/ LosePower
      BY <2>1, <2>2, <2>6 DEF SyncDirectory, LosePower
    <2>7. (\E m \in Commands : Invoke(m)) => cdisk' = cdisk
      BY DEF Invoke, disk
    <2>8. CreateTruncate \/ ReadCheckpoint \/ RefuseCheckpoint \/ TruncateJournal \/ LoadPrefix
            \/ RefuseJournal \/ Event \/ Finish => cdisk' = cdisk
      BY DEF CreateTruncate, ReadCheckpoint, RefuseCheckpoint, TruncateJournal, LoadPrefix,
             RefuseJournal, Event, Finish, disk
    <2>9. Spill \/ Flush \/ SyncJournal \/ Kill => cdisk' = cdisk
      BY DEF Spill, Flush, SyncJournal, Kill, disk
    <2> QED
      BY <2>3, <2>4, <2>5, <2>6, <2>7, <2>8, <2>9 DEF Next, Step
  <1> QED
    BY <1>1, TypeCorrect, ControlInvAlways, ResumeInvAlways, PTL DEF Spec, CommittedNeverLost

-----------------------------------------------------------------------------
(* One run in a directory of its own, always resumed, with fsync.  Every   *)
(* checkpoint that may survive finds its lines in every journal that may   *)
(* survive, because the journal is synced before a checkpoint counts it,   *)
(* and what a resume cuts off is behind every surviving checkpoint.        *)
Behind(c, cp) == cp.tag = "checkpoint" => cp.run = c /\ cp.events <= Progress(ckpt)

PowerInv(c) ==
  /\ \A cp \in cdisk : Behind(c, cp)
  /\ \A cp \in cdisk, bytes \in jdisk : Covers(bytes, cp)
  /\ pc = "rename" => \A bytes \in jdisk : Covers(bytes, snap)
  /\ pc \in {"setlen", "load"} => snap = ckpt

(* Later ledgers are no shorter.                                           *)
LEMMA GoldenMonotone ==
  ASSUME NEW c \in Configs, NEW m \in 0..Golden[c].last, NEW n \in 0..Golden[c].last, m <= n
  PROVE  Len(GoldenLedger(c, m)) <= Len(GoldenLedger(c, n))
  <1> DEFINE T == {k \in m..Golden[c].last : ~(Len(GoldenLedger(c, m)) <= Len(GoldenLedger(c, k)))}
  <1>0. Golden[c].last \in Nat
    BY GoldenAssumption
  <1>1. SUFFICES ASSUME T # {} PROVE FALSE
    <2>1. n \in m..Golden[c].last
      BY <1>0
    <2> QED
      BY <1>1, <2>1
  <1>2. PICK x \in T : \A y \in T : x <= y
    <2>1. T \subseteq Nat
      BY <1>0
    <2> HIDE DEF T
    <2> QED
      BY <1>1, <2>1, LeastElement
  <1>3. \A k \in 0..Golden[c].last : IsSeq(GoldenLedger(c, k)) /\ Len(GoldenLedger(c, k)) \in Nat
    BY GoldenSeq, SeqShape
  <1>4. x # m
    <2>1. Len(GoldenLedger(c, m)) <= Len(GoldenLedger(c, m))
      BY <1>3
    <2> QED
      BY <1>2, <2>1
  <1>5. /\ x - 1 \in m..Golden[c].last /\ x - 1 \in 0..(Golden[c].last - 1)
        /\ x - 1 + 1 = x /\ ~(x <= x - 1) /\ x - 1 \in 0..Golden[c].last
    BY <1>0, <1>2, <1>4
  <1>6. Len(GoldenLedger(c, m)) <= Len(GoldenLedger(c, x - 1))
    <2>1. x - 1 \notin T
      BY <1>2, <1>5
    <2> QED
      BY <1>5, <2>1
  <1>7. PICK recs : IsSeq(recs) /\ GoldenLedger(c, x - 1 + 1) = GoldenLedger(c, x - 1) \o recs
    BY <1>5, GoldenStep
  <1>8. /\ Len(GoldenLedger(c, x)) = Len(GoldenLedger(c, x - 1)) + Len(recs)
        /\ Len(recs) \in Nat
    BY <1>3, <1>5, <1>7, ConcatSeq, SeqShape
  <1>9. Len(GoldenLedger(c, m)) <= Len(GoldenLedger(c, x))
    BY <1>3, <1>5, <1>6, <1>8
  <1> QED
    BY <1>2, <1>9

(* What any append leaves behind still covers what was covered before.     *)
LEMMA AppendCovers ==
  ASSUME NEW cp, Tallied(cp), NEW bytes, IsBytes(bytes), IsBytes(journal),
         journal \in jdisk, \A b \in jdisk : Covers(b, cp), AppendToJournal(bytes)
  PROVE  \A b \in jdisk' : Covers(b, cp)
  <1>1. Len(bytes) \in Nat
    BY SeqShape DEF IsBytes
  <1>2. \A part : IsBytes(part) => Covers(journal \o part, cp)
    BY CoversGrown
  <1>3. \A n \in 0..Len(bytes) : IsBytes(SubSeq(bytes, 1, n)) /\ IsBytes(Lost(bytes, n))
    <2> TAKE n \in 0..Len(bytes)
    <2>1. n \in Nat
      BY <1>1
    <2> QED
      BY <2>1, SubSeqBytes, ZeroFilledBytes
  <1> QED
    BY <1>2, <1>3 DEF AppendToJournal, Survive

(* Cutting the journal at the visible checkpoint keeps what every          *)
(* surviving one counts.                                                   *)
LEMMA CutCovers ==
  ASSUME NEW c, TypeOK, JournalInv, LedgerInv, PowerInv(c), TruncateJournal, NEW cp \in cdisk
  PROVE  Covers(SetLen(journal, snap.jlen), cp)
  <1>1. /\ snap = ckpt /\ snap.tag = "checkpoint" /\ Tallied(snap) /\ Tallied(cp)
        /\ snap.jlen \in Nat /\ IsBytes(journal)
        /\ Covers(journal, cp) /\ Covers(journal, snap)
    BY DEF TruncateJournal, LedgerInv, PowerInv, JournalInv, Counted, HoldsSnapshot, TypeOK
  <1>2. CASE cp.tag = "checkpoint"
    <2>1. snap.run = c /\ cp.run = c /\ cp.events <= snap.events
      BY <1>1, <1>2 DEF PowerInv, Behind, TypeOK, Progress
    <2>2. Len(GoldenLedger(c, cp.events)) <= Len(GoldenLedger(c, snap.events))
      BY <1>1, <1>2, <2>1, GoldenMonotone DEF Tallied
    <2>3. /\ Len(GoldenLedger(c, cp.events)) \in Nat /\ Len(GoldenLedger(c, snap.events)) \in Nat
      BY <1>1, <1>2, <2>1, GoldenSeq, SeqShape DEF Tallied
    <2>4. /\ cp.jlen = 2 * Len(GoldenLedger(c, cp.events))
          /\ snap.jlen = 2 * Len(GoldenLedger(c, snap.events))
      BY <1>1, <1>2, <2>1 DEF Covers
    <2>5. cp.jlen <= snap.jlen
      BY <2>2, <2>3, <2>4
    <2> QED
      BY <1>1, <2>5, CoversCut
  <1>3. CASE cp.tag # "checkpoint"
    BY <1>3 DEF Covers
  <1> QED
    BY <1>2, <1>3

LEMMA PowerInvStep ==
  ASSUME Fsync, NEW c, \A m \in Commands : m.cfg = c,
         TypeOK, ControlInv, JournalInv, LedgerInv, ResumeInv, PowerInv(c), [Next]_vars
  PROVE  PowerInv(c)'
  <1> USE DEF PowerInv, Running, HoldsSnapshot, proc, disk
  <1>c. cmd.cfg = c
    BY DEF ControlInv
  <1>t. journal \in jdisk /\ ckpt \in cdisk
    BY DEF TypeOK
  <1>b. IsBytes(journal) /\ (Running => IsBytes(buf)) /\ \A cp \in cdisk : Tallied(cp)
    BY DEF JournalInv, LedgerInv
  <1>n. \A bytes : Covers(bytes, NoFile)
    BY NoFileCovered
  <1>1. ASSUME NEW m \in Commands, Invoke(m) PROVE PowerInv(c)'
    BY <1>1 DEF Invoke, Behind
  <1>2. CASE CreateRemove
    <2>1. ckpt = NoFile /\ ckpt' = NoFile
      BY <1>2 DEF CreateRemove, ResumeInv
    <2> QED
      BY <1>2, <1>t, <2>1 DEF CreateRemove, Survive, Behind
  <1>3. CASE CreateTruncate
    <2>1. ckpt = NoFile /\ Progress(ckpt) = -1
      BY <1>3, NoFileProgress DEF CreateTruncate, ResumeInv
    <2>2. \A cp \in cdisk : cp.tag # "checkpoint"
      BY <2>1 DEF Behind, ResumeInv, Numbered
    <2>3. \A bytes : \A cp \in cdisk : Covers(bytes, cp)
      BY <2>2 DEF Covers
    <2> QED
      BY <1>3, <2>3 DEF CreateTruncate, Behind
  <1>4. CASE ReadCheckpoint
    BY <1>4 DEF ReadCheckpoint, Behind
  <1>5. CASE RefuseCheckpoint
    BY <1>5 DEF RefuseCheckpoint, Halt, Behind
  <1>6. CASE TruncateJournal
    <2>1. \A cp \in cdisk : Covers(SetLen(journal, snap.jlen), cp)
      BY <1>6, CutCovers
    <2>2. /\ journal' = SetLen(journal, snap.jlen) /\ jdisk' \subseteq jdisk \cup {journal'}
          /\ UNCHANGED <<ckpt, cdisk, snap>> /\ pc = "setlen" /\ pc' = "load"
      BY <1>6 DEF TruncateJournal, Survive
    <2> QED
      BY <2>1, <2>2 DEF Behind
  <1>7. CASE LoadPrefix
    BY <1>7 DEF LoadPrefix, Behind
  <1>8. CASE RefuseJournal
    BY <1>8 DEF RefuseJournal, Halt, Behind
  <1>9. CASE Event
    BY <1>9 DEF Event, Behind
  <1>10. CASE Spill
    <2>1. PICK n \in 1..Len(buf) : AppendToJournal(SubSeq(buf, 1, n))
      BY <1>10 DEF Spill
    <2>2. n \in 0..Len(buf)
      BY <1>10, <1>b, SeqShape DEF Spill, IsBytes
    <2>3. IsBytes(SubSeq(buf, 1, n))
      BY <1>10, <1>b, <2>2, SubSeqBytes DEF Spill
    <2>4. \A cp \in cdisk : \A bytes \in jdisk' : Covers(bytes, cp)
      BY <1>b, <1>t, <2>1, <2>3, AppendCovers
    <2> QED
      BY <1>10, <2>4 DEF Spill, Behind
  <1>11. CASE Flush
    <2>1. AppendToJournal(buf) /\ IsBytes(buf)
      BY <1>11, <1>b DEF Flush
    <2>2. \A cp \in cdisk : \A bytes \in jdisk' : Covers(bytes, cp)
      BY <1>b, <1>t, <2>1, AppendCovers
    <2> QED
      BY <1>11, <2>2 DEF Flush, Behind
  <1>12. CASE SyncJournal
    BY <1>12, <1>t, SnapshotCovered DEF SyncJournal, Behind
  <1>13. CASE Publish
    <2>1. /\ pc = "rename" /\ pc' = "syncdir" /\ ckpt' = snap /\ cdisk' = Survive(cdisk, snap)
          /\ jdisk' = jdisk /\ snap' = snap
      BY <1>13 DEF Publish
    <2>2. /\ snap.tag = "checkpoint" /\ snap.run = c /\ snap.events = sim.events
          /\ Progress(ckpt) <= sim.events /\ Progress(snap) = sim.events
      BY <1>c, <2>1 DEF LedgerInv, ResumeInv, Progress
    <2>3. sim.events \in Nat /\ Progress(ckpt) \in Int
      BY <1>t, <2>1, ProgressIsInt, ExactIsRunning, CommandsAssumption DEF ControlInv, ResumeInv
    <2>4. \A cp \in cdisk : cp.tag = "checkpoint" => cp.run = c /\ cp.events <= sim.events
      BY <2>2, <2>3 DEF Behind, ResumeInv, Numbered
    <2>5. \A cp \in cdisk' : Behind(c, cp)'
      BY <2>1, <2>2, <2>3, <2>4 DEF Behind, Survive
    <2>6. \A cp \in cdisk', bytes \in jdisk' : Covers(bytes, cp)
      BY <2>1 DEF Survive
    <2> QED
      BY <2>1, <2>5, <2>6
  <1>14. CASE SyncDirectory
    BY <1>14, <1>t DEF SyncDirectory, Behind
  <1>15. CASE Finish
    BY <1>15 DEF Finish, Halt, Behind
  <1>16. CASE Kill
    BY <1>16 DEF Kill, Halt, Behind
  <1>17. CASE LosePower
    <2>1. /\ pc' = "down" /\ ckpt' \in cdisk /\ cdisk' = {ckpt'} /\ journal' \in jdisk /\ jdisk' = {journal'}
      BY <1>17 DEF LosePower, Halt
    <2>2. ckpt'.tag = "checkpoint" => ckpt'.run = c /\ ckpt'.events <= Progress(ckpt')
      BY <2>1 DEF Behind, ResumeInv, Numbered, Progress
    <2> QED
      BY <2>1, <2>2 DEF Behind
  <1>18. CASE UNCHANGED vars
    BY <1>18 DEF vars, Behind
  <1> QED
    BY <1>1, <1>2, <1>3, <1>4, <1>5, <1>6, <1>7, <1>8, <1>9, <1>10, <1>11, <1>12, <1>13,
       <1>14, <1>15, <1>16, <1>17, <1>18 DEF Next, Step

(* What --fsync is for: after any power losses the checkpoint that is left *)
(* finds every line it counts in the journal that is left, so a run that   *)
(* is always resumed is never refused its own files.                       *)
THEOREM PowerLossCovered ==
  ASSUME Fsync, NEW c, \A m \in Commands : m.resume /\ m.cfg = c
  PROVE  Spec => []CheckpointCovered
  <1>1. Init => OneRunInv(c) /\ PowerInv(c)
    <2>1. Genuine(c, << >>)
      BY NoElements DEF Genuine
    <2> QED
      BY <2>1, LedgerInvInit, NoFileCovered DEF Init, OneRunInv, PowerInv, Behind, NoFile
  <1>2. TypeOK /\ ControlInv /\ JournalInv /\ ResumeInv /\ (OneRunInv(c) /\ PowerInv(c)) /\ [Next]_vars
          => (OneRunInv(c) /\ PowerInv(c))'
    BY OneRunInvStep, PowerInvStep DEF OneRunInv
  <1>3. TypeOK /\ PowerInv(c) => CheckpointCovered
    BY DEF TypeOK, PowerInv, CheckpointCovered
  <1>4. Spec => []ResumeInv
    BY ResumeInvAlways
  <1> QED
    BY <1>1, <1>2, <1>3, <1>4, TypeCorrect, ControlInvAlways, JournalInvAlways, PTL DEF Spec
=============================================================================
