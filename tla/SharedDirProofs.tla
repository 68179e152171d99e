---------------------------- MODULE SharedDirProofs ----------------------------
(***************************************************************************)
(* Proofs about processes that share a run directory, for any number of    *)
(* them, runs of any length, any snapshot interval and any number of       *)
(* commands and kills.                                                     *)
(***************************************************************************)
EXTENDS SharedDir, SeqFacts

-----------------------------------------------------------------------------
(* The sums of the first records: the recursive function exists.           *)
Sums(f, n) == f = [m \in 0..n |-> IF m = 0 THEN 0 ELSE f[m - 1] + Emits[m]]

LEMMA SumsExist ==
  ASSUME NEW n \in Nat
  PROVE  \E f : Sums(f, n)
  <1> DEFINE T == {m \in Nat : ~\E f : Sums(f, m)}
  <1>1. SUFFICES ASSUME T # {} PROVE FALSE
    OBVIOUS
  <1>2. PICK x \in T : \A y \in T : x <= y
    BY <1>1, LeastElement
  <1>3. x # 0
    <2> DEFINE e == [m \in 0..0 |-> 0]
    <2>1. Sums(e, 0)
      BY DEF Sums
    <2> QED
      BY <2>1
  <1>4. x - 1 \in Nat /\ x - 1 \notin T
    BY <1>2, <1>3
  <1>5. PICK f : Sums(f, x - 1)
    BY <1>4
  <1> DEFINE g == [m \in 0..x |-> IF m < x THEN f[m] ELSE f[m - 1] + Emits[m]]
  <1>6. ASSUME NEW m \in 0..x
        PROVE  g[m] = IF m = 0 THEN 0 ELSE g[m - 1] + Emits[m]
    <2>1. m < x => m \in 0..(x - 1)
      BY <1>4
    <2>2. m < x => f[m] = IF m = 0 THEN 0 ELSE f[m - 1] + Emits[m]
      BY <1>5, <2>1 DEF Sums
    <2>3. m # 0 => m - 1 \in 0..x /\ m - 1 < x
      BY <1>4
    <2> QED
      BY <1>3, <2>2, <2>3
  <1>7. Sums(g, x)
    BY <1>6 DEF Sums
  <1> QED
    BY <1>7

LEMMA LinesFacts ==
  /\ LastEvent \in Nat /\ Lines(0) = 0
  /\ \A n \in 0..LastEvent : Lines(n) \in Nat
  /\ \A n \in 0..(LastEvent - 1) :
       Emits[n + 1] \in Nat /\ Lines(n + 1) = Lines(n) + Emits[n + 1]
  <1> DEFINE F == CHOOSE f : Sums(f, LastEvent)
  <1>1. LastEvent \in Nat /\ \A n \in 1..LastEvent : Emits[n] \in Nat
    BY SharingAssumption DEF LastEvent
  <1>2. Sums(F, LastEvent)
    BY <1>1, SumsExist
  <1>3. \A n : Lines(n) = F[n]
    BY DEF Lines, Sums, LastEvent
  <1> HIDE DEF F
  <1>4. ASSUME NEW n \in 0..LastEvent
        PROVE  F[n] = IF n = 0 THEN 0 ELSE F[n - 1] + Emits[n]
    BY <1>2 DEF Sums
  <1>5. F[0] = 0
    BY <1>1, <1>4
  <1> DEFINE T == {m \in Nat : m \in 0..LastEvent /\ F[m] \notin Nat}
  <1>6. T = {}
    <2>1. SUFFICES ASSUME T # {} PROVE FALSE
      OBVIOUS
    <2>2. PICK x \in T : \A y \in T : x <= y
      BY <2>1, LeastElement
    <2>3. x # 0
      BY <1>5, <2>2
    <2>4. x - 1 \in Nat /\ x - 1 \in 0..LastEvent /\ x \in 1..LastEvent /\ x - 1 \notin T
      BY <1>1, <2>2, <2>3
    <2>5. F[x - 1] \in Nat /\ Emits[x] \in Nat
      BY <1>1, <2>4
    <2>6. F[x] = F[x - 1] + Emits[x]
      BY <1>4, <2>2, <2>3
    <2> QED
      BY <2>2, <2>5, <2>6
  <1>7. \A n \in 0..LastEvent : F[n] \in Nat
    BY <1>1, <1>6
  <1>8. ASSUME NEW n \in 0..(LastEvent - 1)
        PROVE  Emits[n + 1] \in Nat /\ F[n + 1] = F[n] + Emits[n + 1]
    <2>1. n + 1 \in 1..LastEvent /\ n + 1 \in 0..LastEvent /\ n + 1 # 0 /\ n + 1 - 1 = n
      BY <1>1
    <2> QED
      BY <1>1, <1>4, <2>1
  <1> QED
    BY <1>1, <1>3, <1>5, <1>7, <1>8

LEMMA GoldenFacts ==
  ASSUME NEW n \in 0..LastEvent
  PROVE  IsSeq(Golden(n)) /\ Len(Golden(n)) = Lines(n) /\ \A i \in 1..Lines(n) : Golden(n)[i] = i
  <1>1. Lines(n) \in Nat
    BY LinesFacts
  <1>2. Golden(n) = [i \in 1..Lines(n) |-> Golden(n)[i]]
    BY DEF Golden
  <1> QED
    BY <1>1, <1>2, ShapeSeq DEF Golden

-----------------------------------------------------------------------------
(* The type invariant.  A sound state or checkpoint is that of some event  *)
(* of the run, with as many to come as the run has left.                   *)
Places == {"down", "remove", "removetmp", "truncate", "read", "setlen", "load",
           "boundary", "measure", "open", "write", "rename", "event"}
Byte == Nat \X (0..2)
Placed(x) == x.sound => x.events \in 0..LastEvent /\ x.left = LastEvent - x.events
Checkpoints ==
  {c \in [tag : {"checkpoint"}, sound : BOOLEAN, events : Nat, left : Nat, records : Nat,
          jlen : Nat] : Placed(c)}
Files == {NoFile, Begun, Torn} \cup Checkpoints
State ==
  {s \in [pc : Places, sound : BOOLEAN, events : Nat, left : Nat, mem : Seq(Nat), buf : Seq(Byte),
          at : Nat, last : Nat \cup {Never}, snap : Files, file : Names] : Placed(s)}
Ledgers == [clean : BOOLEAN, records : Seq(Nat)]

SharedTypeOK ==
  /\ proc \in [Process -> State]
  /\ journal \in Seq(Byte) /\ tmp \in Files /\ ckpt \in Files
  /\ clean \in BOOLEAN /\ printed \subseteq Ledgers
  /\ commands \in Nat /\ kills \in Nat

(* Its strengthening: a process that has not begun with a run holds        *)
(* nothing, and one that saves or resumes holds a checkpoint.              *)
Resting == {"down", "remove", "removetmp", "truncate", "read"}
ProcInv(s) ==
  /\ s.pc \in Resting => s = [Idle EXCEPT !.pc = s.pc]
  /\ s.pc \in {"setlen", "load", "open", "write"} => s.snap \in Checkpoints

ProcsOK == proc \in [Process -> State] /\ \A p \in Process : ProcInv(proc[p])
DirOK == journal \in Seq(Byte) /\ tmp \in Files /\ ckpt \in Files
RestOK == clean \in BOOLEAN /\ printed \subseteq Ledgers /\ commands \in Nat /\ kills \in Nat
SharedInv == ProcsOK /\ DirOK /\ RestOK

(* What is done to the journal keeps it a sequence of bytes.               *)
LEMMA SetLenTyped ==
  ASSUME NEW b \in Seq(Byte), NEW n \in Nat
  PROVE  SetLen(b, n) \in Seq(Byte)
  <1>1. Zero \in Byte
    BY DEF Zero, Byte
  <1>2. \A i \in 1..n : (IF i <= Len(b) THEN b[i] ELSE Zero) \in Byte
    BY <1>1
  <1> QED
    BY <1>2 DEF SetLen

LEMMA WrittenAtTyped ==
  ASSUME NEW b \in Seq(Byte), NEW at \in Nat, NEW new \in Seq(Byte)
  PROVE  WrittenAt(b, at, new) \in Seq(Byte)
  <1> DEFINE n == Max({Len(b), at + Len(new)})
  <1>1. Zero \in Byte /\ Len(b) \in Nat /\ Len(new) \in Nat
    BY DEF Zero, Byte
  <1>2. n \in Nat
    <2>1. n = Len(b) \/ n = at + Len(new)
      <3>1. Len(b) <= at + Len(new) \/ at + Len(new) <= Len(b)
        BY <1>1
      <3> QED
        BY <1>1, <3>1 DEF Max
    <2> QED
      BY <1>1, <2>1
  <1> HIDE DEF n
  <1>3. ASSUME NEW i \in 1..n
        PROVE  (IF i \in (at + 1)..(at + Len(new)) THEN new[i - at]
                ELSE IF i <= Len(b) THEN b[i] ELSE Zero) \in Byte
    <2>1. i \in (at + 1)..(at + Len(new)) => i - at \in 1..Len(new)
      BY <1>1
    <2> QED
      BY <1>1, <1>2, <2>1
  <1>4. [i \in 1..n |-> IF i \in (at + 1)..(at + Len(new)) THEN new[i - at]
                        ELSE IF i <= Len(b) THEN b[i] ELSE Zero] \in Seq(Byte)
    BY <1>2, <1>3
  <1> QED
    BY <1>4 DEF WrittenAt, n

LEMMA EncodeTyped ==
  ASSUME NEW recs \in Seq(Nat)
  PROVE  Encode(recs) \in Seq(Byte)
  <1>1. ASSUME NEW i \in 1..(2 * Len(recs))
        PROVE  <<recs[(i + 1) \div 2], 2 - (i % 2)>> \in Byte
    <2>1. (i + 1) \div 2 \in 1..Len(recs) /\ 2 - (i % 2) \in 0..2
      OBVIOUS
    <2> QED
      BY <2>1 DEF Byte
  <1>2. 2 * Len(recs) \in Nat
    OBVIOUS
  <1> QED
    BY <1>1, <1>2 DEF Encode

LEMMA DecodeTyped ==
  ASSUME NEW b \in Seq(Byte), NEW n \in Nat, Lined(b, n)
  PROVE  Decode(b, n) \in Seq(Nat)
  <1>1. ASSUME NEW i \in 1..n
        PROVE  (IF b[2 * i - 1][1] = b[2 * i][1] THEN b[2 * i][1] ELSE 0) \in Nat
    <2>1. 2 * i \in 1..Len(b)
      BY DEF Lined
    <2>2. b[2 * i] \in Byte
      BY <2>1
    <2> QED
      BY <2>2 DEF Byte
  <1> QED
    BY <1>1 DEF Decode

-----------------------------------------------------------------------------
(* How an action changes the processes: p goes to state s, ...             *)
Moved(p, s) == proc' = [proc EXCEPT ![p] = s]

LEMMA MovedOK ==
  ASSUME ProcsOK, NEW p \in Process, NEW s \in State, ProcInv(s), Moved(p, s)
  PROVE  ProcsOK'
  <1>1. proc' \in [Process -> State]
    BY DEF Moved, ProcsOK
  <1>2. ASSUME NEW q \in Process PROVE proc'[q] = s \/ proc'[q] = proc[q]
    BY DEF Moved, ProcsOK
  <1> QED
    BY <1>1, <1>2 DEF ProcsOK

LEMMA IdleOK ==
  ASSUME NEW place \in Resting
  PROVE  [Idle EXCEPT !.pc = place] \in State /\ ProcInv([Idle EXCEPT !.pc = place])
  <1> DEFINE t == [Idle EXCEPT !.pc = place]
  <1>1. /\ t.pc = place /\ t.sound = TRUE /\ t.events = 0 /\ t.left = LastEvent
        /\ t.mem = << >> /\ t.buf = << >> /\ t.at = 0 /\ t.last = Never /\ t.snap = NoFile
        /\ t.file = "none"
    BY DEF Idle
  <1>2. /\ LastEvent \in Nat /\ place \in Places /\ NoFile \in Files /\ "none" \in Names
        /\ << >> \in Seq(Nat) /\ << >> \in Seq(Byte)
    BY LinesFacts DEF Resting, Places, Files, Names
  <1>3. Placed(t)
    BY <1>1, <1>2 DEF Placed
  <1>4. t \in [pc : Places, sound : BOOLEAN, events : Nat, left : Nat, mem : Seq(Nat),
               buf : Seq(Byte), at : Nat, last : Nat \cup {Never}, snap : Files, file : Names]
    BY <1>2 DEF Idle
  <1>5. t = [Idle EXCEPT !.pc = t.pc]
    BY <1>1
  <1> HIDE DEF t
  <1>6. t \in State
    BY <1>3, <1>4 DEF State
  <1>7. ProcInv(t)
    BY <1>1, <1>5 DEF ProcInv, Resting
  <1> QED
    BY <1>6, <1>7 DEF t

LEMMA IdleIsDown == Idle = [Idle EXCEPT !.pc = "down"]
  <1> DEFINE R == [pc : {"down"}, sound : {TRUE}, events : {0}, left : {LastEvent},
                   mem : {<< >>}, buf : {<< >>}, at : {0}, last : {Never}, snap : {NoFile},
                   file : {"none"}]
  <1>1. \A r \in R : r.pc = "down" /\ r = [r EXCEPT !.pc = "down"]
    OBVIOUS
  <1>2. Idle \in R
    BY DEF Idle
  <1> QED
    BY <1>1, <1>2

LEMMA HaltOK ==
  ASSUME ProcsOK, NEW p \in Process, Halt(p)
  PROVE  ProcsOK'
  <1>1. Moved(p, [Idle EXCEPT !.pc = "down"])
    BY IdleIsDown DEF Halt, Update, Moved
  <1>2. "down" \in Resting
    BY DEF Resting
  <1> QED
    BY <1>1, <1>2, IdleOK, MovedOK

(* ... and the open files of the others get the names that map gives them. *)
Followed(p, map, s) ==
  proc' = [q \in Process |-> IF q = p THEN s ELSE [proc[q] EXCEPT !.file = map[proc[q].file]]]

(* What a process holds beside its place and its file.                     *)
SameButPlace(s, t) ==
  /\ t.sound = s.sound /\ t.events = s.events /\ t.left = s.left /\ t.mem = s.mem
  /\ t.buf = s.buf /\ t.at = s.at /\ t.last = s.last /\ t.snap = s.snap

LEMMA FileOK ==
  ASSUME NEW s \in State, ProcInv(s), NEW name \in Names, s.pc \in Resting => name = s.file
  PROVE  /\ [s EXCEPT !.file = name] \in State /\ ProcInv([s EXCEPT !.file = name])
         /\ [s EXCEPT !.file = name].pc = s.pc
  <1> DEFINE t == [s EXCEPT !.file = name]
  <1>1. t.pc = s.pc /\ SameButPlace(s, t) /\ (s.pc \in Resting => t = s)
    BY DEF State, SameButPlace
  <1>2. t \in State
    <2>1. t \in [pc : Places, sound : BOOLEAN, events : Nat, left : Nat, mem : Seq(Nat),
                 buf : Seq(Byte), at : Nat, last : Nat \cup {Never}, snap : Files, file : Names]
      BY DEF State
    <2>2. Placed(s)
      BY DEF State
    <2> HIDE DEF t
    <2>3. Placed(t)
      BY <1>1, <2>2 DEF Placed, SameButPlace
    <2> QED
      BY <2>1, <2>3 DEF State
  <1> HIDE DEF t
  <1>3. ProcInv(t)
    BY <1>1 DEF ProcInv, SameButPlace, Resting
  <1> QED
    BY <1>1, <1>2, <1>3 DEF t

LEMMA FollowedOK ==
  ASSUME ProcsOK, NEW p \in Process, NEW map \in [Names -> Names], map["none"] = "none",
         NEW s \in State, ProcInv(s), Followed(p, map, s)
  PROVE  ProcsOK' /\ proc'[p] = s /\ \A q \in Process \ {p} : proc'[q].pc = proc[q].pc
  <1>1. ASSUME NEW q \in Process
        PROVE  proc'[q] \in State /\ ProcInv(proc'[q]) /\ (q # p => proc'[q].pc = proc[q].pc)
    <2>1. CASE q = p
      BY <2>1 DEF Followed
    <2>2. CASE q # p
      <3>1. proc[q] \in State /\ ProcInv(proc[q]) /\ proc[q].file \in Names
        BY DEF ProcsOK, State
      <3>2. proc[q].pc \in Resting => proc[q].file = "none"
        BY <3>1 DEF ProcInv, Idle
      <3>3. /\ map[proc[q].file] \in Names
            /\ proc[q].pc \in Resting => map[proc[q].file] = proc[q].file
        BY <3>1, <3>2
      <3>4. proc'[q] = [proc[q] EXCEPT !.file = map[proc[q].file]]
        BY <2>2 DEF Followed
      <3> QED
        BY <3>1, <3>3, <3>4, FileOK
    <2> QED
      BY <2>1, <2>2
  <1>2. proc' = [q \in Process |-> proc'[q]] /\ proc'[p] = s
    BY DEF Followed
  <1> QED
    BY <1>1, <1>2 DEF ProcsOK

LEMMA NameMaps ==
  /\ Renamed \in [Names -> Names] /\ Renamed["none"] = "none"
  /\ Unlinked("checkpoint") \in [Names -> Names] /\ Unlinked("checkpoint")["none"] = "none"
  /\ Unlinked("tmp") \in [Names -> Names] /\ Unlinked("tmp")["none"] = "none"
  BY DEF Renamed, Unlinked, Names

(* Going on to another place.                                              *)
LEMMA PlaceOK ==
  ASSUME NEW s \in State, ProcInv(s), NEW place \in Places,
         \/ place \in Resting \cup {"boundary"} /\ s.pc \in Resting
         \/ place = "load" /\ s.pc = "setlen"
         \/ place = "rename" /\ s.pc = "write"
         \/ place = "write" /\ s.pc = "open"
  PROVE  [s EXCEPT !.pc = place] \in State /\ ProcInv([s EXCEPT !.pc = place])
  <1> DEFINE t == [s EXCEPT !.pc = place]
  <1>1. t.pc = place /\ SameButPlace(s, t)
    BY DEF State, SameButPlace
  <1>2. t \in State
    <2>1. t \in [pc : Places, sound : BOOLEAN, events : Nat, left : Nat, mem : Seq(Nat),
                 buf : Seq(Byte), at : Nat, last : Nat \cup {Never}, snap : Files, file : Names]
      BY DEF State
    <2>2. Placed(s)
      BY DEF State
    <2> HIDE DEF t
    <2>3. Placed(t)
      BY <1>1, <2>2 DEF Placed, SameButPlace
    <2> QED
      BY <2>1, <2>3 DEF State
  <1>3. ASSUME place \in Resting, s.pc \in Resting PROVE ProcInv(t)
    <2>1. s = [Idle EXCEPT !.pc = s.pc]
      BY <1>3 DEF ProcInv
    <2>2. t = [Idle EXCEPT !.pc = place]
      BY <2>1 DEF Idle
    <2> QED
      BY <1>3, <2>2, IdleOK
  <1> HIDE DEF t
  <1>4. ASSUME place \notin Resting PROVE ProcInv(t)
    BY <1>1, <1>4 DEF ProcInv, SameButPlace, Resting
  <1> QED
    BY <1>2, <1>3, <1>4 DEF t, Resting

-----------------------------------------------------------------------------
(* What a process finds in its own state.                                  *)
LEMMA OwnState ==
  ASSUME ProcsOK, NEW p \in Process
  PROVE  /\ proc[p] \in State /\ ProcInv(proc[p]) /\ Placed(proc[p])
         /\ proc[p].sound \in BOOLEAN /\ proc[p].events \in Nat /\ proc[p].left \in Nat
         /\ proc[p].mem \in Seq(Nat) /\ proc[p].buf \in Seq(Byte) /\ proc[p].at \in Nat
         /\ proc[p].snap \in Files /\ proc[p].file \in Names /\ proc \in [Process -> State]
  BY DEF ProcsOK, State

LEMMA SharedInit == Init => SharedInv
  <1> SUFFICES ASSUME Init PROVE SharedInv
    OBVIOUS
  <1>1. ProcsOK
    <2>1. Idle = [Idle EXCEPT !.pc = "down"] /\ "down" \in Resting
      BY IdleIsDown DEF Resting
    <2>2. Idle \in State /\ ProcInv(Idle)
      BY <2>1, IdleOK
    <2> QED
      BY <2>2 DEF Init, ProcsOK
  <1> QED
    BY <1>1 DEF SharedInv, Init, DirOK, RestOK, Files

(* Starting, creating and resuming a run.                                  *)
LEMMA InvokeStep ==
  ASSUME SharedInv, NEW p \in Process, NEW resume, Invoke(p, resume)
  PROVE  SharedInv'
  <1> DEFINE place == IF resume /\ ckpt # NoFile THEN "read" ELSE "remove"
  <1>1. place \in Resting
    BY DEF Resting
  <1>2. Moved(p, [Idle EXCEPT !.pc = place])
    BY DEF Invoke, Update, Moved
  <1> HIDE DEF place
  <1>3. ProcsOK'
    BY <1>1, <1>2, IdleOK, MovedOK DEF SharedInv
  <1> QED
    BY <1>3 DEF SharedInv, Invoke, DirOK, RestOK

(* Creating: the step of p, and where it leaves everybody.                 *)
LEMMA CreateStep ==
  ASSUME SharedInv, NEW p \in Process,
         RemoveCheckpoint(p) \/ RemoveTemporary(p) \/ TruncateJournal(p)
  PROVE  /\ SharedInv' /\ SameButPlace(proc[p], proc'[p])
         /\ proc'[p].pc = IF At(p, "remove") THEN "removetmp"
                          ELSE IF At(p, "removetmp") THEN "truncate" ELSE "boundary"
         /\ \A q \in Process \ {p} : proc'[q].pc = proc[q].pc
  <1>1. /\ proc[p] \in State /\ ProcInv(proc[p]) /\ NoFile \in Files
        /\ proc \in [Process -> State]
    BY OwnState DEF SharedInv, Files
  <1>2. ASSUME NEW next \in {"removetmp", "truncate"}, NEW name \in {"checkpoint", "tmp"},
               proc[p].pc \in Resting,
               proc' = [Follow(proc, Unlinked(name)) EXCEPT ![p].pc = next]
        PROVE  /\ ProcsOK' /\ SameButPlace(proc[p], proc'[p]) /\ proc'[p].pc = next
               /\ \A q \in Process \ {p} : proc'[q].pc = proc[q].pc
    <2> DEFINE map == Unlinked(name)
               place == [proc[p] EXCEPT !.pc = next]
               s == [place EXCEPT !.file = map[proc[p].file]]
    <2>1. place \in State /\ ProcInv(place)
      BY <1>1, <1>2, PlaceOK DEF Resting, Places
    <2>2. map \in [Names -> Names] /\ map["none"] = "none"
      BY NameMaps
    <2>3. proc[p].file = "none" /\ place.pc = next /\ SameButPlace(proc[p], place)
          /\ place.file = "none"
      BY <1>1, <1>2 DEF ProcInv, Idle, State, SameButPlace
    <2>4. s = place
      BY <2>1, <2>2, <2>3 DEF State
    <2>5. Followed(p, map, s)
      BY <1>1, <1>2 DEF Follow, Followed, State
    <2> HIDE DEF s, place, map
    <2> QED
      BY <2>1, <2>2, <2>3, <2>4, <2>5, FollowedOK DEF SharedInv
  <1>3. CASE RemoveCheckpoint(p)
    BY <1>1, <1>2, <1>3 DEF RemoveCheckpoint, At, Resting, SharedInv, DirOK, RestOK
  <1>4. CASE RemoveTemporary(p)
    BY <1>1, <1>2, <1>4 DEF RemoveTemporary, At, Resting, SharedInv, DirOK, RestOK, rest
  <1>5. CASE TruncateJournal(p)
    <2> DEFINE s == [proc[p] EXCEPT !.pc = "boundary"]
    <2>1. s \in State /\ ProcInv(s)
      BY <1>1, <1>5, PlaceOK DEF TruncateJournal, At, Resting, Places
    <2>2. Moved(p, s) /\ s.pc = "boundary" /\ SameButPlace(proc[p], s)
      BY <1>1, <1>5 DEF TruncateJournal, Goto, Moved, SameButPlace, State
    <2> HIDE DEF s
    <2>3. ProcsOK' /\ proc'[p] = s /\ \A q \in Process \ {p} : proc'[q] = proc[q]
      BY <1>1, <2>1, <2>2, MovedOK DEF SharedInv, Moved
    <2> QED
      BY <1>5, <2>2, <2>3 DEF TruncateJournal, At, SharedInv, DirOK, RestOK, rest
  <1> QED
    BY <1>3, <1>4, <1>5

LEMMA Stated ==
  ASSUME NEW s, Placed(s),
         s \in [pc : Places, sound : BOOLEAN, events : Nat, left : Nat, mem : Seq(Nat),
               buf : Seq(Byte), at : Nat, last : Nat \cup {Never}, snap : Files, file : Names]
  PROVE  s \in State
  BY DEF State

LEMMA ResumeStep ==
  ASSUME SharedInv, NEW p \in Process,
         ReadCheckpoint(p) \/ RefuseCheckpoint(p) \/ CutJournal(p) \/ LoadPrefix(p) \/ RefuseJournal(p)
  PROVE  SharedInv'
  <1>1. proc[p] \in State /\ ProcInv(proc[p]) /\ NoFile \in Files /\ journal \in Seq(Byte)
    BY OwnState DEF SharedInv, DirOK, Files
  <1>2. CASE ReadCheckpoint(p)
    <2> DEFINE s == [proc[p] EXCEPT !.pc = "setlen", !.snap = ckpt, !.sound = ckpt.sound,
                                    !.events = ckpt.events, !.left = ckpt.left]
    <2>1. ckpt \in Checkpoints
      BY <1>2 DEF ReadCheckpoint, SharedInv, DirOK, Files, NoFile, Begun, Torn
    <2>2. /\ ckpt.sound \in BOOLEAN /\ ckpt.events \in Nat /\ ckpt.left \in Nat /\ Placed(ckpt)
          /\ ckpt \in Files
      BY <2>1 DEF Checkpoints, Files
    <2>3. /\ s.pc = "setlen" /\ s.snap = ckpt /\ s.sound = ckpt.sound /\ s.events = ckpt.events
          /\ s.left = ckpt.left
      BY <1>1 DEF State
    <2>4. s \in [pc : Places, sound : BOOLEAN, events : Nat, left : Nat, mem : Seq(Nat),
                 buf : Seq(Byte), at : Nat, last : Nat \cup {Never}, snap : Files, file : Names]
      BY <1>1, <2>2 DEF State, Places
    <2>5. Moved(p, s)
      BY <1>2 DEF ReadCheckpoint, Update, Moved
    <2> HIDE DEF s
    <2>6. Placed(s)
      BY <2>2, <2>3 DEF Placed
    <2>7. s \in State /\ ProcInv(s)
      BY <2>1, <2>3, <2>4, <2>6, Stated DEF ProcInv, Resting
    <2>8. ProcsOK'
      BY <2>5, <2>7, MovedOK DEF SharedInv
    <2> QED
      BY <1>2, <2>8 DEF ReadCheckpoint, SharedInv, DirOK, RestOK, rest
  <1>3. CASE RefuseCheckpoint(p) \/ RefuseJournal(p)
    <2>1. ProcsOK'
      BY <1>3, HaltOK DEF RefuseCheckpoint, RefuseJournal, SharedInv
    <2> QED
      BY <1>3, <2>1 DEF RefuseCheckpoint, RefuseJournal, SharedInv, DirOK, RestOK, rest
  <1>4. CASE CutJournal(p)
    <2> DEFINE s == [proc[p] EXCEPT !.pc = "load"]
    <2>1. s \in State /\ ProcInv(s)
      BY <1>1, <1>4, PlaceOK DEF CutJournal, At, Places
    <2>2. Moved(p, s)
      BY <1>4 DEF CutJournal, Goto, Moved
    <2>3. proc[p].snap.jlen \in Nat
      BY <1>1, <1>4 DEF CutJournal, At, ProcInv, Checkpoints
    <2>4. journal' \in Seq(Byte)
      BY <1>1, <1>4, <2>3, SetLenTyped DEF CutJournal
    <2> HIDE DEF s
    <2>5. ProcsOK'
      BY <2>1, <2>2, MovedOK DEF SharedInv
    <2> QED
      BY <1>4, <2>4, <2>5 DEF CutJournal, SharedInv, DirOK, RestOK, rest
  <1>5. CASE LoadPrefix(p)
    <2> DEFINE c == proc[p].snap
               mem == Decode(journal, c.records)
               s == [proc[p] EXCEPT !.pc = "boundary", !.mem = mem, !.at = c.jlen,
                                    !.snap = NoFile]
    <2>1. c \in Checkpoints
      BY <1>1, <1>5 DEF LoadPrefix, At, ProcInv
    <2>2. c.records \in Nat /\ c.jlen \in Nat /\ mem \in Seq(Nat)
      BY <1>1, <1>5, <2>1, DecodeTyped DEF LoadPrefix, Checkpoints
    <2>3. Moved(p, s)
      BY <1>5 DEF LoadPrefix, Update, Moved
    <2> HIDE DEF mem, c
    <2>4. /\ s.pc = "boundary" /\ s.sound = proc[p].sound /\ s.events = proc[p].events
          /\ s.left = proc[p].left /\ Placed(proc[p])
      BY <1>1 DEF State
    <2>5. s \in [pc : Places, sound : BOOLEAN, events : Nat, left : Nat, mem : Seq(Nat),
                 buf : Seq(Byte), at : Nat, last : Nat \cup {Never}, snap : Files, file : Names]
      BY <1>1, <2>2 DEF State, Places
    <2> HIDE DEF s
    <2>6. Placed(s)
      BY <2>4 DEF Placed
    <2>7. s \in State /\ ProcInv(s)
      BY <2>4, <2>5, <2>6, Stated DEF ProcInv, Resting
    <2>8. ProcsOK'
      BY <2>3, <2>7, MovedOK DEF SharedInv
    <2> QED
      BY <1>5, <2>8 DEF LoadPrefix, SharedInv, DirOK, RestOK, rest
  <1> QED
    BY <1>2, <1>3, <1>4, <1>5

-----------------------------------------------------------------------------
(* Running, and what it writes.                                            *)
LEMMA GoldenNext ==
  ASSUME NEW n \in 0..(LastEvent - 1)
  PROVE  LET new == [i \in 1..Emits[n + 1] |-> Lines(n) + i]
         IN /\ new \in Seq(Nat) /\ Len(new) = Emits[n + 1]
            /\ Golden(n) \o new = Golden(n + 1)
  <1> DEFINE new == [i \in 1..Emits[n + 1] |-> Lines(n) + i]
  <1>1. /\ Lines(n) \in Nat /\ Emits[n + 1] \in Nat /\ Lines(n + 1) = Lines(n) + Emits[n + 1]
        /\ n \in 0..LastEvent /\ n + 1 \in 0..LastEvent
    BY LinesFacts
  <1>2. new \in Seq(Nat) /\ Len(new) = Emits[n + 1] /\ \A i \in 1..Len(new) : new[i] = Lines(n) + i
    BY <1>1
  <1>3. IsSeq(new)
    BY <1>2, AnySeq
  <1> HIDE DEF new
  <1>4. /\ IsSeq(Golden(n)) /\ Len(Golden(n)) = Lines(n) /\ \A i \in 1..Lines(n) : Golden(n)[i] = i
        /\ IsSeq(Golden(n + 1)) /\ Len(Golden(n + 1)) = Lines(n + 1)
        /\ \A i \in 1..Lines(n + 1) : Golden(n + 1)[i] = i
    BY <1>1, GoldenFacts
  <1> DEFINE q == Golden(n) \o new
  <1>5. /\ IsSeq(q) /\ Len(q) = Lines(n) + Len(new)
        /\ \A i \in 1..(Lines(n) + Len(new)) :
             q[i] = IF i <= Lines(n) THEN Golden(n)[i] ELSE new[i - Lines(n)]
    BY <1>3, <1>4, ConcatSeq
  <1> HIDE DEF q
  <1>6. ASSUME NEW i \in 1..Len(q) PROVE q[i] = Golden(n + 1)[i]
    <2>1. i \in 1..Lines(n + 1) /\ i \in 1..(Lines(n) + Len(new))
      BY <1>1, <1>2, <1>5
    <2>2. CASE i <= Lines(n)
      BY <1>1, <1>4, <1>5, <2>1, <2>2
    <2>3. CASE ~(i <= Lines(n))
      <3>1. i - Lines(n) \in 1..Len(new) /\ Lines(n) + (i - Lines(n)) = i
        BY <1>1, <1>2, <2>1, <2>3
      <3> QED
        BY <1>2, <1>4, <1>5, <2>1, <2>3, <3>1
    <2> QED
      BY <2>2, <2>3
  <1>7. q = Golden(n + 1)
    BY <1>1, <1>2, <1>4, <1>5, <1>6, EqualSeqs
  <1> QED
    BY <1>2, <1>7 DEF new, q

LEMMA ConcatTyped ==
  ASSUME NEW S, NEW s \in Seq(S), NEW t \in Seq(S)
  PROVE  s \o t \in Seq(S) /\ Len(s \o t) = Len(s) + Len(t)
  OBVIOUS

(* What an event of a process emits.                                       *)
Emitted(s) ==
  IF s.sound THEN {[i \in 1..Emits[s.events + 1] |-> Lines(s.events) + i]}
  ELSE {[i \in 1..n |-> 0] : n \in Strays}

LEMMA EmittedTyped ==
  ASSUME NEW s \in State, s.left > 0, NEW new \in Emitted(s)
  PROVE  new \in Seq(Nat) /\ (s.sound => s.events \in 0..(LastEvent - 1))
  <1>1. s.sound => s.events \in 0..(LastEvent - 1)
    BY LinesFacts DEF State, Placed
  <1>2. CASE s.sound
    BY <1>1, <1>2, GoldenNext DEF Emitted
  <1>3. CASE ~s.sound
    <2>1. PICK n \in Strays : new = [i \in 1..n |-> 0]
      BY <1>3 DEF Emitted
    <2>2. n \in Nat
      BY SharingAssumption
    <2> QED
      BY <1>3, <2>1, <2>2
  <1> QED
    BY <1>1, <1>2, <1>3

LEMMA EventStep ==
  ASSUME SharedInv, NEW p \in Process, Event(p)
  PROVE  SharedInv'
  <1>1. /\ proc[p] \in State /\ ProcInv(proc[p]) /\ Placed(proc[p])
        /\ proc[p].mem \in Seq(Nat) /\ proc[p].buf \in Seq(Byte) /\ proc[p].left > 0
        /\ proc[p].events \in Nat /\ proc[p].left \in Nat
    BY OwnState DEF SharedInv, Event
  <1>2. PICK new \in Emitted(proc[p]) :
          Moved(p, [proc[p] EXCEPT !.pc = "boundary", !.events = @ + 1, !.left = @ - 1,
                                   !.mem = @ \o new, !.buf = @ \o Encode(new)])
    BY DEF Event, Emitted, Update, Moved
  <1> DEFINE s == [proc[p] EXCEPT !.pc = "boundary", !.events = @ + 1, !.left = @ - 1,
                                  !.mem = @ \o new, !.buf = @ \o Encode(new)]
  <1>3. new \in Seq(Nat) /\ (proc[p].sound => proc[p].events \in 0..(LastEvent - 1))
    BY <1>1, EmittedTyped
  <1>4. /\ proc[p].mem \o new \in Seq(Nat) /\ proc[p].buf \o Encode(new) \in Seq(Byte)
    BY <1>1, <1>3, EncodeTyped, ConcatTyped
  <1>5. /\ s.pc = "boundary" /\ s.sound = proc[p].sound /\ s.events = proc[p].events + 1
        /\ s.left = proc[p].left - 1
    BY <1>1 DEF State
  <1>6. s \in [pc : Places, sound : BOOLEAN, events : Nat, left : Nat, mem : Seq(Nat),
               buf : Seq(Byte), at : Nat, last : Nat \cup {Never}, snap : Files, file : Names]
    <2>1. proc[p].events + 1 \in Nat /\ proc[p].left - 1 \in Nat
      BY <1>1
    <2> QED
      BY <1>1, <1>4, <2>1 DEF State, Places
  <1>7. Moved(p, s)
    BY <1>2
  <1> HIDE DEF s
  <1>8. Placed(s)
    <2>1. ASSUME proc[p].sound
          PROVE  /\ proc[p].events + 1 \in 0..LastEvent
                 /\ proc[p].left - 1 = LastEvent - (proc[p].events + 1)
      <3>1. proc[p].events \in 0..(LastEvent - 1) /\ proc[p].left = LastEvent - proc[p].events
        BY <1>1, <1>3, <2>1 DEF Placed
      <3>2. LastEvent \in Nat
        BY LinesFacts
      <3> QED
        BY <3>1, <3>2
    <2> QED
      BY <1>5, <2>1 DEF Placed
  <1>9. s \in State /\ ProcInv(s)
    BY <1>5, <1>6, <1>8, Stated DEF ProcInv, Resting
  <1>10. ProcsOK'
    BY <1>7, <1>9, MovedOK DEF SharedInv
  <1> QED
    BY <1>10 DEF Event, SharedInv, DirOK, RestOK, rest

(* Writing n units: what is written, and what stays in the buffer.         *)
LEMMA WriteStep ==
  ASSUME SharedInv, NEW p \in Process, Spill(p) \/ Flush(p)
  PROVE  SharedInv'
  <1>1. /\ proc[p] \in State /\ ProcInv(proc[p]) /\ Placed(proc[p]) /\ journal \in Seq(Byte)
        /\ proc[p].buf \in Seq(Byte) /\ proc[p].at \in Nat
    BY OwnState DEF SharedInv, DirOK
  <1>2. PICK n \in 0..Len(proc[p].buf), place \in {"boundary", "measure"} : Write(p, n, place)
    <2>1. Len(proc[p].buf) \in 0..Len(proc[p].buf)
          /\ \A n \in 1..Len(proc[p].buf) : n \in 0..Len(proc[p].buf)
      BY <1>1
    <2> QED
      BY <2>1 DEF Spill, Flush
  <1> DEFINE first == SubSeq(proc[p].buf, 1, n)
             left == SubSeq(proc[p].buf, n + 1, Len(proc[p].buf))
             s == [proc[p] EXCEPT !.pc = place, !.at = @ + n,
                                  !.buf = SubSeq(@, n + 1, Len(@))]
  <1>3. first \in Seq(Byte) /\ left \in Seq(Byte) /\ proc[p].at + n \in Nat
    <2>1. n \in Nat /\ Len(proc[p].buf) \in Nat
      BY <1>1
    <2> QED
      BY <1>1, <2>1
  <1>4. journal' \in Seq(Byte)
    <2>1. journal' = IF n = 0 THEN journal ELSE WrittenAt(journal, proc[p].at, first)
      BY <1>2 DEF Write
    <2> HIDE DEF first
    <2>2. WrittenAt(journal, proc[p].at, first) \in Seq(Byte)
      BY <1>1, <1>3, WrittenAtTyped
    <2> QED
      BY <1>1, <2>1, <2>2
  <1>5. Moved(p, s)
    BY <1>2 DEF Write, Update, Moved
  <1>6. /\ s.pc = place /\ s.sound = proc[p].sound /\ s.events = proc[p].events
        /\ s.left = proc[p].left
    BY <1>1 DEF State
  <1>7. s \in [pc : Places, sound : BOOLEAN, events : Nat, left : Nat, mem : Seq(Nat),
               buf : Seq(Byte), at : Nat, last : Nat \cup {Never}, snap : Files, file : Names]
    <2> HIDE DEF first
    <2> QED
      BY <1>1, <1>3 DEF State, Places
  <1> HIDE DEF s
  <1>8. Placed(s)
    BY <1>1, <1>6 DEF Placed
  <1>9. s \in State /\ ProcInv(s)
    BY <1>6, <1>7, <1>8, Stated DEF ProcInv, Resting
  <1>10. ProcsOK'
    BY <1>5, <1>9, MovedOK DEF SharedInv
  <1> QED
    BY <1>4, <1>10 DEF Spill, Flush, SharedInv, DirOK, RestOK, rest

(* The checkpoint that a process takes of itself.                          *)
Taken(s) == [tag |-> "checkpoint", sound |-> s.sound, events |-> s.events, left |-> s.left,
             records |-> Len(s.mem), jlen |-> Len(journal)]

LEMMA MeasureStep ==
  ASSUME SharedInv, NEW p \in Process, Measure(p)
  PROVE  SharedInv'
  <1> DEFINE c == Taken(proc[p])
             s == [proc[p] EXCEPT !.pc = "open", !.snap = c]
  <1>1. /\ proc[p] \in State /\ ProcInv(proc[p]) /\ Placed(proc[p]) /\ journal \in Seq(Byte)
        /\ proc[p].sound \in BOOLEAN /\ proc[p].events \in Nat /\ proc[p].left \in Nat
        /\ proc[p].mem \in Seq(Nat)
    BY OwnState DEF SharedInv, DirOK
  <1>2. c \in Checkpoints
    <2>1. Placed(c)
      BY <1>1 DEF Placed, Taken
    <2>2. Len(proc[p].mem) \in Nat /\ Len(journal) \in Nat
      BY <1>1
    <2> QED
      BY <1>1, <2>1, <2>2 DEF Checkpoints, Taken
  <1>3. Moved(p, s)
    BY DEF Measure, Update, Moved, Taken
  <1> HIDE DEF c
  <1>4. /\ s.pc = "open" /\ s.sound = proc[p].sound /\ s.events = proc[p].events
        /\ s.left = proc[p].left /\ s.snap = c
    BY <1>1 DEF State
  <1>5. s \in [pc : Places, sound : BOOLEAN, events : Nat, left : Nat, mem : Seq(Nat),
               buf : Seq(Byte), at : Nat, last : Nat \cup {Never}, snap : Files, file : Names]
    BY <1>1, <1>2 DEF State, Places, Files
  <1> HIDE DEF s
  <1>6. Placed(s)
    BY <1>1, <1>4 DEF Placed
  <1>7. s \in State /\ ProcInv(s)
    BY <1>2, <1>4, <1>5, <1>6, Stated DEF ProcInv, Resting
  <1>8. ProcsOK'
    BY <1>3, <1>7, MovedOK DEF SharedInv
  <1> QED
    BY <1>8 DEF Measure, SharedInv, DirOK, RestOK, rest

LEMMA OpenStep ==
  ASSUME SharedInv, NEW p \in Process, OpenTemporary(p)
  PROVE  SharedInv'
  <1> DEFINE place == [proc[p] EXCEPT !.pc = "write"]
             s == [place EXCEPT !.file = "tmp"]
  <1>1. proc[p] \in State /\ ProcInv(proc[p]) /\ proc[p].pc = "open"
        /\ proc \in [Process -> State]
    BY OwnState DEF SharedInv, OpenTemporary, At
  <1>2. place \in State /\ ProcInv(place) /\ place.pc = "write"
    <2>1. place.pc = "write"
      BY <1>1 DEF State
    <2>2. "write" \in Places
      BY DEF Places
    <2> QED
      BY <1>1, <2>1, <2>2, PlaceOK
  <1>3. Moved(p, s)
    BY <1>1 DEF OpenTemporary, Moved
  <1> HIDE DEF place
  <1>4. s \in State /\ ProcInv(s)
    BY <1>2, FileOK DEF Names, Resting
  <1> HIDE DEF s
  <1>5. ProcsOK'
    BY <1>3, <1>4, MovedOK DEF SharedInv
  <1>6. tmp' \in {Torn, Begun} /\ Torn \in Files /\ Begun \in Files
    BY DEF OpenTemporary, Files
  <1> QED
    BY <1>5, <1>6 DEF OpenTemporary, SharedInv, DirOK, RestOK, rest

LEMMA MixturesTyped == Mixtures \subseteq Checkpoints
  BY SharingAssumption DEF Checkpoints, Placed

LEMMA SaveStep ==
  ASSUME SharedInv, NEW p \in Process, WriteTemporary(p) \/ WritePart(p)
  PROVE  SharedInv'
  <1> DEFINE place == [proc[p] EXCEPT !.pc = "rename"]
             s == [place EXCEPT !.file = "none"]
  <1>1. proc[p] \in State /\ ProcInv(proc[p]) /\ proc[p].pc = "write"
        /\ proc \in [Process -> State]
    BY OwnState DEF SharedInv, WriteTemporary, WritePart, At
  <1>2. place \in State /\ ProcInv(place) /\ place.pc = "rename"
    <2>1. place.pc = "rename"
      BY <1>1 DEF State
    <2>2. "rename" \in Places
      BY DEF Places
    <2> QED
      BY <1>1, <2>1, <2>2, PlaceOK
  <1>3. WriteTemporary(p) => Moved(p, s)
    BY <1>1 DEF WriteTemporary, Moved
  <1> HIDE DEF place
  <1>4. s \in State /\ ProcInv(s)
    BY <1>2, FileOK DEF Names, Resting
  <1> HIDE DEF s
  <1>5. ProcsOK'
    BY <1>3, <1>4, MovedOK DEF SharedInv, WritePart, ProcsOK
  <1>6. /\ tmp' \in {tmp, proc[p].snap, Torn, Begun} \cup Mixtures
        /\ ckpt' \in {ckpt, proc[p].snap, Torn, Begun} \cup Mixtures
    BY DEF WriteTemporary, WritePart
  <1>7. proc[p].snap \in Files /\ Torn \in Files /\ Begun \in Files /\ Mixtures \subseteq Files
    BY <1>1, MixturesTyped DEF Files, State
  <1>8. DirOK'
    BY <1>6, <1>7 DEF WriteTemporary, WritePart, SharedInv, DirOK
  <1> QED
    BY <1>5, <1>8 DEF WriteTemporary, WritePart, SharedInv, RestOK, rest

LEMMA RenameStep ==
  ASSUME SharedInv, NEW p \in Process, Rename(p)
  PROVE  /\ SharedInv' /\ \A q \in Process \ {p} : proc'[q].pc = proc[q].pc
         /\ proc'[p].pc = "event" /\ proc'[p].sound = proc[p].sound
         /\ proc'[p].events = proc[p].events /\ proc'[p].mem = proc[p].mem
         /\ proc'[p].buf = proc[p].buf /\ proc'[p].at = proc[p].at
  <1> DEFINE t == [proc[p] EXCEPT !.pc = "event", !.snap = NoFile, !.last = proc[p].events]
             s == [t EXCEPT !.file = Renamed[proc[p].file]]
  <1>1. /\ proc[p] \in State /\ Placed(proc[p]) /\ proc \in [Process -> State]
        /\ NoFile \in Files /\ proc[p].events \in Nat
    BY OwnState DEF SharedInv, Files
  <1>2. /\ t.pc = "event" /\ t.sound = proc[p].sound /\ t.events = proc[p].events
        /\ t.left = proc[p].left /\ t.mem = proc[p].mem /\ t.buf = proc[p].buf /\ t.at = proc[p].at
    BY <1>1 DEF State
  <1>3. t \in [pc : Places, sound : BOOLEAN, events : Nat, left : Nat, mem : Seq(Nat),
               buf : Seq(Byte), at : Nat, last : Nat \cup {Never}, snap : Files, file : Names]
    BY <1>1 DEF State, Places
  <1>4. Renamed[proc[p].file] \in Names
    BY <1>1, NameMaps DEF State
  <1>5. Followed(p, Renamed, s)
    BY <1>1 DEF Rename, Follow, Followed, State
  <1> HIDE DEF t
  <1>6. Placed(t)
    BY <1>1, <1>2 DEF Placed
  <1>7. t \in State /\ ProcInv(t)
    BY <1>2, <1>3, <1>6, Stated DEF ProcInv, Resting
  <1>8. /\ s \in State /\ ProcInv(s) /\ s.pc = t.pc /\ s.sound = t.sound /\ s.events = t.events
        /\ s.mem = t.mem /\ s.buf = t.buf /\ s.at = t.at
    BY <1>2, <1>4, <1>7, FileOK DEF Resting, State
  <1> HIDE DEF s
  <1>9. ProcsOK' /\ proc'[p] = s /\ \A q \in Process \ {p} : proc'[q].pc = proc[q].pc
    BY <1>5, <1>8, NameMaps, FollowedOK DEF SharedInv
  <1> QED
    BY <1>1, <1>2, <1>8, <1>9 DEF Rename, SharedInv, DirOK, RestOK, rest

LEMMA EndStep ==
  ASSUME SharedInv, NEW p \in Process, RenameFails(p) \/ Finish(p) \/ Kill(p)
  PROVE  SharedInv'
  <1>1. ProcsOK'
    BY HaltOK DEF RenameFails, Finish, Kill, SharedInv
  <1>2. CASE RenameFails(p) \/ Kill(p)
    BY <1>1, <1>2 DEF RenameFails, Kill, SharedInv, DirOK, RestOK, rest
  <1>3. CASE Finish(p)
    <2>1. proc[p].mem \in Seq(Nat)
      BY OwnState DEF SharedInv
    <2>2. [clean |-> clean, records |-> proc[p].mem] \in Ledgers
      BY <2>1 DEF SharedInv, RestOK, Ledgers
    <2> QED
      BY <1>1, <1>3, <2>2 DEF Finish, SharedInv, DirOK, RestOK, rest
  <1> QED
    BY <1>2, <1>3

LEMMA SharedStep == SharedInv /\ [Next]_vars => SharedInv'
  <1> SUFFICES ASSUME SharedInv, [Next]_vars PROVE SharedInv'
    OBVIOUS
  <1>1. CASE UNCHANGED vars
    BY <1>1 DEF SharedInv, ProcsOK, DirOK, RestOK, vars
  <1>2. ASSUME NEW p \in Process, Step(p) PROVE SharedInv'
    BY <1>2, CreateStep, ResumeStep, EventStep, WriteStep, MeasureStep, OpenStep, SaveStep,
       RenameStep, EndStep DEF Step
  <1>3. ASSUME NEW p \in Process, Spill(p) \/ WritePart(p) \/ Kill(p) PROVE SharedInv'
    BY <1>3, WriteStep, SaveStep, EndStep
  <1>4. ASSUME NEW p \in Process, NEW resume \in BOOLEAN, Invoke(p, resume) PROVE SharedInv'
    BY <1>4, InvokeStep
  <1> QED
    BY <1>1, <1>2, <1>3, <1>4 DEF Next

LEMMA SharedInvHolds == Spec => []SharedInv
  <1> QED
    BY SharedInit, SharedStep, PTL DEF Spec

(* Every process, file and ledger keeps its type, for any number of        *)
(* processes and commands: no step of one process leaves another, or a     *)
(* checkpoint.json, in a state the code has no case for; and a state that  *)
(* is one of the run's keeps count of the events it has left.              *)
THEOREM SharedTypeCorrect == Spec => []SharedTypeOK
  <1>1. SharedInv => SharedTypeOK
    BY DEF SharedInv, ProcsOK, DirOK, RestOK, SharedTypeOK
  <1> QED
    BY <1>1, SharedInvHolds, PTL

-----------------------------------------------------------------------------
(* A directory with one user at a time.  The units of the run's journal;   *)
(* a file whose first n units are they; a checkpoint that tells the truth  *)
(* about one of the run's states; a directory that a resume can trust.     *)
Unit(i) == <<(i + 1) \div 2, 2 - (i % 2)>>
Upto(bytes, n) == n <= Len(bytes) /\ \A i \in 1..n : bytes[i] = Unit(i)
Good(c) ==
  c \in Checkpoints /\ c.sound /\ c.records = Lines(c.events) /\ c.jlen = 2 * c.records
DirClean == ckpt = NoFile \/ (Good(ckpt) /\ Upto(journal, ckpt.jlen))

(* What a process holds of the run: the exact ledger, of which the journal *)
(* has the front and the buffer the rest.                                  *)
Holds(s) ==
  /\ s.mem = Golden(s.events) /\ s.at = Len(journal) /\ Upto(journal, s.at)
  /\ s.at + Len(s.buf) = 2 * Lines(s.events)
  /\ \A i \in 1..Len(s.buf) : s.buf[i] = Unit(s.at + i)

Working == {"boundary", "measure", "open", "write", "rename", "event"}
Sane(s) ==
  /\ s.sound
  /\ s.pc \in {"removetmp", "truncate"} => ckpt = NoFile
  /\ s.pc = "read" => ckpt # NoFile
  /\ s.pc \in {"setlen", "load"} =>
       Good(ckpt) /\ s.snap = ckpt /\ s.events = ckpt.events /\ s.buf = << >>
  /\ s.pc = "load" => Len(journal) = ckpt.jlen
  /\ s.pc \in Working => Holds(s)
  /\ s.pc = "measure" => s.buf = << >>
  /\ s.pc \in {"open", "write", "rename"} => Good(s.snap) /\ s.snap.jlen = s.at
  /\ s.pc = "write" => s.file = "tmp" /\ tmp = Begun
  /\ s.pc = "rename" => tmp = s.snap

CleanInv ==
  /\ clean => /\ DirClean /\ \A p \in Process : Sane(proc[p])
              /\ \A p \in Process : At(p, "down") \/ Alone(p)
  /\ \A l \in printed : l.clean => l.records = Golden(LastEvent)

(* Each record is two units, and what is read back of them is the record.  *)
LEMMA UptoWhole ==
  ASSUME NEW b \in Seq(Byte), NEW n \in Nat, Upto(b, 2 * n)
  PROVE  Whole(b, n) /\ Decode(b, n) = [i \in 1..n |-> i]
  <1>1. ASSUME NEW i \in 1..n
        PROVE  b[2 * i - 1] = <<i, 1>> /\ b[2 * i] = <<i, 2>>
    <2>1. /\ 2 * i - 1 \in 1..(2 * n) /\ 2 * i \in 1..(2 * n)
          /\ (2 * i - 1 + 1) \div 2 = i /\ 2 - ((2 * i - 1) % 2) = 1
          /\ (2 * i + 1) \div 2 = i /\ 2 - ((2 * i) % 2) = 2
      OBVIOUS
    <2> QED
      BY <2>1 DEF Upto, Unit
  <1>2. ASSUME NEW i \in 1..n
        PROVE  /\ b[2 * i - 1][1] = i /\ b[2 * i][1] = i
               /\ b[2 * i - 1][2] = 1 /\ b[2 * i][2] = 2
    <2>1. <<i, 1>>[1] = i /\ <<i, 2>>[1] = i /\ <<i, 1>>[2] = 1 /\ <<i, 2>>[2] = 2
      OBVIOUS
    <2>2. b[2 * i - 1] = <<i, 1>> /\ b[2 * i] = <<i, 2>>
      BY <1>1
    <2> QED
      BY <2>1, <2>2, Zenon
  <1>3. Whole(b, n)
    <2>1. 2 * n <= Len(b)
      BY DEF Upto
    <2>2. Lined(b, n)
      BY <1>2, <2>1, Zenon DEF Lined
    <2>3. ASSUME NEW i \in 1..n PROVE b[2 * i - 1][1] = b[2 * i][1]
      <3>1. b[2 * i - 1][1] = i /\ b[2 * i][1] = i
        BY <1>2, Zenon
      <3> QED
        BY <3>1, Zenon
    <2> QED
      BY <2>2, <2>3, Zenon DEF Whole
  <1>4. Decode(b, n) = [i \in 1..n |-> i]
    BY <1>2 DEF Decode
  <1> QED
    BY <1>3, <1>4

LEMMA SetLenKeeps ==
  ASSUME NEW b \in Seq(Byte), NEW n \in Nat, Upto(b, n)
  PROVE  Len(SetLen(b, n)) = n /\ Upto(SetLen(b, n), n)
  BY DEF SetLen, Upto

LEMMA AppendKeeps ==
  ASSUME NEW b \in Seq(Byte), NEW new \in Seq(Byte), Upto(b, Len(b)),
         \A i \in 1..Len(new) : new[i] = Unit(Len(b) + i)
  PROVE  LET w == WrittenAt(b, Len(b), new)
         IN Len(w) = Len(b) + Len(new) /\ Upto(w, Len(w))
  <1> DEFINE n == Max({Len(b), Len(b) + Len(new)})
             w == WrittenAt(b, Len(b), new)
  <1>1. Len(b) \in Nat /\ Len(new) \in Nat
    OBVIOUS
  <1>2. n = Len(b) + Len(new)
    <2>1. Len(b) <= Len(b) + Len(new)
      BY <1>1
    <2> QED
      BY <1>1, <2>1 DEF Max
  <1>3. w = [i \in 1..(Len(b) + Len(new)) |->
               IF i \in (Len(b) + 1)..(Len(b) + Len(new)) THEN new[i - Len(b)]
               ELSE IF i <= Len(b) THEN b[i] ELSE Zero]
    BY <1>2 DEF WrittenAt
  <1> HIDE DEF n, w
  <1>4. Len(w) = Len(b) + Len(new)
    BY <1>1, <1>3
  <1>5. ASSUME NEW i \in 1..(Len(b) + Len(new)) PROVE w[i] = Unit(i)
    <2>1. CASE i <= Len(b)
      <3>1. i \notin (Len(b) + 1)..(Len(b) + Len(new)) /\ i \in 1..Len(b)
        BY <1>1, <2>1
      <3> QED
        BY <1>3, <2>1, <3>1 DEF Upto
    <2>2. CASE ~(i <= Len(b))
      <3>1. /\ i \in (Len(b) + 1)..(Len(b) + Len(new)) /\ i - Len(b) \in 1..Len(new)
            /\ Len(b) + (i - Len(b)) = i
        BY <1>1, <2>2
      <3> QED
        BY <1>3, <3>1
    <2> QED
      BY <2>1, <2>2
  <1> QED
    BY <1>1, <1>4, <1>5 DEF Upto, w

LEMMA UptoLess ==
  ASSUME NEW b \in Seq(Byte), NEW n \in Nat, NEW m \in Nat, Upto(b, n), m <= n
  PROVE  Upto(b, m)
  BY DEF Upto

(* The lines of an event go on where the ones before it end.               *)
LEMMA EncodeNext ==
  ASSUME NEW n \in 0..(LastEvent - 1)
  PROVE  LET new == [i \in 1..Emits[n + 1] |-> Lines(n) + i]
         IN /\ Encode(new) \in Seq(Byte) /\ Len(Encode(new)) = 2 * Emits[n + 1]
            /\ \A i \in 1..(2 * Emits[n + 1]) : Encode(new)[i] = Unit(2 * Lines(n) + i)
  <1> DEFINE new == [i \in 1..Emits[n + 1] |-> Lines(n) + i]
  <1>1. Lines(n) \in Nat /\ Emits[n + 1] \in Nat
    BY LinesFacts
  <1>2. /\ new \in Seq(Nat) /\ Len(new) = Emits[n + 1]
        /\ \A i \in 1..Emits[n + 1] : new[i] = Lines(n) + i
    BY <1>1
  <1> HIDE DEF new
  <1>3. Encode(new) = [i \in 1..(2 * Emits[n + 1]) |-> <<new[(i + 1) \div 2], 2 - (i % 2)>>]
    BY <1>2 DEF Encode
  <1>4. Encode(new) \in Seq(Byte)
    BY <1>2, EncodeTyped
  <1>5. Len(Encode(new)) = 2 * Emits[n + 1]
    BY <1>1, <1>3, <1>4
  <1>6. ASSUME NEW i \in 1..(2 * Emits[n + 1]) PROVE Encode(new)[i] = Unit(2 * Lines(n) + i)
    <2>1. (i + 1) \div 2 \in 1..Emits[n + 1]
      BY <1>1
    <2>2. /\ (2 * Lines(n) + i + 1) \div 2 = Lines(n) + (i + 1) \div 2
          /\ (2 * Lines(n) + i) % 2 = i % 2
      BY <1>1
    <2> QED
      BY <1>2, <1>3, <2>1, <2>2 DEF Unit
  <1> QED
    BY <1>4, <1>5, <1>6 DEF new

-----------------------------------------------------------------------------
(* After a step of the only user the others are still down, and hold       *)
(* nothing.                                                                *)
LEMMA Settled ==
  ASSUME SharedInv, SharedInv', CleanInv, NEW p \in Process, printed' = printed,
         \A q \in Process \ {p} : proc'[q].pc = proc[q].pc,
         clean' => Alone(p) /\ DirClean' /\ Sane(proc[p])'
  PROVE  CleanInv'
  <1>1. ASSUME clean', NEW q \in Process \ {p}
        PROVE  proc'[q].pc = "down" /\ Sane(proc[q])'
    <2>1. proc'[q].pc = "down" /\ ProcInv(proc[q])'
      BY <1>1 DEF Alone, At, SharedInv, ProcsOK
    <2>2. proc'[q] = [Idle EXCEPT !.pc = "down"]
      BY <2>1 DEF ProcInv, Resting
    <2>3. proc'[q].sound
      BY <2>2 DEF Idle
    <2> QED
      BY <2>1, <2>3 DEF Sane, Working
  <1>2. ASSUME clean', NEW q \in Process
        PROVE  Sane(proc[q])' /\ (At(q, "down") \/ Alone(q))'
    <2>1. Sane(proc[q])'
      BY <1>1, <1>2
    <2>2. (At(q, "down") \/ Alone(q))'
      BY <1>1, <1>2 DEF At, Alone
    <2> QED
      BY <2>1, <2>2
  <1> QED
    BY <1>2 DEF CleanInv

(* The only user of a clean directory, before its step.                    *)
Only(p) == /\ SharedInv /\ DirClean /\ Sane(proc[p]) /\ Alone(p)

LEMMA OnlyOne ==
  ASSUME SharedInv, CleanInv, clean, NEW p \in Process, ~At(p, "down")
  PROVE  Only(p)
  BY DEF CleanInv, Only

LEMMA DirStays ==
  ASSUME DirClean, UNCHANGED <<journal, ckpt>>
  PROVE  DirClean'
  BY DEF DirClean, Upto

LEMMA CreateClean ==
  ASSUME SharedInv, CleanInv, NEW p \in Process,
         RemoveCheckpoint(p) \/ RemoveTemporary(p) \/ TruncateJournal(p)
  PROVE  CleanInv'
  <1>1. /\ SharedInv' /\ SameButPlace(proc[p], proc'[p])
        /\ proc'[p].pc = IF At(p, "remove") THEN "removetmp"
                         ELSE IF At(p, "removetmp") THEN "truncate" ELSE "boundary"
        /\ \A q \in Process \ {p} : proc'[q].pc = proc[q].pc
    BY CreateStep
  <1>2. proc[p] = [Idle EXCEPT !.pc = proc[p].pc]
    BY DEF SharedInv, ProcsOK, ProcInv, Resting, RemoveCheckpoint, RemoveTemporary,
           TruncateJournal, At
  <1>3. /\ proc'[p].sound /\ proc'[p].events = 0 /\ proc'[p].mem = << >>
        /\ proc'[p].buf = << >> /\ proc'[p].at = 0
    BY <1>1, <1>2 DEF SameButPlace, Idle
  <1>4. ~At(p, "down")
    BY DEF RemoveCheckpoint, RemoveTemporary, TruncateJournal, At
  <1>5. ASSUME RemoveCheckpoint(p), clean'
        PROVE  Alone(p) /\ DirClean' /\ Sane(proc[p])'
    <2>1. Alone(p)
      BY <1>4, <1>5 DEF RemoveCheckpoint, CleanInv
    <2>2. proc'[p].pc = "removetmp" /\ ckpt' = NoFile
      BY <1>1, <1>5 DEF RemoveCheckpoint
    <2> QED
      BY <1>3, <2>1, <2>2 DEF DirClean, Sane, Working
  <1>6. ASSUME RemoveTemporary(p), clean'
        PROVE  Alone(p) /\ DirClean' /\ Sane(proc[p])'
    <2>1. Only(p) /\ UNCHANGED <<journal, ckpt>>
      BY <1>4, <1>6, OnlyOne DEF RemoveTemporary, rest
    <2>2. proc'[p].pc = "truncate" /\ ckpt' = NoFile
      BY <1>1, <1>6, <2>1 DEF RemoveTemporary, At, Only, Sane
    <2> QED
      BY <1>3, <2>1, <2>2 DEF DirClean, Sane, Working, Only
  <1>7. ASSUME TruncateJournal(p), clean'
        PROVE  Alone(p) /\ DirClean' /\ Sane(proc[p])'
    <2>1. Only(p) /\ journal' = << >>
      BY <1>4, <1>7, OnlyOne DEF TruncateJournal, rest
    <2>2. proc'[p].pc = "boundary" /\ ckpt' = NoFile
      BY <1>1, <1>7, <2>1 DEF TruncateJournal, At, Only, Sane
    <2>3. Golden(0) = << >> /\ Lines(0) = 0
      BY LinesFacts DEF Golden
    <2>4. Len(journal') = 0 /\ Len(proc'[p].buf) = 0 /\ Upto(journal', 0)
      BY <1>3, <2>1 DEF Upto
    <2>5. Holds(proc[p])'
      BY <1>3, <2>1, <2>3, <2>4 DEF Holds, Upto
    <2> QED
      BY <1>3, <2>1, <2>2, <2>5 DEF DirClean, Sane, Working, Only
  <1>8. printed' = printed
    BY DEF RemoveCheckpoint, RemoveTemporary, TruncateJournal, rest
  <1> QED
    BY <1>1, <1>5, <1>6, <1>7, <1>8, Settled

LEMMA Others ==
  ASSUME SharedInv, NEW p \in Process, NEW s, Moved(p, s)
  PROVE  proc'[p] = s /\ \A q \in Process \ {p} : proc'[q].pc = proc[q].pc
  BY DEF Moved, SharedInv, ProcsOK

(* A command that ends, is refused or killed.                              *)
LEMMA EndClean ==
  ASSUME SharedInv, CleanInv, NEW p \in Process,
         \/ RefuseCheckpoint(p) \/ RefuseJournal(p) \/ RenameFails(p) \/ Kill(p) \/ Finish(p)
  PROVE  CleanInv'
  <1>1. SharedInv' /\ ~At(p, "down") /\ UNCHANGED <<journal, tmp, ckpt, clean>>
    <2>1. SharedInv'
      BY ResumeStep, EndStep
    <2>2. ~At(p, "down")
      BY DEF RefuseCheckpoint, RefuseJournal, RenameFails, Kill, Finish, Passed, At
    <2> QED
      BY <2>1, <2>2 DEF RefuseCheckpoint, RefuseJournal, RenameFails, Kill, Finish, rest
  <1>2. Moved(p, [Idle EXCEPT !.pc = "down"])
    BY IdleIsDown DEF RefuseCheckpoint, RefuseJournal, RenameFails, Kill, Finish, Halt, Update,
                      Moved
  <1>3. /\ proc'[p].pc = "down" /\ proc'[p].sound
        /\ \A q \in Process \ {p} : proc'[q].pc = proc[q].pc
    BY <1>2, Others DEF Idle
  <1>4. ASSUME clean' PROVE Alone(p) /\ DirClean' /\ Sane(proc[p])'
    <2>1. Only(p)
      BY <1>1, <1>4, OnlyOne
    <2> QED
      BY <1>1, <1>3, <2>1, DirStays DEF Only, Sane, Working
  <1>5. CASE ~Finish(p)
    <2>1. printed' = printed
      BY <1>5 DEF RefuseCheckpoint, RefuseJournal, RenameFails, Kill, rest
    <2> QED
      BY <1>1, <1>3, <1>4, <2>1, Settled
  <1>6. CASE Finish(p)
    <2>1. clean => proc[p].mem = Golden(LastEvent)
      <3>1. SUFFICES ASSUME clean PROVE proc[p].mem = Golden(LastEvent)
        OBVIOUS
      <3>2. Only(p)
        BY <1>1, <3>1, OnlyOne
      <3>3. proc[p].pc \in Working /\ proc[p].left = 0
        BY <1>6 DEF Finish, Passed, At, Working
      <3>4. proc[p].sound /\ proc[p].mem = Golden(proc[p].events) /\ Placed(proc[p])
        BY <3>2, <3>3, OwnState DEF Only, Sane, Holds, SharedInv
      <3>5. proc[p].events = LastEvent
        BY <3>3, <3>4, LinesFacts DEF Placed
      <3> QED
        BY <3>4, <3>5
    <2>2. printed' = printed \cup {[clean |-> clean, records |-> proc[p].mem]}
      BY <1>6 DEF Finish
    <2>3. (\A l \in printed : l.clean => l.records = Golden(LastEvent))'
      BY <2>1, <2>2 DEF CleanInv
    <2>4. ASSUME clean', NEW q \in Process
          PROVE  Sane(proc[q])' /\ (At(q, "down") \/ Alone(q))'
      <3>1. \A r \in Process : proc'[r].pc = "down"
        BY <1>3, <1>4, <2>4 DEF Alone, At
      <3>2. proc'[q] = [Idle EXCEPT !.pc = "down"]
        BY <1>1, <3>1 DEF SharedInv, ProcsOK, ProcInv, Resting
      <3>3. proc'[q].sound
        BY <3>2 DEF Idle
      <3> QED
        BY <3>1, <3>3 DEF Sane, Working, At
    <2> QED
      BY <1>4, <2>3, <2>4 DEF CleanInv
  <1> QED
    BY <1>5, <1>6

LEMMA InvokeClean ==
  ASSUME SharedInv, CleanInv, NEW p \in Process, NEW resume, Invoke(p, resume)
  PROVE  CleanInv'
  <1> DEFINE place == IF resume /\ ckpt # NoFile THEN "read" ELSE "remove"
  <1>1. SharedInv' /\ printed' = printed
    BY InvokeStep DEF Invoke
  <1>2. Moved(p, [Idle EXCEPT !.pc = place])
    BY DEF Invoke, Update, Moved
  <1>3. /\ proc'[p].pc = place /\ proc'[p].sound
        /\ \A q \in Process \ {p} : proc'[q].pc = proc[q].pc
    BY <1>2, Others DEF Idle
  <1>4. ASSUME clean' PROVE Alone(p) /\ DirClean' /\ Sane(proc[p])'
    <2>1. clean /\ Alone(p) /\ UNCHANGED <<journal, ckpt>>
      BY <1>4 DEF Invoke
    <2>2. DirClean'
      BY <1>4, <2>1, DirStays DEF CleanInv
    <2> QED
      BY <1>3, <2>1, <2>2 DEF Sane, Working
  <1> QED
    BY <1>1, <1>3, <1>4, Settled

(* Resuming: the checkpoint is good, and the journal goes on from it.      *)
LEMMA ReadClean ==
  ASSUME SharedInv, CleanInv, NEW p \in Process, ReadCheckpoint(p)
  PROVE  CleanInv'
  <1> DEFINE s == [proc[p] EXCEPT !.pc = "setlen", !.snap = ckpt, !.sound = ckpt.sound,
                                  !.events = ckpt.events, !.left = ckpt.left]
  <1>1. /\ SharedInv' /\ printed' = printed /\ clean' = clean /\ ~At(p, "down")
        /\ UNCHANGED <<journal, ckpt>> /\ proc[p].pc = "read" /\ proc[p] \in State
        /\ ProcInv(proc[p]) /\ ckpt # NoFile
    <2>1. SharedInv' /\ proc[p] \in State /\ ProcInv(proc[p])
      BY ResumeStep, OwnState DEF SharedInv
    <2>2. ckpt # NoFile
      BY DEF ReadCheckpoint, NoFile
    <2> QED
      BY <2>1, <2>2 DEF ReadCheckpoint, rest, At
  <1>2. Moved(p, s)
    BY DEF ReadCheckpoint, Update, Moved
  <1>3. /\ s.pc = "setlen" /\ s.snap = ckpt /\ s.sound = ckpt.sound /\ s.events = ckpt.events
        /\ s.buf = proc[p].buf
    BY <1>1 DEF State
  <1>4. proc[p].buf = << >>
    <2>1. proc[p] = [Idle EXCEPT !.pc = "read"]
      BY <1>1 DEF ProcInv, Resting
    <2> QED
      BY <2>1 DEF Idle
  <1> HIDE DEF s
  <1>5. proc'[p] = s /\ \A q \in Process \ {p} : proc'[q].pc = proc[q].pc
    BY <1>2, Others
  <1>6. ASSUME clean' PROVE Alone(p) /\ DirClean' /\ Sane(proc[p])'
    <2>1. Only(p)
      BY <1>1, <1>6, OnlyOne
    <2>2. Good(ckpt) /\ ckpt' = ckpt
      BY <1>1, <2>1 DEF Only, DirClean
    <2>3. ckpt.sound
      BY <2>2 DEF Good
    <2>4. DirClean'
      BY <1>1, <2>1, DirStays DEF Only
    <2> QED
      BY <1>3, <1>4, <1>5, <2>1, <2>2, <2>3, <2>4 DEF Only, Sane, Working
  <1> QED
    BY <1>1, <1>5, <1>6, Settled

LEMMA CutClean ==
  ASSUME SharedInv, CleanInv, NEW p \in Process, CutJournal(p)
  PROVE  CleanInv'
  <1> DEFINE s == [proc[p] EXCEPT !.pc = "load"]
  <1>1. /\ SharedInv' /\ printed' = printed /\ clean' = clean /\ ~At(p, "down")
        /\ ckpt' = ckpt /\ proc[p].pc = "setlen" /\ proc[p] \in State /\ journal \in Seq(Byte)
        /\ journal' = SetLen(journal, proc[p].snap.jlen)
    BY ResumeStep, OwnState DEF CutJournal, rest, At, SharedInv, DirOK
  <1>2. Moved(p, s)
    BY DEF CutJournal, Goto, Moved
  <1>3. s.pc = "load" /\ SameButPlace(proc[p], s)
    BY <1>1 DEF State, SameButPlace
  <1> HIDE DEF s
  <1>4. proc'[p] = s /\ \A q \in Process \ {p} : proc'[q].pc = proc[q].pc
    BY <1>2, Others
  <1>5. ASSUME clean' PROVE Alone(p) /\ DirClean' /\ Sane(proc[p])'
    <2>1. Only(p)
      BY <1>1, <1>5, OnlyOne
    <2>2. /\ proc[p].sound /\ Good(ckpt) /\ proc[p].snap = ckpt /\ proc[p].events = ckpt.events
          /\ proc[p].buf = << >>
      BY <1>1, <2>1 DEF Only, Sane
    <2>3. ckpt.jlen \in Nat
      BY <2>2 DEF Good, Checkpoints
    <2>4. Upto(journal, ckpt.jlen)
      BY <2>1, <2>2 DEF Only, DirClean, Good, Checkpoints, NoFile
    <2>5. Len(journal') = ckpt.jlen /\ Upto(journal', ckpt.jlen)
      BY <1>1, <2>2, <2>3, <2>4, SetLenKeeps
    <2>6. DirClean'
      BY <1>1, <2>2, <2>5 DEF DirClean, Upto
    <2>7. Sane(proc[p])'
      BY <1>1, <1>3, <1>4, <2>2, <2>5 DEF Sane, Working, SameButPlace
    <2> QED
      BY <2>1, <2>6, <2>7 DEF Only
  <1> QED
    BY <1>1, <1>4, <1>5, Settled

LEMMA LoadClean ==
  ASSUME SharedInv, CleanInv, NEW p \in Process, LoadPrefix(p)
  PROVE  CleanInv'
  <1> DEFINE c == proc[p].snap
             mem == Decode(journal, c.records)
             s == [proc[p] EXCEPT !.pc = "boundary", !.mem = mem, !.at = c.jlen, !.snap = NoFile]
  <1>1. /\ SharedInv' /\ printed' = printed /\ clean' = clean /\ ~At(p, "down")
        /\ UNCHANGED <<ckpt, journal>> /\ proc[p].pc = "load" /\ proc[p] \in State
        /\ journal \in Seq(Byte)
    BY ResumeStep, OwnState DEF LoadPrefix, rest, At, SharedInv, DirOK
  <1>2. Moved(p, s)
    BY DEF LoadPrefix, Update, Moved
  <1> HIDE DEF mem, c
  <1>3. /\ s.pc = "boundary" /\ s.sound = proc[p].sound /\ s.events = proc[p].events
        /\ s.mem = mem /\ s.at = c.jlen /\ s.buf = proc[p].buf
    BY <1>1 DEF State
  <1> HIDE DEF s
  <1>4. proc'[p] = s /\ \A q \in Process \ {p} : proc'[q].pc = proc[q].pc
    BY <1>2, Others
  <1>5. ASSUME clean' PROVE Alone(p) /\ DirClean' /\ Sane(proc[p])'
    <2>1. Only(p)
      BY <1>1, <1>5, OnlyOne
    <2>2. /\ proc[p].sound /\ Good(ckpt) /\ c = ckpt /\ proc[p].events = ckpt.events
          /\ proc[p].buf = << >> /\ Len(journal) = ckpt.jlen
      BY <1>1, <2>1 DEF Only, Sane, c
    <2>3. /\ ckpt.jlen = 2 * ckpt.records /\ ckpt.records = Lines(ckpt.events)
          /\ ckpt.records \in Nat /\ ckpt.events \in Nat
      BY <2>2 DEF Good, Checkpoints
    <2>4. Upto(journal, ckpt.jlen)
      BY <2>1, <2>2 DEF Only, DirClean, Good, Checkpoints, NoFile
    <2>5. mem = Golden(ckpt.events)
      BY <1>1, <2>2, <2>3, <2>4, UptoWhole DEF mem, Golden
    <2>6. Holds(s)
      BY <1>3, <2>2, <2>3, <2>4, <2>5 DEF Holds
    <2>7. Holds(proc[p])'
      BY <1>1, <1>4, <2>6 DEF Holds, Upto
    <2>8. DirClean'
      BY <1>1, <2>1, DirStays DEF Only
    <2>9. Sane(proc[p])'
      BY <1>3, <1>4, <2>2, <2>7 DEF Sane, Working
    <2> QED
      BY <2>1, <2>8, <2>9 DEF Only
  <1> QED
    BY <1>1, <1>4, <1>5, Settled

(* Running and saving.  First, what a step leaves that touches no file of  *)
(* the run's.                                                              *)
LEMMA Keeps ==
  ASSUME SharedInv, CleanInv, NEW p \in Process, clean, ~At(p, "down"),
         UNCHANGED <<journal, ckpt>>
  PROVE  Only(p) /\ DirClean' /\ Alone(p) /\ Sane(proc[p])
  BY OnlyOne, DirStays DEF Only

LEMMA EventClean ==
  ASSUME SharedInv, CleanInv, NEW p \in Process, Event(p)
  PROVE  CleanInv'
  <1>1. /\ SharedInv' /\ proc[p] \in State /\ Placed(proc[p]) /\ proc[p].left > 0
        /\ proc[p].mem \in Seq(Nat) /\ proc[p].buf \in Seq(Byte)
        /\ proc[p].at \in Nat
    BY EventStep, OwnState DEF SharedInv, Event
  <1>2. /\ printed' = printed /\ clean' = clean /\ UNCHANGED <<journal, ckpt>>
        /\ ~At(p, "down") /\ proc[p].pc \in Working
    BY DEF Event, Passed, rest, At, Working
  <1>3. PICK new \in Emitted(proc[p]) :
          Moved(p, [proc[p] EXCEPT !.pc = "boundary", !.events = @ + 1, !.left = @ - 1,
                                   !.mem = @ \o new, !.buf = @ \o Encode(new)])
    BY DEF Event, Emitted, Update, Moved
  <1> DEFINE s == [proc[p] EXCEPT !.pc = "boundary", !.events = @ + 1, !.left = @ - 1,
                                  !.mem = @ \o new, !.buf = @ \o Encode(new)]
  <1>4. /\ s.pc = "boundary" /\ s.sound = proc[p].sound /\ s.events = proc[p].events + 1
        /\ s.mem = proc[p].mem \o new /\ s.buf = proc[p].buf \o Encode(new)
        /\ s.at = proc[p].at
    BY <1>1 DEF State
  <1>5. Moved(p, s)
    BY <1>3
  <1> HIDE DEF s
  <1>6. proc'[p] = s /\ \A q \in Process \ {p} : proc'[q].pc = proc[q].pc
    BY <1>5, Others
  <1>7. ASSUME clean' PROVE Alone(p) /\ DirClean' /\ Sane(proc[p])'
    <2> DEFINE n == proc[p].events
               at == proc[p].at
               buf == proc[p].buf
    <2>1. DirClean' /\ Alone(p) /\ Sane(proc[p])
      BY <1>2, <1>7, Keeps
    <2>2. proc[p].sound /\ Holds(proc[p])
      BY <1>2, <2>1 DEF Sane
    <2>3. n \in 0..(LastEvent - 1)
      BY <1>1, <2>2, EmittedTyped
    <2>4. new = [i \in 1..Emits[n + 1] |-> Lines(n) + i]
      BY <2>2 DEF Emitted
    <2>5. /\ Golden(n) \o new = Golden(n + 1)
          /\ Encode(new) \in Seq(Byte) /\ Len(Encode(new)) = 2 * Emits[n + 1]
          /\ \A i \in 1..(2 * Emits[n + 1]) : Encode(new)[i] = Unit(2 * Lines(n) + i)
      BY <2>3, <2>4, GoldenNext, EncodeNext
    <2>6. Lines(n) \in Nat /\ Emits[n + 1] \in Nat /\ Lines(n + 1) = Lines(n) + Emits[n + 1]
      BY <2>3, LinesFacts
    <2>7. /\ at + Len(buf) = 2 * Lines(n) /\ \A i \in 1..Len(buf) : buf[i] = Unit(at + i)
          /\ at \in Nat /\ Len(buf) \in Nat /\ buf \in Seq(Byte)
      BY <1>1, <2>2 DEF Holds
    <2> HIDE DEF n, at, buf
    <2>8. IsSeq(buf) /\ IsSeq(Encode(new))
      BY <2>5, <2>7, AnySeq
    <2> DEFINE all == buf \o Encode(new)
    <2>9. /\ Len(all) = Len(buf) + 2 * Emits[n + 1]
          /\ \A i \in 1..(Len(buf) + 2 * Emits[n + 1]) :
               all[i] = IF i <= Len(buf) THEN buf[i] ELSE Encode(new)[i - Len(buf)]
      BY <2>5, <2>8, ConcatSeq
    <2> HIDE DEF all
    <2>10. ASSUME NEW i \in 1..Len(all) PROVE all[i] = Unit(at + i)
      <3>1. CASE i <= Len(buf)
        BY <2>6, <2>7, <2>9, <3>1
      <3>2. CASE ~(i <= Len(buf))
        <4>1. i - Len(buf) \in 1..(2 * Emits[n + 1]) /\ 2 * Lines(n) + (i - Len(buf)) = at + i
          <5> DEFINE b == Len(buf)
                     l == 2 * Lines(n)
                     e == 2 * Emits[n + 1]
          <5>1. at \in Nat /\ b \in Nat /\ l \in Nat /\ e \in Nat /\ at + b = l
            BY <2>6, <2>7
          <5>2. i \in 1..(b + e) /\ ~(i <= b)
            BY <2>9, <3>2
          <5> HIDE DEF b, l, e
          <5>3. i - b \in 1..e /\ l + (i - b) = at + i
            BY ONLY <5>1, <5>2
          <5> QED
            BY <5>3 DEF b, l, e
        <4>2. all[i] = Encode(new)[i - Len(buf)]
          BY <2>6, <2>7, <2>9, <3>2
        <4>3. Encode(new)[i - Len(buf)] = Unit(2 * Lines(n) + (i - Len(buf)))
          BY <2>5, <4>1
        <4> QED
          BY <4>1, <4>2, <4>3
      <3> QED
        BY <3>1, <3>2
    <2>11. at + Len(all) = 2 * Lines(n + 1)
      <3> DEFINE b == Len(buf)
                 l == Lines(n)
                 e == Emits[n + 1]
      <3>1. at \in Nat /\ b \in Nat /\ l \in Nat /\ e \in Nat /\ at + b = 2 * l
        BY <2>6, <2>7
      <3>2. Len(all) = b + 2 * e /\ Lines(n + 1) = l + e
        BY <2>6, <2>9
      <3> HIDE DEF b, l, e
      <3>3. at + (b + 2 * e) = 2 * (l + e)
        BY ONLY <3>1
      <3> QED
        BY ONLY <3>2, <3>3
    <2>12. /\ s.mem = Golden(s.events) /\ s.at = Len(journal) /\ Upto(journal, s.at)
           /\ s.events = n + 1 /\ s.buf = all /\ s.at = at
      BY <1>4, <2>2, <2>5 DEF Holds, n, at, all, buf
    <2>13. Holds(s)
      BY <2>10, <2>11, <2>12 DEF Holds
    <2>14. Holds(proc[p])'
      BY <1>2, <1>6, <2>13 DEF Holds, Upto
    <2> QED
      BY <1>4, <1>6, <2>1, <2>2, <2>14 DEF Sane, Working
  <1> QED
    BY <1>1, <1>2, <1>6, <1>7, Settled

LEMMA WriteClean ==
  ASSUME SharedInv, CleanInv, NEW p \in Process, Spill(p) \/ Flush(p)
  PROVE  CleanInv'
  <1>1. /\ SharedInv' /\ proc[p] \in State /\ journal \in Seq(Byte)
        /\ proc[p].buf \in Seq(Byte) /\ proc[p].at \in Nat
    BY WriteStep, OwnState DEF SharedInv, DirOK
  <1>2. /\ printed' = printed /\ clean' = clean /\ ckpt' = ckpt
        /\ ~At(p, "down") /\ proc[p].pc \in Working
    BY DEF Spill, Flush, rest, At, Working
  <1>3. PICK n \in 0..Len(proc[p].buf), place \in {"boundary", "measure"} :
          Write(p, n, place) /\ (place = "measure" => n = Len(proc[p].buf))
    <2>1. Len(proc[p].buf) \in 0..Len(proc[p].buf)
          /\ \A n \in 1..Len(proc[p].buf) : n \in 0..Len(proc[p].buf)
      BY <1>1
    <2> QED
      BY <2>1 DEF Spill, Flush
  <1> DEFINE first == SubSeq(proc[p].buf, 1, n)
             left == SubSeq(proc[p].buf, n + 1, Len(proc[p].buf))
             s == [proc[p] EXCEPT !.pc = place, !.at = @ + n,
                                  !.buf = SubSeq(@, n + 1, Len(@))]
  <1>4. /\ s.pc = place /\ s.sound = proc[p].sound /\ s.events = proc[p].events
        /\ s.mem = proc[p].mem /\ s.at = proc[p].at + n /\ s.buf = left
    BY <1>1 DEF State
  <1>5. Moved(p, s)
    BY <1>3 DEF Write, Update, Moved
  <1>6. journal' = IF n = 0 THEN journal ELSE WrittenAt(journal, proc[p].at, first)
    BY <1>3 DEF Write
  <1>7. /\ n \in Nat /\ Len(proc[p].buf) \in Nat
        /\ first \in Seq(Byte) /\ Len(first) = n
        /\ \A i \in 1..n : first[i] = proc[p].buf[i]
        /\ Len(left) = Len(proc[p].buf) - n
        /\ \A i \in 1..(Len(proc[p].buf) - n) : left[i] = proc[p].buf[n + i]
    <2>1. n \in Nat /\ Len(proc[p].buf) \in Nat /\ IsSeq(proc[p].buf)
      BY <1>1, AnySeq
    <2>2. /\ first \in Seq(Byte) /\ Len(first) = n
          /\ \A i \in 1..n : first[i] = proc[p].buf[i]
      BY <1>1, <2>1
    <2>3. /\ n + 1 \in 1..(Len(proc[p].buf) + 1) /\ n + 1 <= Len(proc[p].buf) + 1
          /\ Len(proc[p].buf) \in 0..Len(proc[p].buf)
      BY <2>1
    <2>4. /\ Len(left) = Len(proc[p].buf) - (n + 1) + 1
          /\ \A i \in 1..(Len(proc[p].buf) - (n + 1) + 1) :
               left[i] = proc[p].buf[i + (n + 1) - 1]
      BY <2>1, <2>3, SubSeqSeq
    <2> HIDE DEF left
    <2>5. Len(proc[p].buf) - (n + 1) + 1 = Len(proc[p].buf) - n
      BY <2>1
    <2>6. ASSUME NEW i \in 1..(Len(proc[p].buf) - n) PROVE left[i] = proc[p].buf[n + i]
      <3>1. left[i] = proc[p].buf[i + (n + 1) - 1] /\ i + (n + 1) - 1 = n + i
        BY <2>1, <2>4, <2>5
      <3> QED
        BY <3>1
    <2> QED
      BY <2>1, <2>2, <2>4, <2>5, <2>6
  <1> HIDE DEF s, first, left
  <1>8. proc'[p] = s /\ \A q \in Process \ {p} : proc'[q].pc = proc[q].pc
    BY <1>5, Others
  <1>9. ASSUME clean' PROVE Alone(p) /\ DirClean' /\ Sane(proc[p])'
    <2> DEFINE at == proc[p].at
               buf == proc[p].buf
    <2>1. Only(p)
      BY <1>2, <1>9, OnlyOne
    <2>2. /\ proc[p].sound /\ proc[p].mem = Golden(proc[p].events) /\ at = Len(journal)
          /\ Upto(journal, at) /\ at + Len(buf) = 2 * Lines(proc[p].events)
          /\ \A i \in 1..Len(buf) : buf[i] = Unit(at + i)
      BY <1>2, <2>1 DEF Sane, Only, Holds
    <2>3. Len(journal') = at + n /\ Upto(journal', at + n)
      <3>1. CASE n = 0
        BY <1>1, <1>6, <2>2, <3>1
      <3>2. CASE n # 0
        <4>1. ASSUME NEW i \in 1..Len(first) PROVE first[i] = Unit(Len(journal) + i)
          <5>1. i \in 1..n /\ i \in 1..Len(buf)
            BY <1>7
          <5>2. first[i] = buf[i]
            BY <1>7, <5>1, Zenon
          <5>3. buf[i] = Unit(at + i) /\ at = Len(journal)
            BY <2>2, <5>1, Zenon
          <5> QED
            BY <5>2, <5>3, Zenon
        <4>2. journal' = WrittenAt(journal, Len(journal), first)
          BY <1>6, <2>2, <3>2
        <4>3. Len(journal') = Len(journal) + Len(first) /\ Upto(journal', Len(journal'))
          BY <1>1, <1>7, <2>2, <4>1, <4>2, AppendKeeps
        <4> QED
          BY <1>7, <2>2, <4>3
      <3> QED
        BY <3>1, <3>2
    <2>4. DirClean'
      <3>1. SUFFICES ASSUME Good(ckpt), Upto(journal, ckpt.jlen)
                     PROVE  Upto(journal', ckpt.jlen)
        BY <1>2, <2>1, <3>1 DEF Only, DirClean
      <3>2. ckpt.jlen \in Nat /\ ckpt.jlen <= at /\ at + n \in Nat /\ at \in Nat
        BY <1>1, <1>7, <2>2, <3>1 DEF Good, Checkpoints, Upto
      <3>3. journal' \in Seq(Byte) /\ ckpt.jlen <= at + n
        BY <1>1, <1>7, <3>2 DEF SharedInv, DirOK
      <3> QED
        BY <2>3, <3>2, <3>3, UptoLess
    <2>5. at + n + Len(left) = 2 * Lines(proc[p].events)
      <3>1. \A a, b, m \in Nat : a + m + (b - m) = a + b
        OBVIOUS
      <3>2. at + n + Len(left) = at + Len(buf)
        BY <1>1, <1>7, <3>1
      <3> QED
        BY <2>2, <3>2
    <2>6. ASSUME NEW i \in 1..Len(left) PROVE left[i] = Unit(at + n + i)
      <3>1. /\ i \in 1..(Len(buf) - n) /\ n + i \in 1..Len(buf)
            /\ at + (n + i) = at + n + i
        BY <1>1, <1>7
      <3> QED
        BY <1>7, <2>2, <3>1
    <2>7. Holds(proc[p])'
      BY <1>4, <1>8, <2>2, <2>3, <2>5, <2>6 DEF Holds
    <2>8. place = "measure" => left = << >>
      <3>1. SUFFICES ASSUME place = "measure" PROVE left = << >>
        OBVIOUS
      <3>2. n = Len(buf)
        BY <1>3, <3>1
      <3> QED
        BY <1>1, <1>7, <3>2 DEF left
    <2> QED
      BY <1>4, <1>8, <2>1, <2>2, <2>4, <2>7, <2>8 DEF Sane, Working, Only
  <1> QED
    BY <1>1, <1>2, <1>8, <1>9, Settled

LEMMA MeasureClean ==
  ASSUME SharedInv, CleanInv, NEW p \in Process, Measure(p)
  PROVE  CleanInv'
  <1> DEFINE c == Taken(proc[p])
             s == [proc[p] EXCEPT !.pc = "open", !.snap = c]
  <1>1. /\ SharedInv' /\ proc[p] \in State /\ Placed(proc[p]) /\ journal \in Seq(Byte)
        /\ proc[p].events \in Nat /\ proc[p].left \in Nat /\ proc[p].mem \in Seq(Nat)
        /\ proc[p].sound \in BOOLEAN /\ proc[p].at \in Nat
    BY MeasureStep, OwnState DEF SharedInv, DirOK
  <1>2. /\ printed' = printed /\ clean' = clean /\ UNCHANGED <<journal, ckpt>>
        /\ ~At(p, "down") /\ proc[p].pc = "measure"
    BY DEF Measure, rest, At
  <1>3. Moved(p, s)
    BY DEF Measure, Update, Moved, Taken
  <1> HIDE DEF c
  <1>4. /\ s.pc = "open" /\ SameButPlace([proc[p] EXCEPT !.snap = c], s) /\ s.snap = c
        /\ s.sound = proc[p].sound /\ s.mem = proc[p].mem /\ s.events = proc[p].events
        /\ s.at = proc[p].at /\ s.buf = proc[p].buf
    BY <1>1 DEF State, SameButPlace
  <1> HIDE DEF s
  <1>5. proc'[p] = s /\ \A q \in Process \ {p} : proc'[q].pc = proc[q].pc
    BY <1>3, Others
  <1>6. ASSUME clean' PROVE Alone(p) /\ DirClean' /\ Sane(proc[p])'
    <2>1. DirClean' /\ Alone(p) /\ Sane(proc[p])
      BY <1>2, <1>6, Keeps
    <2>2. proc[p].sound /\ Holds(proc[p]) /\ proc[p].buf = << >>
      BY <1>2, <2>1 DEF Sane, Working
    <2>3. proc[p].events \in 0..LastEvent
      BY <1>1, <2>2 DEF Placed
    <2>4. Len(proc[p].mem) = Lines(proc[p].events) /\ Lines(proc[p].events) \in Nat
      BY <2>2, <2>3, GoldenFacts, LinesFacts DEF Holds
    <2>5. Len(journal) = proc[p].at /\ proc[p].at = 2 * Lines(proc[p].events)
      <3>1. Len(proc[p].buf) = 0
        BY <2>2
      <3> QED
        BY <1>1, <2>2, <3>1 DEF Holds
    <2>6. c \in Checkpoints
      BY <1>1, <2>4, <2>5 DEF Checkpoints, Taken, Placed, c
    <2>7. Good(c) /\ c.jlen = proc[p].at
      BY <2>2, <2>4, <2>5, <2>6 DEF Good, Taken, c
    <2>8. Holds(proc[p])'
      BY <1>2, <1>4, <1>5, <2>2 DEF Holds, Upto
    <2>9. Sane(proc[p])'
      BY <1>4, <1>5, <2>2, <2>7, <2>8 DEF Sane, Working
    <2> QED
      BY <2>1, <2>9
  <1> QED
    BY <1>1, <1>2, <1>5, <1>6, Settled

LEMMA OpenClean ==
  ASSUME SharedInv, CleanInv, NEW p \in Process, OpenTemporary(p)
  PROVE  CleanInv'
  <1> DEFINE s == [proc[p] EXCEPT !.pc = "write", !.file = "tmp"]
  <1>1. /\ SharedInv' /\ proc[p] \in State /\ proc \in [Process -> State]
    BY OpenStep, OwnState DEF SharedInv
  <1>2. /\ printed' = printed /\ clean' = clean /\ UNCHANGED <<journal, ckpt>>
        /\ ~At(p, "down") /\ proc[p].pc = "open"
    BY DEF OpenTemporary, rest, At
  <1>3. Moved(p, s)
    BY <1>1 DEF OpenTemporary, Moved
  <1>4. s.pc = "write" /\ SameButPlace(proc[p], s) /\ s.file = "tmp"
    BY <1>1 DEF State, SameButPlace
  <1> HIDE DEF s
  <1>5. proc'[p] = s /\ \A q \in Process \ {p} : proc'[q].pc = proc[q].pc
    BY <1>3, Others
  <1>6. ASSUME clean' PROVE Alone(p) /\ DirClean' /\ Sane(proc[p])'
    <2>1. DirClean' /\ Alone(p) /\ Sane(proc[p])
      BY <1>2, <1>6, Keeps
    <2>2. \A q \in Process \ {p} : proc[q].file # "tmp"
      <3>1. SUFFICES ASSUME NEW q \in Process \ {p} PROVE proc[q].file # "tmp"
        OBVIOUS
      <3>2. proc[q] = [Idle EXCEPT !.pc = "down"]
        BY <2>1 DEF Alone, At, SharedInv, ProcsOK, ProcInv, Resting
      <3> QED
        BY <3>2 DEF Idle
    <2>3. tmp' = Begun
      BY <2>2 DEF OpenTemporary
    <2>4. /\ proc[p].sound /\ Holds(proc[p]) /\ Good(proc[p].snap)
          /\ proc[p].snap.jlen = proc[p].at
      BY <1>2, <2>1 DEF Sane, Working
    <2>5. Holds(proc[p])'
      BY <1>2, <1>4, <1>5, <2>4 DEF Holds, Upto, SameButPlace
    <2>6. Sane(proc[p])'
      BY <1>4, <1>5, <2>3, <2>4, <2>5 DEF Sane, Working, SameButPlace
    <2> QED
      BY <2>1, <2>6
  <1> QED
    BY <1>1, <1>2, <1>5, <1>6, Settled

LEMMA PartClean ==
  ASSUME SharedInv, CleanInv, NEW p \in Process, WritePart(p)
  PROVE  CleanInv'
  <1>1. /\ SharedInv' /\ printed' = printed /\ clean' = clean /\ proc' = proc
        /\ ~At(p, "down") /\ journal' = journal /\ proc[p].pc = "write"
    BY SaveStep DEF WritePart, rest, At
  <1>2. ASSUME clean' PROVE Alone(p) /\ DirClean' /\ Sane(proc[p])'
    <2>1. Only(p) /\ clean
      BY <1>1, <1>2, OnlyOne
    <2>2. proc[p].file = "tmp" /\ tmp = Begun
      BY <1>1, <2>1 DEF Only, Sane
    <2>3. tmp' = tmp /\ ckpt' = ckpt
      BY <2>2 DEF WritePart
    <2>4. DirClean'
      BY <1>1, <2>1, <2>3, DirStays DEF Only
    <2>5. Sane(proc[p])'
      BY <1>1, <2>1, <2>3 DEF Only, Sane, Holds, Upto
    <2> QED
      BY <2>1, <2>4, <2>5 DEF Only
  <1> QED
    BY <1>1, <1>2, Settled

LEMMA FillClean ==
  ASSUME SharedInv, CleanInv, NEW p \in Process, WriteTemporary(p)
  PROVE  CleanInv'
  <1> DEFINE s == [proc[p] EXCEPT !.pc = "rename", !.file = "none"]
  <1>1. /\ SharedInv' /\ proc[p] \in State /\ proc \in [Process -> State]
    BY SaveStep, OwnState DEF SharedInv
  <1>2. /\ printed' = printed /\ clean' = clean /\ journal' = journal
        /\ ~At(p, "down") /\ proc[p].pc = "write"
    BY DEF WriteTemporary, rest, At
  <1>3. Moved(p, s)
    BY <1>1 DEF WriteTemporary, Moved
  <1>4. s.pc = "rename" /\ SameButPlace(proc[p], s)
    BY <1>1 DEF State, SameButPlace
  <1> HIDE DEF s
  <1>5. proc'[p] = s /\ \A q \in Process \ {p} : proc'[q].pc = proc[q].pc
    BY <1>3, Others
  <1>6. ASSUME clean' PROVE Alone(p) /\ DirClean' /\ Sane(proc[p])'
    <2>1. Only(p)
      BY <1>2, <1>6, OnlyOne
    <2>2. /\ proc[p].file = "tmp" /\ tmp = Begun /\ proc[p].sound /\ Holds(proc[p])
          /\ Good(proc[p].snap) /\ proc[p].snap.jlen = proc[p].at
      BY <1>2, <2>1 DEF Only, Sane, Working
    <2>3. tmp' = proc[p].snap /\ ckpt' = ckpt
      BY <2>2 DEF WriteTemporary
    <2>4. DirClean'
      BY <1>2, <2>1, <2>3, DirStays DEF Only
    <2>5. Holds(proc[p])'
      BY <1>2, <1>4, <1>5, <2>2 DEF Holds, Upto, SameButPlace
    <2>6. Sane(proc[p])'
      BY <1>4, <1>5, <2>2, <2>3, <2>5 DEF Sane, Working, SameButPlace
    <2> QED
      BY <2>1, <2>4, <2>6 DEF Only
  <1> QED
    BY <1>1, <1>2, <1>5, <1>6, Settled

(* The rename publishes the checkpoint the process took of itself, and the *)
(* journal holds as much as it names.                                      *)
LEMMA RenameClean ==
  ASSUME SharedInv, CleanInv, NEW p \in Process, Rename(p)
  PROVE  CleanInv'
  <1>1. /\ SharedInv' /\ \A q \in Process \ {p} : proc'[q].pc = proc[q].pc
        /\ proc'[p].pc = "event" /\ proc'[p].sound = proc[p].sound
        /\ proc'[p].events = proc[p].events /\ proc'[p].mem = proc[p].mem
        /\ proc'[p].buf = proc[p].buf /\ proc'[p].at = proc[p].at
    BY RenameStep
  <1>2. /\ printed' = printed /\ clean' = clean /\ journal' = journal /\ ckpt' = tmp
        /\ ~At(p, "down") /\ proc[p].pc = "rename"
    BY DEF Rename, rest, At
  <1>3. ASSUME clean' PROVE Alone(p) /\ DirClean' /\ Sane(proc[p])'
    <2>1. Only(p)
      BY <1>2, <1>3, OnlyOne
    <2>2. /\ proc[p].sound /\ Holds(proc[p]) /\ Good(proc[p].snap)
          /\ proc[p].snap.jlen = proc[p].at /\ tmp = proc[p].snap
      BY <1>2, <2>1 DEF Only, Sane, Working
    <2>3. Good(ckpt') /\ Upto(journal', ckpt'.jlen)
      BY <1>2, <2>2 DEF Holds
    <2>4. DirClean'
      BY <2>3 DEF DirClean, Good
    <2>5. Holds(proc[p])'
      BY <1>1, <1>2, <2>2 DEF Holds, Upto
    <2>6. Sane(proc[p])'
      BY <1>1, <2>2, <2>5 DEF Sane, Working
    <2> QED
      BY <2>1, <2>4, <2>6 DEF Only
  <1> QED
    BY <1>1, <1>2, <1>3, Settled

LEMMA CleanStep == SharedInv /\ CleanInv /\ [Next]_vars => CleanInv'
  <1> SUFFICES ASSUME SharedInv, CleanInv, [Next]_vars PROVE CleanInv'
    OBVIOUS
  <1>1. CASE UNCHANGED vars
    BY <1>1 DEF CleanInv, DirClean, Sane, Holds, Upto, Alone, At, vars
  <1>2. ASSUME NEW p \in Process, Step(p) PROVE CleanInv'
    BY <1>2, CreateClean, ReadClean, EndClean, CutClean, LoadClean, EventClean, WriteClean,
       MeasureClean, OpenClean, FillClean, RenameClean DEF Step
  <1>3. ASSUME NEW p \in Process, Spill(p) \/ WritePart(p) \/ Kill(p) PROVE CleanInv'
    BY <1>3, WriteClean, PartClean, EndClean
  <1>4. ASSUME NEW p \in Process, NEW resume \in BOOLEAN, Invoke(p, resume) PROVE CleanInv'
    BY <1>4, InvokeClean
  <1> QED
    BY <1>1, <1>2, <1>3, <1>4 DEF Next

LEMMA CleanInit == Init => CleanInv
  <1> SUFFICES ASSUME Init PROVE CleanInv
    OBVIOUS
  <1>1. \A p \in Process : proc[p] = Idle /\ proc[p].pc = "down" /\ proc[p].sound
    BY DEF Init, Idle
  <1>2. ckpt = NoFile /\ printed = {}
    BY DEF Init
  <1> QED
    BY <1>1, <1>2 DEF CleanInv, DirClean, Sane, Working, At

LEMMA CleanIsExact == SharedInv /\ CleanInv => AloneIsExact
  <1> SUFFICES ASSUME SharedInv, CleanInv, clean, NEW p \in Process
               PROVE  /\ proc[p].pc \notin {"down", "read", "setlen", "load"} =>
                           proc[p].sound /\ proc[p].mem = Golden(proc[p].events)
                      /\ At(p, "read") => ckpt.tag = "checkpoint"
                      /\ At(p, "load") => Whole(journal, proc[p].snap.records)
    BY DEF CleanInv, AloneIsExact
  <1>1. Sane(proc[p]) /\ DirClean /\ proc[p] \in State /\ ProcInv(proc[p]) /\ journal \in Seq(Byte)
    BY OwnState DEF CleanInv, SharedInv, DirOK
  <1>2. ASSUME proc[p].pc \notin {"down", "read", "setlen", "load"}
        PROVE  proc[p].sound /\ proc[p].mem = Golden(proc[p].events)
    <2>1. CASE proc[p].pc \in Working
      BY <1>1, <2>1 DEF Sane, Holds
    <2>2. CASE proc[p].pc \in {"remove", "removetmp", "truncate"}
      <3>1. proc[p] = [Idle EXCEPT !.pc = proc[p].pc]
        BY <1>1, <2>2 DEF ProcInv, Resting
      <3>2. proc[p].events = 0 /\ proc[p].mem = << >>
        BY <3>1 DEF Idle
      <3>3. Golden(0) = << >>
        BY LinesFacts DEF Golden
      <3> QED
        BY <1>1, <3>2, <3>3 DEF Sane
    <2>3. proc[p].pc \in Places
      BY <1>1 DEF State
    <2> QED
      BY <1>2, <2>1, <2>2, <2>3 DEF Places, Working
  <1>3. ASSUME At(p, "read") PROVE ckpt.tag = "checkpoint"
    BY <1>1, <1>3 DEF At, Sane, DirClean, Good, Checkpoints
  <1>4. ASSUME At(p, "load") PROVE Whole(journal, proc[p].snap.records)
    <2>1. Good(ckpt) /\ proc[p].snap = ckpt
      BY <1>1, <1>4 DEF At, Sane
    <2>2. ckpt.jlen = 2 * ckpt.records /\ ckpt.records \in Nat
      BY <2>1 DEF Good, Checkpoints
    <2>3. Upto(journal, ckpt.jlen)
      BY <1>1, <2>1 DEF DirClean, Good, Checkpoints, NoFile
    <2> QED
      BY <1>1, <2>1, <2>2, <2>3, UptoWhole
  <1> QED
    BY <1>2, <1>3, <1>4

(* Whatever processes in each other's way have left in the directory, a    *)
(* command that creates its run alone makes it good: until two are there   *)
(* at once again, every process, killed and resumed as often as you like,  *)
(* has and prints exactly the uninterrupted run, and no resume is refused. *)
THEOREM AloneAlwaysExact == Spec => []AloneIsExact
  <1> QED
    BY SharedInvHolds, CleanInit, CleanStep, CleanIsExact, PTL DEF Spec
-----------------------------------------------------------------------------
(* That two processes cannot ruin each other both: until a ledger is       *)
(* printed or a process is killed, somebody is on its way to the boundary, *)
(* or at its rename with a temporary file there to be renamed.  The file   *)
(* can only go missing by a step that leaves the one who took it alive.    *)
Afoot == {"remove", "removetmp", "truncate", "boundary", "measure", "open", "event"}
Alive ==
  \/ kills > 0 \/ printed # {}
  \/ commands = 0 /\ ckpt = NoFile /\ \A p \in Process : At(p, "down")
  \/ \E p \in Process : proc[p].pc \in Afoot
  \/ tmp # NoFile /\ \E p \in Process : At(p, "write") \/ At(p, "rename")

(* A step that brings its process afoot.                                   *)
LEMMA AfootStep ==
  ASSUME SharedInv, NEW p \in Process,
         \/ RemoveCheckpoint(p) \/ RemoveTemporary(p) \/ TruncateJournal(p)
         \/ LoadPrefix(p) \/ Event(p) \/ Flush(p) \/ Spill(p) \/ Measure(p) \/ Rename(p)
  PROVE  Alive'
  <1>1. proc \in [Process -> State] /\ proc[p] \in State
    BY OwnState DEF SharedInv, ProcsOK
  <1>2. SUFFICES proc'[p].pc \in Afoot
    BY <1>2 DEF Alive
  <1>3. DOMAIN proc = Process /\ proc[p] = [proc[p] EXCEPT !.pc = @] /\ "pc" \in DOMAIN proc[p]
    BY <1>1 DEF State
  <1>4. CASE RemoveCheckpoint(p)
    BY <1>3, <1>4 DEF RemoveCheckpoint, Follow, Afoot
  <1>5. CASE RemoveTemporary(p)
    BY <1>3, <1>5 DEF RemoveTemporary, Follow, Afoot
  <1>6. CASE Rename(p)
    BY <1>3, <1>6 DEF Rename, Follow, Afoot
  <1>7. CASE TruncateJournal(p)
    BY <1>3, <1>7 DEF TruncateJournal, Goto, Afoot
  <1>8. CASE LoadPrefix(p)
    BY <1>3, <1>8 DEF LoadPrefix, Update, Afoot
  <1>9. CASE Event(p)
    BY <1>3, <1>9 DEF Event, Update, Afoot
  <1>10. CASE Measure(p)
    BY <1>3, <1>10 DEF Measure, Update, Afoot
  <1>11. CASE Spill(p) \/ Flush(p)
    BY <1>3, <1>11 DEF Spill, Flush, Write, Update, Afoot
  <1> QED
    BY <1>4, <1>5, <1>6, <1>7, <1>8, <1>9, <1>10, <1>11

(* A step of a process that is not afoot leaves the others where they are. *)
LEMMA IdleStep ==
  ASSUME SharedInv, Alive, NEW p \in Process,
         ReadCheckpoint(p) \/ RefuseCheckpoint(p) \/ CutJournal(p) \/ RefuseJournal(p)
  PROVE  Alive'
  <1>1. proc \in [Process -> State] /\ proc[p].pc \in {"read", "setlen", "load"}
    BY DEF SharedInv, ProcsOK, ReadCheckpoint, RefuseCheckpoint, CutJournal, RefuseJournal, At
  <1>2. \A q \in Process : q # p => proc'[q] = proc[q]
    BY <1>1 DEF ReadCheckpoint, RefuseCheckpoint, CutJournal, RefuseJournal, Goto, Halt, Update
  <1>3. UNCHANGED <<tmp, printed, kills>>
    BY DEF ReadCheckpoint, RefuseCheckpoint, CutJournal, RefuseJournal, rest
  <1>4. CASE kills > 0 \/ printed # {}
    BY <1>3, <1>4 DEF Alive
  <1>5. ASSUME NEW q \in Process, proc[q].pc \in Afoot \/ At(q, "write") \/ At(q, "rename")
        PROVE  proc'[q] = proc[q]
    BY <1>1, <1>2, <1>5 DEF At, Afoot
  <1> QED
    BY <1>1, <1>3, <1>4, <1>5 DEF Alive, At

LEMMA InvokeAlive ==
  ASSUME SharedInv, Alive, NEW p \in Process, NEW resume, Invoke(p, resume)
  PROVE  Alive'
  <1>1. proc \in [Process -> State] /\ proc[p].pc = "down"
    BY DEF SharedInv, ProcsOK, Invoke, At
  <1>2. \A q \in Process : q # p => proc'[q] = proc[q]
    BY <1>1 DEF Invoke, Update
  <1>3. UNCHANGED <<tmp, printed, kills>>
    BY DEF Invoke
  <1>4. CASE kills > 0 \/ printed # {}
    BY <1>3, <1>4 DEF Alive
  <1>5. CASE ckpt = NoFile
    <2>1. proc'[p].pc = "remove"
      BY <1>1, <1>5 DEF Invoke, Update, Idle
    <2> QED
      BY <2>1 DEF Alive, Afoot
  <1>6. ASSUME NEW q \in Process, proc[q].pc \in Afoot \/ At(q, "write") \/ At(q, "rename")
        PROVE  proc'[q] = proc[q]
    BY <1>1, <1>2, <1>6 DEF At, Afoot
  <1> QED
    BY <1>3, <1>4, <1>5, <1>6 DEF Alive, At

LEMMA Something ==
  NoFile \notin {Begun, Torn} \cup Mixtures
  <1>1. \A c \in Mixtures : c.tag = "checkpoint"
    BY SharingAssumption
  <1> QED
    BY <1>1 DEF NoFile, Begun, Torn

(* Saving: the temporary file is there when its writer is.                 *)
LEMMA SavingStep ==
  ASSUME SharedInv, Alive, NEW p \in Process,
         OpenTemporary(p) \/ WriteTemporary(p) \/ WritePart(p) \/ RenameFails(p)
  PROVE  Alive'
  <1>1. proc \in [Process -> State] /\ proc[p] \in State /\ ProcInv(proc[p])
    BY OwnState DEF SharedInv, ProcsOK
  <1>2. \A q \in Process : q # p => proc'[q] = proc[q]
    BY <1>1 DEF OpenTemporary, WriteTemporary, WritePart, RenameFails, Halt, Update
  <1>3. UNCHANGED <<printed, kills>>
    BY DEF OpenTemporary, WriteTemporary, WritePart, RenameFails, rest
  <1>4. CASE kills > 0 \/ printed # {}
    BY <1>3, <1>4 DEF Alive
  <1>5. CASE OpenTemporary(p)
    <2>1. proc'[p].pc = "write" /\ tmp' # NoFile
      BY <1>1, <1>5 DEF OpenTemporary, State, Torn, Begun, NoFile
    <2> QED
      BY <2>1 DEF Alive, At
  <1>6. ASSUME NEW q \in Process, proc[q].pc \in Afoot,
               WriteTemporary(p) \/ WritePart(p) \/ RenameFails(p)
        PROVE  Alive'
    <2>1. q # p
      BY <1>6 DEF WriteTemporary, WritePart, RenameFails, At, Afoot
    <2> QED
      BY <1>2, <1>6, <2>1 DEF Alive
  <1>7. CASE WriteTemporary(p) /\ tmp # NoFile
    <2>1. proc'[p].pc = "rename"
      BY <1>1, <1>7 DEF WriteTemporary, State
    <2>2. proc[p].snap # NoFile
      BY <1>1, <1>7 DEF WriteTemporary, At, ProcInv, Checkpoints, NoFile
    <2>3. tmp' \in {tmp, proc[p].snap, Torn} \cup Mixtures
      BY <1>7 DEF WriteTemporary
    <2> QED
      BY <1>7, <2>1, <2>2, <2>3, Something DEF Alive, At
  <1>8. CASE WritePart(p) /\ tmp # NoFile
    <2>1. proc'[p].pc = "write"
      BY <1>8 DEF WritePart, At
    <2>2. tmp' \in {tmp, Begun, Torn} \cup Mixtures
      BY <1>8 DEF WritePart
    <2> QED
      BY <1>8, <2>1, <2>2, Something DEF Alive, At
  <1>9. ~(\A q \in Process : At(q, "down"))
    BY DEF OpenTemporary, WriteTemporary, WritePart, RenameFails, At
  <1>10. RenameFails(p) => tmp = NoFile
    BY DEF RenameFails
  <1> QED
    BY <1>4, <1>5, <1>6, <1>7, <1>8, <1>9, <1>10 DEF Alive

LEMMA AliveStep == SharedInv /\ Alive /\ [Next]_vars => Alive'
  <1> SUFFICES ASSUME SharedInv, Alive, [Next]_vars PROVE Alive'
    OBVIOUS
  <1>1. CASE UNCHANGED vars
    BY <1>1 DEF Alive, At, vars
  <1>2. ASSUME NEW p \in Process, Finish(p) PROVE Alive'
    BY <1>2 DEF Finish, Alive
  <1>3. ASSUME NEW p \in Process, Kill(p) PROVE Alive'
    BY <1>3 DEF Kill, SharedInv, RestOK, Alive
  <1>4. ASSUME NEW p \in Process, Step(p) PROVE Alive'
    BY <1>2, <1>4, AfootStep, IdleStep, SavingStep DEF Step
  <1>5. ASSUME NEW p \in Process, Spill(p) \/ WritePart(p) PROVE Alive'
    BY <1>5, AfootStep, SavingStep
  <1>6. ASSUME NEW p \in Process, NEW resume \in BOOLEAN, Invoke(p, resume) PROVE Alive'
    BY <1>6, InvokeAlive
  <1> QED
    BY <1>1, <1>3, <1>4, <1>5, <1>6 DEF Next

(* When every command is over and none was killed, at least one printed    *)
(* its ledger, for any number of processes and commands on the directory.  *)
THEOREM OneAlwaysFinishes == Spec => []SomebodyFinishes
  <1>1. Init => Alive
    BY DEF Init, Alive, At, Idle
  <1>2. Alive => SomebodyFinishes
    BY DEF Alive, SomebodyFinishes, At, Afoot
  <1> QED
    BY <1>1, <1>2, SharedInvHolds, AliveStep, PTL DEF Spec
=============================================================================
