------------------------------ MODULE CookerProofs ------------------------------
(* Theorems about Cooker, for every set of commands, profiles and presets  *)
(* and however many commands are killed.                                   *)
EXTENDS Cooker, SeqFacts

(* The paths of S as sort orders them.                                     *)
Ordered(S) ==
  [k \in 1..Cardinality(S) |->
     CHOOSE p \in S : Cardinality({q \in S : q < p}) = k - 1]

(* The profiles a run with this origin had: they depend on the arguments   *)
(* and the files, and not on how the system lists a directory.             *)
Present(o) == IF o.dir THEN {p \in InDir : o.files[p] # None} ELSE {}
Sources(o) == o.paths \o Ordered(Present(o))
Given(o) ==
  IF Sources(o) = << >> THEN [i \in DOMAIN Presets |-> Profile(Presets[i])]
  ELSE [i \in DOMAIN Sources(o) |-> o.files[Sources(o)[i]]]
JobFrom(o) == [tag |-> "job", args |-> o.args, personas |-> Given(o)]

LEMMA OriginFields ==
  ASSUME NEW m
  PROVE  LET o == OriginOf(m)
         IN /\ o.tag = "origin" /\ o.args = Arguments(m) /\ o.paths = m.files
            /\ o.dir = m.dir /\ o.files = files
  BY DEF OriginOf

(* An enumeration of a finite set without repetition reaches all of it.    *)
LEMMA EnumerationCovers ==
  ASSUME NEW S, IsFiniteSet(S), NEW s \in SetToSeqs(S)
  PROVE  DOMAIN s = 1..Cardinality(S) /\ Range(s) = S
  <1> DEFINE D == 1..Cardinality(S)
  <1>1. Cardinality(S) \in Nat
    BY FS_CardinalityType
  <1>2. s \in [D -> S] /\ \A i, j \in D : i # j => s[i] # s[j]
    BY DEF SetToSeqs
  <1>3. IsFiniteSet(D) /\ Cardinality(D) = Cardinality(S)
    BY <1>1, FS_Interval
  <1>4. s \in Injection(D, S)
    BY <1>2 DEF Injection, IsInjective
  <1>5. s \in Surjection(D, S)
    BY <1>3, <1>4, FS_Injection
  <1> QED
    BY <1>2, <1>5 DEF Surjection, Range

(* The order of the listing does not matter.                               *)
LEMMA ListingsAgree ==
  ASSUME NEW m \in Commands, NEW listing \in Listings(m)
  PROVE  LoadOrder(listing) = Ordered(Present(OriginOf(m)))
  <1> DEFINE S == Present(OriginOf(m))
  <1>1. m.dir \in BOOLEAN
    BY CommandsAssumption
  <1>2. DOMAIN listing = 1..Cardinality(S) /\ Range(listing) = S
    <2>1. CASE m.dir
      <3>1. S = {p \in InDir : files[p] # None} /\ listing \in SetToSeqs(S)
        BY <2>1, OriginFields DEF Listings, Present
      <3>2. IsFiniteSet(S)
        BY <3>1, FilesAssumption, FS_Subset
      <3> HIDE DEF S
      <3> QED
        BY <3>1, <3>2, EnumerationCovers
    <2>2. CASE ~m.dir
      <3>1. S = {} /\ listing = << >>
        BY <2>2, OriginFields DEF Listings, Present
      <3>2. Cardinality(S) = 0
        BY <3>1, FS_EmptySet
      <3>3. DOMAIN listing = {} /\ 1..0 = {}
        BY <3>1
      <3> QED
        BY <3>1, <3>2, <3>3 DEF Range
    <2> QED
      BY <1>1, <2>1, <2>2
  <1> HIDE DEF S
  <1>3. LoadOrder(listing) = Ordered(S)
    BY <1>2 DEF LoadOrder, Ordered
  <1> QED
    BY <1>3 DEF S

LEMMA LoadedIsGiven ==
  ASSUME NEW m \in Commands, NEW listing \in Listings(m)
  PROVE  Loaded(m.files \o LoadOrder(listing)) = Given(OriginOf(m))
  <1>1. m.files \o LoadOrder(listing) = Sources(OriginOf(m))
    BY ListingsAgree, OriginFields DEF Sources
  <1> QED
    BY <1>1, OriginFields DEF Loaded, Given

LEMMA GivenIsSeq ==
  ASSUME NEW m \in Commands
  PROVE  IsSeq(Given(OriginOf(m))) /\ Given(OriginOf(m)) # << >>
  <1> DEFINE o == OriginOf(m)
             S == Present(o)
             ps == Sources(o)
  <1>1. IsSeq(Ordered(S))
    <2>1. IsFiniteSet(S)
      BY FilesAssumption, FS_Subset, FS_EmptySet DEF Present
    <2> HIDE DEF S
    <2>2. Cardinality(S) \in Nat
      BY <2>1, FS_CardinalityType
    <2>3. Ordered(S) = [k \in 1..Cardinality(S) |-> Ordered(S)[k]]
      BY DEF Ordered
    <2> QED
      BY <2>2, <2>3, ShapeSeq
  <1>2. IsSeq(m.files)
    BY CommandsAssumption, AnySeq
  <1>3. ps = m.files \o Ordered(S)
    BY OriginFields DEF Sources
  <1>4. IsSeq(ps)
    BY <1>1, <1>2, <1>3, ConcatSeq
  <1>5. Given(o) = IF ps = << >> THEN [i \in DOMAIN Presets |-> Profile(Presets[i])]
                   ELSE [i \in DOMAIN ps |-> o.files[ps[i]]]
    BY DEF Given
  <1>6. Len(Presets) \in Nat /\ DOMAIN Presets = 1..Len(Presets) /\ Len(Presets) # 0
    BY FilesAssumption
  <1> HIDE DEF o, ps
  <1>7. CASE ps = << >>
    <2>1. Given(o) = [i \in 1..Len(Presets) |-> Given(o)[i]] /\ DOMAIN Given(o) = 1..Len(Presets)
      BY <1>5, <1>6, <1>7
    <2>2. IsSeq(Given(o)) /\ Len(Given(o)) = Len(Presets)
      BY <1>6, <2>1, ShapeSeq
    <2> QED
      BY <1>6, <2>2, NoElements DEF o
  <1>8. CASE ps # << >>
    <2>1. Len(ps) \in Nat /\ DOMAIN ps = 1..Len(ps) /\ ps = [i \in 1..Len(ps) |-> ps[i]]
      BY <1>4, SeqShape
    <2>2. Len(ps) # 0
      BY <1>8, <1>4, <2>1, EqualSeqs, NoElements
    <2>3. Given(o) = [i \in 1..Len(ps) |-> Given(o)[i]]
      BY <1>5, <1>8, <2>1
    <2>4. IsSeq(Given(o)) /\ Len(Given(o)) = Len(ps)
      BY <2>1, <2>3, ShapeSeq
    <2> QED
      BY <2>2, <2>4, NoElements DEF o
  <1> QED
    BY <1>7, <1>8

(* Every place of the order is somebody's.                                 *)
LEMMA OrderedTyped ==
  ASSUME NEW S, S \subseteq Nat, IsFiniteSet(S)
  PROVE  Ordered(S) \in Seq(S)
  <1> DEFINE R == {t \in S \X S : t[1] < t[2]}
  <1>1. Orders(R, S)
    BY DEF Orders
  <1>2. ASSUME NEW x \in S PROVE Rank(R, S, x) = Cardinality({q \in S : q < x})
    <2>1. {y \in S : <<y, x>> \in R} = {q \in S : q < x}
      OBVIOUS
    <2> QED
      BY <2>1 DEF Rank
  <1>3. Cardinality(S) \in Nat
    BY FS_CardinalityType
  <1> HIDE DEF R
  <1>4. ASSUME NEW k \in 1..Cardinality(S)
        PROVE  (CHOOSE p \in S : Cardinality({q \in S : q < p}) = k - 1) \in S
    <2>1. k - 1 \in 0..(Cardinality(S) - 1)
      BY <1>3
    <2>2. \A n \in 0..(Cardinality(S) - 1) : \E x \in S : Rank(R, S, x) = n
      <3>1. IsFiniteSet(S)
        OBVIOUS
      <3> QED
        BY ONLY <1>1, <3>1, RankHit
    <2>3. PICK x \in S : Rank(R, S, x) = k - 1
      BY <2>1, <2>2
    <2>4. Cardinality({q \in S : q < x}) = k - 1
      BY <1>2, <2>3
    <2> QED
      BY <2>4
  <1> DEFINE place(k) == CHOOSE p \in S : Cardinality({q \in S : q < p}) = k - 1
  <1>5. \A k \in 1..Cardinality(S) : place(k) \in S
    BY <1>4
  <1>6. Ordered(S) = [k \in 1..Cardinality(S) |-> place(k)]
    BY DEF Ordered
  <1> HIDE DEF place
  <1> QED
    BY <1>3, <1>5, <1>6

(* What a persona file may hold.                                           *)
FilesOK == files \in [Path -> Profiles \cup {None, Torn}]

(* Profiles that pass the checks are profiles of the user's or presets.    *)
LEMMA GivenTyped ==
  ASSUME NEW m \in Commands, FilesOK, Acceptable(Given(OriginOf(m)))
  PROVE  Given(OriginOf(m)) \in Seq(Profiles)
  <1> DEFINE o == OriginOf(m)
             S == Present(o)
             ps == Sources(o)
  <1>1. S \subseteq Path /\ IsFiniteSet(S) /\ Path \subseteq Nat
    BY FilesAssumption, BoundsAssumption, FS_Subset, FS_EmptySet DEF Present
  <1>2. o.files = files /\ ps = m.files \o Ordered(S)
    BY OriginFields DEF Sources
  <1> HIDE DEF S
  <1>3. Ordered(S) \in Seq(S)
    BY <1>1, OrderedTyped
  <1>4. Ordered(S) \in Seq(Path)
    <2> DEFINE s == Ordered(S)
    <2> HIDE DEF s
    <2>1. s \in Seq(S)
      BY <1>3 DEF s
    <2>2. Len(s) \in Nat /\ s = [i \in 1..Len(s) |-> s[i]] /\ \A i \in 1..Len(s) : s[i] \in S
      BY <2>1
    <2>3. s \in Seq(Path)
      BY <1>1, <2>2
    <2> QED
      BY <2>3 DEF s
  <1>5. m.files \in Seq(Path)
    BY CommandsAssumption
  <1> HIDE DEF o
  <1>6. ps \in Seq(Path)
    BY <1>2, <1>4, <1>5
  <1>7. Given(o) = IF ps = << >> THEN [i \in DOMAIN Presets |-> Profile(Presets[i])]
                   ELSE [i \in DOMAIN ps |-> files[ps[i]]]
    BY <1>2 DEF Given
  <1>8. ASSUME NEW i \in DOMAIN Given(o) PROVE Given(o)[i] \in Profiles
    <2>1. CASE ps = << >>
      BY <1>7, <1>8, <2>1 DEF Profiles
    <2>2. CASE ps # << >>
      <3>1. i \in DOMAIN ps /\ Given(o)[i] = files[ps[i]]
        BY <1>7, <1>8, <2>2
      <3>2. ps[i] \in Path
        BY <1>6, <3>1
      <3>3. Given(o)[i] \in Profiles \cup {None, Torn}
        BY <3>1, <3>2 DEF FilesOK
      <3>4. Given(o)[i].tag = "toml"
        BY <1>8 DEF Acceptable, o
      <3> QED
        BY <3>3, <3>4 DEF None, Torn
    <2> QED
      BY <2>1, <2>2
  <1>9. IsSeq(Given(o))
    BY GivenIsSeq DEF o
  <1>10. /\ Len(Given(o)) \in Nat /\ DOMAIN Given(o) = 1..Len(Given(o))
         /\ Given(o) = [i \in 1..Len(Given(o)) |-> Given(o)[i]]
    BY <1>9, SeqShape
  <1> QED
    BY <1>8, <1>10 DEF o

-----------------------------------------------------------------------------
(* The inductive invariant.  Between its checks and its end a command has  *)
(* the profiles its own arguments and the files give: nothing changes them *)
(* meanwhile.  What the directory records is the job of the command that   *)
(* created it, on the profiles there were at that time.  A ledger file is  *)
(* written when the directory has its run, and nothing takes it from there *)
(* but a new run and the loss of the journal.                              *)
Started == {"resume", "create", "running", "empty", "write"}

Afoot ==
  /\ cmd \in Commands /\ FilesOK
  /\ pc \in {"presets", "fill"} => personas \in Seq(Range(Presets))
  /\ pc = "fill" => personas # << >>
  /\ pc \in Started =>
       personas = Given(OriginOf(cmd)) /\ Acceptable(personas)
Recorded(o, given) == job = JobFrom(o) /\ <<job.args, job.personas>> = given
Running == pc = "running" \/ (pc \in {"empty", "write"} /\ cmd.verb = "run")
DirIsOrigins ==
  /\ pc = "resume" => job # None
  /\ Running => inputs = <<Arguments(cmd), personas>> /\ job \in {None, Mine}
  /\ Running /\ job = None => origin = OriginOf(cmd)
  /\ job # None => Recorded(origin, inputs)
Saved(j) == job = j /\ saved = Events /\ journal = "whole"
RunIsSaved ==
  /\ pc = "running" => journal = "whole"
  /\ pc \in {"empty", "write"} /\ cmd.verb = "run" => Saved(Mine)
  /\ latest # None => Saved(latest)
CookInv == Afoot /\ DirIsOrigins /\ RunIsSaved

LEMMA MineFromOrigin ==
  ASSUME Afoot, pc \in Started
  PROVE  /\ Mine = JobFrom(OriginOf(cmd)) /\ Mine # None
         /\ <<Mine.args, Mine.personas>> = <<Arguments(cmd), personas>> /\ Mine \in Jobs
  <1>1. /\ Mine = JobFrom(OriginOf(cmd)) /\ Mine # None
        /\ <<Mine.args, Mine.personas>> = <<Arguments(cmd), personas>>
    BY OriginFields DEF Afoot, Mine, JobOf, JobFrom, None
  <1>2. personas \in Seq(Profiles)
    BY GivenTyped DEF Afoot
  <1>3. Mine \in Jobs
    BY <1>2 DEF Mine, JobOf, Jobs, Afoot
  <1> QED
    BY <1>1, <1>3

LEMMA CookInvInit == Init => CookInv
  <1> SUFFICES ASSUME Init PROVE CookInv
    OBVIOUS
  <1>1. FilesOK
    BY DEF Init, FilesOK, Profiles, Range
  <1> QED
    BY <1>1 DEF Init, CookInv, Afoot, DirIsOrigins, RunIsSaved, Running, Started, None

LEMMA AfootStep == Afoot /\ [Next]_vars => Afoot'
  <1> SUFFICES ASSUME Afoot, [Next]_vars PROVE Afoot'
    OBVIOUS
  <1> USE DEF Afoot, Started
  <1>1. ASSUME cmd' = cmd, files' = files, personas' = personas,
               pc' \in Started => pc \in Started,
               pc' \notin {"presets", "fill"} \/ pc' = pc
        PROVE  Afoot'
    <2>1. OriginOf(cmd)' = OriginOf(cmd)
      BY <1>1 DEF OriginOf
    <2>2. Given(OriginOf(cmd))' = Given(OriginOf(cmd)) /\ Acceptable(personas)' = Acceptable(personas)
      BY <1>1, <2>1 DEF Given, Sources, Present, Acceptable
    <2> QED
      BY <1>1, <2>1, <2>2 DEF FilesOK
  <1>2. ASSUME cmd' \in Commands, pc' \notin Started, FilesOK',
               pc' \in {"presets", "fill"} => personas' \in Seq(Range(Presets)),
               pc' = "fill" => personas' # << >>
        PROVE  Afoot'
    BY <1>2
  <1>3. CASE \E m \in Commands : Invoke(m)
    <2>1. PICK m \in Commands : Invoke(m)
      BY <1>3
    <2>2. Presets \in Seq(Range(Presets)) /\ FilesOK'
      BY <2>1, FilesAssumption DEF Invoke, FilesOK
    <2>3. pc' \in {"presets", "fill"} => pc' = "presets" /\ personas' = Presets
      BY <2>1 DEF Invoke
    <2>4. cmd' \in Commands /\ pc' \notin Started
      BY <2>1 DEF Invoke
    <2> QED
      BY <1>2, <2>2, <2>3, <2>4
  <1>4. CASE EmptyPreset \/ FillPreset \/ PresetsDone
    <2>1. cmd' \in Commands /\ pc' \notin Started
      BY <1>4 DEF EmptyPreset, FillPreset, PresetsDone, Exit
    <2>2. ASSUME EmptyPreset \/ FillPreset
          PROVE  /\ FilesOK' /\ personas' \in Seq(Range(Presets))
                 /\ pc' = "fill" => personas' # << >>
      <3>1. personas \in Seq(Range(Presets))
        BY <2>2 DEF EmptyPreset, FillPreset
      <3>2. CASE EmptyPreset
        <4>1. /\ files' = [files EXCEPT ![Head(personas).path] = Torn]
              /\ personas' = personas /\ personas # << >>
          BY <3>2 DEF EmptyPreset
        <4> QED
          BY <3>1, <4>1 DEF FilesOK
      <3>3. CASE FillPreset /\ personas # << >>
        <4>1. Head(personas) \in Range(Presets) /\ Tail(personas) \in Seq(Range(Presets))
          BY <3>1, <3>3
        <4>2. Profile(Head(personas)) \in Profiles
          BY <4>1 DEF Profiles, Range
        <4> QED
          BY <3>3, <4>1, <4>2 DEF FillPreset, FilesOK
      <3>4. FillPreset => personas # << >>
        BY DEF FillPreset
      <3> QED
        BY <2>2, <3>2, <3>3, <3>4
    <2>3. PresetsDone => FilesOK' /\ pc' = "idle"
      BY DEF PresetsDone, Exit, FilesOK
    <2> QED
      BY <1>2, <1>4, <2>1, <2>2, <2>3
  <1>5. CASE Admit
    <2>1. PICK listing \in Listings(cmd) :
            /\ Admissible(cmd, listing)
            /\ personas' = Loaded(cmd.files \o LoadOrder(listing))
      BY <1>5 DEF Admit
    <2>2. personas' = Given(OriginOf(cmd))
      BY <2>1, LoadedIsGiven
    <2>3. Acceptable(personas')
      BY <2>1 DEF Admissible
    <2>5. cmd' = cmd /\ files' = files /\ pc' \notin {"presets", "fill"}
      BY <1>5 DEF Admit
    <2>6. OriginOf(cmd)' = OriginOf(cmd)
      BY <2>5 DEF OriginOf
    <2>7. Given(OriginOf(cmd))' = Given(OriginOf(cmd))
      BY <2>5, <2>6 DEF Given, Sources, Present
    <2> QED
      BY <2>2, <2>3, <2>5, <2>7 DEF FilesOK
  <1>6. CASE Refuse \/ RefuseResume \/ RefuseJournal \/ WriteOut \/ Read \/ Kill
    BY <1>2, <1>6 DEF Refuse, RefuseResume, RefuseJournal, WriteOut, Read, Kill, Exit, FilesOK
  <1>7. CASE Create \/ Resume \/ Advance \/ RunReturns \/ EmptyOut \/ PowerLoss
    BY <1>1, <1>7 DEF Create, Resume, Advance, RunReturns, EmptyOut, PowerLoss
  <1>8. CASE UNCHANGED vars
    BY <1>1, <1>8 DEF vars
  <1> QED
    BY <1>3, <1>4, <1>5, <1>6, <1>7, <1>8 DEF Next, Step

LEMMA DirStep == Afoot /\ DirIsOrigins /\ [Next]_vars => DirIsOrigins'
  <1> SUFFICES ASSUME Afoot, DirIsOrigins, [Next]_vars PROVE DirIsOrigins'
    OBVIOUS
  <1> USE DEF DirIsOrigins, Running
  <1>1. ASSUME job' = job, origin' = origin, inputs' = inputs
        PROVE  job' # None => Recorded(origin, inputs)'
    BY <1>1 DEF Recorded, JobFrom, Given, Sources, Present
  <1>2. CASE \E m \in Commands : Invoke(m)
    BY <1>1, <1>2 DEF Invoke, dir, history
  <1>3. CASE EmptyPreset \/ FillPreset \/ PresetsDone \/ Refuse \/ RefuseResume
    BY <1>1, <1>3 DEF EmptyPreset, FillPreset, PresetsDone, Refuse, RefuseResume, Exit, dir,
                      history
  <1>4. CASE RefuseJournal \/ WriteOut \/ Read \/ Kill
    BY <1>1, <1>4 DEF RefuseJournal, WriteOut, Read, Kill, Exit, dir, history
  <1>5. ASSUME job' = job, origin' = origin, inputs' = inputs, cmd' = cmd, files' = files,
               personas' = personas, Running' => Running, pc' # "resume"
        PROVE  DirIsOrigins'
    <2>1. Arguments(cmd)' = Arguments(cmd) /\ Mine' = Mine /\ OriginOf(cmd)' = OriginOf(cmd)
      BY <1>5 DEF Arguments, Mine, JobOf, OriginOf
    <2> QED
      BY <1>1, <1>5, <2>1
  <1>6. CASE Admit
    <2>1. /\ job' = job /\ origin' = origin /\ inputs' = inputs
          /\ pc' # "running" /\ (pc' = "resume" => job # None)
          /\ pc' \in {"empty", "write"} => cmd'.verb # "run"
      BY <1>6 DEF Admit, dir, history
    <2> QED
      BY <1>1, <2>1
  <1>7. CASE Create
    <2>1. /\ job' = None /\ origin' = OriginOf(cmd) /\ inputs' = <<Arguments(cmd), personas>>
          /\ cmd' = cmd /\ files' = files /\ personas' = personas /\ pc' = "running"
      BY <1>7 DEF Create, Runner!StartAfresh
    <2>2. OriginOf(cmd)' = OriginOf(cmd) /\ Arguments(cmd)' = Arguments(cmd)
      BY <2>1 DEF OriginOf, Arguments
    <2> QED
      BY <2>1, <2>2
  <1>8. CASE Resume
    <2>1. /\ job' = job /\ origin' = origin /\ inputs' = inputs /\ job # None /\ pc' = "running"
          /\ cmd' = cmd /\ personas' = personas /\ job = Mine
      BY <1>8 DEF Resume, dir, history
    <2>2. <<Mine.args, Mine.personas>> = <<Arguments(cmd), personas>>
      BY <1>8, MineFromOrigin DEF Resume, Started
    <2>3. inputs = <<Arguments(cmd), personas>>
      BY <2>1, <2>2 DEF Recorded
    <2>4. Mine' = Mine /\ Arguments(cmd)' = Arguments(cmd)
      BY <2>1 DEF Mine, JobOf, Arguments
    <2> QED
      BY <1>1, <2>1, <2>3, <2>4
  <1>9. CASE Advance
    <2>1. PICK n \in 0..Events : Runner!Save(Mine, n)
      BY <1>9 DEF Advance
    <2>2. job \in {None, Mine} /\ job' = Mine
      BY <2>1 DEF Runner!Save
    <2>3. /\ pc = "running" /\ pc' = "running" /\ origin' = origin /\ inputs' = inputs
          /\ cmd' = cmd /\ personas' = personas /\ files' = files
      BY <1>9 DEF Advance, history
    <2>4. /\ Mine = JobFrom(OriginOf(cmd)) /\ Mine # None
          /\ <<Mine.args, Mine.personas>> = <<Arguments(cmd), personas>>
      BY <2>3, MineFromOrigin DEF Started
    <2>5. Mine = JobFrom(origin) /\ inputs = <<Arguments(cmd), personas>>
      BY <2>2, <2>3, <2>4 DEF Recorded
    <2>6. Recorded(origin, inputs)'
      BY <2>2, <2>3, <2>4, <2>5 DEF Recorded, JobFrom, Given, Sources, Present
    <2>7. Mine' = Mine /\ Arguments(cmd)' = Arguments(cmd)
      BY <2>3 DEF Mine, JobOf, Arguments
    <2> QED
      BY <2>2, <2>3, <2>4, <2>5, <2>6, <2>7
  <1>10. CASE RunReturns
    <2>1. job' = job
      BY <1>10 DEF RunReturns, Runner!Report
    <2> QED
      BY <1>5, <1>10, <2>1 DEF RunReturns, history
  <1>11. CASE EmptyOut
    BY <1>5, <1>11 DEF EmptyOut, dir
  <1>12. CASE PowerLoss
    BY <1>5, <1>12 DEF PowerLoss
  <1>13. CASE UNCHANGED vars
    <2>1. Arguments(cmd)' = Arguments(cmd) /\ Mine' = Mine /\ OriginOf(cmd)' = OriginOf(cmd)
      BY <1>13 DEF vars, Arguments, Mine, JobOf, OriginOf
    <2> QED
      BY <1>1, <1>13, <2>1 DEF vars
  <1> QED
    BY <1>2, <1>3, <1>4, <1>6, <1>7, <1>8, <1>9, <1>10, <1>11, <1>12, <1>13 DEF Next, Step

LEMMA SavedStep == Afoot /\ DirIsOrigins /\ RunIsSaved /\ [Next]_vars => RunIsSaved'
  <1> SUFFICES ASSUME Afoot, DirIsOrigins, RunIsSaved, [Next]_vars PROVE RunIsSaved'
    OBVIOUS
  <1> USE DEF RunIsSaved, Saved
  <1>1. ASSUME UNCHANGED <<dir, latest>>, pc' # "running",
               ~(pc' \in {"empty", "write"} /\ cmd'.verb = "run")
        PROVE  RunIsSaved'
    BY <1>1 DEF dir
  <1>2. CASE \E m \in Commands : Invoke(m)
    BY <1>1, <1>2 DEF Invoke, history
  <1>3. CASE EmptyPreset \/ FillPreset \/ PresetsDone \/ Refuse \/ RefuseResume
    BY <1>1, <1>3 DEF EmptyPreset, FillPreset, PresetsDone, Refuse, RefuseResume, Exit, history
  <1>4. CASE WriteOut \/ Read \/ Kill
    BY <1>1, <1>4 DEF WriteOut, Read, Kill, Exit, history
  <1>5. CASE Admit
    BY <1>1, <1>5 DEF Admit, history
  <1>6. CASE Create
    BY <1>6 DEF Create
  <1>7. CASE Resume
    BY <1>7 DEF Resume, dir, history
  <1>8. CASE RefuseJournal
    <2>1. latest = None /\ latest' = None /\ pc' = "idle"
      BY <1>8 DEF RefuseJournal, Exit, history
    <2> QED
      BY <2>1
  <1>9. CASE Advance
    <2>1. PICK n \in 0..Events : Runner!Save(Mine, n)
      BY <1>9 DEF Advance
    <2>2. n > saved
      BY <2>1 DEF Runner!Save
    <2>3. latest = None
      BY <2>2, BoundsAssumption
    <2> QED
      BY <1>9, <2>3 DEF Advance, history
  <1>10. CASE RunReturns
    <2>1. Mine \in Jobs
      BY <1>10, MineFromOrigin DEF RunReturns, Started
    <2>2. job = Mine /\ saved = Events /\ job' = job /\ saved' = saved
      BY <1>10, <2>1 DEF RunReturns, Runner!Report
    <2>3. /\ pc = "running" /\ pc' = "empty" /\ cmd' = cmd /\ personas' = personas
          /\ journal' = journal /\ latest' = latest
      BY <1>10 DEF RunReturns, history
    <2>4. Mine' = Mine
      BY <2>3 DEF Mine, JobOf, Arguments
    <2> QED
      BY <2>2, <2>3, <2>4
  <1>11. CASE EmptyOut
    <2>1. /\ pc = "empty" /\ pc' = "write" /\ cmd' = cmd /\ personas' = personas
          /\ UNCHANGED dir /\ latest' = IF cmd.verb = "run" THEN Mine ELSE None
      BY <1>11 DEF EmptyOut, Wrote
    <2>2. Mine' = Mine
      BY <2>1 DEF Mine, JobOf, Arguments
    <2> QED
      BY <2>1, <2>2 DEF dir
  <1>12. CASE PowerLoss
    BY <1>12 DEF PowerLoss
  <1>13. CASE UNCHANGED vars
    <2>1. Mine' = Mine
      BY <1>13 DEF vars, Mine, JobOf, Arguments
    <2> QED
      BY <1>13, <2>1 DEF vars
  <1> QED
    BY <1>2, <1>3, <1>4, <1>5, <1>6, <1>7, <1>8, <1>9, <1>10, <1>11, <1>12, <1>13 DEF Next, Step

LEMMA CookInvHolds == Spec => []CookInv
  <1>1. CookInv /\ [Next]_vars => CookInv'
    BY AfootStep, DirStep, SavedStep DEF CookInv
  <1> QED
    BY <1>1, CookInvInit, PTL DEF Spec

-----------------------------------------------------------------------------
(* A killed run is resumed by its own command: on the same profiles no     *)
(* order of the directory's listing changes the RunId.                     *)
THEOREM OwnRunsResume == Spec => []OwnRunResumes
  <1>1. CookInv => OwnRunResumes
    <2> SUFFICES ASSUME CookInv, pc = "resume", origin = OriginOf(cmd) PROVE job = Mine
      BY DEF OwnRunResumes
    <2>1. Afoot /\ job = JobFrom(origin)
      BY DEF CookInv, DirIsOrigins, Recorded
    <2> QED
      BY <2>1, MineFromOrigin DEF Started
  <1> QED
    BY <1>1, CookInvHolds, PTL

(* Profiles that were rewritten, added or torn since a run was created are *)
(* never mixed into it: a run goes on with the very arguments and profiles *)
(* it was created with, whatever commands and kills came in between.       *)
THEOREM RunsKeepTheirInputs == Spec => []RunKeepsItsInputs
  <1>1. CookInv => RunKeepsItsInputs
    BY DEF CookInv, DirIsOrigins, Running, RunKeepsItsInputs
  <1> QED
    BY <1>1, CookInvHolds, PTL

(* A torn ledger file is no loss: the directory of the run that was        *)
(* writing it, or had written it, has that run to its last event.          *)
THEOREM TornOutsAreSaved == Spec => []TornOutIsSaved
  <1>1. CookInv => TornOutIsSaved
    BY DEF CookInv, RunIsSaved, Saved, TornOutIsSaved
  <1> QED
    BY <1>1, CookInvHolds, PTL
===============================================================================
