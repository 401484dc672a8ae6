---------------------------- MODULE ProbirkaProofs ----------------------------
(***************************************************************************)
(* Theorems about runs of a Probirka, for any registrations, any mixture   *)
(* of runs, and any bounds.  First, that a run does to its probes nothing  *)
(* that module Probe does not allow, so that the theorems about run_check  *)
(* hold under runs too; then, with the inductive invariant RunInv, what a  *)
(* run owes to its caller; last, that what a run collects is what the      *)
(* add_probes() calls say, for any sequence of calls.                      *)
(***************************************************************************)
EXTENDS ProbirkaRefinement, RegistryLog, ProbeProofs, SequenceTheorems,
        WellFoundedInduction, FiniteSetTheorems
-----------------------------------------------------------------------------
(* FlattenSeq, a recursive function, returns a sequence of elements of its *)
(* arguments: by induction on the number of sequences, for which a least   *)
(* counterexample is taken.                                                *)

(* Every nonempty set of naturals has a least element.                     *)
LEMMA LeastNatural ==
  ASSUME NEW T, T \subseteq Nat, T # {}
  PROVE  \E m \in T : \A k \in T : m <= k
  <1> DEFINE R == {ss \in Nat \X Nat : ss[1] < ss[2]}
  <1>1. IsWellFoundedOn(R, Nat)
    BY NatLessThanWellFounded DEF OpToRel
  <1> HIDE DEF R
  <1>2. PICK x \in T : \A y \in T : <<y, x>> \notin R
    BY <1>1, WFMin
  <1>3. \A y \in T : ~(y < x)
    BY <1>2 DEF R
  <1> QED
    BY <1>2, <1>3

(* f[i] is the concatenation of the first i of the sequences.              *)
IsJoin(f, seqs, n) ==
    f = [i \in 1..n |-> IF i = 1 THEN seqs[i] ELSE f[i-1] \o seqs[i]]

(* The function that FlattenSeq chooses exists.                            *)
LEMMA JoinExists ==
  ASSUME NEW S, NEW seqs \in Seq(Seq(S))
  PROVE  \A n \in 0..Len(seqs) : \E f \in [1..n -> Seq(S)] : IsJoin(f, seqs, n)
  <1> DEFINE T == {n \in 0..Len(seqs) : ~ \E f \in [1..n -> Seq(S)] : IsJoin(f, seqs, n)}
  <1> SUFFICES ASSUME T # {} PROVE FALSE
    OBVIOUS
  <1>1. PICK m \in T : \A k \in T : m <= k
    <2> T \subseteq Nat
      OBVIOUS
    <2> HIDE DEF T
    <2> QED
      BY LeastNatural
  <1>2. m \in 0..Len(seqs) /\ ~ \E f \in [1..m -> Seq(S)] : IsJoin(f, seqs, m)
    BY <1>1
  <1>3. m # 0
    <2> SUFFICES ASSUME m = 0 PROVE FALSE
      OBVIOUS
    <2> DEFINE f == [i \in 1..0 |-> IF i = 1 THEN seqs[i] ELSE <<>>]
    <2>1. f \in [1..0 -> Seq(S)]
      OBVIOUS
    <2>2. IsJoin(f, seqs, 0)
      BY DEF IsJoin
    <2> QED
      BY <1>2, <2>1, <2>2
  <1>4. m-1 \in 0..Len(seqs) /\ m-1 \notin T /\ m \in Nat /\ m > 0
    <2>1. m-1 \in 0..Len(seqs) /\ m \in Nat /\ m > 0 /\ ~(m <= m-1)
      BY <1>2, <1>3, LenProperties
    <2> HIDE DEF T
    <2> QED
      BY <1>1, <2>1
  <1>5. PICK f \in [1..(m-1) -> Seq(S)] : IsJoin(f, seqs, m-1)
    BY <1>4
  <1> DEFINE g == [i \in 1..m |->
                     IF i = m THEN (IF m = 1 THEN seqs[m] ELSE f[m-1] \o seqs[m]) ELSE f[i]]
  <1>6. seqs[m] \in Seq(S)
    BY <1>2, <1>4, ElementOfSeq
  <1>7. g \in [1..m -> Seq(S)]
    <2>1. CASE m = 1
      BY <1>6, <2>1
    <2>2. CASE m # 1
      <3>1. f[m-1] \o seqs[m] \in Seq(S)
        BY <1>4, <1>6, <2>2, ConcatProperties
      <3>2. \A i \in 1..m : i # m => i \in 1..(m-1)
        BY <1>4
      <3> QED
        BY <2>2, <3>1, <3>2
    <2> QED
      BY <2>1, <2>2
  <1>8. IsJoin(g, seqs, m)
    <2>1. ASSUME NEW i \in 1..m
          PROVE  g[i] = IF i = 1 THEN seqs[i] ELSE g[i-1] \o seqs[i]
      <3>1. CASE i = m
        BY <1>4, <3>1
      <3>2. CASE i # m
        <4>1. i \in 1..(m-1)
          BY <1>4, <3>2
        <4>2. f[i] = IF i = 1 THEN seqs[i] ELSE f[i-1] \o seqs[i]
          BY <1>5, <4>1 DEF IsJoin
        <4>3. i # 1 => i-1 \in 1..m /\ i-1 # m
          BY <1>4, <4>1
        <4> QED
          BY <3>2, <4>1, <4>2, <4>3
      <3> QED
        BY <3>1, <3>2
    <2> HIDE DEF g
    <2> QED
      BY <1>7, <2>1 DEF IsJoin
  <1> QED
    BY <1>2, <1>7, <1>8

(* What FlattenSeq returns is the last of those joins.                     *)
LEMMA JoinIs ==
  ASSUME NEW S, NEW seqs \in Seq(Seq(S)), seqs # <<>>
  PROVE  \E f \in [1..Len(seqs) -> Seq(S)] :
            IsJoin(f, seqs, Len(seqs)) /\ FlattenSeq(seqs) = f[Len(seqs)]
  <1> DEFINE n == Len(seqs)
             h == CHOOSE f : f = [i \in 1..n |->
                                    IF i = 1 THEN seqs[i] ELSE f[i-1] \o seqs[i]]
  <1>1. n \in Nat /\ n # 0
    BY EmptySeq, LenProperties
  <1>2. \E f \in [1..n -> Seq(S)] : IsJoin(f, seqs, n)
    BY <1>1, JoinExists
  <1>3. h = [i \in 1..n |-> IF i = 1 THEN seqs[i] ELSE h[i-1] \o seqs[i]]
    BY <1>2, Zenon DEF IsJoin
  <1>4. FlattenSeq(seqs) = h[n]
    BY <1>1, Zenon DEF FlattenSeq
  <1>5. IsJoin(h, seqs, n)
    BY <1>3, Zenon DEF IsJoin
  <1> HIDE DEF h, n
  <1> DEFINE T == {i \in 1..n : h[i] \notin Seq(S)}
  <1>6. T = {}
    <2> SUFFICES ASSUME T # {} PROVE FALSE
      OBVIOUS
    <2>1. PICK m \in T : \A k \in T : m <= k
      <3> T \subseteq Nat
        BY <1>1
      <3> HIDE DEF T
      <3> QED
        BY LeastNatural
    <2>2. m \in 1..n /\ h[m] \notin Seq(S) /\ seqs[m] \in Seq(S)
      BY <2>1, ElementOfSeq DEF n
    <2>3. h[m] = IF m = 1 THEN seqs[m] ELSE h[m-1] \o seqs[m]
      BY <1>3, <2>2
    <2>4. m # 1 /\ m-1 \in 1..n /\ ~(m <= m-1)
      BY <1>1, <2>2, <2>3
    <2>5. m-1 \notin T
      <3> HIDE DEF T
      <3> QED
        BY <2>1, <2>4
    <2>6. h[m-1] \in Seq(S)
      BY <2>4, <2>5
    <2> QED
      BY <2>2, <2>3, <2>4, <2>6, ConcatProperties
  <1>7. h \in [1..n -> Seq(S)]
    BY <1>3, <1>6
  <1> QED
    BY <1>4, <1>5, <1>7 DEF n

(* FlattenSeq joins sequences over S into a sequence over S.               *)
LEMMA FlattenSeqType ==
  ASSUME NEW S, NEW seqs \in Seq(Seq(S))
  PROVE  FlattenSeq(seqs) \in Seq(S)
  <1>1. CASE seqs = <<>>
    BY <1>1 DEF FlattenSeq
  <1>2. CASE seqs # <<>>
    <2> DEFINE n == Len(seqs)
    <2>1. n \in 1..n
      BY <1>2, EmptySeq, LenProperties
    <2>2. PICK f : f \in [1..n -> Seq(S)] /\ FlattenSeq(seqs) = f[n]
      BY <1>2, JoinIs
    <2> HIDE DEF n
    <2> QED
      BY <2>1, <2>2
  <1> QED
    BY <1>1, <1>2

-----------------------------------------------------------------------------
(* The registry.                                                           *)

(* How often a name occurs in an argument of add_probes.                   *)
LEMMA OccurrencesAreFinite ==
  ASSUME NEW names \in Seq(Groups), NEW g
  PROVE  Cardinality({i \in DOMAIN names : names[i] = g}) \in Nat
  <1>1. IsFiniteSet(DOMAIN names)
    <2>1. Len(names) \in Nat /\ DOMAIN names = 1..Len(names)
      BY LenProperties
    <2> QED
      BY <2>1, FS_Interval
  <1>2. {i \in DOMAIN names : names[i] = g} \in SUBSET DOMAIN names
    OBVIOUS
  <1> QED
    BY <1>1, <1>2, FS_Subset, FS_CardinalityType

(* A function on 1..n into S is a sequence over S.                         *)
LEMMA FunctionIsSeq ==
  ASSUME NEW S, NEW n \in Nat, NEW f \in [1..n -> S]
  PROVE  f \in Seq(S)
  BY SeqDef, Zenon

(* add_probes keeps the types of the containers.                           *)
LEMMA AddProbesType ==
  ASSUME RegistryTypeOK,
         NEW ps \in Seq(Probes), NEW names \in Seq(Groups), NEW flag \in Flags,
         AddProbes(ps, names, flag)
  PROVE  RegistryTypeOK'
  <1> DEFINE times(g) == Cardinality({i \in DOMAIN names : names[i] = g})
  <1>1. required' \in Seq(Probes)
    BY ConcatProperties DEF AddProbes, RegistryTypeOK
  <1>2. ASSUME NEW g \in Groups
        PROVE  optional[g] \o FlattenSeq([i \in 1..times(g) |-> ps]) \in Seq(Probes)
    <2>1. times(g) \in Nat
      BY OccurrencesAreFinite
    <2> HIDE DEF times
    <2>2. [i \in 1..times(g) |-> ps] \in Seq(Seq(Probes))
      <3>1. [i \in 1..times(g) |-> ps] \in [1..times(g) -> Seq(Probes)]
        OBVIOUS
      <3> QED
        BY <2>1, <3>1, FunctionIsSeq
    <2>3. FlattenSeq([i \in 1..times(g) |-> ps]) \in Seq(Probes)
      BY <2>2, FlattenSeqType
    <2> QED
      BY <2>3, ConcatProperties DEF RegistryTypeOK
  <1>3. optional' \in [Groups -> Seq(Probes)]
    BY <1>2 DEF AddProbes
  <1>4. group_allow_failure' \in [Groups -> Flags]
    BY DEF AddProbes, RegistryTypeOK
  <1> QED
    BY <1>1, <1>3, <1>4 DEF RegistryTypeOK

Entry == [probe : Probes, flag : Flags]

(* What a run collects is a sequence of probes with their flags.           *)
LEMMA CollectType ==
  ASSUME RegistryTypeOK, NEW with_groups \in Seq(Groups), NEW skip \in BOOLEAN
  PROVE  Collect(with_groups, skip) \in Seq(Entry)
  <1> DEFINE from(probes, flag) ==
               [i \in DOMAIN probes |-> [probe |-> probes[i], flag |-> flag]]
             group(g) == from(optional[g], group_allow_failure[g])
             groups == [i \in DOMAIN with_groups |-> group(with_groups[i])]
  <1>1. ASSUME NEW probes \in Seq(Probes), NEW flag \in Flags
        PROVE  from(probes, flag) \in Seq(Entry)
    <2>1. Len(probes) \in Nat /\ probes \in [1..Len(probes) -> Probes]
      BY LenProperties
    <2>2. from(probes, flag) \in [1..Len(probes) -> Entry]
      BY <2>1 DEF Entry
    <2> QED
      BY <2>1, <2>2, FunctionIsSeq
  <1>2. ASSUME NEW g \in Groups PROVE group(g) \in Seq(Entry)
    BY <1>1 DEF RegistryTypeOK
  <1>3. groups \in Seq(Seq(Entry))
    <2>1. Len(with_groups) \in Nat /\ with_groups \in [1..Len(with_groups) -> Groups]
      BY LenProperties
    <2> HIDE DEF group
    <2>2. groups \in [1..Len(with_groups) -> Seq(Entry)]
      BY <1>2, <2>1
    <2> HIDE DEF groups
    <2> QED
      BY <2>1, <2>2, FunctionIsSeq
  <1>4. from(required, None) \in Seq(Entry)
    BY <1>1 DEF RegistryTypeOK, Flags
  <1>5. Collect(with_groups, skip) =
          (IF skip THEN <<>> ELSE from(required, None)) \o FlattenSeq(groups)
    BY DEF Collect
  <1> HIDE DEF groups, from
  <1> QED
    BY <1>3, <1>4, <1>5, FlattenSeqType, ConcatProperties, EmptySeq

(* A new Probirka is empty.                                                *)
LEMMA InitRegistry == ProbirkaInit => RegistryTypeOK
  BY EmptySeq DEF ProbirkaInit, RegistryInit, RegistryTypeOK, Flags

(* Only registrations change the containers.                               *)
LEMMA UseKeepsRegistry == UseNext => UNCHANGED registry
  BY DEF UseNext, MakeProbe, StartRun, RunStep, WaitDone, WaitTimedOut, Gathered,
         CancelWaiting, CancelGathering

(* No step of a run or of a registration spoils the containers.            *)
LEMMA NextRegistry == RegistryTypeOK /\ [ProbirkaNext]_allVars => RegistryTypeOK'
  <1> SUFFICES ASSUME RegistryTypeOK, [ProbirkaNext]_allVars PROVE RegistryTypeOK'
    OBVIOUS
  <1>1. UNCHANGED registry => RegistryTypeOK'
    BY DEF registry, RegistryTypeOK
  <1>2. ASSUME NEW ps \in ProbeLists, NEW names \in GroupLists, NEW flag \in Flags,
               Register(ps, names, flag)
        PROVE  RegistryTypeOK'
    BY <1>2, AddProbesType, ProbirkaAssumption DEF Register
  <1>3. ASSUME NEW p \in Probes, NEW conf \in Configs, NEW names \in GroupLists,
               Add(p, conf, names)
        PROVE  RegistryTypeOK'
    <2>1. AddProbes(<<p>>, names, None) /\ <<p>> \in Seq(Probes) /\ None \in Flags
      BY <1>3 DEF Add, Flags
    <2> QED
      BY <2>1, AddProbesType, ProbirkaAssumption
  <1> QED
    BY <1>1, <1>2, <1>3, UseKeepsRegistry DEF ProbirkaNext, allVars

-----------------------------------------------------------------------------
(* A run over the probes is a behaviour of module Probe.                   *)

(* The tasks a run makes are calls that module Probe knows, one for each   *)
(* entry.                                                                  *)
LEMMA TasksAreCalls ==
  ASSUME NEW r \in Runs, NEW entries \in Seq(Entry), Len(entries) <= MaxTasks
  PROVE  LET S == {<<r, i>> : i \in DOMAIN entries}
         IN  /\ S \in SUBSET Calls
             /\ [c \in S |-> entries[c[2]].probe] \in [S -> Probes]
             /\ DOMAIN entries \subseteq 1..MaxTasks
  <1>1. DOMAIN entries = 1..Len(entries) /\ Len(entries) \in Nat /\ MaxTasks \in Nat
    BY LenProperties, ProbirkaAssumption
  <1>2. DOMAIN entries \subseteq 1..MaxTasks
    BY <1>1
  <1>3. \A i \in DOMAIN entries : entries[i] \in Entry
    BY <1>1, ElementOfSeq
  <1>4. \A i \in DOMAIN entries : entries[i].probe \in Probes
    BY <1>3 DEF Entry
  <1> DEFINE S == {<<r, i>> : i \in DOMAIN entries}
  <1>5. S \in SUBSET Calls
    <2>1. \A i \in DOMAIN entries : <<r, i>> \in Runs \X (1..MaxTasks)
      BY <1>2
    <2> QED
      BY <2>1, ProbirkaAssumption
  <1>6. \A c \in S : c[2] \in DOMAIN entries
    OBVIOUS
  <1>7. [c \in S |-> entries[c[2]].probe] \in [S -> Probes]
    <2> HIDE DEF S
    <2> QED
      BY <1>4, <1>6
  <1> QED
    BY <1>2, <1>5, <1>7

(* A step of a Probirka is a step of its probes, or leaves them alone.     *)
LEMMA StepOfProbes ==
  RegistryTypeOK /\ [ProbirkaNext]_allVars => [Next]_vars
  <1> SUFFICES ASSUME RegistryTypeOK, [ProbirkaNext]_allVars PROVE [Next]_vars
    OBVIOUS
  <1>1. UNCHANGED probeVars => [Next]_vars
    BY DEF probeVars, vars
  <1>2. ASSUME NEW p \in Probes, NEW conf \in Configs, MakeProbe(p, conf)
        PROVE  Next
    BY <1>2 DEF MakeProbe, Next
  <1>3. ASSUME NEW ps \in ProbeLists, NEW names \in GroupLists, NEW flag \in Flags,
               Register(ps, names, flag)
        PROVE  UNCHANGED probeVars
    BY <1>3 DEF Register
  <1>4. ASSUME NEW p \in Probes, NEW conf \in Configs, NEW names \in GroupLists,
               Add(p, conf, names)
        PROVE  Next
    BY <1>4, DefaultsAssumption DEF Add, Next
  <1>5. ASSUME NEW r \in Runs, NEW timeout \in RunTimeouts, NEW with_groups \in RunGroups,
               NEW skip \in BOOLEAN, StartRun(r, timeout, with_groups, skip)
        PROVE  [Next]_vars
    <2>1. PICK entries \in Seq(Entry) : entries = Collect(with_groups, skip)
      BY CollectType, ProbirkaAssumption
    <2>2. Len(entries) <= MaxTasks
      BY <1>5, <2>1 DEF StartRun
    <2>3. CASE entries = <<>>
      BY <1>1, <1>5, <2>1, <2>3 DEF StartRun
    <2>4. CASE entries # <<>>
      <3>1. PICK S \in SUBSET Calls : \E of \in [S -> Probes] : Create(of)
        BY <1>5, <2>1, <2>2, <2>4, TasksAreCalls DEF StartRun
      <3> QED
        BY <3>1 DEF Next
    <2> QED
      BY <2>3, <2>4
  <1>6. ASSUME NEW r \in Runs, RunStep(r)
        PROVE  [Next]_vars
    <2>1. CASE WaitDone(r)
      BY <1>1, <2>1 DEF WaitDone
    <2>2. CASE WaitTimedOut(r)
      <3> DEFINE S == {<<r, i>> : i \in {j \in DOMAIN run[r].entries : ~Ended(<<r, j>>)}}
      <3>1. Cancel(S \cap Calls)
        BY <2>2 DEF WaitTimedOut, Cancel
      <3> QED
        BY <3>1 DEF Next
    <2>3. CASE Gathered(r)
      BY <1>1, <2>3 DEF Gathered
    <2> QED
      BY <1>6, <2>1, <2>2, <2>3 DEF RunStep
  <1>7. ASSUME NEW r \in Runs, CancelWaiting(r)
        PROVE  UNCHANGED probeVars
    BY <1>7 DEF CancelWaiting
  <1>8. ASSUME NEW r \in Runs, CancelGathering(r)
        PROVE  Next
    <2>1. Cancel({<<r, i>> : i \in run[r].pending} \cap Calls)
      BY <1>8 DEF CancelGathering, Cancel
    <2> QED
      BY <2>1 DEF Next
  <1>9. ASSUME NEW c \in Calls, CallStep(c)
        PROVE  Next
    BY <1>9 DEF Next
  <1>10. Tick => Next
    BY DEF Next
  <1>11. UNCHANGED allVars => UNCHANGED probeVars
    BY DEF allVars
  <1> QED
    BY <1>1, <1>2, <1>3, <1>4, <1>5, <1>6, <1>7, <1>8, <1>9, <1>10, <1>11 DEF ProbirkaNext, UseNext

(* The containers keep their types.                                        *)
LEMMA RegistryInvariant == ProbirkaSpec => []RegistryTypeOK
  BY InitRegistry, NextRegistry, PTL DEF ProbirkaSpec

(* Whatever runs do, they do to a probe only what module Probe allows: the *)
(* theorems about run_check hold of the probes of every Probirka.          *)
THEOREM RunsKeepProbeSpec == ProbirkaSpec => ProbeSpec
  <1>1. ProbirkaInit => Init
    BY DEF ProbirkaInit
  <1> QED
    BY <1>1, StepOfProbes, RegistryInvariant, PTL DEF ProbirkaSpec, ProbeSpec, Spec

-----------------------------------------------------------------------------
(* What a run owes to its caller.                                          *)

TimeOver(r) == run[r].timeout # None /\ now >= run[r].start + run[r].timeout

(* How far a run has come: nothing is pending before its time is over, and *)
(* whatever it does not wait for any more has ended.                       *)
PhaseInv(r) ==
    /\ Len(run[r].entries) <= MaxTasks
    /\ run[r].st = "idle" => run[r].entries = <<>>
    /\ run[r].start <= now
    /\ run[r].pending \subseteq DOMAIN run[r].entries
    /\ run[r].st \in {"idle", "waiting"} => run[r].pending = {}
    /\ run[r].pending # {} => TimeOver(r)
    /\ run[r].st = "gathering" =>
         \A i \in DOMAIN run[r].entries \ run[r].pending : Ended(<<r, i>>)
    /\ run[r].st \in {"returned", "raised"} => \A i \in DOMAIN run[r].entries : Ended(<<r, i>>)
    /\ run[r].st = "cancelled" /\ run[r].pending # {} =>
         \A i \in DOMAIN run[r].entries : Ended(<<r, i>>)

(* A task was made for its entry after the run began, and was cancelled by *)
(* nobody but the run, when its time was over.                             *)
TaskInv(r, i) ==
    LET task == call[<<r, i>>] IN
    /\ task.st # "idle"
    /\ task.probe = run[r].entries[i].probe
    /\ task.start # None => run[r].start <= task.start
    /\ task.cancelled <=> i \in run[r].pending
    /\ i \in run[r].pending => task.start # None /\ task.st # "ready"

UnusedInv(r, i) == call[<<r, i>>].st = "idle" /\ ~call[<<r, i>>].cancelled

(* What a run that has returned says of its i-th entry.                    *)
CheckInv(r, i) ==
    LET check == run[r].checks[i]
        task == call[<<r, i>>]
    IN  /\ check.allow_failure = Allowed(r, i, Own(r, i))
        /\ i \in run[r].pending =>
             /\ check.error = "run timeout" /\ ~check.ok
             /\ check.started_at = run[r].start
             /\ check.elapsed >= run[r].timeout
        /\ i \notin run[r].pending =>
             /\ task.st = "returned"
             /\ check = [task.result EXCEPT !.allow_failure = check.allow_failure]

ReturnedInv(r) ==
    run[r].st = "returned" =>
        LET checks == run[r].checks IN
        /\ DOMAIN checks = DOMAIN run[r].entries
        /\ run[r].timed_out <=> run[r].pending # {}
        /\ run[r].ok <=> \A i \in DOMAIN checks : checks[i].ok \/ checks[i].allow_failure
        /\ \A i \in DOMAIN checks : CheckInv(r, i)

RunInv(r) ==
    /\ run[r] \in Run
    /\ PhaseInv(r)
    /\ \A i \in DOMAIN run[r].entries : TaskInv(r, i)
    /\ \A i \in (1..MaxTasks) \ DOMAIN run[r].entries : UnusedInv(r, i)
    /\ ReturnedInv(r)

RunsInv == run \in [Runs -> Run] /\ \A r \in Runs : RunInv(r)

(* What a task may do while its run looks on.                              *)
Progress(c) ==
    \/ call'[c] = call[c]
    \/ /\ call[c].st \in {"ready", "checking"}
       /\ call'[c].st \in {"checking", "returned", "cancelled"}
       /\ call'[c].probe = call[c].probe
       /\ call'[c].cancelled = call[c].cancelled
       /\ \/ call'[c].start = call[c].start
          \/ call'[c].start = now /\ call[c].st = "ready"

(* A step of one task: no other task, nor the clock, takes part in it.     *)
LEMMA CallStepProgress ==
  ASSUME CacheInv, NEW c \in Calls, CallStep(c)
  PROVE  /\ UNCHANGED <<now, cfg>>
         /\ \A d \in Calls : Progress(d) /\ (d # c => call'[d] = call[d])
  <1>0. call \in [Calls -> Call] /\ call[c] \in Call
    BY DEF CacheInv, TypeOK
  <1>1. ASSUME NEW r, call' = [call EXCEPT ![c] = r],
               call[c].st \in {"ready", "checking"},
               r.st \in {"checking", "returned", "cancelled"},
               r.probe = call[c].probe, r.cancelled = call[c].cancelled,
               r.start = call[c].start \/ (r.start = now /\ call[c].st = "ready")
        PROVE  \A d \in Calls : Progress(d) /\ (d # c => call'[d] = call[d])
    <2>1. call'[c] = r /\ \A d \in Calls : d # c => call'[d] = call[d]
      BY <1>0, <1>1
    <2> QED
      BY <1>1, <2>1 DEF Progress
  <1>2. CASE ServeCached(c)
    <2>1. PICK served : call' = [call EXCEPT ![c].st = "returned",
                                             ![c].result = served, ![c].end = now]
      BY <1>2 DEF ServeCached
    <2> DEFINE r == [call[c] EXCEPT !.st = "returned", !.result = served, !.end = now]
    <2>2. call' = [call EXCEPT ![c] = r]
      BY ONLY <2>1
    <2>3. r.st = "returned" /\ r.probe = call[c].probe /\ r.start = call[c].start
          /\ r.cancelled = call[c].cancelled
      BY <1>0 DEF Call
    <2>4. call[c].st = "ready" /\ UNCHANGED <<now, cfg>>
      BY <1>2 DEF ServeCached
    <2> HIDE DEF r
    <2> QED
      BY <1>1, <2>2, <2>3, <2>4
  <1>3. CASE StartCheck(c)
    <2>1. PICK e \in BOOLEAN : call' = [call EXCEPT ![c].st = "checking",
                                                    ![c].start = now, ![c].expired = e]
      BY <1>3, Zenon DEF StartCheck
    <2> DEFINE r == [call[c] EXCEPT !.st = "checking", !.start = now, !.expired = e]
    <2>2. call' = [call EXCEPT ![c] = r]
      BY ONLY <2>1
    <2>3. r.st = "checking" /\ r.probe = call[c].probe /\ r.start = now
          /\ r.cancelled = call[c].cancelled
      BY <1>0 DEF Call
    <2>4. call[c].st = "ready" /\ UNCHANGED <<now, cfg>>
      BY <1>3 DEF StartCheck
    <2> HIDE DEF r
    <2> QED
      BY <1>1, <2>2, <2>3, <2>4
  <1>4. CASE TimerFires(c)
    <2> DEFINE r == [call[c] EXCEPT !.expired = TRUE]
    <2>1. call' = [call EXCEPT ![c] = r] /\ call[c].st = "checking" /\ UNCHANGED <<now, cfg>>
      BY <1>4 DEF TimerFires
    <2>2. r.st = call[c].st /\ r.probe = call[c].probe /\ r.start = call[c].start
          /\ r.cancelled = call[c].cancelled
      BY <1>0 DEF Call
    <2> HIDE DEF r
    <2> QED
      BY <1>1, <2>1, <2>2
  <1>5. CASE CheckCancelled(c)
    <2> DEFINE r == [call[c] EXCEPT !.st = "cancelled", !.end = now]
    <2>1. call' = [call EXCEPT ![c] = r] /\ call[c].st = "checking" /\ UNCHANGED <<now, cfg>>
      BY <1>5 DEF CheckCancelled
    <2>2. r.st = "cancelled" /\ r.probe = call[c].probe /\ r.start = call[c].start
          /\ r.cancelled = call[c].cancelled
      BY <1>0 DEF Call
    <2> HIDE DEF r
    <2> QED
      BY <1>1, <2>1, <2>2
  <1>6. ASSUME NEW ok, NEW error, Finish(c, ok, error)
        PROVE  /\ UNCHANGED <<now, cfg>>
               /\ \A d \in Calls : Progress(d) /\ (d # c => call'[d] = call[d])
    <2>1. PICK result : call' = [call EXCEPT ![c].st = "returned",
                                             ![c].result = result, ![c].end = now]
      BY <1>6 DEF Finish
    <2> DEFINE r == [call[c] EXCEPT !.st = "returned", !.result = result, !.end = now]
    <2>2. call' = [call EXCEPT ![c] = r]
      BY ONLY <2>1
    <2>3. r.st = "returned" /\ r.probe = call[c].probe /\ r.start = call[c].start
          /\ r.cancelled = call[c].cancelled
      BY <1>0 DEF Call
    <2>4. call[c].st = "checking" /\ UNCHANGED <<now, cfg>>
      BY <1>6 DEF Finish
    <2> HIDE DEF r
    <2> QED
      BY <1>1, <2>2, <2>3, <2>4
  <1> QED
    BY <1>2, <1>3, <1>4, <1>5, <1>6
       DEF CallStep, CheckEnds, CheckAnswers, CheckRaises, CheckRaisesTimeout, CheckTimesOut

(* The tasks of runs are calls.                                            *)
LEMMA TaskIsCall == \A r \in Runs, i \in 1..MaxTasks : <<r, i>> \in Calls
  BY ProbirkaAssumption

(* The fields of a run have the types that Run gives them.                 *)
LEMMA RunFields ==
  ASSUME RunsInv, NEW r \in Runs
  PROVE  /\ run[r].st \in RunState /\ run[r].timeout \in Nat \cup {None}
         /\ run[r].start \in Nat /\ run[r].entries \in Seq(Entry)
         /\ run[r].pending \in SUBSET (1..MaxTasks) /\ run[r].cancelled \in BOOLEAN
         /\ run[r].checks \in Seq(Check)
         /\ run[r].ok \in BOOLEAN /\ run[r].timed_out \in BOOLEAN
         /\ DOMAIN run[r].entries \subseteq 1..MaxTasks
  <1>1. run[r] \in Run
    BY DEF RunsInv
  <1>2. Len(run[r].entries) <= MaxTasks
    BY DEF RunsInv, RunInv, PhaseInv
  <1>3. run[r].entries \in Seq(Entry)
    BY <1>1 DEF Run, Entry
  <1>4. DOMAIN run[r].entries \subseteq 1..MaxTasks
    <2>1. /\ DOMAIN run[r].entries = 1..Len(run[r].entries)
          /\ Len(run[r].entries) \in Nat
      BY <1>3, LenProperties
    <2>2. MaxTasks \in Nat
      BY ProbirkaAssumption
    <2> QED
      BY <1>2, <2>1, <2>2
  <1> QED
    BY <1>1, <1>3, <1>4 DEF Run

(* The flags of a run's entries decide, and nothing else does.             *)
LEMMA AllowedFrame ==
  ASSUME NEW r, NEW i, NEW own, run'[r].entries = run[r].entries
  PROVE  Allowed(r, i, own)' = Allowed(r, i, own)
  BY Zenon DEF Allowed, Sources

(* A run that takes no part in a step keeps its invariant: its tasks make  *)
(* progress, and time passes.                                              *)
LEMMA RunFrame ==
  ASSUME CacheInv, RunsInv, NEW r \in Runs, run'[r] = run[r],
         now' \in Nat, now <= now',
         \A p \in Probes : cfg[p] # None => cfg'[p] = cfg[p],
         \A i \in 1..MaxTasks : Progress(<<r, i>>)
  PROVE  RunInv(r)'
  <1>0. RunInv(r) /\ now \in Nat /\ DOMAIN run[r].entries \subseteq 1..MaxTasks
        /\ run[r].start \in Nat /\ run[r].timeout \in Nat \cup {None}
    BY RunFields DEF RunsInv, CacheInv, TypeOK
  <1>1. (run[r] \in Run)'
    BY <1>0 DEF RunInv
  <1>2. \A i \in 1..MaxTasks : Ended(<<r, i>>) =>
           call'[<<r, i>>] = call[<<r, i>>] /\ Ended(<<r, i>>)'
    BY DEF Progress, Ended
  <1>3. PhaseInv(r)'
    BY <1>0, <1>2 DEF RunInv, PhaseInv, TimeOver
  <1>4. ASSUME NEW i \in DOMAIN run[r].entries PROVE TaskInv(r, i)'
    <2>1. TaskInv(r, i) /\ Progress(<<r, i>>)
      BY <1>0 DEF RunInv
    <2>2. run[r].start <= now
      BY <1>0 DEF RunInv, PhaseInv
    <2>3. (call[<<r, i>>].cancelled <=> i \in run[r].pending)'
      <3>1. call'[<<r, i>>].cancelled = call[<<r, i>>].cancelled
        BY <2>1 DEF Progress
      <3>2. call[<<r, i>>].cancelled <=> i \in run[r].pending
        BY <2>1 DEF TaskInv
      <3> QED
        BY <3>1, <3>2, Zenon
    <2>4. (call[<<r, i>>].start # None => run[r].start <= call[<<r, i>>].start)'
      BY <1>0, <2>1, <2>2 DEF TaskInv, Progress
    <2>5. (i \in run[r].pending => call[<<r, i>>].start # None /\ call[<<r, i>>].st # "ready")'
      BY <1>0, <2>1, ProbeAssumption DEF TaskInv, Progress
    <2>6. (call[<<r, i>>].st # "idle" /\ call[<<r, i>>].probe = run[r].entries[i].probe)'
      BY <2>1 DEF TaskInv, Progress
    <2> QED
      BY <2>3, <2>4, <2>5, <2>6 DEF TaskInv
  <1>5. ASSUME NEW i \in (1..MaxTasks) \ DOMAIN run[r].entries PROVE UnusedInv(r, i)'
    <2>1. UnusedInv(r, i) /\ Progress(<<r, i>>)
      BY <1>0 DEF RunInv
    <2> QED
      BY <2>1 DEF UnusedInv, Progress
  <1>6. ASSUME run[r].st = "returned", NEW i \in DOMAIN run[r].entries, CheckInv(r, i)
        PROVE  CheckInv(r, i)'
    <2>1. i \in 1..MaxTasks /\ <<r, i>> \in Calls /\ TaskInv(r, i) /\ Ended(<<r, i>>)
      BY <1>0, <1>6, TaskIsCall DEF RunInv, PhaseInv
    <2>2. call'[<<r, i>>] = call[<<r, i>>]
      BY <1>2, <2>1
    <2>3. run[r].entries[i].probe \in Probes /\ cfg[run[r].entries[i].probe] # None
      BY <2>1 DEF TaskInv, CacheInv, CallInv
    <2>4. Own(r, i)' = Own(r, i)
      BY <2>3 DEF Own
    <2>5. PICK own : own = Own(r, i)
      OBVIOUS
    <2>6. Allowed(r, i, own)' = Allowed(r, i, own)
      BY AllowedFrame
    <2>7. Allowed(r, i, Own(r, i))' = Allowed(r, i, Own(r, i))
      BY <2>4, <2>5, <2>6, Zenon DEF Allowed, Sources
    <2> QED
      BY <1>6, <2>2, <2>7 DEF CheckInv
  <1>7. ReturnedInv(r)'
    BY <1>0, <1>6 DEF RunInv, ReturnedInv
  <1> QED
    BY <1>1, <1>3, <1>4, <1>5, <1>7 DEF RunInv

(* A step of one run touches no other run.                                 *)
LEMMA StepOfRun ==
  ASSUME CacheInv, RunsInv, NEW r \in Runs, NEW R \in Run,
         run' = [run EXCEPT ![r] = R], UNCHANGED <<now, cfg>>,
         \A q \in Runs, i \in 1..MaxTasks : q # r => call'[<<q, i>>] = call[<<q, i>>],
         RunInv(r)'
  PROVE  RunsInv'
  <1>1. run' \in [Runs -> Run] /\ \A q \in Runs : q # r => run'[q] = run[q]
    BY DEF RunsInv
  <1>2. now \in Nat
    BY DEF CacheInv, TypeOK
  <1>3. ASSUME NEW q \in Runs, q # r PROVE RunInv(q)'
    <2>1. \A i \in 1..MaxTasks : Progress(<<q, i>>)
      BY <1>3 DEF Progress
    <2> QED
      BY <1>1, <1>2, <1>3, <2>1, RunFrame
  <1> QED
    BY <1>1, <1>3 DEF RunsInv

(* Steps in which no run takes part.                                       *)
LEMMA NoRunSteps ==
  ASSUME CacheInv, RunsInv, run' = run, now' \in Nat, now <= now',
         \A p \in Probes : cfg[p] # None => cfg'[p] = cfg[p],
         \A c \in Calls : Progress(c)
  PROVE  RunsInv'
  <1>1. ASSUME NEW r \in Runs PROVE RunInv(r)'
    <2>1. \A i \in 1..MaxTasks : Progress(<<r, i>>)
      BY TaskIsCall
    <2> QED
      BY <2>1, RunFrame
  <1> QED
    BY <1>1 DEF RunsInv

(* An empty sequence is within every bound.                                *)
LEMMA EmptyIsShort == Len(<<>>) <= MaxTasks /\ DOMAIN <<>> = {}
  <1>1. Len(<<>>) = 0 /\ DOMAIN <<>> = {}
    OBVIOUS
  <1>2. MaxTasks \in Nat
    BY ProbirkaAssumption
  <1> QED
    BY <1>1, <1>2

(* Before anything happens no run has tasks.                               *)
LEMMA InitRunsInv == ProbirkaInit => RunsInv
  <1> SUFFICES ASSUME ProbirkaInit PROVE RunsInv
    OBVIOUS
  <1>1. now = 0 /\ call = [c \in Calls |-> NoCall]
        /\ run = [r \in Runs |-> NewRun("idle", None, <<>>)]
    BY DEF ProbirkaInit, Init
  <1>2. NewRun("idle", None, <<>>) \in Run
    BY <1>1, EmptySeq DEF NewRun, Run, RunState
  <1>3. ASSUME NEW r \in Runs PROVE RunInv(r)
    <2>1. /\ run[r].st = "idle" /\ run[r].entries = <<>> /\ run[r].start = 0
          /\ run[r].pending = {} /\ run[r] \in Run
      BY <1>1, <1>2 DEF NewRun
    <2>2. PhaseInv(r)
      BY <1>1, <2>1, EmptyIsShort DEF PhaseInv
    <2>3. \A i \in 1..MaxTasks : UnusedInv(r, i)
      BY <1>1, TaskIsCall DEF UnusedInv, NoCall, NewCall
    <2>4. DOMAIN run[r].entries = {}
      BY <2>1
    <2> QED
      BY <2>1, <2>2, <2>3, <2>4 DEF RunInv, ReturnedInv
  <1> QED
    BY <1>1, <1>2, <1>3 DEF RunsInv

(* run(): a task is made for every entry, or the result is there at once.  *)
LEMMA StartRunInv ==
  ASSUME CacheInv, RunsInv, RegistryTypeOK, NEW r \in Runs, NEW timeout \in RunTimeouts,
         NEW with_groups \in RunGroups, NEW skip \in BOOLEAN,
         StartRun(r, timeout, with_groups, skip)
  PROVE  RunsInv'
  <1>1. PICK entries \in Seq(Entry) : entries = Collect(with_groups, skip)
    BY CollectType, ProbirkaAssumption
  <1>2. /\ run[r].st = "idle" /\ Len(entries) <= MaxTasks /\ DOMAIN entries \subseteq 1..MaxTasks
        /\ now \in Nat /\ timeout \in Nat \cup {None}
    BY <1>1, TasksAreCalls, ProbirkaAssumption DEF StartRun, CacheInv, TypeOK
  <1>3. \A i \in 1..MaxTasks : UnusedInv(r, i)
    BY <1>2 DEF RunsInv, RunInv, PhaseInv
  <1>4. ASSUME NEW st \in RunState, NEW t \in Nat \cup {None}
        PROVE  LET R == NewRun(st, t, entries)
               IN  /\ R \in Run /\ R.st = st /\ R.entries = entries /\ R.start = now
                   /\ R.pending = {} /\ R.checks = <<>> /\ R.ok = TRUE /\ R.timed_out = FALSE
    BY <1>2, EmptySeq DEF NewRun, Run, Entry
  <1>5. CASE entries = <<>>
    <2>1. PICK R : R = NewRun("returned", timeout, entries)
      OBVIOUS
    <2>2. run' = [run EXCEPT ![r] = R] /\ UNCHANGED probeVars
      BY <1>1, <1>5, <2>1 DEF StartRun
    <2>3. /\ R \in Run /\ R.st = "returned" /\ R.entries = <<>> /\ R.start = now
          /\ R.pending = {} /\ R.checks = <<>> /\ R.ok = TRUE /\ R.timed_out = FALSE
      BY <1>2, <1>4, <1>5, <2>1 DEF RunState
    <2>4. run'[r] = R /\ UNCHANGED <<now, cfg, call>>
      BY <2>2 DEF RunsInv, probeVars
    <2>5. PhaseInv(r)'
      BY <1>2, <2>3, <2>4, EmptyIsShort DEF PhaseInv
    <2>6. ReturnedInv(r)'
      BY <2>3, <2>4 DEF ReturnedInv
    <2>7. \A i \in 1..MaxTasks : UnusedInv(r, i)'
      BY <1>3, <2>4 DEF UnusedInv
    <2>8. RunInv(r)'
      BY <2>3, <2>4, <2>5, <2>6, <2>7 DEF RunInv
    <2> QED
      BY <2>2, <2>3, <2>4, <2>8, StepOfRun
  <1>6. CASE entries # <<>>
    <2>1. PICK t \in Nat \cup {None} : t = IF timeout = 0 THEN None ELSE timeout
      BY <1>2
    <2>2. PICK R : R = NewRun("waiting", t, entries)
      OBVIOUS
    <2> DEFINE S == {<<r, i>> : i \in DOMAIN entries}
               of == [c \in S |-> entries[c[2]].probe]
    <2>3. run' = [run EXCEPT ![r] = R] /\ Create(of)
      BY <1>1, <1>6, <2>1, <2>2 DEF StartRun
    <2>4. /\ R \in Run /\ R.st = "waiting" /\ R.entries = entries /\ R.start = now
          /\ R.pending = {}
      BY <1>4, <2>2 DEF RunState
    <2>5. /\ run'[r] = R /\ UNCHANGED <<now, cfg>>
          /\ call' = [c \in Calls |-> IF c \in S THEN ReadyCall(of[c]) ELSE call[c]]
      BY <2>3 DEF RunsInv, Create
    <2>6. ASSUME NEW i \in DOMAIN entries PROVE TaskInv(r, i)'
      <3>1. <<r, i>> \in Calls /\ <<r, i>> \in S /\ of[<<r, i>>] = entries[i].probe
        BY <1>2, TaskIsCall
      <3>2. call'[<<r, i>>] = ReadyCall(entries[i].probe)
        BY <2>5, <3>1
      <3>3. /\ call'[<<r, i>>].st = "ready" /\ call'[<<r, i>>].probe = entries[i].probe
            /\ call'[<<r, i>>].start = None /\ call'[<<r, i>>].cancelled = FALSE
        BY <3>2 DEF ReadyCall, NewCall
      <3> HIDE DEF S, of
      <3> QED
        BY <2>4, <2>5, <3>3 DEF TaskInv
    <2>7. ASSUME NEW i \in (1..MaxTasks) \ DOMAIN entries PROVE UnusedInv(r, i)'
      <3>1. <<r, i>> \in Calls /\ <<r, i>> \notin S
        BY TaskIsCall
      <3> QED
        BY <1>3, <2>5, <3>1 DEF UnusedInv
    <2>8. PhaseInv(r)'
      BY <1>2, <2>4, <2>5 DEF PhaseInv
    <2>9. RunInv(r)'
      BY <2>4, <2>5, <2>6, <2>7, <2>8 DEF RunInv, ReturnedInv
    <2>10. \A q \in Runs, i \in 1..MaxTasks : q # r => call'[<<q, i>>] = call[<<q, i>>]
      <3>1. ASSUME NEW q \in Runs, NEW i \in 1..MaxTasks, q # r
            PROVE  <<q, i>> \in Calls /\ <<q, i>> \notin S
        BY <3>1, TaskIsCall
      <3> HIDE DEF S, of
      <3> QED
        BY <2>5, <3>1
    <2> HIDE DEF S, of
    <2> QED
      BY <2>3, <2>4, <2>5, <2>9, <2>10, StepOfRun
  <1> QED
    BY <1>5, <1>6

-----------------------------------------------------------------------------
(* The end of a run.                                                       *)

(* What all() makes of flags is a truth value.                             *)
LEMMA AllowedType == \A r, i, own : Allowed(r, i, own) \in BOOLEAN
  BY Zenon DEF Allowed, EffectiveAllowFailure

(* The check of a task that is pending, and of one that has answered.      *)
LEMMA CheckFacts ==
  ASSUME CacheInv, RunsInv, NEW r \in Runs, NEW i \in DOMAIN run[r].entries,
         Ended(<<r, i>>),
         i \notin run[r].pending => call[<<r, i>>].st # "cancelled"
  PROVE  LET check == CheckOf(r, i, run[r].pending)
             task == call[<<r, i>>]
         IN  /\ check \in Check
             /\ check.allow_failure = Allowed(r, i, Own(r, i))
             /\ i \in run[r].pending =>
                  /\ check.error = "run timeout" /\ check.ok = FALSE
                  /\ check.started_at = run[r].start
                  /\ check.elapsed >= run[r].timeout
             /\ i \notin run[r].pending =>
                  /\ task.st = "returned"
                  /\ check = [task.result EXCEPT !.allow_failure = check.allow_failure]
  <1>1. PICK own : own = Own(r, i)
    OBVIOUS
  <1>2. PICK a \in BOOLEAN : a = Allowed(r, i, own)
    BY AllowedType
  <1>3. PICK check : check = CheckOf(r, i, run[r].pending)
    OBVIOUS
  <1>4. CASE i \in run[r].pending
    <2>1. /\ run[r].timeout \in Nat /\ now >= run[r].start + run[r].timeout
          /\ run[r].start \in Nat /\ now \in Nat
      BY <1>4, RunFields DEF RunsInv, RunInv, PhaseInv, TimeOver, CacheInv, TypeOK
    <2>2. PICK e \in Nat : e = now - run[r].start /\ e >= run[r].timeout
      BY <2>1
    <2>3. check = [ok |-> FALSE, error |-> "run timeout", cached |-> None,
                   started_at |-> run[r].start, elapsed |-> e, allow_failure |-> a]
      BY <1>1, <1>2, <1>3, <1>4, <2>2 DEF CheckOf
    <2>4. /\ check \in Check /\ check.allow_failure = a /\ check.error = "run timeout"
          /\ check.ok = FALSE /\ check.started_at = run[r].start /\ check.elapsed = e
      BY <2>1, <2>3 DEF Check
    <2> QED
      BY <1>1, <1>2, <1>3, <1>4, <2>2, <2>4
  <1>5. CASE i \notin run[r].pending
    <2>1. /\ <<r, i>> \in Calls /\ call[<<r, i>>].st = "returned"
          /\ call[<<r, i>>].probe = run[r].entries[i].probe
      BY <1>5, RunFields, TaskIsCall DEF Ended, RunsInv, RunInv, TaskInv
    <2>2. PICK result \in Result : result = call[<<r, i>>].result
                                   /\ result.allow_failure = own
      BY <1>1, <2>1 DEF CacheInv, CallInv, Own
    <2>3. check = [result EXCEPT !.allow_failure = a]
      BY <1>2, <1>3, <1>5, <2>2 DEF CheckOf
    <2>4. check \in Check /\ check.allow_failure = a
      BY <2>3 DEF Result, Check
    <2> QED
      BY <1>1, <1>2, <1>3, <1>5, <2>1, <2>2, <2>3, <2>4
  <1> QED
    BY <1>4, <1>5

(* The result is assembled when every task has ended.                      *)
LEMMA CompleteInv ==
  ASSUME CacheInv, RunsInv, NEW r \in Runs, run[r].st \in {"waiting", "gathering"},
         \A i \in DOMAIN run[r].entries : Ended(<<r, i>>),
         Complete(r, run[r].pending), UNCHANGED probeVars
  PROVE  RunsInv'
  <1>1. /\ run[r] \in Run /\ RunInv(r) /\ UNCHANGED <<now, cfg, call>>
        /\ run[r].entries \in Seq(Entry) /\ now \in Nat /\ now' \in Nat /\ now <= now'
    BY RunFields DEF RunsInv, probeVars, CacheInv, TypeOK
  <1>2. \A q \in Runs, i \in 1..MaxTasks : q # r => call'[<<q, i>>] = call[<<q, i>>]
    BY <1>1
  <1>3. ASSUME NEW R \in Run, run' = [run EXCEPT ![r] = R],
               R.st \in {"raised", "returned"}, R.timeout = run[r].timeout,
               R.start = run[r].start, R.entries = run[r].entries,
               R.pending = run[r].pending, ReturnedInv(r)'
        PROVE  RunsInv'
    <2>1. run'[r] = R
      BY <1>3 DEF RunsInv
    <2>2. PhaseInv(r)'
      BY <1>1, <1>3, <2>1 DEF RunInv, PhaseInv, TimeOver, Ended
    <2>3. \A i \in DOMAIN run[r].entries : TaskInv(r, i)'
      BY <1>1, <1>3, <2>1 DEF RunInv, TaskInv
    <2>4. \A i \in (1..MaxTasks) \ DOMAIN run[r].entries : UnusedInv(r, i)'
      BY <1>1, <1>3, <2>1 DEF RunInv, UnusedInv
    <2>5. RunInv(r)'
      BY <1>3, <2>1, <2>2, <2>3, <2>4 DEF RunInv
    <2> QED
      BY <1>1, <1>2, <1>3, <2>5, StepOfRun
  <1>4. CASE \E i \in DOMAIN run[r].entries \ run[r].pending : call[<<r, i>>].st = "cancelled"
    <2> DEFINE R == [run[r] EXCEPT !.st = "raised"]
    <2>1. run' = [run EXCEPT ![r] = R]
      BY <1>4 DEF Complete
    <2>2. /\ R \in Run /\ R.st = "raised" /\ R.timeout = run[r].timeout
          /\ R.start = run[r].start /\ R.entries = run[r].entries
          /\ R.pending = run[r].pending
      BY <1>1 DEF Run, RunState
    <2> HIDE DEF R
    <2>3. run'[r] = R
      BY <2>1 DEF RunsInv
    <2>4. ReturnedInv(r)'
      BY <2>2, <2>3 DEF ReturnedInv
    <2> QED
      BY <1>3, <2>1, <2>2, <2>4
  <1>5. CASE ~ \E i \in DOMAIN run[r].entries \ run[r].pending : call[<<r, i>>].st = "cancelled"
    <2> DEFINE entries == run[r].entries
               pending == run[r].pending
    <2>1. PICK checks : checks = [i \in DOMAIN entries |-> CheckOf(r, i, pending)]
      OBVIOUS
    <2>2. \A i \in DOMAIN entries : checks[i] = CheckOf(r, i, pending) /\ checks[i] \in Check
      BY <1>5, <2>1, CheckFacts
    <2>3. checks \in Seq(Check) /\ DOMAIN checks = DOMAIN entries
      <3>1. DOMAIN entries = 1..Len(entries) /\ Len(entries) \in Nat
        BY <1>1, LenProperties
      <3>2. checks \in [1..Len(entries) -> Check]
        BY <2>1, <2>2, <3>1
      <3> QED
        BY <2>1, <3>1, <3>2, FunctionIsSeq
    <2>4. PICK ok \in BOOLEAN : ok = \A i \in DOMAIN checks :
                                       checks[i].ok \/ checks[i].allow_failure
      BY Zenon
    <2>5. PICK timed_out \in BOOLEAN : timed_out = (pending # {})
      BY Zenon
    <2>6. run' = [run EXCEPT ![r].st = "returned", ![r].checks = checks,
                             ![r].ok = ok, ![r].timed_out = timed_out]
      BY <1>5, <2>1, <2>4, <2>5, Zenon DEF Complete
    <2> DEFINE R == [run[r] EXCEPT !.st = "returned", !.checks = checks,
                                   !.ok = ok, !.timed_out = timed_out]
    <2>7. run' = [run EXCEPT ![r] = R]
      BY ONLY <2>6
    <2>8. /\ R \in Run /\ R.st = "returned" /\ R.timeout = run[r].timeout
          /\ R.start = run[r].start /\ R.entries = entries
          /\ R.pending = pending /\ R.checks = checks /\ R.ok = ok /\ R.timed_out = timed_out
      BY <1>1, <2>3 DEF Run, RunState
    <2> HIDE DEF R
    <2>9. run'[r] = R
      BY <2>7 DEF RunsInv
    <2>10. ASSUME NEW i \in DOMAIN entries PROVE CheckInv(r, i)'
      <3>1. PICK own : own = Own(r, i) /\ own = Own(r, i)'
        BY <1>1, <2>8, <2>9 DEF Own
      <3>2. Allowed(r, i, own)' = Allowed(r, i, own)
        BY <2>8, <2>9, AllowedFrame
      <3>3. PICK check : check = CheckOf(r, i, pending)
        OBVIOUS
      <3>4. /\ check.allow_failure = Allowed(r, i, own)
            /\ i \in pending =>
                 /\ check.error = "run timeout" /\ check.ok = FALSE
                 /\ check.started_at = run[r].start
                 /\ check.elapsed >= run[r].timeout
            /\ i \notin pending =>
                 /\ call[<<r, i>>].st = "returned"
                 /\ check = [call[<<r, i>>].result EXCEPT !.allow_failure = check.allow_failure]
        BY <1>5, <3>1, <3>3, CheckFacts
      <3>5. run'[r].checks[i] = check /\ call' = call
        BY <1>1, <2>2, <2>8, <2>9, <3>3
      <3>6. Allowed(r, i, Own(r, i))' = Allowed(r, i, own)
        BY <3>1, <3>2, Zenon
      <3> HIDE DEF entries, pending
      <3> QED
        BY <2>8, <2>9, <3>4, <3>5, <3>6 DEF CheckInv, pending
    <2>11. ReturnedInv(r)'
      <3>1. run'[r].timed_out <=> run'[r].pending # {}
        BY <2>5, <2>8, <2>9
      <3>2. run'[r].ok <=> \A i \in DOMAIN checks : checks[i].ok \/ checks[i].allow_failure
        BY <2>4, <2>8, <2>9, Zenon
      <3> QED
        BY <2>3, <2>8, <2>9, <2>10, <3>1, <3>2 DEF ReturnedInv
    <2> HIDE DEF entries, pending
    <2> QED
      BY <1>3, <2>7, <2>8, <2>11 DEF entries, pending
  <1> QED
    BY <1>4, <1>5

(* wait() is over because all tasks are done.                              *)
LEMMA WaitDoneInv ==
  ASSUME CacheInv, RunsInv, NEW r \in Runs, WaitDone(r)
  PROVE  RunsInv'
  <1>1. run[r].st = "waiting" /\ Complete(r, {}) /\ UNCHANGED probeVars
    BY DEF WaitDone, Awake
  <1>2. run[r].pending = {}
    BY <1>1 DEF RunsInv, RunInv, PhaseInv
  <1>3. \A i \in DOMAIN run[r].entries : Ended(<<r, i>>)
    BY DEF WaitDone, AllEnded, Tasks
  <1> QED
    BY <1>1, <1>2, <1>3, CompleteInv

(* The tasks a cancellation reaches.                                       *)
LEMMA CancelFacts ==
  ASSUME CacheInv, NEW r \in Runs, NEW P \in SUBSET (1..MaxTasks),
         Cancel({<<r, i>> : i \in P})
  PROVE  /\ UNCHANGED <<now, cfg, last_result, cache_until>>
         /\ \A q \in Runs, i \in 1..MaxTasks :
               call'[<<q, i>>] = IF q = r /\ i \in P THEN CancelledCall(<<q, i>>)
                                                     ELSE call[<<q, i>>]
  <1>1. ASSUME NEW q \in Runs, NEW i \in 1..MaxTasks
        PROVE  <<q, i>> \in {<<r, j>> : j \in P} <=> q = r /\ i \in P
    OBVIOUS
  <1> QED
    BY <1>1, TaskIsCall DEF Cancel

(* wait() has timed out: what is pending now has begun, for every task had *)
(* its first turn, and is cancelled.                                       *)
LEMMA WaitTimedOutInv ==
  ASSUME CacheInv, RunsInv, NEW r \in Runs, WaitTimedOut(r)
  PROVE  RunsInv'
  <1> DEFINE P == {i \in DOMAIN run[r].entries : ~Ended(<<r, i>>)}
             R == [run[r] EXCEPT !.st = "gathering", !.pending = P]
  <1>1. /\ run[r].st = "waiting" /\ Cancel({<<r, i>> : i \in P})
        /\ run' = [run EXCEPT ![r] = R]
        /\ P # {}
        /\ \A c \in Tasks(r) : call[c].st # "ready"
        /\ AllEnded(Tasks(r)) \/ TimeOver(r)
    BY DEF WaitTimedOut, Awake, TimeOver
  <1>2. TimeOver(r)
    BY <1>1 DEF AllEnded, Tasks
  <1>3. run[r] \in Run /\ RunInv(r) /\ P \in SUBSET (1..MaxTasks)
    BY RunFields DEF RunsInv
  <1>4. /\ UNCHANGED <<now, cfg>>
        /\ \A q \in Runs, i \in 1..MaxTasks :
              call'[<<q, i>>] = IF q = r /\ i \in P THEN CancelledCall(<<q, i>>)
                                                    ELSE call[<<q, i>>]
    <2> HIDE DEF P
    <2> QED
      BY <1>1, <1>3, CancelFacts
  <1>5. /\ R \in Run /\ R.st = "gathering" /\ R.pending = P /\ R.timeout = run[r].timeout
        /\ R.start = run[r].start /\ R.entries = run[r].entries
    <2> HIDE DEF P
    <2> QED
      BY <1>3 DEF Run, RunState
  <1> HIDE DEF R
  <1>6. run'[r] = R
    BY <1>1 DEF RunsInv
  <1>7. ASSUME NEW i \in P
        PROVE  TaskInv(r, i)'
    <2>1. /\ i \in DOMAIN run[r].entries /\ i \in 1..MaxTasks /\ <<r, i>> \in Calls
          /\ <<r, i>> \in Tasks(r) /\ TaskInv(r, i)
          /\ call[<<r, i>>] \in Call
      BY <1>3, TaskIsCall DEF Tasks, RunInv, CacheInv, TypeOK
    <2>2. call[<<r, i>>].st = "checking"
      BY <1>1, <2>1 DEF Ended, TaskInv, Call, CallState
    <2>3. call[<<r, i>>].start \in Nat
      BY <2>1, <2>2 DEF CacheInv, CallInv
    <2>4. call'[<<r, i>>] = [call[<<r, i>>] EXCEPT !.cancelled = TRUE]
      <3>1. call'[<<r, i>>] = CancelledCall(<<r, i>>)
        BY <1>4, <2>1
      <3> QED
        BY <2>2, <3>1 DEF CancelledCall
    <2>5. /\ call'[<<r, i>>].st = "checking" /\ call'[<<r, i>>].cancelled = TRUE
          /\ call'[<<r, i>>].probe = call[<<r, i>>].probe
          /\ call'[<<r, i>>].start = call[<<r, i>>].start
      BY <2>1, <2>2, <2>4 DEF Call
    <2>6. call[<<r, i>>].start # None
      BY <2>3, ProbeAssumption
    <2> HIDE DEF P
    <2> QED
      BY <1>5, <1>6, <2>1, <2>5, <2>6 DEF TaskInv
  <1>8. ASSUME NEW i \in 1..MaxTasks, i \notin P
        PROVE  call'[<<r, i>>] = call[<<r, i>>]
    BY <1>4, <1>8
  <1>9. ASSUME NEW i \in DOMAIN run[r].entries, i \notin P
        PROVE  Ended(<<r, i>>)' /\ TaskInv(r, i)'
    <2>1. i \in 1..MaxTasks /\ Ended(<<r, i>>) /\ TaskInv(r, i) /\ i \notin run[r].pending
      BY <1>1, <1>3, <1>9, RunFields DEF RunInv, PhaseInv
    <2> HIDE DEF P
    <2> QED
      BY <1>5, <1>6, <1>8, <1>9, <2>1 DEF TaskInv, Ended
  <1>10. PhaseInv(r)'
    <2>1. P \subseteq DOMAIN run[r].entries
      OBVIOUS
    <2> HIDE DEF P
    <2> QED
      BY <1>2, <1>3, <1>4, <1>5, <1>6, <1>9, <2>1 DEF RunInv, PhaseInv, TimeOver
  <1>11. \A i \in (1..MaxTasks) \ DOMAIN run[r].entries : UnusedInv(r, i)'
    BY <1>3, <1>8 DEF RunInv, UnusedInv
  <1>12. RunInv(r)'
    <2> HIDE DEF P
    <2> QED
      BY <1>5, <1>6, <1>7, <1>9, <1>10, <1>11 DEF RunInv, ReturnedInv
  <1> HIDE DEF P
  <1> QED
    BY <1>1, <1>4, <1>5, <1>12, StepOfRun

(* A run that is given up keeps its tasks as they are.                     *)
LEMMA GivenUpInv ==
  ASSUME CacheInv, RunsInv, NEW r \in Runs, run[r].st \in {"waiting", "gathering"},
         run[r].pending # {} => \A i \in DOMAIN run[r].entries : Ended(<<r, i>>),
         run' = [run EXCEPT ![r].st = "cancelled"], UNCHANGED probeVars
  PROVE  RunsInv'
  <1> DEFINE R == [run[r] EXCEPT !.st = "cancelled"]
  <1>1. run[r] \in Run /\ RunInv(r) /\ UNCHANGED <<now, cfg, call>>
    BY DEF RunsInv, probeVars
  <1>2. /\ R \in Run /\ R.st = "cancelled" /\ R.pending = run[r].pending
        /\ R.timeout = run[r].timeout /\ R.start = run[r].start /\ R.entries = run[r].entries
    BY <1>1 DEF Run, RunState
  <1>3. run' = [run EXCEPT ![r] = R] /\ run'[r] = R
    BY DEF RunsInv
  <1> HIDE DEF R
  <1>4. PhaseInv(r)'
    <2>1. \A i \in DOMAIN run[r].entries : Ended(<<r, i>>)' <=> Ended(<<r, i>>)
      BY <1>1 DEF Ended
    <2> QED
      BY <1>1, <1>2, <1>3, <2>1 DEF RunInv, PhaseInv, TimeOver
  <1>5. \A i \in DOMAIN run[r].entries : TaskInv(r, i)'
    BY <1>1, <1>2, <1>3 DEF RunInv, TaskInv
  <1>6. \A i \in (1..MaxTasks) \ DOMAIN run[r].entries : UnusedInv(r, i)'
    BY <1>1, <1>2, <1>3 DEF RunInv, UnusedInv
  <1>7. RunInv(r)'
    BY <1>2, <1>3, <1>4, <1>5, <1>6 DEF RunInv, ReturnedInv
  <1>8. \A q \in Runs, i \in 1..MaxTasks : q # r => call'[<<q, i>>] = call[<<q, i>>]
    BY <1>1
  <1> QED
    BY <1>1, <1>2, <1>3, <1>7, <1>8, StepOfRun

(* gather() is over: every pending task has ended as well.                 *)
LEMMA GatheredInv ==
  ASSUME CacheInv, RunsInv, NEW r \in Runs, Gathered(r)
  PROVE  RunsInv'
  <1>1. run[r].st = "gathering" /\ UNCHANGED probeVars
    BY DEF Gathered
  <1>2. \A i \in DOMAIN run[r].entries : Ended(<<r, i>>)
    <2>1. \A i \in run[r].pending : Ended(<<r, i>>)
      BY DEF Gathered, AllEnded
    <2>2. \A i \in DOMAIN run[r].entries \ run[r].pending : Ended(<<r, i>>)
      BY <1>1 DEF RunsInv, RunInv, PhaseInv
    <2> QED
      BY <2>1, <2>2
  <1>3. CASE run[r].cancelled
    BY <1>1, <1>2, <1>3, GivenUpInv DEF Gathered
  <1>4. CASE ~run[r].cancelled
    BY <1>1, <1>2, <1>4, CompleteInv DEF Gathered
  <1> QED
    BY <1>3, <1>4

(* gather() cancels once more what has been cancelled already.             *)
LEMMA CancelGatheringInv ==
  ASSUME CacheInv, RunsInv, NEW r \in Runs, CancelGathering(r)
  PROVE  RunsInv'
  <1> DEFINE R == [run[r] EXCEPT !.cancelled = TRUE]
             P == run[r].pending
  <1>1. /\ run[r].st = "gathering" /\ run' = [run EXCEPT ![r] = R]
        /\ Cancel({<<r, i>> : i \in P})
    BY DEF CancelGathering
  <1>2. /\ run[r] \in Run /\ RunInv(r) /\ P \in SUBSET (1..MaxTasks)
        /\ P \subseteq DOMAIN run[r].entries
    BY RunFields DEF RunsInv, RunInv, PhaseInv
  <1>3. /\ UNCHANGED <<now, cfg>>
        /\ \A q \in Runs, i \in 1..MaxTasks :
              call'[<<q, i>>] = IF q = r /\ i \in P THEN CancelledCall(<<q, i>>)
                                                    ELSE call[<<q, i>>]
    <2> HIDE DEF P
    <2> QED
      BY <1>1, <1>2, CancelFacts
  <1>4. /\ R \in Run /\ R.st = "gathering" /\ R.pending = P /\ R.timeout = run[r].timeout
        /\ R.start = run[r].start /\ R.entries = run[r].entries
    BY <1>1, <1>2 DEF Run, RunState
  <1> HIDE DEF R
  <1>5. run'[r] = R
    BY <1>1 DEF RunsInv
  <1>6. ASSUME NEW i \in P PROVE TaskInv(r, i)'
    <2>1. /\ i \in 1..MaxTasks /\ TaskInv(r, i) /\ <<r, i>> \in Calls
          /\ call[<<r, i>>] \in Call /\ call[<<r, i>>].cancelled = TRUE
      <3>1. i \in 1..MaxTasks /\ TaskInv(r, i) /\ <<r, i>> \in Calls
        BY <1>2, TaskIsCall DEF RunInv
      <3>2. call[<<r, i>>] \in Call
        BY <3>1 DEF CacheInv, TypeOK
      <3>3. call[<<r, i>>].cancelled \in BOOLEAN
        BY <3>2 DEF Call
      <3>4. call[<<r, i>>].cancelled
        BY <3>1 DEF TaskInv
      <3> QED
        BY <3>1, <3>2, <3>3, <3>4
    <2>2. call[<<r, i>>].st # "ready"
      BY <2>1 DEF TaskInv
    <2>3. call'[<<r, i>>] = CancelledCall(<<r, i>>)
      BY <1>3, <2>1
    <2>4. /\ call'[<<r, i>>].st = call[<<r, i>>].st
          /\ call'[<<r, i>>].cancelled = TRUE
          /\ call'[<<r, i>>].probe = call[<<r, i>>].probe
          /\ call'[<<r, i>>].start = call[<<r, i>>].start
      <3>1. CASE call[<<r, i>>].st = "checking"
        BY <2>1, <2>3, <3>1 DEF CancelledCall, Call
      <3>2. CASE call[<<r, i>>].st # "checking"
        BY <2>1, <2>2, <2>3, <3>2 DEF CancelledCall
      <3> QED
        BY <3>1, <3>2
    <2> HIDE DEF P
    <2> QED
      BY <1>4, <1>5, <2>1, <2>4 DEF TaskInv
  <1>7. ASSUME NEW i \in 1..MaxTasks, i \notin P
        PROVE  call'[<<r, i>>] = call[<<r, i>>]
    BY <1>3, <1>7
  <1>8. ASSUME NEW i \in DOMAIN run[r].entries, i \notin P
        PROVE  Ended(<<r, i>>)' /\ TaskInv(r, i)'
    <2>1. i \in 1..MaxTasks /\ Ended(<<r, i>>) /\ TaskInv(r, i)
      BY <1>1, <1>2, <1>8, RunFields DEF RunInv, PhaseInv
    <2> HIDE DEF P
    <2> QED
      BY <1>4, <1>5, <1>7, <1>8, <2>1 DEF TaskInv, Ended, P
  <1>9. PhaseInv(r)'
    BY <1>1, <1>2, <1>3, <1>4, <1>5, <1>8 DEF RunInv, PhaseInv, TimeOver
  <1>10. \A i \in (1..MaxTasks) \ DOMAIN run[r].entries : UnusedInv(r, i)'
    BY <1>2, <1>7 DEF RunInv, UnusedInv
  <1>11. RunInv(r)'
    BY <1>4, <1>5, <1>6, <1>8, <1>9, <1>10 DEF RunInv, ReturnedInv
  <1> HIDE DEF P
  <1> QED
    BY <1>1, <1>3, <1>4, <1>11, StepOfRun

-----------------------------------------------------------------------------
(* Every step keeps RunsInv.                                               *)
LEMMA NextRunsInv ==
  CacheInv /\ CacheInv' /\ RegistryTypeOK /\ RunsInv /\ [ProbirkaNext]_allVars => RunsInv'
  <1> SUFFICES ASSUME CacheInv, CacheInv', RegistryTypeOK, RunsInv, [ProbirkaNext]_allVars
               PROVE  RunsInv'
    OBVIOUS
  <1>0. now \in Nat /\ now' \in Nat /\ cfg \in [Probes -> Configs \cup {None}]
    BY DEF CacheInv, TypeOK
  <1>1. ASSUME UNCHANGED <<now, cfg, call, run>> PROVE RunsInv'
    <2>1. \A c \in Calls : Progress(c)
      BY <1>1 DEF Progress
    <2> QED
      BY <1>0, <1>1, <2>1, NoRunSteps
  <1>2. ASSUME NEW p \in Probes, NEW conf \in Configs, Construct(p, conf), run' = run
        PROVE  RunsInv'
    <2>1. UNCHANGED <<now, call>> /\ \A q \in Probes : cfg[q] # None => cfg'[q] = cfg[q]
      BY <1>0, <1>2 DEF Construct
    <2>2. \A c \in Calls : Progress(c)
      BY <2>1 DEF Progress
    <2> QED
      BY <1>0, <1>2, <2>1, <2>2, NoRunSteps
  <1>3. ASSUME NEW c \in Calls, CallStep(c), run' = run PROVE RunsInv'
    BY <1>0, <1>3, CallStepProgress, NoRunSteps
  <1>4. ASSUME Tick, run' = run PROVE RunsInv'
    <2>1. UNCHANGED <<cfg, call>> /\ now' = now + 1
      BY <1>4 DEF Tick
    <2>2. \A c \in Calls : Progress(c)
      BY <2>1 DEF Progress
    <2> QED
      BY <1>0, <1>4, <2>1, <2>2, NoRunSteps
  <1>5. ASSUME NEW p \in Probes, NEW conf \in Configs, MakeProbe(p, conf) PROVE RunsInv'
    BY <1>2, <1>5 DEF MakeProbe
  <1>6. ASSUME NEW ps \in ProbeLists, NEW names \in GroupLists, NEW flag \in Flags,
               Register(ps, names, flag)
        PROVE  RunsInv'
    BY <1>1, <1>6 DEF Register, probeVars
  <1>7. ASSUME NEW p \in Probes, NEW conf \in Configs, NEW names \in GroupLists,
               Add(p, conf, names)
        PROVE  RunsInv'
    BY <1>2, <1>7, DefaultsAssumption DEF Add
  <1>8. ASSUME NEW r \in Runs, NEW timeout \in RunTimeouts, NEW with_groups \in RunGroups,
               NEW skip \in BOOLEAN, StartRun(r, timeout, with_groups, skip)
        PROVE  RunsInv'
    BY <1>8, StartRunInv
  <1>9. ASSUME NEW r \in Runs, RunStep(r) \/ CancelWaiting(r) \/ CancelGathering(r)
        PROVE  RunsInv'
    <2>1. CancelWaiting(r) => RunsInv'
      <3>1. run[r].st = "waiting" => run[r].pending = {}
        BY DEF RunsInv, RunInv, PhaseInv
      <3> QED
        BY <3>1, GivenUpInv DEF CancelWaiting
    <2> QED
      BY <1>9, <2>1, WaitDoneInv, WaitTimedOutInv, GatheredInv, CancelGatheringInv DEF RunStep
  <1>10. CASE UNCHANGED allVars
    BY <1>1, <1>10 DEF allVars, probeVars
  <1> QED
    BY <1>3, <1>4, <1>5, <1>6, <1>7, <1>8, <1>9, <1>10 DEF ProbirkaNext, UseNext

(* CacheInv and RunsInv hold in every reachable state.                     *)
THEOREM RunsInvariant == ProbirkaSpec => [](CacheInv /\ RunsInv)
  <1>1. ProbirkaSpec => []CacheInv
    BY RunsKeepProbeSpec, CacheInvariant DEF ProbeSpec
  <1> QED
    BY <1>1, InitRunsInv, NextRunsInv, RegistryInvariant, PTL DEF ProbirkaSpec

(* Every variable of a Probirka keeps its type.                            *)
THEOREM ProbirkaTypeCorrect == ProbirkaSpec => []ProbirkaTypeOK
  <1>1. CacheInv /\ RunsInv /\ RegistryTypeOK => ProbirkaTypeOK
    BY DEF CacheInv, RunsInv, ProbirkaTypeOK
  <1> QED
    BY <1>1, RunsInvariant, RegistryInvariant, PTL

(* A run that is over has left no task behind, unless its caller was       *)
(* cancelled while it was still in wait().                                 *)
THEOREM NoTaskLeftBehind == ProbirkaSpec => []NoTaskOutlivesRun
  <1>1. RunsInv => NoTaskOutlivesRun
    BY DEF RunsInv, RunInv, PhaseInv, NoTaskOutlivesRun, AllEnded, Tasks
  <1> QED
    BY <1>1, RunsInvariant, PTL

(* A run cancels its own tasks only, and only when its time was over and   *)
(* they were not done.                                                     *)
THEOREM OnlyOverdueAreCancelled == ProbirkaSpec => []OnlyOverdueTasksCancelled
  <1> SUFFICES RunsInv => OnlyOverdueTasksCancelled
    BY RunsInvariant, PTL
  <1> SUFFICES ASSUME RunsInv, NEW r \in Runs, NEW i \in 1..MaxTasks,
                      \/ call[<<r, i>>].cancelled
                      \/ call[<<r, i>>].st = "cancelled" /\ run[r].st = "returned"
               PROVE  i \in run[r].pending /\ TimeOver(r)
    BY DEF OnlyOverdueTasksCancelled, TimeOver
  <1>1. RunInv(r)
    BY DEF RunsInv
  <1>2. i \in DOMAIN run[r].entries
    BY <1>1 DEF RunInv, UnusedInv
  <1>3. i \in run[r].pending
    BY <1>1, <1>2 DEF RunInv, TaskInv, ReturnedInv, CheckInv
  <1> QED
    BY <1>1, <1>3 DEF RunInv, PhaseInv

(* A run reports each check once: as cut off if the overall timeout found  *)
(* it unfinished, and with its own result otherwise.                       *)
THEOREM ResultsSurviveTimeout == ProbirkaSpec => []PartialResultsSurvive
  <1> SUFFICES CacheInv /\ RunsInv => PartialResultsSurvive
    BY RunsInvariant, PTL
  <1> SUFFICES ASSUME CacheInv, RunsInv, NEW r \in Runs, run[r].st = "returned"
               PROVE  LET checks == run[r].checks
                          cut(i) == checks[i].error = "run timeout"
                      IN  /\ DOMAIN checks = DOMAIN run[r].entries
                          /\ run[r].timed_out <=> \E i \in DOMAIN checks : cut(i)
                          /\ \A i \in DOMAIN checks :
                               LET task == call[<<r, i>>] IN
                               /\ task.probe = run[r].entries[i].probe
                               /\ cut(i) => /\ ~checks[i].ok /\ task.cancelled
                                            /\ run[r].timeout # None
                                            /\ checks[i].elapsed >= run[r].timeout
                                            /\ checks[i].started_at <= task.start
                               /\ ~cut(i) => /\ task.st = "returned" /\ ~task.cancelled
                                             /\ checks[i] = [task.result EXCEPT
                                                  !.allow_failure = checks[i].allow_failure]
    BY DEF PartialResultsSurvive
  <1> DEFINE checks == run[r].checks
             cut(i) == checks[i].error = "run timeout"
  <1>1. RunInv(r) /\ DOMAIN checks = DOMAIN run[r].entries
        /\ run[r].pending \subseteq DOMAIN run[r].entries
    BY DEF RunsInv, RunInv, PhaseInv, ReturnedInv
  <1>2. ASSUME NEW i \in DOMAIN checks
        PROVE  /\ i \in 1..MaxTasks /\ <<r, i>> \in Calls
               /\ TaskInv(r, i) /\ CheckInv(r, i)
    BY <1>1, RunFields, TaskIsCall DEF RunInv, ReturnedInv
  <1>3. ASSUME NEW i \in DOMAIN checks PROVE cut(i) <=> i \in run[r].pending
    <2>1. CASE i \in run[r].pending
      BY <1>2, <2>1 DEF CheckInv
    <2>2. CASE i \notin run[r].pending
      <3>1. call[<<r, i>>].st = "returned"
        BY <1>2, <2>2 DEF CheckInv
      <3>2. PICK result \in Result : result = call[<<r, i>>].result
        BY <1>2, <3>1 DEF CacheInv, CallInv
      <3>3. PICK a : checks[i] = [result EXCEPT !.allow_failure = a]
        BY <1>2, <2>2, <3>2 DEF CheckInv
      <3>4. result.error # "run timeout"
        BY ProbirkaAssumption DEF Result
      <3>5. checks[i].error = result.error
        BY <3>3 DEF Result
      <3> QED
        BY <2>2, <3>4, <3>5
    <2> QED
      BY <2>1, <2>2
  <1>4. run[r].timed_out <=> \E i \in DOMAIN checks : cut(i)
    <2>1. run[r].timed_out <=> run[r].pending # {}
      BY <1>1 DEF RunInv, ReturnedInv
    <2> HIDE DEF checks, cut
    <2> QED
      BY <1>1, <1>3, <2>1
  <1>5. ASSUME NEW i \in DOMAIN checks
        PROVE  LET task == call[<<r, i>>]
               IN  /\ task.probe = run[r].entries[i].probe
                   /\ cut(i) => /\ ~checks[i].ok /\ task.cancelled
                                /\ run[r].timeout # None
                                /\ checks[i].elapsed >= run[r].timeout
                                /\ checks[i].started_at <= task.start
                   /\ ~cut(i) => /\ task.st = "returned" /\ ~task.cancelled
                                 /\ checks[i] = [task.result EXCEPT
                                      !.allow_failure = checks[i].allow_failure]
    <2>1. CASE i \in run[r].pending
      BY <1>1, <1>2, <1>3, <2>1 DEF RunInv, PhaseInv, TimeOver, TaskInv, CheckInv
    <2>2. CASE i \notin run[r].pending
      BY <1>1, <1>2, <1>3, <2>2 DEF TaskInv, CheckInv
    <2> QED
      BY <2>1, <2>2
  <1> QED
    BY <1>1, <1>4, <1>5

(* The flags of the sources of a probe are those of its entries.           *)
LEMMA EffectiveOfEntries ==
  ASSUME NEW entries, NEW p, NEW own
  PROVE  EffectiveAllowFailure(own, Sources(entries, p)) <=>
           \A j \in DOMAIN entries : entries[j].probe = p =>
              IF entries[j].flag = None THEN own ELSE entries[j].flag
  <1>1. \A j \in DOMAIN entries : entries[j].probe = p => entries[j].flag \in Sources(entries, p)
    BY DEF Sources
  <1>2. \A flag \in Sources(entries, p) :
           \E j \in DOMAIN entries : entries[j].probe = p /\ flag = entries[j].flag
    BY DEF Sources
  <1> QED
    BY <1>1, <1>2, Zenon DEF EffectiveAllowFailure

(* A run is ok unless a check failed that some strict source lets fail it. *)
THEOREM StrictSourcesWin == ProbirkaSpec => []StrictSourceWins
  <1> SUFFICES RunsInv => StrictSourceWins
    BY RunsInvariant, PTL
  <1> SUFFICES ASSUME RunsInv, NEW r \in Runs, run[r].st = "returned"
               PROVE  LET checks == run[r].checks
                          probe(i) == run[r].entries[i].probe
                          strict(i) == \E j \in DOMAIN checks :
                                          /\ probe(j) = probe(i)
                                          /\ run[r].entries[j].flag \in
                                               {FALSE} \cup (IF Own(r, j) THEN {} ELSE {None})
                      IN  /\ ~run[r].ok <=> \E i \in DOMAIN checks : ~checks[i].ok /\ strict(i)
                          /\ \A i \in DOMAIN checks : checks[i].allow_failure = ~strict(i)
    BY DEF StrictSourceWins
  <1> DEFINE checks == run[r].checks
             probe(i) == run[r].entries[i].probe
             flag(i) == run[r].entries[i].flag
             strict(i) == \E j \in DOMAIN checks :
                             /\ probe(j) = probe(i)
                             /\ flag(j) \in {FALSE} \cup (IF Own(r, j) THEN {} ELSE {None})
  <1>1. ReturnedInv(r) /\ DOMAIN checks = DOMAIN run[r].entries
    BY DEF RunsInv, RunInv, ReturnedInv
  <1>2. ASSUME NEW i \in DOMAIN checks PROVE checks[i].allow_failure = ~strict(i)
    <2>1. checks[i].allow_failure = Allowed(r, i, Own(r, i))
      BY <1>1, <1>2 DEF ReturnedInv, CheckInv
    <2>2. Allowed(r, i, Own(r, i)) <=>
            \A j \in DOMAIN checks : probe(j) = probe(i) =>
               IF flag(j) = None THEN Own(r, i) ELSE flag(j)
      <3>1. Allowed(r, i, Own(r, i)) =
              EffectiveAllowFailure(Own(r, i), Sources(run[r].entries, run[r].entries[i].probe))
        BY Zenon DEF Allowed
      <3>2. DOMAIN checks = DOMAIN run[r].entries
        BY <1>1
      <3> HIDE DEF checks
      <3> QED
        BY <3>1, <3>2, EffectiveOfEntries, Zenon
    <2>3. ASSUME NEW j \in DOMAIN checks, probe(j) = probe(i)
          PROVE  /\ Own(r, j) = Own(r, i)
                 /\ flag(j) \in BOOLEAN \cup {None}
      <3>1. run[r].entries[j] \in Entry
        BY <1>1, RunFields, LenProperties, ElementOfSeq
      <3> QED
        BY <2>3, <3>1 DEF Own, Entry, Flags
    <2>4. strict(i) <=> ~ \A j \in DOMAIN checks : probe(j) = probe(i) =>
                              IF flag(j) = None THEN Own(r, i) ELSE flag(j)
      <3> HIDE DEF probe, flag, checks
      <3> QED
        BY <2>3, ProbeAssumption
    <2> HIDE DEF strict, probe, flag, checks
    <2>5. Allowed(r, i, Own(r, i)) = ~strict(i)
      BY <2>2, <2>4, AllowedType, Zenon
    <2> QED
      BY <2>1, <2>5, Zenon
  <1>3. run[r].ok <=> \A i \in DOMAIN checks : checks[i].ok \/ checks[i].allow_failure
    BY <1>1 DEF ReturnedInv
  <1> HIDE DEF strict, probe, flag, checks
  <1>4. ~run[r].ok <=> \E i \in DOMAIN checks : ~checks[i].ok /\ strict(i)
    BY <1>2, <1>3, Zenon
  <1> QED
    BY <1>2, <1>4, Zenon DEF strict, probe, flag, checks

-----------------------------------------------------------------------------
(* Runs implement HealthCheck.  What a run tells its caller is a function  *)
(* of the run and of what its tasks have answered; a step of the runs      *)
(* changes it for one run at most, and as an action of HealthCheck would.  *)

Answers(r) == [i \in DOMAIN run[r].entries |-> Answer(r, i)]

Story(st, since, limit, answers, report) ==
    [st |-> st, since |-> since, limit |-> limit, answers |-> answers, report |-> report]

Listening(R) == R.st \in {"waiting", "gathering", "returned", "raised"} /\ R.entries # <<>>

Since(R) == IF Listening(R) THEN R.start ELSE None
Limit(R) == IF Listening(R) THEN R.timeout ELSE None

Verdict(R) ==
    [passed    |-> [i \in DOMAIN R.checks |-> R.checks[i].ok],
     allowed   |-> [i \in DOMAIN R.checks |-> R.checks[i].allow_failure],
     ok        |-> R.ok,
     timed_out |-> R.timed_out]

View(R, answers) ==
    Story(HealthStatus(R.st), Since(R), Limit(R),
          IF Listening(R) THEN answers ELSE <<>>,
          IF R.st # "returned" THEN None ELSE Verdict(R))

(* The mapping, run by run.                                                *)
Told ==
    /\ health = [r \in Runs |-> health[r]]
    /\ \A r \in Runs : health[r] = View(run[r], Answers(r))

(* The mapping says nothing else, in any state the runs reach.             *)
LEMMA HealthIsTold == RunsInv => Told
  <1> SUFFICES ASSUME RunsInv PROVE Told
    OBVIOUS
  <1>1. ASSUME NEW r \in Runs PROVE health[r] = View(run[r], Answers(r))
    <2>1. run[r].st \in RunState
      BY RunFields
    <2>2. PICK st : st = HealthStatus(run[r].st)
      OBVIOUS
    <2>3. /\ Listening(run[r]) <=>
                st \in {"open", "over", "reported", "failed"} /\ run[r].entries # <<>>
          /\ run[r].st # "returned" <=> st # "reported"
      BY <2>1, <2>2 DEF Listening, HealthStatus, RunState
    <2>4. PICK A : A = Answers(r)
      OBVIOUS
    <2>5. PICK V : V = Verdict(run[r])
      OBVIOUS
    <2>6. health[r] =
            [st      |-> st,
             since   |-> IF Listening(run[r]) THEN run[r].start ELSE None,
             limit   |-> IF Listening(run[r]) THEN run[r].timeout ELSE None,
             answers |-> IF Listening(run[r]) THEN A ELSE <<>>,
             report  |-> IF run[r].st # "returned" THEN None ELSE V]
      BY <2>2, <2>3, <2>4, <2>5, Zenon DEF health, Answers, Verdict
    <2> QED
      BY <2>2, <2>4, <2>5, <2>6 DEF View, Story, Since, Limit
  <1>2. health = [r \in Runs |-> health[r]]
    BY DEF health
  <1> QED
    BY <1>1, <1>2 DEF Told

Said == {"cut", "lost", "passed", "failed", "awaited"}

AnswerOf(P, i, task) ==
    IF i \in P THEN "cut"
    ELSE CASE task.st = "cancelled" -> "lost"
           [] task.st = "returned"  -> IF task.result.ok THEN "passed" ELSE "failed"
           [] OTHER                 -> "awaited"

(* What a task counts for, case by case.                                   *)
LEMMA AnswerCases ==
  ASSUME NEW P, NEW i, NEW task
  PROVE  /\ AnswerOf(P, i, task) \in Said
         /\ i \in P => AnswerOf(P, i, task) = "cut"
         /\ i \notin P =>
              /\ task.st = "cancelled" => AnswerOf(P, i, task) = "lost"
              /\ task.st = "returned" /\ task.result.ok => AnswerOf(P, i, task) = "passed"
              /\ task.st = "returned" /\ ~task.result.ok => AnswerOf(P, i, task) = "failed"
              /\ task.st \notin {"cancelled", "returned"} => AnswerOf(P, i, task) = "awaited"
  <1>1. PICK ok \in BOOLEAN : ok = (task.result.ok = TRUE)
    BY Zenon
  <1>2. CASE i \in P
    BY <1>2 DEF AnswerOf, Said
  <1>3. CASE i \notin P /\ task.st = "cancelled"
    BY <1>3 DEF AnswerOf, Said
  <1>4. CASE i \notin P /\ task.st = "returned" /\ task.result.ok
    BY <1>4 DEF AnswerOf, Said
  <1>5. CASE i \notin P /\ task.st = "returned" /\ ~task.result.ok
    BY <1>5 DEF AnswerOf, Said
  <1>6. CASE i \notin P /\ task.st \notin {"cancelled", "returned"}
    BY <1>6 DEF AnswerOf, Said
  <1> QED
    BY <1>2, <1>3, <1>4, <1>5, <1>6

(* The answers of a run depend on its entries, on what is pending, and on  *)
(* its tasks.                                                              *)
LEMMA AnswersAre ==
  /\ \A r, i : Answer(r, i) = AnswerOf(run[r].pending, i, call[<<r, i>>])
  /\ \A r : Answers(r) = [i \in DOMAIN run[r].entries |->
                            AnswerOf(run[r].pending, i, call[<<r, i>>])]
  <1>1. \A r, i : Answer(r, i) = AnswerOf(run[r].pending, i, call[<<r, i>>])
    BY Zenon DEF Answer, AnswerOf
  <1> QED
    BY <1>1, Zenon DEF Answers

(* The same after a step.                                                  *)
LEMMA AnswersAreNext ==
  \A r : Answers(r)' = [i \in DOMAIN run'[r].entries |->
                          AnswerOf(run'[r].pending, i, call'[<<r, i>>])]
  BY Zenon DEF Answers, Answer, AnswerOf

(* Nothing is said to a run without entries.                               *)
LEMMA NoAnswers ==
  ASSUME NEW entries \in Seq(Entry), NEW A, DOMAIN A = DOMAIN entries,
         A = [i \in DOMAIN entries |-> A[i]], entries = <<>>
  PROVE  A = <<>>
  <1>1. DOMAIN entries = {}
    BY EmptyIsShort
  <1>2. A = [i \in {} |-> A[i]]
    BY <1>1
  <1> QED
    BY <1>2

(* How a run looks to its caller, status by status.                        *)
LEMMA ViewIdle ==
  ASSUME NEW R, NEW A, R.st = "idle"
  PROVE  View(R, A) = Promise!NoHealth
  BY DEF View, Story, Since, Limit, Listening, HealthStatus, Promise!NoHealth, Promise!Health

(* A run that was given up looks forsaken, whatever its tasks do.          *)
LEMMA ViewForsaken ==
  ASSUME NEW R, NEW A, R.st = "cancelled"
  PROVE  View(R, A) = [Promise!NoHealth EXCEPT !.st = "forsaken"]
  BY DEF View, Story, Since, Limit, Listening, HealthStatus, Promise!NoHealth, Promise!Health

(* Any other run shows its answers, and its verdict once it has one.       *)
LEMMA ViewUnderWay ==
  ASSUME NEW R, R.entries \in Seq(Entry), NEW A, DOMAIN A = DOMAIN R.entries,
         A = [i \in DOMAIN R.entries |-> A[i]],
         R.st \in {"waiting", "gathering", "returned", "raised"}
  PROVE  /\ R.st = "waiting" => View(R, A) = Story("open", Since(R), Limit(R), A, None)
         /\ R.st = "gathering" => View(R, A) = Story("over", Since(R), Limit(R), A, None)
         /\ R.st = "returned" =>
              View(R, A) = Story("reported", Since(R), Limit(R), A, Verdict(R))
         /\ R.st = "raised" => View(R, A) = Story("failed", Since(R), Limit(R), A, None)
  <1>1. (IF Listening(R) THEN A ELSE <<>>) = A
    BY NoAnswers DEF Listening
  <1>2. /\ R.st = "waiting" => HealthStatus(R.st) = "open"
        /\ R.st = "gathering" => HealthStatus(R.st) = "over"
        /\ R.st = "returned" => HealthStatus(R.st) = "reported"
        /\ R.st = "raised" => HealthStatus(R.st) = "failed"
    BY DEF HealthStatus
  <1> QED
    BY <1>1, <1>2, Zenon DEF View

-----------------------------------------------------------------------------
(* A step that changes at most what one run has told.                      *)

(* A run that is left alone, with tasks whose answers stay, tells nothing  *)
(* new.                                                                    *)
LEMMA SilentRun ==
  ASSUME Told, Told', NEW q \in Runs, run'[q] = run[q], Answers(q)' = Answers(q)
  PROVE  health'[q] = health[q]
  BY Zenon DEF Told

(* Tasks that stay as they are say nothing new.                            *)
LEMMA SilentTasks ==
  ASSUME RunsInv, NEW q \in Runs, run'[q] = run[q],
         \A i \in 1..MaxTasks : call'[<<q, i>>] = call[<<q, i>>]
  PROVE  Answers(q)' = Answers(q)
  <1>1. \A i \in DOMAIN run[q].entries :
           AnswerOf(run[q].pending, i, call'[<<q, i>>])
             = AnswerOf(run[q].pending, i, call[<<q, i>>])
    BY RunFields
  <1> QED
    BY <1>1, AnswersAre, AnswersAreNext, Zenon

(* If no run tells anything new, nothing changes for the callers.          *)
LEMMA SilentStep ==
  ASSUME Told, Told', \A q \in Runs : health'[q] = health[q]
  PROVE  health' = health
  BY DEF Told

(* If one run does, the change is its own.                                 *)
LEMMA OneRunTells ==
  ASSUME Told, Told', NEW r \in Runs, NEW h, health'[r] = h,
         \A q \in Runs : q # r => health'[q] = health[q]
  PROVE  health' = [health EXCEPT ![r] = h]
  BY DEF Told

(* The other runs, when run r and its tasks are the only ones to change.   *)
LEMMA OthersSilent ==
  ASSUME RunsInv, Told, Told', NEW r \in Runs, NEW R, run' = [run EXCEPT ![r] = R],
         \A q \in Runs, i \in 1..MaxTasks : q # r => call'[<<q, i>>] = call[<<q, i>>]
  PROVE  \A q \in Runs : q # r => health'[q] = health[q]
  <1> SUFFICES ASSUME NEW q \in Runs, q # r PROVE health'[q] = health[q]
    OBVIOUS
  <1>1. run'[q] = run[q]
    BY DEF RunsInv
  <1>2. Answers(q)' = Answers(q)
    BY <1>1, SilentTasks
  <1> QED
    BY <1>1, <1>2, SilentRun

(* The answers of a run are a function on its entries.                     *)
LEMMA AnswersShape ==
  ASSUME NEW r
  PROVE  /\ DOMAIN Answers(r) = DOMAIN run[r].entries
         /\ Answers(r) = [i \in DOMAIN run[r].entries |-> Answers(r)[i]]
         /\ \A i \in DOMAIN run[r].entries : Answers(r)[i] = Answer(r, i)
  BY DEF Answers

(* The same after a step.                                                  *)
LEMMA AnswersShapeNext ==
  ASSUME NEW r
  PROVE  /\ DOMAIN Answers(r)' = DOMAIN run'[r].entries
         /\ Answers(r)' = [i \in DOMAIN run'[r].entries |-> Answers(r)'[i]]
         /\ \A i \in DOMAIN run'[r].entries : Answers(r)'[i] = Answer(r, i)'
  BY DEF Answers

(* What is heard of a run that has not told its end.                       *)
LEMMA ToldUnderWay ==
  ASSUME RunsInv, Told, NEW r \in Runs, run[r].st \in {"waiting", "gathering"}
  PROVE  \E st \in {"open", "over"} :
            /\ st = "open" <=> run[r].st = "waiting"
            /\ health[r] = Story(st, Since(run[r]), Limit(run[r]), Answers(r), None)
  <1>1. PICK A : A = Answers(r)
    OBVIOUS
  <1>2. DOMAIN A = DOMAIN run[r].entries /\ A = [i \in DOMAIN run[r].entries |-> A[i]]
    BY <1>1, AnswersShape, Zenon
  <1>3. run[r].entries \in Seq(Entry)
    BY RunFields
  <1>4. PICK R : R = run[r]
    OBVIOUS
  <1>5. View(R, A) = Story(IF R.st = "waiting" THEN "open" ELSE "over",
                           Since(R), Limit(R), A, None)
    BY <1>2, <1>3, <1>4, ViewUnderWay
  <1>6. health[r] = View(R, A)
    BY <1>1, <1>4 DEF Told
  <1> QED
    BY <1>1, <1>4, <1>5, <1>6

(* A run that is given up forgets what it has heard.                       *)
LEMMA ForsakenStep ==
  ASSUME RunsInv, Told, Told', NEW r \in Runs, run[r].st \in {"waiting", "gathering"},
         run' = [run EXCEPT ![r].st = "cancelled"], UNCHANGED probeVars
  PROVE  Promise!Forsake(r)
  <1> DEFINE R == [run[r] EXCEPT !.st = "cancelled"]
  <1>0. run[r] \in Run /\ UNCHANGED <<now, call>>
    BY DEF RunsInv, probeVars
  <1>1. run' = [run EXCEPT ![r] = R]
    OBVIOUS
  <1>7. R.st = "cancelled"
    BY <1>0 DEF Run
  <1> HIDE DEF R
  <1>2. run'[r] = R
    BY <1>1 DEF RunsInv
  <1>3. health'[r] = [Promise!NoHealth EXCEPT !.st = "forsaken"]
    <2>1. PICK A : A = Answers(r)'
      OBVIOUS
    <2>2. health'[r] = View(R, A)
      BY <1>2, <2>1 DEF Told
    <2> QED
      BY <1>7, <2>2, ViewForsaken
  <1>4. \A q \in Runs : q # r => health'[q] = health[q]
    BY <1>0, <1>1, OthersSilent
  <1>5. health' = [health EXCEPT ![r] = [Promise!NoHealth EXCEPT !.st = "forsaken"]]
    BY <1>3, <1>4, OneRunTells
  <1>6. health[r].st \in {"open", "over"}
    <2>1. PICK st \in {"open", "over"} :
               \E S, L, A : health[r] = Story(st, S, L, A, None)
      BY ToldUnderWay
    <2> QED
      BY <2>1 DEF Story
  <1> QED
    BY <1>0, <1>5, <1>6 DEF Promise!Forsake

(* A task that ends while its run waits is heard; any other step of a task *)
(* is not.                                                                 *)
LEMMA HeardStep ==
  ASSUME CacheInv, RunsInv, Told, Told', NEW r \in Runs, NEW i \in 1..MaxTasks,
         CallStep(<<r, i>>), run' = run
  PROVE  \/ i \in DOMAIN health[r].answers
              /\ \E answer \in {"passed", "failed", "lost"} : Promise!Hear(r, i, answer)
         \/ UNCHANGED <<now, health>>
  <1>0. PICK c \in Calls : c = <<r, i>>
    BY TaskIsCall
  <1>1. /\ now' = now
        /\ \A d \in Calls : Progress(d) /\ (d # c => call'[d] = call[d])
    BY <1>0, CallStepProgress
  <1>2. call[c].st \in {"ready", "checking"}
    BY <1>0 DEF CallStep, ServeCached, StartCheck, CheckEnds, CheckAnswers, CheckRaises,
                CheckRaisesTimeout, CheckTimesOut, CheckCancelled, TimerFires, Finish
  <1>3. ASSUME NEW q \in Runs, NEW j \in 1..MaxTasks, q # r \/ j # i
        PROVE  call'[<<q, j>>] = call[<<q, j>>]
    BY <1>0, <1>1, <1>3, TaskIsCall
  <1>4. \A q \in Runs : q # r => health'[q] = health[q]
    <2>1. ASSUME NEW q \in Runs, q # r PROVE health'[q] = health[q]
      BY <1>3, <2>1, SilentTasks, SilentRun
    <2> QED
      BY <2>1
  <1>5. RunInv(r) /\ run[r].st \in RunState /\ run[r].entries \in Seq(Entry)
    BY RunFields DEF RunsInv
  <1>6. i \in DOMAIN run[r].entries
    BY <1>0, <1>2, <1>5 DEF RunInv, UnusedInv
  <1>7. run[r].st # "idle"
    BY <1>5, <1>6, EmptyIsShort DEF RunInv, PhaseInv
  <1>8. run[r].st \notin {"returned", "raised"}
    BY <1>0, <1>2, <1>5, <1>6 DEF RunInv, PhaseInv, Ended
  <1>9. ASSUME health'[r] = health[r] PROVE UNCHANGED <<now, health>>
    <2>1. \A q \in Runs : health'[q] = health[q]
      BY <1>4, <1>9
    <2> QED
      BY <1>1, <2>1, SilentStep
  <1>10. CASE run[r].st = "cancelled"
    <2>1. PICK A, B : A = Answers(r) /\ B = Answers(r)'
      OBVIOUS
    <2>2. health[r] = View(run[r], A) /\ health'[r] = View(run[r], B)
      BY <2>1 DEF Told
    <2>3. View(run[r], A) = View(run[r], B)
      BY <1>10, ViewForsaken
    <2> QED
      BY <1>9, <2>2, <2>3
  <1>11. CASE i \in run[r].pending
    <2>1. Answers(r)' = Answers(r)
      <3>1. AnswerOf(run[r].pending, i, call'[<<r, i>>])
              = AnswerOf(run[r].pending, i, call[<<r, i>>])
        BY <1>11, AnswerCases
      <3>2. \A j \in DOMAIN run[r].entries :
               AnswerOf(run[r].pending, j, call'[<<r, j>>])
                 = AnswerOf(run[r].pending, j, call[<<r, j>>])
        BY <1>3, <3>1, RunFields
      <3> QED
        BY <3>2, AnswersAre, AnswersAreNext, Zenon
    <2> QED
      BY <1>9, <2>1, SilentRun
  <1>12. CASE run[r].st = "waiting" /\ i \notin run[r].pending
    <2>1. PICK A : A = Answers(r)
      OBVIOUS
    <2>2. PICK B : B = Answers(r)'
      OBVIOUS
    <2>3. /\ DOMAIN A = DOMAIN run[r].entries /\ A = [j \in DOMAIN run[r].entries |-> A[j]]
          /\ \A j \in DOMAIN run[r].entries :
                A[j] = AnswerOf(run[r].pending, j, call[<<r, j>>])
      BY <2>1, AnswersShape, AnswersAre, Zenon
    <2>4. /\ DOMAIN B = DOMAIN run[r].entries /\ B = [j \in DOMAIN run[r].entries |-> B[j]]
          /\ \A j \in DOMAIN run[r].entries :
                B[j] = AnswerOf(run[r].pending, j, call'[<<r, j>>])
      BY <2>2, AnswersShapeNext, AnswersAreNext, Zenon
    <2>5. PICK S, L : S = Since(run[r]) /\ L = Limit(run[r])
      OBVIOUS
    <2>6. health[r] = Story("open", S, L, A, None) /\ health'[r] = Story("open", S, L, B, None)
      <3>1. View(run[r], A) = Story("open", S, L, A, None)
        BY <1>5, <1>12, <2>3, <2>5, ViewUnderWay
      <3>2. View(run[r], B) = Story("open", S, L, B, None)
        BY <1>5, <1>12, <2>4, <2>5, ViewUnderWay
      <3> QED
        BY <2>1, <2>2, <3>1, <3>2 DEF Told
    <2>7. A[i] = "awaited" /\ \A j \in DOMAIN run[r].entries : j # i => B[j] = A[j]
      <3>1. call[<<r, i>>].st \notin {"cancelled", "returned"}
        BY <1>0, <1>2
      <3>2. A[i] = "awaited"
        BY <1>6, <1>12, <2>3, <3>1, AnswerCases
      <3>3. \A j \in DOMAIN run[r].entries : j # i => call'[<<r, j>>] = call[<<r, j>>]
        BY <1>3, RunFields
      <3> QED
        BY <2>3, <2>4, <3>2, <3>3
    <2>8. B = [A EXCEPT ![i] = B[i]]
      BY <1>6, <2>3, <2>4, <2>7
    <2>9. CASE B[i] = "awaited"
      <3>1. B = A
        BY <2>7, <2>8, <2>9, <2>3
      <3> QED
        BY <1>9, <2>6, <3>1
    <2>10. CASE B[i] # "awaited"
      <3>1. B[i] \in {"passed", "failed", "lost"}
        <4>1. call'[<<r, i>>].st \in {"checking", "returned", "cancelled"}
          BY <1>0, <1>1, <1>2, <2>3, <2>4, <2>7, <2>10, <1>6 DEF Progress
        <4>2. B[i] = AnswerOf(run[r].pending, i, call'[<<r, i>>])
          BY <1>6, <2>4
        <4> QED
          BY <1>12, <2>10, <4>1, <4>2, AnswerCases
      <3>2. health'[r] = [health[r] EXCEPT !.answers[i] = B[i]]
        BY <2>6, <2>8 DEF Story
      <3>3. health' = [health EXCEPT ![r] = [health[r] EXCEPT !.answers[i] = B[i]]]
        BY <1>4, <3>2, OneRunTells
      <3>4. health' = [health EXCEPT ![r].answers[i] = B[i]]
        BY ONLY <3>3
      <3>5. health[r].st = "open" /\ health[r].answers = A
        BY <2>6 DEF Story
      <3>6. Promise!Hear(r, i, B[i])
        BY <1>1, <2>7, <3>4, <3>5 DEF Promise!Hear
      <3> QED
        BY <1>6, <2>3, <3>1, <3>5, <3>6
    <2> QED
      BY <2>9, <2>10
  <1>13. CASE run[r].st = "gathering" /\ i \notin run[r].pending
    BY <1>0, <1>2, <1>5, <1>6, <1>13 DEF RunInv, PhaseInv, Ended
  <1> QED
    BY <1>5, <1>7, <1>8, <1>10, <1>11, <1>12, <1>13 DEF RunState

(* run() asks every check it has collected, or is over at once.            *)
LEMMA OpenedStep ==
  ASSUME CacheInv, RunsInv, RunsInv', RegistryTypeOK, Told, Told', NEW r \in Runs,
         NEW timeout \in RunTimeouts, NEW with_groups \in RunGroups, NEW skip \in BOOLEAN,
         StartRun(r, timeout, with_groups, skip)
  PROVE  \E n \in 0..MaxTasks : Promise!Open(r, n, timeout)
  <1>1. PICK entries \in Seq(Entry) : entries = Collect(with_groups, skip)
    BY CollectType, ProbirkaAssumption
  <1>2. PICK n \in 0..MaxTasks : n = Len(entries) /\ DOMAIN entries = 1..n
    <2>1. Len(entries) <= MaxTasks
      BY <1>1 DEF StartRun
    <2>2. Len(entries) \in Nat /\ DOMAIN entries = 1..Len(entries)
      BY LenProperties
    <2>3. MaxTasks \in Nat
      BY ProbirkaAssumption
    <2>4. Len(entries) \in 0..MaxTasks
      BY <2>1, <2>2, <2>3
    <2> QED
      BY <2>2, <2>4
  <1>3. health[r].st = "idle"
    <2>1. run[r].st = "idle"
      BY DEF StartRun
    <2>2. PICK A : A = Answers(r)
      OBVIOUS
    <2>3. health[r] = View(run[r], A)
      BY <2>2 DEF Told
    <2> QED
      BY <2>1, <2>3, ViewIdle DEF Promise!NoHealth, Promise!Health
  <1>4. PICK A : A = Answers(r)'
    OBVIOUS
  <1>5. health'[r] = View(run'[r], A) /\ run'[r].entries \in Seq(Entry)
    <2>1. health'[r] = View(run'[r], A)
      BY <1>4 DEF Told
    <2>2. run'[r].entries \in Seq(Entry)
      BY DEF RunsInv, Run, Entry
    <2> QED
      BY <2>1, <2>2
  <1>6. CASE entries = <<>>
    <2>1. PICK R : R = NewRun("returned", timeout, entries)
      OBVIOUS
    <2>2. run' = [run EXCEPT ![r] = R] /\ UNCHANGED probeVars
      BY <1>1, <1>6, <2>1 DEF StartRun
    <2>3. run'[r] = R /\ UNCHANGED <<now, call>>
      BY <2>2 DEF RunsInv, probeVars
    <2>4. /\ R.st = "returned" /\ R.entries = <<>> /\ R.checks = <<>>
          /\ R.ok = TRUE /\ R.timed_out = FALSE
      BY <1>6, <2>1 DEF NewRun
    <2>5. PICK V : V = Promise!Report(<<>>, <<>>)
      OBVIOUS
    <2>6. Verdict(R) = V
      <3>1. \A f : [i \in DOMAIN <<>> |-> f] = <<>>
        BY EmptyIsShort
      <3>2. V = [passed |-> [i \in DOMAIN <<>> |-> FALSE], allowed |-> <<>>,
                 ok |-> TRUE, timed_out |-> FALSE]
        BY <2>5, EmptyIsShort DEF Promise!Report
      <3>3. Verdict(R) = [passed |-> [i \in DOMAIN <<>> |-> FALSE], allowed |-> <<>>,
                          ok |-> TRUE, timed_out |-> FALSE]
        BY <2>4, <3>1, EmptyIsShort DEF Verdict
      <3> QED
        BY <3>2, <3>3
    <2>7. View(R, A) = [Promise!NoHealth EXCEPT !.st = "reported", !.report = V]
      <3>1. ~Listening(R)
        BY <2>4 DEF Listening
      <3>2. HealthStatus(R.st) = "reported"
        BY <2>4 DEF HealthStatus
      <3>3. PICK N : N = [Promise!NoHealth EXCEPT !.st = "reported"]
        OBVIOUS
      <3>4. N = Story("reported", None, None, <<>>, None)
        BY <3>3 DEF Story, Promise!NoHealth, Promise!Health
      <3>5. [N EXCEPT !.report = V] = Story("reported", None, None, <<>>, V)
        BY <3>4 DEF Story
      <3>6. [Promise!NoHealth EXCEPT !.st = "reported", !.report = V] = [N EXCEPT !.report = V]
        BY ONLY <3>3
      <3>7. View(R, A) = Story("reported", None, None, <<>>, V)
        BY <2>4, <2>6, <3>1, <3>2 DEF View, Since, Limit
      <3> QED
        BY <3>5, <3>6, <3>7
    <2>8. \A q \in Runs : q # r => health'[q] = health[q]
      BY <2>2, <2>3, OthersSilent
    <2>9. n = 0
      BY <1>2, <1>6
    <2>10. health' = [health EXCEPT ![r] =
                        [Promise!NoHealth EXCEPT !.st = "reported", !.report = V]]
      BY <1>5, <2>3, <2>7, <2>8, OneRunTells
    <2> QED
      BY <1>3, <2>3, <2>5, <2>9, <2>10 DEF Promise!Open
  <1>7. CASE entries # <<>>
    <2>1. PICK t : t = IF timeout = 0 THEN None ELSE timeout
      OBVIOUS
    <2>2. PICK R : R = NewRun("waiting", t, entries)
      OBVIOUS
    <2> DEFINE S == {<<r, i>> : i \in DOMAIN entries}
               of == [c \in S |-> entries[c[2]].probe]
    <2>3. run' = [run EXCEPT ![r] = R] /\ Create(of)
      BY <1>1, <1>7, <2>1, <2>2 DEF StartRun
    <2>4. /\ R.st = "waiting" /\ R.entries = entries /\ R.start = now /\ R.timeout = t
          /\ R.pending = {}
      BY <2>2 DEF NewRun
    <2>5. /\ run'[r] = R /\ now' = now
          /\ call' = [c \in Calls |-> IF c \in S THEN ReadyCall(of[c]) ELSE call[c]]
      BY <2>3 DEF RunsInv, Create
    <2>6. A = [i \in 1..n |-> "awaited"]
      <3>1. ASSUME NEW i \in DOMAIN entries
            PROVE  AnswerOf(R.pending, i, call'[<<r, i>>]) = "awaited"
        <4>1. <<r, i>> \in Calls /\ <<r, i>> \in S
          <5>1. MaxTasks \in Nat
            BY ProbirkaAssumption
          <5>2. i \in 1..MaxTasks
            BY <1>2, <5>1
          <5> QED
            BY <5>2, TaskIsCall
        <4>2. call'[<<r, i>>].st = "ready"
          BY <2>5, <4>1 DEF ReadyCall, NewCall
        <4> QED
          BY <2>4, <4>2, AnswerCases
      <3>2. A = [i \in DOMAIN entries |-> AnswerOf(R.pending, i, call'[<<r, i>>])]
        <4>1. A = [i \in DOMAIN run'[r].entries |->
                     AnswerOf(run'[r].pending, i, call'[<<r, i>>])]
          BY <1>4, AnswersAreNext
        <4>2. DOMAIN run'[r].entries = DOMAIN entries /\ run'[r].pending = R.pending
          <5> HIDE DEF S, of
          <5> QED
            BY <2>4, <2>5
        <4> QED
          BY ONLY <4>1, <4>2, Zenon
      <3> HIDE DEF S, of
      <3> QED
        BY <1>2, <3>1, <3>2
    <2>7. View(R, A) = Promise!Health("open", now, t, Promise!Awaited(n))
      <3>1. Listening(R)
        BY <1>7, <2>4 DEF Listening
      <3>2. HealthStatus(R.st) = "open" /\ R.st # "returned"
        BY <2>4 DEF HealthStatus
      <3> QED
        BY <2>4, <2>6, <3>1, <3>2
           DEF View, Since, Limit, Story, Promise!Health, Promise!Awaited
    <2>8. \A q \in Runs : q # r => health'[q] = health[q]
      <3>1. ASSUME NEW q \in Runs, NEW i \in 1..MaxTasks, q # r
            PROVE  call'[<<q, i>>] = call[<<q, i>>]
        <4>1. <<q, i>> \in Calls /\ <<q, i>> \notin S
          BY <3>1, TaskIsCall
        <4> HIDE DEF S, of
        <4> QED
          BY <2>5, <4>1
      <3> HIDE DEF S, of
      <3> QED
        BY <2>3, <3>1, OthersSilent
    <2>9. n # 0
      BY <1>2, <1>7, EmptySeq
    <2>10. health' = [health EXCEPT ![r] =
                        Promise!Health("open", now, t, Promise!Awaited(n))]
      BY <1>5, <2>5, <2>7, <2>8, OneRunTells
    <2> HIDE DEF S, of
    <2> QED
      BY <1>3, <2>1, <2>5, <2>9, <2>10 DEF Promise!Open
  <1> QED
    BY <1>6, <1>7

(* What run r has heard, while it is under way.                            *)
LEMMA HeardSoFar ==
  ASSUME RunsInv, Told, NEW r \in Runs, run[r].st \in {"waiting", "gathering"}
  PROVE  \E A, S, L :
            /\ S = Since(run[r]) /\ L = Limit(run[r])
            /\ run[r].st = "waiting" => health[r] = Story("open", S, L, A, None)
            /\ run[r].st = "gathering" => health[r] = Story("over", S, L, A, None)
            /\ DOMAIN A = DOMAIN run[r].entries
            /\ A = [i \in DOMAIN run[r].entries |-> A[i]]
            /\ \A i \in DOMAIN run[r].entries :
                  A[i] = AnswerOf(run[r].pending, i, call[<<r, i>>])
  <1>1. PICK st \in {"open", "over"} :
           /\ st = "open" <=> run[r].st = "waiting"
           /\ health[r] = Story(st, Since(run[r]), Limit(run[r]), Answers(r), None)
    BY ToldUnderWay
  <1>2. /\ DOMAIN Answers(r) = DOMAIN run[r].entries
        /\ Answers(r) = [i \in DOMAIN run[r].entries |-> Answers(r)[i]]
        /\ \A i \in DOMAIN run[r].entries :
              Answers(r)[i] = AnswerOf(run[r].pending, i, call[<<r, i>>])
    BY AnswersShape, AnswersAre, Zenon
  <1> QED
    BY <1>1, <1>2

(* The result is assembled when every task has ended: it says of each      *)
(* check what was heard of it.                                             *)
LEMMA ConcludedStep ==
  ASSUME CacheInv, RunsInv, RunsInv', Told, Told', NEW r \in Runs,
         run[r].st \in {"waiting", "gathering"},
         \A i \in DOMAIN run[r].entries : Ended(<<r, i>>),
         Complete(r, run[r].pending), UNCHANGED probeVars
  PROVE  \/ Promise!Fail(r)
         \/ \E allowed \in [DOMAIN health[r].answers -> BOOLEAN] : Promise!Conclude(r, allowed)
  <1>1. PICK A, S, L :
           /\ S = Since(run[r]) /\ L = Limit(run[r])
           /\ run[r].st = "waiting" => health[r] = Story("open", S, L, A, None)
           /\ run[r].st = "gathering" => health[r] = Story("over", S, L, A, None)
           /\ DOMAIN A = DOMAIN run[r].entries
           /\ A = [i \in DOMAIN run[r].entries |-> A[i]]
           /\ \A i \in DOMAIN run[r].entries :
                 A[i] = AnswerOf(run[r].pending, i, call[<<r, i>>])
    BY HeardSoFar
  <1>2. /\ run[r] \in Run /\ UNCHANGED <<now, call>> /\ run'[r] \in Run
        /\ run[r].entries \in Seq(Entry) /\ run[r].pending \subseteq DOMAIN run[r].entries
    BY RunFields DEF RunsInv, RunInv, PhaseInv, probeVars
  <1>3. PICK st \in {"open", "over"} : health[r] = Story(st, S, L, A, None)
    BY <1>1
  <1>4. health[r].st \in {"open", "over"} /\ health[r].answers = A
    BY <1>3 DEF Story
  <1>5. ASSUME NEW i \in DOMAIN A
        PROVE  /\ A[i] # "awaited"
               /\ A[i] = "cut" <=> i \in run[r].pending
               /\ A[i] = "lost" <=> i \notin run[r].pending /\ call[<<r, i>>].st = "cancelled"
               /\ A[i] = "passed" <=> /\ i \notin run[r].pending
                                      /\ call[<<r, i>>].st = "returned"
                                      /\ call[<<r, i>>].result.ok
    <2>1. call[<<r, i>>].st \in {"returned", "cancelled"}
      BY <1>1 DEF Ended
    <2>2. A[i] = AnswerOf(run[r].pending, i, call[<<r, i>>])
      BY <1>1
    <2> QED
      BY <2>1, <2>2, AnswerCases
  <1>6. ASSUME NEW R, run' = [run EXCEPT ![r] = R], R.start = run[r].start,
               R.timeout = run[r].timeout, R.entries = run[r].entries,
               R.pending = run[r].pending, R.st \in {"returned", "raised"}
        PROVE  /\ run'[r] = R
               /\ \A q \in Runs : q # r => health'[q] = health[q]
               /\ R.st = "returned" => health'[r] = Story("reported", S, L, A, Verdict(R))
               /\ R.st = "raised" => health'[r] = Story("failed", S, L, A, None)
    <2>1. run'[r] = R
      BY <1>6 DEF RunsInv
    <2>2. \A q \in Runs : q # r => health'[q] = health[q]
      BY <1>2, <1>6, OthersSilent
    <2>3. Answers(r)' = A
      <3>1. Answers(r)' = [i \in DOMAIN run[r].entries |->
                             AnswerOf(run[r].pending, i, call[<<r, i>>])]
        BY <1>2, <1>6, <2>1, AnswersAreNext
      <3> QED
        BY <1>1, <3>1
    <2>4. health'[r] = View(R, A)
      BY <2>1, <2>3 DEF Told
    <2>5. Since(R) = S /\ Limit(R) = L
      BY <1>1, <1>6 DEF Since, Limit, Listening
    <2> QED
      BY <1>1, <1>2, <1>6, <2>1, <2>2, <2>4, <2>5, ViewUnderWay
  <1>7. CASE \E i \in DOMAIN run[r].entries \ run[r].pending : call[<<r, i>>].st = "cancelled"
    <2> DEFINE R == [run[r] EXCEPT !.st = "raised"]
    <2>1. run' = [run EXCEPT ![r] = R]
      BY <1>7 DEF Complete
    <2>2. /\ R.st = "raised" /\ R.timeout = run[r].timeout /\ R.start = run[r].start
          /\ R.entries = run[r].entries /\ R.pending = run[r].pending
      BY <1>2 DEF Run
    <2> HIDE DEF R
    <2>3. /\ health'[r] = Story("failed", S, L, A, None)
          /\ \A q \in Runs : q # r => health'[q] = health[q]
      BY <1>6, <2>1, <2>2
    <2>4. Story("failed", S, L, A, None) = [health[r] EXCEPT !.st = "failed"]
      BY <1>3 DEF Story
    <2>5. health' = [health EXCEPT ![r] = [health[r] EXCEPT !.st = "failed"]]
      BY <2>3, <2>4, OneRunTells
    <2>6. health' = [health EXCEPT ![r].st = "failed"]
      BY ONLY <2>5
    <2>7. PICK i \in DOMAIN A : A[i] = "lost"
      BY <1>1, <1>5, <1>7
    <2>8. "lost" \in Promise!Given(r) /\ "awaited" \notin Promise!Given(r)
      BY <1>4, <1>5, <2>7 DEF Promise!Given
    <2> QED
      BY <1>2, <1>4, <2>6, <2>8 DEF Promise!Fail
  <1>8. CASE ~ \E i \in DOMAIN run[r].entries \ run[r].pending : call[<<r, i>>].st = "cancelled"
    <2>1. PICK checks, ok, timed_out :
             run' = [run EXCEPT ![r].st = "returned", ![r].checks = checks,
                                ![r].ok = ok, ![r].timed_out = timed_out]
      BY <1>8, Zenon DEF Complete
    <2> DEFINE R == [run[r] EXCEPT !.st = "returned", !.checks = checks,
                                   !.ok = ok, !.timed_out = timed_out]
    <2>2. run' = [run EXCEPT ![r] = R]
      BY ONLY <2>1
    <2>3. /\ R.st = "returned" /\ R.timeout = run[r].timeout /\ R.start = run[r].start
          /\ R.entries = run[r].entries /\ R.pending = run[r].pending
      BY <1>2 DEF Run
    <2> HIDE DEF R
    <2>4. /\ run'[r] = R /\ health'[r] = Story("reported", S, L, A, Verdict(R))
          /\ \A q \in Runs : q # r => health'[q] = health[q]
      BY <1>6, <2>2, <2>3
    <2>5. /\ DOMAIN R.checks = DOMAIN A
          /\ R.ok \in BOOLEAN /\ R.timed_out \in BOOLEAN
          /\ \A i \in DOMAIN A : R.checks[i] \in Check
      <3>1. DOMAIN R.checks = DOMAIN A
        BY <1>1, <2>3, <2>4 DEF RunsInv, RunInv, ReturnedInv
      <3>2. R.checks \in Seq(Check) /\ R.ok \in BOOLEAN /\ R.timed_out \in BOOLEAN
        BY <1>2, <2>4 DEF Run
      <3> QED
        BY <3>1, <3>2, LenProperties, ElementOfSeq
    <2>6. PICK allowed : allowed = [i \in DOMAIN R.checks |-> R.checks[i].allow_failure]
      OBVIOUS
    <2>7. allowed \in [DOMAIN A -> BOOLEAN]
      BY <2>5, <2>6 DEF Check
    <2>8. ASSUME NEW i \in DOMAIN A PROVE R.checks[i].ok = (A[i] = "passed")
      <3>1. R.checks[i].ok \in BOOLEAN
        BY <2>5 DEF Check
      <3>2. CheckInv(r, i)'
        BY <2>3, <2>4, <2>5 DEF RunsInv, RunInv, ReturnedInv
      <3>3. CASE i \in run[r].pending
        BY <1>5, <2>3, <2>4, <3>1, <3>2, <3>3 DEF CheckInv
      <3>4. CASE i \notin run[r].pending
        <4>1. /\ call[<<r, i>>].st = "returned"
              /\ \E a : R.checks[i] = [call[<<r, i>>].result EXCEPT !.allow_failure = a]
          BY <1>2, <2>3, <2>4, <3>2, <3>4 DEF CheckInv
        <4>2. PICK result \in Result : result = call[<<r, i>>].result
          <5>1. <<r, i>> \in Calls
            BY <1>1, RunFields, TaskIsCall
          <5> QED
            BY <4>1, <5>1 DEF CacheInv, CallInv
        <4>3. R.checks[i].ok = result.ok
          BY <4>1, <4>2 DEF Result
        <4>4. A[i] = "passed" <=> result.ok
          BY <1>5, <3>4, <4>1, <4>2
        <4> QED
          BY <3>1, <4>3, <4>4, Zenon
      <3> QED
        BY <3>3, <3>4
    <2>9. Verdict(R) = Promise!Report(A, allowed)
      <3>1. [i \in DOMAIN R.checks |-> R.checks[i].ok] = [i \in DOMAIN A |-> A[i] = "passed"]
        BY <2>5, <2>8, Zenon
      <3>2. R.ok = \A i \in DOMAIN A : [j \in DOMAIN A |-> A[j] = "passed"][i] \/ allowed[i]
        <4>1. R.ok <=> \A i \in DOMAIN A : R.checks[i].ok \/ R.checks[i].allow_failure
          BY <2>3, <2>4, <2>5 DEF RunsInv, RunInv, ReturnedInv
        <4>2. \A i \in DOMAIN A : allowed[i] = R.checks[i].allow_failure
          BY <2>5, <2>6
        <4>3. \A i \in DOMAIN A :
                 [j \in DOMAIN A |-> A[j] = "passed"][i] = R.checks[i].ok
          BY <2>8, Zenon
        <4>4. R.ok <=> \A i \in DOMAIN A :
                          [j \in DOMAIN A |-> A[j] = "passed"][i] \/ allowed[i]
          BY <4>1, <4>2, <4>3, Zenon
        <4> QED
          BY <2>5, <4>4, Zenon
      <3>3. R.timed_out = \E i \in DOMAIN A : A[i] = "cut"
        <4>1. R.timed_out <=> run[r].pending # {}
          BY <2>3, <2>4 DEF RunsInv, RunInv, ReturnedInv
        <4>2. run[r].pending # {} <=> \E i \in DOMAIN A : A[i] = "cut"
          BY <1>1, <1>2, <1>5
        <4> QED
          BY <2>5, <4>1, <4>2, Zenon
      <3> QED
        BY <2>6, <3>1, <3>2, <3>3, Zenon DEF Verdict, Promise!Report
    <2>10. PICK V : V = Verdict(R)
      OBVIOUS
    <2>11. Story("reported", S, L, A, V) = [health[r] EXCEPT !.st = "reported", !.report = V]
      <3>1. PICK h : h = [health[r] EXCEPT !.st = "reported"]
        OBVIOUS
      <3>2. h = Story("reported", S, L, A, None)
        BY <1>3, <3>1 DEF Story
      <3>3. [h EXCEPT !.report = V] = Story("reported", S, L, A, V)
        BY <3>2 DEF Story
      <3>4. [health[r] EXCEPT !.st = "reported", !.report = V] = [h EXCEPT !.report = V]
        BY ONLY <3>1
      <3> QED
        BY <3>3, <3>4
    <2>12. health' = [health EXCEPT ![r] = [health[r] EXCEPT !.st = "reported", !.report = V]]
      BY <2>4, <2>10, <2>11, OneRunTells
    <2>13. health' = [health EXCEPT ![r].st = "reported", ![r].report = V]
      BY ONLY <2>12
    <2>14. Promise!Given(r) \cap {"awaited", "lost"} = {}
      <3>1. \A i \in DOMAIN A : A[i] # "awaited" /\ A[i] # "lost"
        BY <1>1, <1>5, <1>8
      <3>2. Promise!Given(r) = {A[i] : i \in DOMAIN A}
        BY <1>4, Zenon DEF Promise!Given
      <3> QED
        BY <3>1, <3>2
    <2>15. Promise!Conclude(r, allowed)
      BY <1>2, <1>4, <2>9, <2>10, <2>13, <2>14 DEF Promise!Conclude
    <2> QED
      BY <1>4, <2>7, <2>15
  <1> QED
    BY <1>7, <1>8

(* wait() has timed out: what is unfinished is cut off for good.           *)
LEMMA DeadlineStep ==
  ASSUME CacheInv, RunsInv, Told, Told', NEW r \in Runs, WaitTimedOut(r)
  PROVE  Promise!Deadline(r)
  <1> DEFINE P == {i \in DOMAIN run[r].entries : ~Ended(<<r, i>>)}
             R == [run[r] EXCEPT !.st = "gathering", !.pending = P]
  <1>1. /\ run[r].st = "waiting" /\ Cancel({<<r, i>> : i \in P})
        /\ run' = [run EXCEPT ![r] = R]
        /\ P # {}
        /\ AllEnded(Tasks(r)) \/ TimeOver(r)
    BY DEF WaitTimedOut, Awake, TimeOver
  <1>2. TimeOver(r)
    BY <1>1 DEF AllEnded, Tasks
  <1>3. /\ run[r] \in Run /\ RunInv(r) /\ P \in SUBSET (1..MaxTasks)
        /\ P \subseteq DOMAIN run[r].entries
        /\ run[r].entries \in Seq(Entry) /\ run[r].pending = {}
    BY <1>1, RunFields DEF RunsInv, RunInv, PhaseInv
  <1>4. /\ now' = now
        /\ \A q \in Runs, i \in 1..MaxTasks :
              q # r \/ i \notin P => call'[<<q, i>>] = call[<<q, i>>]
    <2> HIDE DEF P, R
    <2>1. /\ UNCHANGED <<now, cfg>>
          /\ \A q \in Runs, i \in 1..MaxTasks :
                call'[<<q, i>>] = IF q = r /\ i \in P THEN CancelledCall(<<q, i>>)
                                                      ELSE call[<<q, i>>]
      BY <1>1, <1>3, CancelFacts
    <2> QED
      BY <2>1
  <1>5. /\ R.st = "gathering" /\ R.pending = P /\ R.timeout = run[r].timeout
        /\ R.start = run[r].start /\ R.entries = run[r].entries
    <2> HIDE DEF P
    <2> QED
      BY <1>3 DEF Run
  <1>6. \A i \in DOMAIN run[r].entries : i \in P <=> ~Ended(<<r, i>>)
    OBVIOUS
  <1> HIDE DEF R, P
  <1>7. PICK A, S, L :
           /\ S = Since(run[r]) /\ L = Limit(run[r])
           /\ run[r].st = "waiting" => health[r] = Story("open", S, L, A, None)
           /\ run[r].st = "gathering" => health[r] = Story("over", S, L, A, None)
           /\ DOMAIN A = DOMAIN run[r].entries
           /\ A = [i \in DOMAIN run[r].entries |-> A[i]]
           /\ \A i \in DOMAIN run[r].entries :
                 A[i] = AnswerOf(run[r].pending, i, call[<<r, i>>])
    BY <1>1, HeardSoFar
  <1>8. run'[r] = R
    BY <1>1 DEF RunsInv
  <1>9. PICK B : B = Answers(r)'
    OBVIOUS
  <1>10. /\ DOMAIN B = DOMAIN A /\ B = [i \in DOMAIN A |-> B[i]]
         /\ \A i \in DOMAIN A : B[i] = AnswerOf(P, i, call'[<<r, i>>])
    BY <1>5, <1>7, <1>8, <1>9, AnswersAreNext
  <1>11. ASSUME NEW i \in DOMAIN A
         PROVE  /\ A[i] = "awaited" <=> i \in P
                /\ B[i] = IF A[i] = "awaited" THEN "cut" ELSE A[i]
    <2>1. A[i] = AnswerOf({}, i, call[<<r, i>>]) /\ B[i] = AnswerOf(P, i, call'[<<r, i>>])
      BY <1>3, <1>7, <1>10
    <2>2. i \in P <=> call[<<r, i>>].st \notin {"returned", "cancelled"}
      BY <1>6, <1>7 DEF Ended
    <2>3. A[i] = "awaited" <=> i \in P
      BY <2>1, <2>2, AnswerCases
    <2>4. CASE i \in P
      BY <2>1, <2>3, <2>4, AnswerCases
    <2>5. CASE i \notin P
      <3>1. call'[<<r, i>>] = call[<<r, i>>]
        BY <1>4, <1>7, <2>5, RunFields
      <3>2. AnswerOf(P, i, call[<<r, i>>]) = AnswerOf({}, i, call[<<r, i>>])
        BY <2>5, Zenon DEF AnswerOf
      <3> QED
        BY <2>1, <2>3, <2>5, <3>1, <3>2
    <2> QED
      BY <2>3, <2>4, <2>5
  <1>12. B = [i \in DOMAIN A |-> IF A[i] = "awaited" THEN "cut" ELSE A[i]]
    BY <1>10, <1>11
  <1>13. health[r] = Story("open", S, L, A, None)
    BY <1>1, <1>7
  <1>14. health'[r] = Story("over", S, L, B, None)
    <2>1. View(R, B) = Story("over", Since(R), Limit(R), B, None)
      BY <1>3, <1>5, <1>7, <1>10, ViewUnderWay
    <2>2. Since(R) = S /\ Limit(R) = L
      BY <1>1, <1>5, <1>7 DEF Since, Limit, Listening
    <2> QED
      BY <1>8, <1>9, <2>1, <2>2 DEF Told
  <1>15. \A q \in Runs : q # r => health'[q] = health[q]
    BY <1>1, <1>4, OthersSilent
  <1>16. Story("over", S, L, B, None) = [health[r] EXCEPT !.st = "over", !.answers = B]
    <2>1. PICK h : h = [health[r] EXCEPT !.st = "over"]
      OBVIOUS
    <2>2. h = Story("over", S, L, A, None)
      BY <1>13, <2>1 DEF Story
    <2>3. [h EXCEPT !.answers = B] = Story("over", S, L, B, None)
      BY <2>2 DEF Story
    <2>4. [health[r] EXCEPT !.st = "over", !.answers = B] = [h EXCEPT !.answers = B]
      BY ONLY <2>1
    <2> QED
      BY <2>3, <2>4
  <1>17. health' = [health EXCEPT ![r] = [health[r] EXCEPT !.st = "over", !.answers = B]]
    BY <1>14, <1>15, <1>16, OneRunTells
  <1>18. health' = [health EXCEPT ![r].st = "over", ![r].answers = B]
    BY ONLY <1>17
  <1>19. /\ health[r].st = "open" /\ health[r].answers = A
         /\ health[r].since = S /\ health[r].limit = L
    BY <1>13 DEF Story
  <1>20. "awaited" \in Promise!Given(r)
    BY <1>1, <1>3, <1>7, <1>11, <1>19 DEF Promise!Given
  <1>21. L # None /\ now >= S + L
    <2>1. Listening(run[r])
      <3>1. run[r].entries # <<>>
        BY <1>1, <1>3, EmptyIsShort
      <3> QED
        BY <1>1, <3>1 DEF Listening
    <2> QED
      BY <1>2, <1>7, <2>1 DEF Since, Limit, TimeOver
  <1>22. health' = [health EXCEPT
            ![r].st = "over",
            ![r].answers = [i \in DOMAIN health[r].answers |->
                              IF health[r].answers[i] = "awaited" THEN "cut"
                              ELSE health[r].answers[i]]]
    BY <1>12, <1>18, <1>19
  <1> QED
    BY <1>4, <1>19, <1>20, <1>21, <1>22 DEF Promise!Deadline

(* gather() is cancelled: the run tells nothing of it yet.                 *)
LEMMA CancelGatheringStep ==
  ASSUME CacheInv, RunsInv, Told, Told', NEW r \in Runs, CancelGathering(r)
  PROVE  UNCHANGED <<now, health>>
  <1> DEFINE R == [run[r] EXCEPT !.cancelled = TRUE]
             P == run[r].pending
  <1>1. /\ run[r].st = "gathering" /\ run' = [run EXCEPT ![r] = R]
        /\ Cancel({<<r, i>> : i \in P})
    BY DEF CancelGathering
  <1>2. run[r] \in Run /\ P \in SUBSET (1..MaxTasks) /\ run[r].entries \in Seq(Entry)
    BY RunFields DEF RunsInv
  <1>3. /\ now' = now
        /\ \A q \in Runs, i \in 1..MaxTasks :
              q # r \/ i \notin P => call'[<<q, i>>] = call[<<q, i>>]
    <2> HIDE DEF P
    <2> QED
      BY <1>1, <1>2, CancelFacts
  <1>4. /\ R.st = "gathering" /\ R.pending = P /\ R.timeout = run[r].timeout
        /\ R.start = run[r].start /\ R.entries = run[r].entries
    BY <1>1, <1>2 DEF Run
  <1> HIDE DEF R
  <1>5. run'[r] = R
    BY <1>1 DEF RunsInv
  <1>6. PICK A, S, L :
           /\ S = Since(run[r]) /\ L = Limit(run[r])
           /\ run[r].st = "waiting" => health[r] = Story("open", S, L, A, None)
           /\ run[r].st = "gathering" => health[r] = Story("over", S, L, A, None)
           /\ DOMAIN A = DOMAIN run[r].entries
           /\ A = [i \in DOMAIN run[r].entries |-> A[i]]
           /\ \A i \in DOMAIN run[r].entries :
                 A[i] = AnswerOf(run[r].pending, i, call[<<r, i>>])
    BY <1>1, HeardSoFar
  <1>7. Answers(r)' = A
    <2>1. Answers(r)' = [i \in DOMAIN run[r].entries |-> AnswerOf(P, i, call'[<<r, i>>])]
      BY <1>4, <1>5, AnswersAreNext
    <2>2. ASSUME NEW i \in DOMAIN run[r].entries
          PROVE  AnswerOf(P, i, call'[<<r, i>>]) = A[i]
      <3>1. CASE i \in P
        BY <1>6, <3>1, AnswerCases
      <3>2. CASE i \notin P
        BY <1>3, <1>6, <3>2, RunFields
      <3> QED
        BY <3>1, <3>2
    <2> HIDE DEF P
    <2> QED
      BY <1>6, <2>1, <2>2
  <1>8. health'[r] = health[r]
    <2>1. View(R, A) = Story("over", Since(R), Limit(R), A, None)
      BY <1>2, <1>4, <1>6, ViewUnderWay
    <2>2. Since(R) = S /\ Limit(R) = L
      BY <1>1, <1>4, <1>6 DEF Since, Limit, Listening
    <2> QED
      BY <1>1, <1>5, <1>6, <1>7, <2>1, <2>2 DEF Told
  <1>9. \A q \in Runs : q # r => health'[q] = health[q]
    BY <1>1, <1>3, OthersSilent
  <1>10. \A q \in Runs : health'[q] = health[q]
    BY <1>8, <1>9
  <1> QED
    BY <1>3, <1>10, SilentStep

(* Every step of the runs is one that HealthCheck allows.                  *)
LEMMA HealthStep ==
  /\ CacheInv /\ RunsInv /\ RunsInv' /\ RegistryTypeOK /\ Told /\ Told'
  /\ [ProbirkaNext]_allVars
  => [Promise!HealthNext]_(Promise!healthVars)
  <1> SUFFICES ASSUME CacheInv, RunsInv, RunsInv', RegistryTypeOK, Told, Told',
                      [ProbirkaNext]_allVars
               PROVE  Promise!HealthNext \/ UNCHANGED <<now, health>>
    BY DEF Promise!healthVars
  <1>1. ASSUME run' = run, call' = call PROVE health' = health
    <2>1. ASSUME NEW q \in Runs PROVE health'[q] = health[q]
      BY <1>1, SilentTasks, SilentRun
    <2> QED
      BY <2>1, SilentStep
  <1>2. ASSUME NEW p \in Probes, NEW conf \in Configs, MakeProbe(p, conf)
        PROVE  UNCHANGED <<now, health>>
    BY <1>1, <1>2 DEF MakeProbe, Construct
  <1>3. ASSUME NEW ps \in ProbeLists, NEW names \in GroupLists, NEW flag \in Flags,
               Register(ps, names, flag)
        PROVE  UNCHANGED <<now, health>>
    BY <1>1, <1>3 DEF Register, probeVars
  <1>4. ASSUME NEW p \in Probes, NEW conf \in Configs, NEW names \in GroupLists,
               Add(p, conf, names)
        PROVE  UNCHANGED <<now, health>>
    BY <1>1, <1>4 DEF Add, Construct
  <1>5. ASSUME NEW r \in Runs, NEW timeout \in RunTimeouts, NEW with_groups \in RunGroups,
               NEW skip \in BOOLEAN, StartRun(r, timeout, with_groups, skip)
        PROVE  Promise!HealthNext
    BY <1>5, OpenedStep DEF Promise!HealthNext
  <1>6. ASSUME NEW r \in Runs, run[r].st \in {"waiting", "gathering"},
               \A i \in DOMAIN run[r].entries : Ended(<<r, i>>),
               Complete(r, run[r].pending), UNCHANGED probeVars
        PROVE  Promise!HealthNext
    BY <1>6, ConcludedStep DEF Promise!HealthNext
  <1>7. ASSUME NEW r \in Runs, run[r].st \in {"waiting", "gathering"},
               run' = [run EXCEPT ![r].st = "cancelled"], UNCHANGED probeVars
        PROVE  Promise!HealthNext
    BY <1>7, ForsakenStep DEF Promise!HealthNext
  <1>8. ASSUME NEW r \in Runs, WaitDone(r) PROVE Promise!HealthNext
    <2>1. run[r].st = "waiting" /\ Complete(r, {}) /\ UNCHANGED probeVars
      BY <1>8 DEF WaitDone, Awake
    <2>2. run[r].pending = {}
      BY <2>1 DEF RunsInv, RunInv, PhaseInv
    <2>3. \A i \in DOMAIN run[r].entries : Ended(<<r, i>>)
      BY <1>8 DEF WaitDone, AllEnded, Tasks
    <2> QED
      BY <1>6, <2>1, <2>2, <2>3
  <1>9. ASSUME NEW r \in Runs, WaitTimedOut(r) PROVE Promise!HealthNext
    BY <1>9, DeadlineStep DEF Promise!HealthNext
  <1>10. ASSUME NEW r \in Runs, Gathered(r) PROVE Promise!HealthNext
    <2>1. run[r].st = "gathering" /\ UNCHANGED probeVars
      BY <1>10 DEF Gathered
    <2>2. CASE run[r].cancelled
      BY <1>7, <1>10, <2>1, <2>2 DEF Gathered
    <2>3. CASE ~run[r].cancelled
      <3>1. \A i \in run[r].pending : Ended(<<r, i>>)
        BY <1>10 DEF Gathered, AllEnded
      <3>2. \A i \in DOMAIN run[r].entries \ run[r].pending : Ended(<<r, i>>)
        BY <2>1 DEF RunsInv, RunInv, PhaseInv
      <3>3. Complete(r, run[r].pending)
        BY <1>10, <2>3 DEF Gathered
      <3> QED
        BY <1>6, <2>1, <3>1, <3>2, <3>3
    <2> QED
      BY <2>2, <2>3
  <1>11. ASSUME NEW r \in Runs, CancelWaiting(r) PROVE Promise!HealthNext
    BY <1>7, <1>11 DEF CancelWaiting
  <1>12. ASSUME NEW r \in Runs, CancelGathering(r) PROVE UNCHANGED <<now, health>>
    BY <1>12, CancelGatheringStep
  <1>13. ASSUME NEW c \in Calls, CallStep(c), run' = run
         PROVE  Promise!HealthNext \/ UNCHANGED <<now, health>>
    <2>1. PICK r \in Runs, i \in 1..MaxTasks : c = <<r, i>>
      <3>1. c \in Runs \X (1..MaxTasks)
        BY ProbirkaAssumption
      <3> QED
        BY <3>1
    <2>2. CallStep(<<r, i>>)
      BY <1>13, <2>1
    <2>3. \/ i \in DOMAIN health[r].answers
               /\ \E answer \in {"passed", "failed", "lost"} : Promise!Hear(r, i, answer)
          \/ UNCHANGED <<now, health>>
      BY <1>13, <2>2, HeardStep
    <2> QED
      BY <2>3 DEF Promise!HealthNext
  <1>14. ASSUME Tick, run' = run PROVE Promise!HealthNext
    BY <1>1, <1>14 DEF Tick, Promise!HealthNext, Promise!TimePasses
  <1>15. ASSUME UNCHANGED allVars PROVE UNCHANGED <<now, health>>
    BY <1>1, <1>15 DEF allVars, probeVars
  <1> QED
    BY <1>2, <1>3, <1>4, <1>5, <1>8, <1>9, <1>10, <1>11, <1>12, <1>13, <1>14, <1>15
       DEF ProbirkaNext, UseNext, RunStep

(* Nobody has been told anything before the first run.                     *)
LEMMA InitHealth == ProbirkaInit /\ Told => Promise!HealthInit
  <1> SUFFICES ASSUME ProbirkaInit, Told PROVE Promise!HealthInit
    OBVIOUS
  <1>1. ASSUME NEW r \in Runs PROVE health[r] = Promise!NoHealth
    <2>1. run[r].st = "idle"
      BY DEF ProbirkaInit, NewRun
    <2>2. PICK A : A = Answers(r)
      OBVIOUS
    <2>3. health[r] = View(run[r], A)
      BY <2>2 DEF Told
    <2> QED
      BY <2>1, <2>3, ViewIdle
  <1>2. now = 0
    BY DEF ProbirkaInit, Init
  <1>3. health = [r \in Runs |-> health[r]]
    BY DEF Told
  <1>4. PICK h : h = Promise!NoHealth
    OBVIOUS
  <1>5. health = [r \in Runs |-> h]
    BY <1>1, <1>3, <1>4
  <1> QED
    BY <1>2, <1>4, <1>5 DEF Promise!HealthInit

(* Runs implement HealthCheck: whatever tasks, caches and cancellations do *)
(* behind it, a run hears each check at most once, tells what it had heard *)
(* when its time was over or all had spoken, and no other run has a say in *)
(* it.                                                                     *)
THEOREM RunsImplementHealthCheck == ProbirkaSpec => ImplementsHealthCheck
  <1>1. ProbirkaSpec => [](CacheInv /\ RunsInv)
    BY RunsInvariant
  <1>2. ProbirkaSpec => []RegistryTypeOK
    BY RegistryInvariant
  <1> QED
    BY <1>1, <1>2, HealthIsTold, InitHealth, HealthStep, PTL
       DEF ProbirkaSpec, ImplementsHealthCheck, Promise!HealthSpec

-----------------------------------------------------------------------------
(* A function on 1..n as a sequence, and the sequence one element longer.  *)
LEMMA FunctionSeq ==
  ASSUME NEW S, NEW n \in Nat, NEW f \in [1..n -> S]
  PROVE  f \in Seq(S) /\ Len(f) = n
  <1>1. f \in Seq(S)
    BY FunctionIsSeq
  <1>2. DOMAIN f = 1..n /\ DOMAIN f = 1..Len(f) /\ Len(f) \in Nat
    BY <1>1, LenProperties
  <1> QED
    BY <1>1, <1>2

LEMMA IsAppend ==
  ASSUME NEW S, NEW s \in Seq(S), NEW t \in Seq(S), Len(t) = Len(s) + 1,
         \A i \in 1..Len(s) : t[i] = s[i]
  PROVE  t = Append(s, t[Len(s) + 1])
  <1>1. Len(s) \in Nat /\ t[Len(s) + 1] \in S
    BY LenProperties, ElementOfSeq
  <1> DEFINE more == Append(s, t[Len(s) + 1])
  <1>2. /\ more \in Seq(S) /\ Len(more) = Len(s) + 1
        /\ \A i \in 1..Len(s) : more[i] = s[i]
        /\ more[Len(s) + 1] = t[Len(s) + 1]
    BY <1>1, AppendProperties
  <1> HIDE DEF more
  <1>3. ASSUME NEW i \in 1..Len(t) PROVE t[i] = more[i]
    <2>1. i = Len(s) + 1 \/ i \in 1..Len(s)
      BY <1>1
    <2> QED
      BY <1>2, <2>1
  <1>4. t = more
    BY <1>2, <1>3, SeqEqual
  <1> QED
    BY <1>4 DEF more

-----------------------------------------------------------------------------
(* How many elements of a sequence, and of joined sequences, are in a set. *)

CountIn(seq, V) == Cardinality({i \in DOMAIN seq : seq[i] \in V})

LEMMA CountInType ==
  ASSUME NEW S, NEW seq \in Seq(S), NEW V
  PROVE  /\ IsFiniteSet({i \in DOMAIN seq : seq[i] \in V})
         /\ CountIn(seq, V) \in Nat
         /\ CountIn(seq, V) > 0 <=> \E i \in DOMAIN seq : seq[i] \in V
  <1> DEFINE T == {i \in DOMAIN seq : seq[i] \in V}
  <1>1. IsFiniteSet(DOMAIN seq)
    BY LenProperties, FS_Interval
  <1>2. IsFiniteSet(T) /\ Cardinality(T) \in Nat
    <2>1. T \in SUBSET DOMAIN seq
      OBVIOUS
    <2> HIDE DEF T
    <2> QED
      BY <1>1, <2>1, FS_Subset, FS_CardinalityType
  <1>3. Cardinality(T) = 0 <=> T = {}
    <2> HIDE DEF T
    <2> QED
      BY <1>2, FS_EmptySet
  <1>4. T = {} <=> ~ \E i \in DOMAIN seq : seq[i] \in V
    OBVIOUS
  <1>5. CountIn(seq, V) = Cardinality(T)
    BY DEF CountIn
  <1>6. Cardinality(T) > 0 <=> T # {}
    <2> HIDE DEF T
    <2> QED
      BY <1>2, <1>3
  <1> QED
    BY <1>2, <1>4, <1>5, <1>6, Zenon

LEMMA CountInConcat ==
  ASSUME NEW S, NEW s \in Seq(S), NEW t \in Seq(S), NEW V
  PROVE  CountIn(s \o t, V) = CountIn(s, V) + CountIn(t, V)
  <1> DEFINE A == {i \in DOMAIN s : s[i] \in V}
             B == {i \in DOMAIN t : t[i] \in V}
             C == {Len(s) + i : i \in B}
             f == [i \in B |-> Len(s) + i]
  <1>1. /\ Len(s) \in Nat /\ DOMAIN s = 1..Len(s)
        /\ Len(t) \in Nat /\ DOMAIN t = 1..Len(t)
    BY LenProperties
  <1>2. /\ s \o t \in Seq(S) /\ Len(s \o t) = Len(s) + Len(t)
        /\ \A i \in 1..(Len(s) + Len(t)) :
              (s \o t)[i] = IF i <= Len(s) THEN s[i] ELSE t[i - Len(s)]
    BY ConcatProperties
  <1>3. DOMAIN (s \o t) = 1..(Len(s) + Len(t))
    BY <1>2, LenProperties
  <1>4. {i \in DOMAIN (s \o t) : (s \o t)[i] \in V} = A \cup C
    <2>1. ASSUME NEW i \in DOMAIN (s \o t), (s \o t)[i] \in V PROVE i \in A \cup C
      <3>1. CASE i <= Len(s)
        BY <1>1, <1>2, <1>3, <2>1, <3>1
      <3>2. CASE ~(i <= Len(s))
        <4>1. i - Len(s) \in B /\ i = Len(s) + (i - Len(s))
          BY <1>1, <1>2, <1>3, <2>1, <3>2
        <4> QED
          BY <4>1
      <3> QED
        BY <3>1, <3>2
    <2>2. ASSUME NEW i \in A PROVE i \in DOMAIN (s \o t) /\ (s \o t)[i] \in V
      BY <1>1, <1>2, <1>3
    <2>3. ASSUME NEW i \in B
          PROVE  Len(s) + i \in DOMAIN (s \o t) /\ (s \o t)[Len(s) + i] \in V
      BY <1>1, <1>2, <1>3
    <2> HIDE DEF A, B
    <2> QED
      BY <2>1, <2>2, <2>3
  <1>5. A \cap C = {}
    BY <1>1
  <1>6. /\ IsFiniteSet(A) /\ IsFiniteSet(B)
        /\ Cardinality(A) \in Nat /\ Cardinality(B) \in Nat
        /\ CountIn(s, V) = Cardinality(A) /\ CountIn(t, V) = Cardinality(B)
    BY CountInType, Zenon DEF CountIn
  <1>7. ExistsBijection(B, C)
    <2>1. f \in Bijection(B, C)
      <3>1. f \in [B -> C]
        OBVIOUS
      <3>2. \A i, j \in B : f[i] = f[j] => i = j
        BY <1>1
      <3>3. \A c \in C : \E i \in B : f[i] = c
        OBVIOUS
      <3> HIDE DEF f, B, C
      <3> QED
        BY <3>1, <3>2, <3>3 DEF Bijection, Injection, Surjection, IsInjective
    <2> HIDE DEF f, B, C
    <2> QED
      BY <2>1 DEF ExistsBijection
  <1>8. IsFiniteSet(C) /\ Cardinality(C) = Cardinality(B)
    <2> HIDE DEF A, B, C
    <2> QED
      BY <1>6, <1>7, FS_Bijection
  <1>9. Cardinality(A \cup C) = Cardinality(A) + Cardinality(C) - Cardinality(A \cap C)
    <2> HIDE DEF A, B, C
    <2> QED
      BY <1>6, <1>8, FS_Union
  <1>10. Cardinality(A \cap C) = 0
    BY <1>5, FS_EmptySet
  <1>11. CountIn(s \o t, V) = Cardinality(A \cup C)
    BY <1>4 DEF CountIn
  <1> QED
    <2> HIDE DEF A, B, C
    <2> QED
      BY <1>6, <1>8, <1>9, <1>10, <1>11

(* The count of a tuple of one.                                            *)
LEMMA CountInEmpty ==
  ASSUME NEW V
  PROVE  CountIn(<<>>, V) = 0
  <1>1. {i \in DOMAIN <<>> : <<>>[i] \in V} = {}
    OBVIOUS
  <1> QED
    BY <1>1, FS_EmptySet DEF CountIn

-----------------------------------------------------------------------------
(* FlattenSeq and Total are recursive functions over the length of their   *)
(* argument: what one more element adds to them.                           *)

(* One step of a join.                                                     *)
LEMMA JoinStep ==
  \A f, s, n : IsJoin(f, s, n) =>
     \A i \in 1..n : f[i] = IF i = 1 THEN s[i] ELSE f[i-1] \o s[i]
  BY Zenon DEF IsJoin

(* Sequences that agree up to m have the same joins up to m.               *)
LEMMA JoinPrefix ==
  \A s, t, f, g : \A m, n \in Nat :
     m <= n /\ (\A i \in 1..m : s[i] = t[i]) /\ IsJoin(f, s, m) /\ IsJoin(g, t, n)
        => \A i \in 1..m : f[i] = g[i]
  <1> SUFFICES ASSUME NEW s, NEW t, NEW f, NEW g, NEW m \in Nat, NEW n \in Nat, m <= n,
                      \A i \in 1..m : s[i] = t[i], IsJoin(f, s, m), IsJoin(g, t, n)
               PROVE  \A i \in 1..m : f[i] = g[i]
    OBVIOUS
  <1> DEFINE T == {i \in 1..m : f[i] # g[i]}
  <1> SUFFICES ASSUME T # {} PROVE FALSE
    OBVIOUS
  <1>1. PICK k \in T : \A i \in T : k <= i
    <2> T \subseteq Nat
      OBVIOUS
    <2> HIDE DEF T
    <2> QED
      BY LeastNatural
  <1>2. k \in 1..m /\ k \in 1..n /\ f[k] # g[k]
    BY <1>1
  <1>3. /\ f[k] = IF k = 1 THEN s[k] ELSE f[k-1] \o s[k]
        /\ g[k] = IF k = 1 THEN t[k] ELSE g[k-1] \o t[k]
    BY <1>2 DEF IsJoin
  <1>4. k # 1 /\ k-1 \in 1..m /\ ~(k <= k-1)
    BY <1>2, <1>3
  <1>5. k-1 \notin T
    <2> HIDE DEF T
    <2> QED
      BY <1>1, <1>4
  <1> QED
    BY <1>2, <1>3, <1>4, <1>5

LEMMA FlattenAppend ==
  ASSUME NEW S, NEW seqs \in Seq(Seq(S)), NEW last \in Seq(S)
  PROVE  FlattenSeq(Append(seqs, last)) = FlattenSeq(seqs) \o last
  <1> DEFINE more == Append(seqs, last)
             m == Len(more)
             n == m - 1
  <1>1. more \in Seq(Seq(S)) /\ more # <<>> /\ m # 0 /\ Len(seqs) = n /\ more[m] = last
    BY AppendProperties, LenProperties
  <1>2. m \in Nat /\ n \in Nat /\ n <= m /\ \A i \in 1..n : seqs[i] = more[i]
    BY AppendProperties, LenProperties
  <1> HIDE DEF more
  <1>3. PICK g : IsJoin(g, more, m) /\ FlattenSeq(more) = g[m]
    BY <1>1, JoinIs
  <1> HIDE DEF m, n
  <1>4. g[m] = IF m = 1 THEN last ELSE g[m-1] \o last
    <2>1. m \in 1..m
      BY <1>1, <1>2
    <2>2. IsJoin(g, more, m)
      BY <1>3
    <2>3. g[m] = IF m = 1 THEN more[m] ELSE g[m-1] \o more[m]
      BY <2>1, <2>2, JoinStep
    <2> QED
      BY <1>1, <2>3
  <1>5. CASE seqs = <<>>
    <2>1. m = 1 /\ FlattenSeq(seqs) = <<>>
      BY <1>1, <1>2, <1>5, EmptySeq DEF FlattenSeq, n
    <2> QED
      BY <1>3, <1>4, <2>1, ConcatEmptySeq DEF more
  <1>6. CASE seqs # <<>>
    <2>1. n # 0
      BY <1>1, <1>6, EmptySeq
    <2>2. PICK f : IsJoin(f, seqs, n) /\ FlattenSeq(seqs) = f[n]
      BY <1>1, <1>6, JoinIs
    <2>3. \A i \in 1..n : f[i] = g[i]
      BY <1>2, <1>3, <2>2, JoinPrefix
    <2>4. f[n] = g[n]
      BY <1>2, <2>1, <2>3
    <2> QED
      BY <1>2, <1>3, <1>4, <2>1, <2>2, <2>4 DEF more, n
  <1> QED
    BY <1>5, <1>6

(* The same for Total.                                                     *)
IsSum(f, numbers, n) ==
    f = [i \in 0..n |-> IF i = 0 THEN 0 ELSE f[i-1] + numbers[i]]

LEMMA SumExists ==
  ASSUME NEW numbers \in Seq(Nat)
  PROVE  \A n \in 0..Len(numbers) : \E f \in [0..n -> Nat] : IsSum(f, numbers, n)
  <1> DEFINE T == {n \in 0..Len(numbers) : ~ \E f \in [0..n -> Nat] : IsSum(f, numbers, n)}
  <1> SUFFICES ASSUME T # {} PROVE FALSE
    OBVIOUS
  <1>1. PICK m \in T : \A k \in T : m <= k
    <2> T \subseteq Nat
      OBVIOUS
    <2> HIDE DEF T
    <2> QED
      BY LeastNatural
  <1>2. m \in 0..Len(numbers) /\ ~ \E f \in [0..m -> Nat] : IsSum(f, numbers, m)
    BY <1>1
  <1>3. m # 0
    <2> SUFFICES ASSUME m = 0 PROVE FALSE
      OBVIOUS
    <2> DEFINE f == [i \in 0..0 |-> 0]
    <2>1. f \in [0..0 -> Nat] /\ IsSum(f, numbers, 0)
      BY DEF IsSum
    <2> QED
      BY <1>2, <2>1
  <1>4. m-1 \in 0..Len(numbers) /\ m-1 \notin T /\ m \in Nat /\ m > 0
    <2>1. m-1 \in 0..Len(numbers) /\ m \in Nat /\ m > 0 /\ ~(m <= m-1)
      BY <1>2, <1>3, LenProperties
    <2> HIDE DEF T
    <2> QED
      BY <1>1, <2>1
  <1>5. PICK f \in [0..(m-1) -> Nat] : IsSum(f, numbers, m-1)
    BY <1>4
  <1> DEFINE g == [i \in 0..m |-> IF i = m THEN f[m-1] + numbers[m] ELSE f[i]]
  <1>6. numbers[m] \in Nat
    BY <1>2, <1>4, ElementOfSeq
  <1>7. g \in [0..m -> Nat]
    BY <1>4, <1>5, <1>6
  <1>8. IsSum(g, numbers, m)
    <2>1. ASSUME NEW i \in 0..m
          PROVE  g[i] = IF i = 0 THEN 0 ELSE g[i-1] + numbers[i]
      <3>1. CASE i = m
        BY <1>4, <3>1
      <3>2. CASE i # m
        <4>1. i \in 0..(m-1)
          BY <1>4, <3>2
        <4>2. f[i] = IF i = 0 THEN 0 ELSE f[i-1] + numbers[i]
          BY <1>5, <4>1 DEF IsSum
        <4>3. i # 0 => i-1 \in 0..m /\ i-1 # m
          BY <1>4, <4>1
        <4> QED
          BY <3>2, <4>1, <4>2, <4>3
      <3> QED
        BY <3>1, <3>2
    <2> HIDE DEF g
    <2> QED
      BY <1>7, <2>1 DEF IsSum
  <1> QED
    BY <1>2, <1>7, <1>8

LEMMA TotalIs ==
  ASSUME NEW numbers \in Seq(Nat)
  PROVE  \E f \in [0..Len(numbers) -> Nat] :
            IsSum(f, numbers, Len(numbers)) /\ Total(numbers) = f[Len(numbers)]
  <1> DEFINE n == Len(numbers)
             h == CHOOSE f : f = [i \in 0..n |-> IF i = 0 THEN 0 ELSE f[i-1] + numbers[i]]
  <1>1. n \in Nat
    BY LenProperties
  <1>2. \E f \in [0..n -> Nat] : IsSum(f, numbers, n)
    BY <1>1, SumExists
  <1>3. h = [i \in 0..n |-> IF i = 0 THEN 0 ELSE h[i-1] + numbers[i]]
    BY <1>2, Zenon DEF IsSum
  <1>4. Total(numbers) = h[n]
    BY Zenon DEF Total
  <1>5. IsSum(h, numbers, n)
    BY <1>3, Zenon DEF IsSum
  <1> HIDE DEF h, n
  <1> DEFINE T == {i \in 0..n : h[i] \notin Nat}
  <1>6. T = {}
    <2> SUFFICES ASSUME T # {} PROVE FALSE
      OBVIOUS
    <2>1. PICK m \in T : \A k \in T : m <= k
      <3> T \subseteq Nat
        BY <1>1
      <3> HIDE DEF T
      <3> QED
        BY LeastNatural
    <2>2. m \in 0..n /\ h[m] \notin Nat
      BY <2>1
    <2>3. h[m] = IF m = 0 THEN 0 ELSE h[m-1] + numbers[m]
      BY <1>3, <2>2
    <2>4. m # 0 /\ m-1 \in 0..n /\ ~(m <= m-1) /\ numbers[m] \in Nat
      <3>1. m # 0
        BY <2>2, <2>3
      <3> QED
        BY <1>1, <2>2, <3>1, ElementOfSeq DEF n
    <2>5. m-1 \notin T
      <3> HIDE DEF T
      <3> QED
        BY <2>1, <2>4
    <2>6. h[m-1] \in Nat
      BY <2>4, <2>5
    <2> QED
      BY <2>2, <2>3, <2>4, <2>6
  <1>7. h \in [0..n -> Nat]
    BY <1>3, <1>6
  <1> QED
    BY <1>4, <1>5, <1>7 DEF n

LEMMA SumPrefix ==
  \A s, t, f, g : \A m, n \in Nat :
     m <= n /\ (\A i \in 1..m : s[i] = t[i]) /\ IsSum(f, s, m) /\ IsSum(g, t, n)
        => \A i \in 0..m : f[i] = g[i]
  <1> SUFFICES ASSUME NEW s, NEW t, NEW f, NEW g, NEW m \in Nat, NEW n \in Nat, m <= n,
                      \A i \in 1..m : s[i] = t[i], IsSum(f, s, m), IsSum(g, t, n)
               PROVE  \A i \in 0..m : f[i] = g[i]
    OBVIOUS
  <1> DEFINE T == {i \in 0..m : f[i] # g[i]}
  <1> SUFFICES ASSUME T # {} PROVE FALSE
    OBVIOUS
  <1>1. PICK k \in T : \A i \in T : k <= i
    <2> T \subseteq Nat
      OBVIOUS
    <2> HIDE DEF T
    <2> QED
      BY LeastNatural
  <1>2. k \in 0..m /\ k \in 0..n /\ f[k] # g[k]
    BY <1>1
  <1>3. /\ f[k] = IF k = 0 THEN 0 ELSE f[k-1] + s[k]
        /\ g[k] = IF k = 0 THEN 0 ELSE g[k-1] + t[k]
    BY <1>2 DEF IsSum
  <1>4. k # 0 /\ k-1 \in 0..m /\ ~(k <= k-1) /\ s[k] = t[k]
    BY <1>2, <1>3
  <1>5. k-1 \notin T
    <2> HIDE DEF T
    <2> QED
      BY <1>1, <1>4
  <1> QED
    BY <1>2, <1>3, <1>4, <1>5

LEMMA TotalAppend ==
  ASSUME NEW numbers \in Seq(Nat), NEW k \in Nat
  PROVE  Total(Append(numbers, k)) = Total(numbers) + k
  <1> DEFINE more == Append(numbers, k)
             m == Len(more)
             n == m - 1
  <1>1. /\ more \in Seq(Nat) /\ m \in Nat /\ n \in Nat /\ n <= m /\ m # 0 /\ m \in 0..m
        /\ Len(numbers) = n
        /\ \A i \in 1..n : numbers[i] = more[i]
        /\ more[m] = k
    BY AppendProperties, LenProperties
  <1>2. PICK g : g \in [0..m -> Nat] /\ IsSum(g, more, m) /\ Total(more) = g[m]
    <2> HIDE DEF more
    <2> QED
      BY <1>1, TotalIs
  <1> HIDE DEF more, m
  <1>3. g[m] = g[m-1] + k
    BY <1>1, <1>2 DEF IsSum
  <1> HIDE DEF n
  <1>4. PICK f : IsSum(f, numbers, n) /\ Total(numbers) = f[n]
    BY <1>1, TotalIs
  <1>5. \A i \in 0..n : f[i] = g[i]
    <2>1. IsSum(f, numbers, n) /\ IsSum(g, more, m)
      BY <1>2, <1>4
    <2>2. m \in Nat /\ n \in Nat /\ n <= m /\ \A i \in 1..n : numbers[i] = more[i]
      BY <1>1
    <2> QED
      BY <2>1, <2>2, SumPrefix
  <1>6. f[n] = g[n]
    BY <1>1, <1>5
  <1> QED
    BY <1>2, <1>3, <1>4, <1>6 DEF more, n

LEMMA TotalEmpty == Total(<<>>) = 0
  <1>1. <<>> \in Seq(Nat) /\ Len(<<>>) = 0
    BY EmptySeq
  <1>2. PICK f \in [0..0 -> Nat] : IsSum(f, <<>>, 0) /\ Total(<<>>) = f[0]
    BY <1>1, TotalIs
  <1> QED
    BY <1>2 DEF IsSum

LEMMA TotalType ==
  ASSUME NEW numbers \in Seq(Nat)
  PROVE  Total(numbers) \in Nat
  BY TotalIs, LenProperties

-----------------------------------------------------------------------------
(* A function of the elements of a sequence, element by element.           *)
LEMMA CountOfFlatten ==
  ASSUME NEW S, NEW seqs \in Seq(Seq(S)), NEW V
  PROVE  /\ [n \in DOMAIN seqs |-> CountIn(seqs[n], V)] \in Seq(Nat)
         /\ CountIn(FlattenSeq(seqs), V) = Total([n \in DOMAIN seqs |-> CountIn(seqs[n], V)])
  <1> DEFINE counts(ss) == [n \in DOMAIN ss |-> CountIn(ss[n], V)]
             T == {n \in Nat : \E ss \in Seq(Seq(S)) :
                     /\ Len(ss) = n
                     /\ CountIn(FlattenSeq(ss), V) # Total(counts(ss))}
  <1>1. ASSUME NEW ss \in Seq(Seq(S)) PROVE counts(ss) \in Seq(Nat) /\ Len(counts(ss)) = Len(ss)
    <2>1. DOMAIN ss = 1..Len(ss) /\ Len(ss) \in Nat
      BY LenProperties
    <2>2. ASSUME NEW n \in DOMAIN ss PROVE CountIn(ss[n], V) \in Nat
      BY <2>1, ElementOfSeq, CountInType
    <2>3. counts(ss) \in [1..Len(ss) -> Nat]
      BY <2>1, <2>2
    <2> HIDE DEF counts
    <2> QED
      BY <2>1, <2>3, FunctionSeq
  <1>2. T = {}
    <2> SUFFICES ASSUME T # {} PROVE FALSE
      OBVIOUS
    <2>1. PICK m \in T : \A k \in T : m <= k
      <3> T \subseteq Nat
        OBVIOUS
      <3> HIDE DEF T
      <3> QED
        BY LeastNatural
    <2>2. PICK ss \in Seq(Seq(S)) :
             Len(ss) = m /\ CountIn(FlattenSeq(ss), V) # Total(counts(ss))
      BY <2>1
    <2>3. CASE ss = <<>>
      <3>1. FlattenSeq(ss) = <<>> /\ counts(ss) = <<>>
        BY <2>3 DEF FlattenSeq
      <3> HIDE DEF counts
      <3> QED
        BY <2>2, <3>1, CountInEmpty, TotalEmpty
    <2>4. CASE ss # <<>>
      <3>1. PICK front \in Seq(Seq(S)), last \in Seq(S) : ss = Append(front, last)
        BY <2>4, SequenceEmptyOrAppend
      <3>2. /\ Len(ss) = Len(front) + 1 /\ Len(front) \in Nat
            /\ \A i \in 1..Len(front) : ss[i] = front[i]
            /\ ss[Len(front) + 1] = last
        BY <3>1, AppendProperties, LenProperties
      <3>3. Len(front) \notin T
        <4>1. m \in Nat /\ ~(m <= Len(front))
          BY <2>2, <3>2
        <4> HIDE DEF T
        <4> QED
          BY <2>1, <4>1
      <3>4. CountIn(FlattenSeq(front), V) = Total(counts(front))
        BY <3>2, <3>3
      <3>5. counts(ss) = Append(counts(front), CountIn(last, V))
        <4>1. counts(front) \in Seq(Nat) /\ Len(counts(front)) = Len(front)
              /\ counts(ss) \in Seq(Nat) /\ Len(counts(ss)) = Len(ss)
          BY <1>1
        <4>2. /\ \A i \in 1..Len(front) : counts(ss)[i] = counts(front)[i]
              /\ counts(ss)[Len(front) + 1] = CountIn(last, V)
          BY <3>2, LenProperties
        <4> HIDE DEF counts
        <4> QED
          BY <3>2, <4>1, <4>2, IsAppend
      <3>6. FlattenSeq(ss) = FlattenSeq(front) \o last /\ FlattenSeq(front) \in Seq(S)
        BY <3>1, FlattenAppend, FlattenSeqType
      <3>7. CountIn(FlattenSeq(ss), V) = CountIn(FlattenSeq(front), V) + CountIn(last, V)
        BY <3>6, CountInConcat
      <3>8. Total(counts(ss)) = Total(counts(front)) + CountIn(last, V)
        <4>1. counts(front) \in Seq(Nat) /\ CountIn(last, V) \in Nat
          BY <1>1, CountInType
        <4> HIDE DEF counts
        <4> QED
          BY <3>5, <4>1, TotalAppend
      <3> QED
        BY <2>2, <3>4, <3>7, <3>8
    <2> QED
      BY <2>3, <2>4
  <1>3. Len(seqs) \in Nat
    BY LenProperties
  <1>4. CountIn(FlattenSeq(seqs), V) = Total(counts(seqs))
    BY <1>2, <1>3
  <1> QED
    BY <1>1, <1>4

(* A total is positive exactly if one of the numbers is.                   *)
LEMMA TotalPositive ==
  ASSUME NEW numbers \in Seq(Nat)
  PROVE  Total(numbers) > 0 <=> \E i \in DOMAIN numbers : numbers[i] > 0
  <1> DEFINE positive(ns) == \E i \in DOMAIN ns : ns[i] > 0
             T == {n \in Nat : \E ns \in Seq(Nat) :
                     Len(ns) = n /\ ~(Total(ns) > 0 <=> positive(ns))}
  <1>1. T = {}
    <2> SUFFICES ASSUME T # {} PROVE FALSE
      OBVIOUS
    <2>1. PICK m \in T : \A k \in T : m <= k
      <3> T \subseteq Nat
        OBVIOUS
      <3> HIDE DEF T
      <3> QED
        BY LeastNatural
    <2>2. PICK ns \in Seq(Nat) : Len(ns) = m /\ ~(Total(ns) > 0 <=> positive(ns))
      BY <2>1
    <2>3. CASE ns = <<>>
      BY <2>2, <2>3, TotalEmpty
    <2>4. CASE ns # <<>>
      <3>1. PICK front \in Seq(Nat), last \in Nat : ns = Append(front, last)
        BY <2>4, SequenceEmptyOrAppend
      <3>2. /\ Len(ns) = Len(front) + 1 /\ Len(front) \in Nat
            /\ \A i \in 1..Len(front) : ns[i] = front[i]
            /\ ns[Len(front) + 1] = last
            /\ DOMAIN ns = 1..Len(ns) /\ DOMAIN front = 1..Len(front)
        BY <3>1, AppendProperties, LenProperties
      <3>3. Len(front) \notin T
        <4>1. m \in Nat /\ ~(m <= Len(front))
          BY <2>2, <3>2
        <4> HIDE DEF T
        <4> QED
          BY <2>1, <4>1
      <3>4. Total(front) > 0 <=> positive(front)
        BY <3>2, <3>3
      <3>5. Total(ns) = Total(front) + last /\ Total(front) \in Nat
        BY <3>1, TotalAppend, TotalType
      <3>6. positive(ns) <=> positive(front) \/ last > 0
        <4>1. \A i \in 1..Len(front) : i \in 1..Len(ns)
          BY <3>2
        <4>2. Len(front) + 1 \in 1..Len(ns)
          BY <3>2
        <4>3. \A i \in 1..Len(ns) : i \in 1..Len(front) \/ i = Len(front) + 1
          BY <3>2
        <4> QED
          BY <3>2, <4>1, <4>2, <4>3
      <3> HIDE DEF positive
      <3> QED
        BY <2>2, <3>4, <3>5, <3>6
    <2> QED
      BY <2>3, <2>4
  <1>2. Len(numbers) \in Nat
    BY LenProperties
  <1> QED
    BY <1>1, <1>2

(* The total of k times the same number.                                   *)
LEMMA TotalOfEqual ==
  ASSUME NEW k \in Nat, NEW c \in Nat
  PROVE  Total([i \in 1..k |-> c]) = k * c
  <1> DEFINE const(n) == [i \in 1..n |-> c]
             T == {n \in Nat : Total(const(n)) # n * c}
  <1>1. ASSUME NEW n \in Nat
        PROVE  const(n) \in Seq(Nat) /\ Len(const(n)) = n /\ \A i \in 1..n : const(n)[i] = c
    <2>1. const(n) \in [1..n -> Nat]
      OBVIOUS
    <2>2. const(n) \in Seq(Nat) /\ Len(const(n)) = n
      <3> HIDE DEF const
      <3> QED
        BY <2>1, FunctionSeq
    <2> QED
      BY <2>2
  <1>2. T = {}
    <2> SUFFICES ASSUME T # {} PROVE FALSE
      OBVIOUS
    <2>1. PICK m \in T : \A n \in T : m <= n
      <3> T \subseteq Nat
        OBVIOUS
      <3> HIDE DEF T
      <3> QED
        BY LeastNatural
    <2>2. m \in Nat /\ Total(const(m)) # m * c
      BY <2>1
    <2>3. m # 0
      <3>1. const(0) = <<>>
        OBVIOUS
      <3>2. 0 * c = 0
        OBVIOUS
      <3> HIDE DEF const
      <3> QED
        BY <2>2, <3>1, <3>2, TotalEmpty
    <2>4. m-1 \in Nat /\ m-1 \notin T
      <3>1. m-1 \in Nat /\ ~(m <= m-1)
        BY <2>2, <2>3
      <3> HIDE DEF T
      <3> QED
        BY <2>1, <3>1
    <2>5. Total(const(m-1)) = (m-1) * c
      BY <2>4
    <2>6. const(m) = Append(const(m-1), c)
      <3>1. /\ const(m) \in Seq(Nat) /\ Len(const(m)) = m
            /\ \A i \in 1..m : const(m)[i] = c
            /\ const(m-1) \in Seq(Nat) /\ Len(const(m-1)) = m-1
            /\ \A i \in 1..(m-1) : const(m-1)[i] = c
        BY <1>1, <2>2, <2>4
      <3> HIDE DEF const
      <3>2. Len(const(m)) = Len(const(m-1)) + 1
        BY <2>2, <3>1
      <3>3. const(m)[Len(const(m-1)) + 1] = c
        BY <2>2, <2>3, <3>1
      <3>4. \A i \in 1..Len(const(m-1)) : const(m)[i] = const(m-1)[i]
        BY <2>2, <3>1
      <3> QED
        BY <3>1, <3>2, <3>3, <3>4, IsAppend
    <2>7. Total(const(m)) = (m-1) * c + c
      <3>1. const(m-1) \in Seq(Nat)
        BY <1>1, <2>4
      <3> HIDE DEF const
      <3> QED
        BY <2>5, <2>6, <3>1, TotalAppend
    <2>8. (m-1) * c + c = m * c
      BY <2>2
    <2> QED
      BY <2>2, <2>7, <2>8
  <1> QED
    BY <1>2

-----------------------------------------------------------------------------
(* The log against the registry, after one more call.                      *)

LogRecord == [probes : Seq(Probes), names : Seq(Groups), flag : Flags]

(* What an add_probes() call puts into the required list, and into g.      *)
Req(entry) == IF entry.names = <<>> THEN entry.probes ELSE <<>>
InGroup(entry, g) == FlattenSeq([i \in 1..Count(entry.names, g) |-> entry.probes])

ReqOf(l) == [n \in DOMAIN l |-> Req(l[n])]
InGroupOf(l, g) == [n \in DOMAIN l |-> InGroup(l[n], g)]

(* The flag of g that a log leaves.                                        *)
Setting(l, g) == {n \in DOMAIN l : Count(l[n].names, g) > 0 /\ l[n].flag # None}
FlagOf(l, g) ==
    IF Setting(l, g) = {} THEN None
    ELSE l[CHOOSE n \in Setting(l, g) : \A m \in Setting(l, g) : m <= n].flag

LEMMA CountType ==
  ASSUME NEW S, NEW seq \in Seq(S), NEW x
  PROVE  Count(seq, x) = CountIn(seq, {x}) /\ Count(seq, x) \in Nat
  <1>1. {i \in DOMAIN seq : seq[i] = x} = {i \in DOMAIN seq : seq[i] \in {x}}
    OBVIOUS
  <1>2. Count(seq, x) = CountIn(seq, {x})
    BY <1>1 DEF Count, CountIn
  <1> QED
    BY <1>2, CountInType

LEMMA EntryPuts ==
  ASSUME NEW entry \in LogRecord, NEW g
  PROVE  /\ Req(entry) \in Seq(Probes) /\ InGroup(entry, g) \in Seq(Probes)
         /\ Count(entry.names, g) \in Nat
         /\ [i \in 1..Count(entry.names, g) |-> entry.probes] \in Seq(Seq(Probes))
  <1>1. entry.probes \in Seq(Probes) /\ entry.names \in Seq(Groups)
    BY DEF LogRecord
  <1> DEFINE k == Count(entry.names, g)
             copies == [i \in 1..k |-> entry.probes]
  <1>2. k \in Nat
    BY <1>1, CountType
  <1> HIDE DEF k
  <1>3. copies \in [1..k -> Seq(Probes)]
    BY <1>1
  <1> HIDE DEF copies
  <1>4. copies \in Seq(Seq(Probes))
    BY <1>2, <1>3, FunctionIsSeq
  <1>5. FlattenSeq(copies) \in Seq(Probes)
    BY <1>4, FlattenSeqType
  <1> QED
    BY <1>1, <1>2, <1>4, <1>5, EmptySeq DEF Req, InGroup, k, copies

LEMMA ReqOfAppend ==
  ASSUME NEW l \in Seq(LogRecord), NEW entry \in LogRecord
  PROVE  /\ ReqOf(l) \in Seq(Seq(Probes))
         /\ ReqOf(Append(l, entry)) = Append(ReqOf(l), Req(entry))
  <1>1. ASSUME NEW k \in Seq(LogRecord)
        PROVE  ReqOf(k) \in Seq(Seq(Probes)) /\ Len(ReqOf(k)) = Len(k)
    <2>1. Len(k) \in Nat /\ DOMAIN k = 1..Len(k) /\ \A n \in 1..Len(k) : k[n] \in LogRecord
      BY LenProperties, ElementOfSeq
    <2>2. ReqOf(k) \in [1..Len(k) -> Seq(Probes)]
      BY <2>1, EntryPuts DEF ReqOf
    <2> QED
      BY <2>1, <2>2, FunctionSeq
  <1>2. /\ Append(l, entry) \in Seq(LogRecord) /\ Len(Append(l, entry)) = Len(l) + 1
        /\ Len(l) \in Nat /\ DOMAIN l = 1..Len(l)
        /\ DOMAIN Append(l, entry) = 1..(Len(l) + 1)
        /\ \A i \in 1..Len(l) : Append(l, entry)[i] = l[i]
        /\ Append(l, entry)[Len(l) + 1] = entry
    BY AppendProperties, LenProperties
  <1>3. /\ \A i \in 1..Len(l) : ReqOf(Append(l, entry))[i] = ReqOf(l)[i]
        /\ ReqOf(Append(l, entry))[Len(l) + 1] = Req(entry)
    BY <1>2 DEF ReqOf
  <1>4. /\ ReqOf(l) \in Seq(Seq(Probes)) /\ Len(ReqOf(l)) = Len(l)
        /\ ReqOf(Append(l, entry)) \in Seq(Seq(Probes)) /\ Len(ReqOf(Append(l, entry))) = Len(l) + 1
    BY <1>1, <1>2
  <1>5. ReqOf(Append(l, entry)) = Append(ReqOf(l), ReqOf(Append(l, entry))[Len(l) + 1])
    BY <1>3, <1>4, IsAppend
  <1> QED
    BY <1>3, <1>4, <1>5

LEMMA InGroupOfAppend ==
  ASSUME NEW l \in Seq(LogRecord), NEW entry \in LogRecord, NEW g
  PROVE  /\ InGroupOf(l, g) \in Seq(Seq(Probes))
         /\ InGroupOf(Append(l, entry), g) = Append(InGroupOf(l, g), InGroup(entry, g))
  <1>1. ASSUME NEW k \in Seq(LogRecord)
        PROVE  InGroupOf(k, g) \in Seq(Seq(Probes)) /\ Len(InGroupOf(k, g)) = Len(k)
    <2>1. Len(k) \in Nat /\ DOMAIN k = 1..Len(k) /\ \A n \in 1..Len(k) : k[n] \in LogRecord
      BY LenProperties, ElementOfSeq
    <2>2. InGroupOf(k, g) \in [1..Len(k) -> Seq(Probes)]
      BY <2>1, EntryPuts DEF InGroupOf
    <2> QED
      BY <2>1, <2>2, FunctionSeq
  <1>2. /\ Append(l, entry) \in Seq(LogRecord) /\ Len(Append(l, entry)) = Len(l) + 1
        /\ Len(l) \in Nat /\ DOMAIN l = 1..Len(l)
        /\ DOMAIN Append(l, entry) = 1..(Len(l) + 1)
        /\ \A i \in 1..Len(l) : Append(l, entry)[i] = l[i]
        /\ Append(l, entry)[Len(l) + 1] = entry
    BY AppendProperties, LenProperties
  <1>3. /\ \A i \in 1..Len(l) : InGroupOf(Append(l, entry), g)[i] = InGroupOf(l, g)[i]
        /\ InGroupOf(Append(l, entry), g)[Len(l) + 1] = InGroup(entry, g)
    BY <1>2 DEF InGroupOf
  <1>4. /\ InGroupOf(l, g) \in Seq(Seq(Probes)) /\ Len(InGroupOf(l, g)) = Len(l)
        /\ InGroupOf(Append(l, entry), g) \in Seq(Seq(Probes)) /\ Len(InGroupOf(Append(l, entry), g)) = Len(l) + 1
    BY <1>1, <1>2
  <1>5. InGroupOf(Append(l, entry), g) = Append(InGroupOf(l, g), InGroupOf(Append(l, entry), g)[Len(l) + 1])
    BY <1>3, <1>4, IsAppend
  <1> QED
    BY <1>3, <1>4, <1>5

(* A nonempty set of indices has a greatest element.                       *)
LEMMA GreatestIndex ==
  ASSUME NEW k \in Nat, NEW T, T \subseteq 1..k, T # {}
  PROVE  \E m \in T : \A i \in T : i <= m
  <1> DEFINE B == {b \in Nat : \A i \in T : i <= b}
  <1>1. B \subseteq Nat /\ B # {}
    <2>1. k \in B
      OBVIOUS
    <2> QED
      BY <2>1
  <1>2. PICK b \in B : \A c \in B : b <= c
    <2> HIDE DEF B
    <2> QED
      BY <1>1, LeastNatural
  <1>3. b \in Nat /\ \A i \in T : i <= b
    BY <1>2
  <1>4. b \in T
    <2> SUFFICES ASSUME b \notin T PROVE FALSE
      OBVIOUS
    <2>1. b # 0
      <3>1. \E i \in T : i \in 1..k /\ i <= b
        BY <1>3
      <3> QED
        BY <1>3, <3>1
    <2>2. \A i \in T : i <= b - 1
      BY <1>3
    <2>3. b - 1 \in B
      BY <1>3, <2>1, <2>2
    <2>4. b <= b - 1
      <3> HIDE DEF B
      <3> QED
        BY <1>2, <2>3
    <2> QED
      BY <1>3, <2>4
  <1> QED
    BY <1>3, <1>4

(* The last flag that was given wins.                                      *)
LEMMA FlagOfAppend ==
  ASSUME NEW l \in Seq(LogRecord), NEW entry \in LogRecord, NEW g
  PROVE  FlagOf(Append(l, entry), g) =
           IF Count(entry.names, g) > 0 /\ entry.flag # None THEN entry.flag ELSE FlagOf(l, g)
  <1> DEFINE more == Append(l, entry)
             sets == Count(entry.names, g) > 0 /\ entry.flag # None
  <1>1. /\ Len(l) \in Nat /\ DOMAIN l = 1..Len(l) /\ DOMAIN more = 1..(Len(l) + 1)
        /\ \A i \in 1..Len(l) : more[i] = l[i]
        /\ more[Len(l) + 1] = entry
    BY AppendProperties, LenProperties
  <1> HIDE DEF more
  <1>2. CASE sets
    <2> DEFINE new == Len(l) + 1
               last == CHOOSE n \in Setting(more, g) : \A m \in Setting(more, g) : m <= n
    <2>1. new \in Setting(more, g) /\ Setting(more, g) \subseteq 1..new /\ new \in Nat
      BY <1>1, <1>2 DEF Setting
    <2>2. \A m \in Setting(more, g) : m <= new
      BY <2>1
    <2>3. last \in Setting(more, g) /\ \A m \in Setting(more, g) : m <= last
      <3> HIDE DEF new
      <3> QED
        BY <2>1, <2>2, Zenon
    <2>4. new <= last /\ last <= new /\ last \in Nat
      <3> HIDE DEF new, last
      <3> QED
        BY <2>1, <2>2, <2>3
    <2>5. last = new
      BY <2>1, <2>4
    <2>6. FlagOf(more, g) = more[last].flag
      BY <2>1 DEF FlagOf
    <2> HIDE DEF last
    <2> QED
      BY <1>1, <1>2, <2>5, <2>6 DEF more
  <1>3. CASE ~sets
    <2>1. Setting(more, g) = Setting(l, g)
      <3>1. ASSUME NEW n \in Setting(more, g) PROVE n \in Setting(l, g)
        <4>1. n \in 1..(Len(l) + 1) /\ n # Len(l) + 1
          BY <1>1, <1>3 DEF Setting
        <4>2. n \in 1..Len(l)
          BY <1>1, <4>1
        <4> QED
          BY <1>1, <4>2 DEF Setting
      <3>2. ASSUME NEW n \in Setting(l, g) PROVE n \in Setting(more, g)
        <4>1. n \in 1..Len(l) /\ n \in 1..(Len(l) + 1)
          BY <1>1 DEF Setting
        <4> QED
          BY <1>1, <4>1 DEF Setting
      <3> QED
        BY <3>1, <3>2
    <2>2. CASE Setting(l, g) = {}
      BY <1>3, <2>1, <2>2 DEF FlagOf, more
    <2>3. CASE Setting(l, g) # {}
      <3> DEFINE last == CHOOSE n \in Setting(l, g) : \A m \in Setting(l, g) : m <= n
      <3>1. Setting(l, g) \subseteq 1..Len(l)
        BY <1>1 DEF Setting
      <3>2. last \in Setting(l, g)
        <4>1. \E n \in Setting(l, g) : \A m \in Setting(l, g) : m <= n
          BY <1>1, <2>3, <3>1, GreatestIndex
        <4> QED
          BY <4>1, Zenon
      <3>3. more[last] = l[last]
        BY <1>1, <3>1, <3>2
      <3>4. FlagOf(more, g) = more[last].flag /\ FlagOf(l, g) = l[last].flag
        BY <2>1, <2>3 DEF FlagOf
      <3> HIDE DEF last
      <3> QED
        BY <1>3, <3>3, <3>4 DEF more
    <2> QED
      BY <2>2, <2>3
  <1> QED
    BY <1>2, <1>3

-----------------------------------------------------------------------------
(* The inductive invariant: the containers and the flags of the groups are *)
(* what the log says.                                                      *)
ContainersMatchLog ==
    /\ required = AllRequired
    /\ \A g \in Groups : optional[g] = AllInGroup(g)

LogInv ==
    /\ RegistryTypeOK
    /\ log \in Seq(LogRecord)
    /\ ContainersMatchLog
    /\ \A g \in Groups : group_allow_failure[g] = LoggedFlag(g)

LEMMA LogInvIs ==
  /\ LogInv <=> /\ RegistryTypeOK
                /\ log \in Seq(LogRecord)
                /\ required = FlattenSeq(ReqOf(log))
                /\ \A g \in Groups : optional[g] = FlattenSeq(InGroupOf(log, g))
                /\ \A g \in Groups : group_allow_failure[g] = FlagOf(log, g)
  /\ LogInv' <=> /\ RegistryTypeOK'
                 /\ log' \in Seq(LogRecord)
                 /\ required' = FlattenSeq(ReqOf(log'))
                 /\ \A g \in Groups : optional'[g] = FlattenSeq(InGroupOf(log', g))
                 /\ \A g \in Groups : group_allow_failure'[g] = FlagOf(log', g)
  BY DEF LogInv, ContainersMatchLog, AllRequired, AllInGroup, PutRequired, PutInGroup,
         LoggedFlag, ReqOf, Req, InGroupOf, InGroup, FlagOf, Setting

LEMMA InitLogInv == LogInit => LogInv
  <1> SUFFICES ASSUME LogInit PROVE LogInv
    OBVIOUS
  <1>1. RegistryTypeOK /\ log = <<>> /\ log \in Seq(LogRecord)
    BY InitRegistry, EmptySeq DEF LogInit
  <1>2. ReqOf(log) = <<>> /\ \A g : InGroupOf(log, g) = <<>> /\ FlagOf(log, g) = None
    BY <1>1 DEF ReqOf, InGroupOf, FlagOf, Setting
  <1>3. FlattenSeq(<<>>) = <<>>
    BY DEF FlattenSeq
  <1> QED
    BY <1>1, <1>2, <1>3, LogInvIs DEF LogInit, ProbirkaInit, RegistryInit

LEMMA CallLogInv ==
  ASSUME LogInv, NEW ps \in Seq(Probes), NEW names \in Seq(Groups), NEW flag \in Flags,
         AddProbes(ps, names, flag), LogCall(ps, names, flag)
  PROVE  LogInv'
  <1> DEFINE entry == [probes |-> ps, names |-> names, flag |-> flag]
  <1>1. entry \in LogRecord /\ log' = Append(log, entry)
    BY DEF LogRecord, LogCall
  <1>2. /\ entry.probes = ps /\ entry.names = names /\ entry.flag = flag
    OBVIOUS
  <1> HIDE DEF entry
  <1>3. /\ RegistryTypeOK /\ log \in Seq(LogRecord)
        /\ required = FlattenSeq(ReqOf(log))
        /\ \A g \in Groups : optional[g] = FlattenSeq(InGroupOf(log, g))
        /\ \A g \in Groups : group_allow_failure[g] = FlagOf(log, g)
    BY LogInvIs
  <1>4. RegistryTypeOK' /\ log' \in Seq(LogRecord)
    BY <1>1, <1>3, AddProbesType, AppendProperties
  <1>5. required' = FlattenSeq(ReqOf(log'))
    <2>1. ReqOf(log) \in Seq(Seq(Probes)) /\ ReqOf(log') = Append(ReqOf(log), Req(entry))
          /\ Req(entry) \in Seq(Probes)
      BY <1>1, <1>3, ReqOfAppend, EntryPuts
    <2>2. FlattenSeq(ReqOf(log')) = required \o Req(entry)
      BY <1>3, <2>1, FlattenAppend
    <2>3. required' = IF names = <<>> THEN required \o ps ELSE required
      BY DEF AddProbes
    <2>4. required \o <<>> = required
      BY <1>3, ConcatEmptySeq DEF RegistryTypeOK
    <2> QED
      BY <1>2, <2>2, <2>3, <2>4 DEF Req
  <1>6. ASSUME NEW g \in Groups PROVE optional'[g] = FlattenSeq(InGroupOf(log', g))
    <2>1. /\ InGroupOf(log, g) \in Seq(Seq(Probes))
          /\ InGroupOf(log', g) = Append(InGroupOf(log, g), InGroup(entry, g))
          /\ InGroup(entry, g) \in Seq(Probes)
      BY <1>1, <1>3, InGroupOfAppend, EntryPuts
    <2>2. FlattenSeq(InGroupOf(log', g)) = optional[g] \o InGroup(entry, g)
      BY <1>3, <2>1, FlattenAppend
    <2>3. optional'[g] = optional[g] \o
             FlattenSeq([i \in 1..Cardinality({i \in DOMAIN names : names[i] = g}) |-> ps])
      BY DEF AddProbes
    <2>4. InGroup(entry, g) =
             FlattenSeq([i \in 1..Cardinality({i \in DOMAIN names : names[i] = g}) |-> ps])
      BY <1>2 DEF InGroup, Count
    <2> QED
      BY <2>2, <2>3, <2>4
  <1>7. ASSUME NEW g \in Groups PROVE group_allow_failure'[g] = FlagOf(log', g)
    <2>1. FlagOf(log', g) = IF Count(names, g) > 0 /\ flag # None THEN flag ELSE FlagOf(log, g)
      BY <1>1, <1>2, <1>3, FlagOfAppend
    <2>2. group_allow_failure'[g] =
             IF Cardinality({i \in DOMAIN names : names[i] = g}) > 0 /\ flag # None
             THEN flag ELSE group_allow_failure[g]
      BY DEF AddProbes
    <2>3. Count(names, g) = Cardinality({i \in DOMAIN names : names[i] = g})
      BY DEF Count
    <2> QED
      BY <1>3, <2>1, <2>2, <2>3
  <1> QED
    BY <1>4, <1>5, <1>6, <1>7, LogInvIs

LEMMA NextLogInv == LogInv /\ [LogNext]_<<allVars, log>> => LogInv'
  <1> SUFFICES ASSUME LogInv, [LogNext]_<<allVars, log>> PROVE LogInv'
    OBVIOUS
  <1>1. ASSUME NEW ps \in ProbeLists, NEW names \in GroupLists, NEW flag \in Flags,
               Register(ps, names, flag), LogCall(ps, names, flag)
        PROVE  LogInv'
    BY <1>1, CallLogInv, ProbirkaAssumption DEF Register
  <1>2. ASSUME NEW p \in Probes, NEW conf \in Configs, NEW names \in GroupLists,
               Add(p, conf, names), LogCall(<<p>>, names, None)
        PROVE  LogInv'
    <2>1. AddProbes(<<p>>, names, None) /\ <<p>> \in Seq(Probes) /\ None \in Flags
      BY <1>2 DEF Add, Flags
    <2>2. names \in Seq(Groups)
      BY ProbirkaAssumption
    <2> QED
      BY <1>2, <2>1, <2>2, CallLogInv
  <1>3. ASSUME UNCHANGED registry, UNCHANGED log PROVE LogInv'
    BY <1>3, LogInvIs DEF RegistryTypeOK, registry
  <1>4. UNCHANGED <<allVars, log>> => UNCHANGED registry /\ UNCHANGED log
    BY DEF allVars, registry
  <1> QED
    BY <1>1, <1>2, <1>3, <1>4, UseKeepsRegistry DEF LogNext

LEMMA LogInvariant == LogSpec => []LogInv
  BY InitLogInv, NextLogInv, PTL DEF LogSpec

-----------------------------------------------------------------------------
(* The entries of a list of probes, with the flag of their source.         *)

From(probes, flag) == [i \in DOMAIN probes |-> [probe |-> probes[i], flag |-> flag]]

(* The entries for p, and those with this flag.                            *)
OfProbe(p) == {entry \in Entry : entry.probe = p}
OfSource(p, flag) == {entry \in Entry : entry.probe = p /\ entry.flag = flag}

LEMMA FromCounts ==
  ASSUME NEW probes \in Seq(Probes), NEW flag \in Flags, NEW p \in Probes, NEW other
  PROVE  /\ From(probes, flag) \in Seq(Entry)
         /\ CountIn(From(probes, flag), OfProbe(p)) = Count(probes, p)
         /\ CountIn(From(probes, flag), OfSource(p, other)) =
              IF flag = other THEN Count(probes, p) ELSE 0
  <1>1. Len(probes) \in Nat /\ DOMAIN probes = 1..Len(probes)
        /\ \A i \in 1..Len(probes) : probes[i] \in Probes
    BY LenProperties, ElementOfSeq
  <1>2. From(probes, flag) \in [1..Len(probes) -> Entry]
    BY <1>1 DEF From, Entry
  <1>3. From(probes, flag) \in Seq(Entry)
    BY <1>1, <1>2, FunctionSeq
  <1>4. DOMAIN From(probes, flag) = DOMAIN probes
        /\ \A i \in DOMAIN probes :
              /\ From(probes, flag)[i] \in Entry
              /\ From(probes, flag)[i].probe = probes[i]
              /\ From(probes, flag)[i].flag = flag
    BY <1>1 DEF From, Entry
  <1>5. {i \in DOMAIN From(probes, flag) : From(probes, flag)[i] \in OfProbe(p)}
          = {i \in DOMAIN probes : probes[i] = p}
    BY <1>4 DEF OfProbe
  <1>6. CASE flag = other
    <2>1. {i \in DOMAIN From(probes, flag) : From(probes, flag)[i] \in OfSource(p, other)}
            = {i \in DOMAIN probes : probes[i] = p}
      BY <1>4, <1>6 DEF OfSource
    <2> QED
      BY <1>3, <1>5, <1>6, <2>1 DEF CountIn, Count
  <1>7. CASE flag # other
    <2>1. {i \in DOMAIN From(probes, flag) : From(probes, flag)[i] \in OfSource(p, other)} = {}
      BY <1>4, <1>7 DEF OfSource
    <2> QED
      BY <1>3, <1>5, <1>7, <2>1, FS_EmptySet DEF CountIn, Count
  <1> QED
    BY <1>6, <1>7

-----------------------------------------------------------------------------
(* What a run collects, in order: the probes of its entries.               *)

ProbesOf(entries) == [i \in DOMAIN entries |-> entries[i].probe]

LEMMA ProbesOfType ==
  ASSUME NEW entries \in Seq(Entry)
  PROVE  /\ ProbesOf(entries) \in Seq(Probes) /\ Len(ProbesOf(entries)) = Len(entries)
         /\ \A i \in 1..Len(entries) : ProbesOf(entries)[i] = entries[i].probe
  <1>1. /\ Len(entries) \in Nat /\ DOMAIN entries = 1..Len(entries)
        /\ \A i \in 1..Len(entries) : entries[i] \in Entry
    BY LenProperties, ElementOfSeq
  <1>2. \A entry \in Entry : entry.probe \in Probes
    BY DEF Entry
  <1>3. ProbesOf(entries) \in [1..Len(entries) -> Probes]
    BY <1>1, <1>2 DEF ProbesOf
  <1>4. \A i \in 1..Len(entries) : ProbesOf(entries)[i] = entries[i].probe
    BY <1>1 DEF ProbesOf
  <1> QED
    BY <1>1, <1>3, <1>4, FunctionSeq

LEMMA ProbesOfEmpty == ProbesOf(<<>>) = <<>>
  BY DEF ProbesOf

LEMMA ProbesOfConcat ==
  ASSUME NEW a \in Seq(Entry), NEW b \in Seq(Entry)
  PROVE  ProbesOf(a \o b) = ProbesOf(a) \o ProbesOf(b)
  <1> DEFINE left == ProbesOf(a \o b)
             pa == ProbesOf(a)
             pb == ProbesOf(b)
             right == pa \o pb
  <1>1. /\ a \o b \in Seq(Entry) /\ Len(a \o b) = Len(a) + Len(b)
        /\ Len(a) \in Nat /\ Len(b) \in Nat
        /\ \A i \in 1..Len(a) + Len(b) :
              (a \o b)[i] = IF i <= Len(a) THEN a[i] ELSE b[i - Len(a)]
    BY ConcatProperties, LenProperties
  <1>2. /\ pa \in Seq(Probes) /\ Len(pa) = Len(a) /\ \A i \in 1..Len(a) : pa[i] = a[i].probe
        /\ pb \in Seq(Probes) /\ Len(pb) = Len(b) /\ \A i \in 1..Len(b) : pb[i] = b[i].probe
    BY ProbesOfType
  <1>3. /\ left \in Seq(Probes) /\ Len(left) = Len(a) + Len(b)
        /\ \A i \in 1..Len(a) + Len(b) : left[i] = (a \o b)[i].probe
    BY <1>1, ProbesOfType
  <1> HIDE DEF pa, pb, left
  <1>4. /\ right \in Seq(Probes) /\ Len(right) = Len(a) + Len(b)
        /\ \A i \in 1..Len(a) + Len(b) :
              right[i] = IF i <= Len(a) THEN pa[i] ELSE pb[i - Len(a)]
    <2>1. /\ right \in Seq(Probes) /\ Len(right) = Len(pa) + Len(pb)
          /\ \A i \in 1..Len(pa) + Len(pb) :
                right[i] = IF i <= Len(pa) THEN pa[i] ELSE pb[i - Len(pa)]
      <3>1. pa \in Seq(Probes) /\ pb \in Seq(Probes)
        BY <1>2
      <3> QED
        BY <3>1, ConcatProperties
    <2>2. Len(pa) = Len(a) /\ Len(pb) = Len(b)
      BY <1>2
    <2> QED
      BY <2>1, <2>2
  <1> HIDE DEF right
  <1>5. ASSUME NEW i \in 1..Len(left) PROVE left[i] = right[i]
    <2>1. i \in 1..Len(a) + Len(b)
      BY <1>3
    <2>2. CASE i <= Len(a)
      <3>1. i \in 1..Len(a)
        BY <1>1, <2>1, <2>2
      <3> QED
        BY <1>1, <1>2, <1>3, <1>4, <2>1, <2>2, <3>1
    <2>3. CASE ~(i <= Len(a))
      <3>1. i - Len(a) \in 1..Len(b)
        BY <1>1, <2>1, <2>3
      <3> QED
        BY <1>1, <1>2, <1>3, <1>4, <2>1, <2>3, <3>1
    <2> QED
      BY <2>2, <2>3
  <1> QED
    BY <1>3, <1>4, <1>5, SeqEqual DEF left, right, pa, pb

LEMMA ProbesOfFlatten ==
  ASSUME NEW seqs \in Seq(Seq(Entry))
  PROVE  ProbesOf(FlattenSeq(seqs)) = FlattenSeq([n \in DOMAIN seqs |-> ProbesOf(seqs[n])])
  <1> DEFINE each(ss) == [n \in DOMAIN ss |-> ProbesOf(ss[n])]
             T == {n \in Nat : \E ss \in Seq(Seq(Entry)) :
                     Len(ss) = n /\ ProbesOf(FlattenSeq(ss)) # FlattenSeq(each(ss))}
  <1>1. ASSUME NEW ss \in Seq(Seq(Entry))
        PROVE  each(ss) \in Seq(Seq(Probes)) /\ Len(each(ss)) = Len(ss)
    <2>1. DOMAIN ss = 1..Len(ss) /\ Len(ss) \in Nat
      BY LenProperties
    <2>2. ASSUME NEW n \in DOMAIN ss PROVE ProbesOf(ss[n]) \in Seq(Probes)
      BY <2>1, ElementOfSeq, ProbesOfType
    <2>3. each(ss) \in [1..Len(ss) -> Seq(Probes)]
      BY <2>1, <2>2
    <2> HIDE DEF each
    <2> QED
      BY <2>1, <2>3, FunctionSeq
  <1>2. T = {}
    <2> SUFFICES ASSUME T # {} PROVE FALSE
      OBVIOUS
    <2>1. PICK m \in T : \A k \in T : m <= k
      <3> T \subseteq Nat
        OBVIOUS
      <3> HIDE DEF T
      <3> QED
        BY LeastNatural
    <2>2. PICK ss \in Seq(Seq(Entry)) :
             Len(ss) = m /\ ProbesOf(FlattenSeq(ss)) # FlattenSeq(each(ss))
      BY <2>1
    <2>3. CASE ss = <<>>
      <3>1. FlattenSeq(ss) = <<>> /\ each(ss) = <<>>
        BY <2>3 DEF FlattenSeq
      <3> HIDE DEF each
      <3> QED
        BY <2>2, <2>3, <3>1, ProbesOfEmpty
    <2>4. CASE ss # <<>>
      <3>1. PICK front \in Seq(Seq(Entry)), last \in Seq(Entry) : ss = Append(front, last)
        BY <2>4, SequenceEmptyOrAppend
      <3>2. /\ Len(ss) = Len(front) + 1 /\ Len(front) \in Nat
            /\ \A i \in 1..Len(front) : ss[i] = front[i]
            /\ ss[Len(front) + 1] = last
        BY <3>1, AppendProperties, LenProperties
      <3>3. Len(front) \notin T
        <4>1. m \in Nat /\ ~(m <= Len(front))
          BY <2>2, <3>2
        <4> HIDE DEF T
        <4> QED
          BY <2>1, <4>1
      <3>4. ProbesOf(FlattenSeq(front)) = FlattenSeq(each(front))
        BY <3>2, <3>3
      <3>5. each(ss) = Append(each(front), ProbesOf(last))
        <4>1. each(front) \in Seq(Seq(Probes)) /\ Len(each(front)) = Len(front)
              /\ each(ss) \in Seq(Seq(Probes)) /\ Len(each(ss)) = Len(ss)
          BY <1>1
        <4>2. /\ \A i \in 1..Len(front) : each(ss)[i] = each(front)[i]
              /\ each(ss)[Len(front) + 1] = ProbesOf(last)
          <5>1. DOMAIN ss = 1..Len(ss) /\ DOMAIN front = 1..Len(front)
            BY LenProperties
          <5>2. ASSUME NEW i \in 1..Len(front) PROVE i \in 1..Len(ss)
            BY <3>2
          <5>3. Len(front) + 1 \in 1..Len(ss)
            BY <3>2
          <5> QED
            BY <3>2, <5>1, <5>2, <5>3
        <4> HIDE DEF each
        <4> QED
          BY <3>2, <4>1, <4>2, IsAppend
      <3>6. FlattenSeq(ss) = FlattenSeq(front) \o last /\ FlattenSeq(front) \in Seq(Entry)
        BY <3>1, FlattenAppend, FlattenSeqType
      <3>7. ProbesOf(FlattenSeq(ss)) = ProbesOf(FlattenSeq(front)) \o ProbesOf(last)
        BY <3>6, ProbesOfConcat
      <3>8. FlattenSeq(each(ss)) = FlattenSeq(each(front)) \o ProbesOf(last)
        <4>1. each(front) \in Seq(Seq(Probes)) /\ ProbesOf(last) \in Seq(Probes)
          BY <1>1, ProbesOfType
        <4> HIDE DEF each
        <4> QED
          BY <3>5, <4>1, FlattenAppend
      <3> QED
        BY <2>2, <3>4, <3>7, <3>8
    <2> QED
      BY <2>3, <2>4
  <1>3. Len(seqs) \in Nat
    BY LenProperties
  <1> QED
    BY <1>2, <1>3

LEMMA ProbesOfFrom ==
  ASSUME NEW probes \in Seq(Probes), NEW flag \in Flags
  PROVE  From(probes, flag) \in Seq(Entry) /\ ProbesOf(From(probes, flag)) = probes
  <1>1. Len(probes) \in Nat /\ DOMAIN probes = 1..Len(probes)
        /\ \A i \in 1..Len(probes) : probes[i] \in Probes
    BY LenProperties, ElementOfSeq
  <1>2. From(probes, flag) \in [1..Len(probes) -> Entry]
    BY <1>1 DEF From, Entry
  <1>3. From(probes, flag) \in Seq(Entry) /\ Len(From(probes, flag)) = Len(probes)
    BY <1>1, <1>2, FunctionSeq
  <1>4. \A i \in 1..Len(probes) : From(probes, flag)[i].probe = probes[i]
    BY <1>1 DEF From
  <1> HIDE DEF From
  <1>5. /\ ProbesOf(From(probes, flag)) \in Seq(Probes)
        /\ Len(ProbesOf(From(probes, flag))) = Len(probes)
        /\ \A i \in 1..Len(probes) : ProbesOf(From(probes, flag))[i] = probes[i]
    BY <1>3, <1>4, ProbesOfType
  <1> QED
    BY <1>3, <1>5, SeqEqual

LEMMA CollectInOrder ==
  ASSUME RegistryTypeOK, NEW with_groups \in Seq(Groups), NEW skip \in BOOLEAN
  PROVE  ProbesOf(Collect(with_groups, skip)) =
           (IF skip THEN <<>> ELSE required)
             \o FlattenSeq([i \in DOMAIN with_groups |-> optional[with_groups[i]]])
  <1> DEFINE group(g) == From(optional[g], group_allow_failure[g])
             groups == [i \in DOMAIN with_groups |-> group(with_groups[i])]
             first == IF skip THEN <<>> ELSE From(required, None)
  <1>1. Len(with_groups) \in Nat /\ DOMAIN with_groups = 1..Len(with_groups)
        /\ \A i \in 1..Len(with_groups) : with_groups[i] \in Groups
    BY LenProperties, ElementOfSeq
  <1>2. \A g \in Groups : group(g) \in Seq(Entry) /\ ProbesOf(group(g)) = optional[g]
    BY ProbesOfFrom DEF RegistryTypeOK
  <1>3. first \in Seq(Entry) /\ ProbesOf(first) = IF skip THEN <<>> ELSE required
    BY ProbesOfFrom, ProbesOfEmpty, EmptySeq DEF RegistryTypeOK, Flags
  <1>4. Collect(with_groups, skip) = first \o FlattenSeq(groups)
    BY DEF Collect, From
  <1>5. groups \in Seq(Seq(Entry)) /\ DOMAIN groups = DOMAIN with_groups
        /\ \A i \in DOMAIN with_groups : ProbesOf(groups[i]) = optional[with_groups[i]]
    <2> HIDE DEF group
    <2>1. groups \in [1..Len(with_groups) -> Seq(Entry)]
      BY <1>1, <1>2
    <2>2. DOMAIN groups = DOMAIN with_groups
          /\ \A i \in DOMAIN with_groups : ProbesOf(groups[i]) = optional[with_groups[i]]
      BY <1>1, <1>2
    <2> HIDE DEF groups
    <2> QED
      BY <1>1, <2>1, <2>2, FunctionSeq
  <1> HIDE DEF groups, first
  <1>6. [i \in DOMAIN groups |-> ProbesOf(groups[i])]
          = [i \in DOMAIN with_groups |-> optional[with_groups[i]]]
    BY <1>5
  <1>7. FlattenSeq(groups) \in Seq(Entry)
        /\ ProbesOf(FlattenSeq(groups)) = FlattenSeq([i \in DOMAIN groups |-> ProbesOf(groups[i])])
    BY <1>5, FlattenSeqType, ProbesOfFlatten
  <1>8. ProbesOf(first \o FlattenSeq(groups)) = ProbesOf(first) \o ProbesOf(FlattenSeq(groups))
    BY <1>3, <1>7, ProbesOfConcat
  <1> QED
    BY <1>3, <1>4, <1>6, <1>7, <1>8

(* A run collects its probes in the order they were registered: first the  *)
(* required ones, unless they are skipped, then those of each group asked  *)
(* for, group after group in the order of the request (_collect).          *)
THEOREM RegistrationOrder == LogSpec => []OrderMatchesLog
  <1>1. ASSUME LogInv PROVE OrderMatchesLog
    <2>1. RegistryTypeOK /\ required = AllRequired /\ \A g \in Groups : optional[g] = AllInGroup(g)
      BY <1>1 DEF LogInv, ContainersMatchLog
    <2>2. ASSUME NEW with_groups \in RunGroups, NEW skip \in BOOLEAN
          PROVE  ProbesOf(Collect(with_groups, skip)) =
                   (IF skip THEN <<>> ELSE AllRequired)
                     \o FlattenSeq([i \in DOMAIN with_groups |-> AllInGroup(with_groups[i])])
      <3>1. with_groups \in Seq(Groups)
        BY ProbirkaAssumption
      <3>2. \A i \in DOMAIN with_groups : with_groups[i] \in Groups
        BY <3>1, LenProperties, ElementOfSeq
      <3>3. [i \in DOMAIN with_groups |-> optional[with_groups[i]]]
              = [i \in DOMAIN with_groups |-> AllInGroup(with_groups[i])]
        BY <2>1, <3>2
      <3>4. ProbesOf(Collect(with_groups, skip)) =
              (IF skip THEN <<>> ELSE required)
                \o FlattenSeq([i \in DOMAIN with_groups |-> optional[with_groups[i]]])
        BY <2>1, <3>1, CollectInOrder
      <3> QED
        BY <2>1, <3>3, <3>4
    <2> QED
      BY <2>2 DEF OrderMatchesLog, ProbesOf
  <1> QED
    BY <1>1, LogInvariant, PTL

-----------------------------------------------------------------------------
(* What a run collects, counted.                                           *)

(* The parts of what is collected.                                         *)
RequiredPart(skip, V) == IF skip THEN 0 ELSE CountIn(From(required, None), V)
GroupPart(g, V) == CountIn(From(optional[g], group_allow_failure[g]), V)

LEMMA CollectCounts ==
  ASSUME RegistryTypeOK, NEW with_groups \in Seq(Groups), NEW skip \in BOOLEAN, NEW V
  PROVE  /\ Collect(with_groups, skip) \in Seq(Entry)
         /\ RequiredPart(skip, V) \in Nat
         /\ [i \in DOMAIN with_groups |-> GroupPart(with_groups[i], V)] \in Seq(Nat)
         /\ CountIn(Collect(with_groups, skip), V) =
              RequiredPart(skip, V)
                + Total([i \in DOMAIN with_groups |-> GroupPart(with_groups[i], V)])
  <1> DEFINE group(g) == From(optional[g], group_allow_failure[g])
             groups == [i \in DOMAIN with_groups |-> group(with_groups[i])]
             first == IF skip THEN <<>> ELSE From(required, None)
  <1>1. Len(with_groups) \in Nat /\ DOMAIN with_groups = 1..Len(with_groups)
        /\ \A i \in 1..Len(with_groups) : with_groups[i] \in Groups
    BY LenProperties, ElementOfSeq
  <1>2. ASSUME NEW probes \in Seq(Probes), NEW flag \in Flags
        PROVE  From(probes, flag) \in Seq(Entry)
    <2>1. Len(probes) \in Nat /\ DOMAIN probes = 1..Len(probes)
          /\ \A i \in 1..Len(probes) : probes[i] \in Probes
      BY LenProperties, ElementOfSeq
    <2>2. From(probes, flag) \in [1..Len(probes) -> Entry]
      BY <2>1 DEF From, Entry
    <2> QED
      BY <2>1, <2>2, FunctionSeq
  <1>3. \A g \in Groups : group(g) \in Seq(Entry)
    BY <1>2 DEF RegistryTypeOK
  <1>4. first \in Seq(Entry)
    BY <1>2, EmptySeq DEF RegistryTypeOK, Flags
  <1>5. Collect(with_groups, skip) = first \o FlattenSeq(groups)
    BY DEF Collect, From
  <1>6. groups \in Seq(Seq(Entry)) /\ DOMAIN groups = DOMAIN with_groups
    <2> HIDE DEF group
    <2>1. groups \in [1..Len(with_groups) -> Seq(Entry)]
      BY <1>1, <1>3
    <2>2. DOMAIN groups = DOMAIN with_groups
      OBVIOUS
    <2> HIDE DEF groups
    <2> QED
      BY <1>1, <2>1, <2>2, FunctionSeq
  <1>7. \A i \in DOMAIN with_groups : CountIn(groups[i], V) = GroupPart(with_groups[i], V)
    BY DEF GroupPart
  <1>8. CountIn(first, V) = RequiredPart(skip, V)
    BY CountInEmpty DEF RequiredPart
  <1> HIDE DEF groups, first
  <1>9. [i \in DOMAIN groups |-> CountIn(groups[i], V)]
          = [i \in DOMAIN with_groups |-> GroupPart(with_groups[i], V)]
    BY <1>6, <1>7
  <1>10. /\ [i \in DOMAIN groups |-> CountIn(groups[i], V)] \in Seq(Nat)
         /\ CountIn(FlattenSeq(groups), V) = Total([i \in DOMAIN groups |-> CountIn(groups[i], V)])
         /\ FlattenSeq(groups) \in Seq(Entry)
    BY <1>6, CountOfFlatten, FlattenSeqType
  <1>11. /\ CountIn(first \o FlattenSeq(groups), V) = CountIn(first, V) + CountIn(FlattenSeq(groups), V)
         /\ first \o FlattenSeq(groups) \in Seq(Entry)
         /\ CountIn(first, V) \in Nat
    BY <1>4, <1>10, CountInConcat, CountInType, ConcatProperties
  <1> QED
    BY <1>5, <1>8, <1>9, <1>10, <1>11

(* The log tells how often a probe is in each container.                   *)
LEMMA LoggedCounts ==
  ASSUME LogInv, NEW p \in Probes
  PROVE  /\ Count(required, p) = LoggedRequired(p)
         /\ \A g \in Groups : Count(optional[g], p) = LoggedIn(g, p)
  <1>1. /\ RegistryTypeOK /\ log \in Seq(LogRecord)
        /\ required = FlattenSeq(ReqOf(log))
        /\ \A g \in Groups : optional[g] = FlattenSeq(InGroupOf(log, g))
    BY LogInvIs
  <1>2. /\ \A n \in DOMAIN log : log[n] \in LogRecord
        /\ \A n \in DOMAIN log : log[n].probes \in Seq(Probes)
    <2>1. \A n \in DOMAIN log : log[n] \in LogRecord
      BY <1>1, LenProperties, ElementOfSeq
    <2>2. \A entry \in LogRecord : entry.probes \in Seq(Probes)
      BY DEF LogRecord
    <2> QED
      BY <2>1, <2>2
  <1>3. Count(required, p) = LoggedRequired(p)
    <2>1. ReqOf(log) \in Seq(Seq(Probes))
      <3>1. Len(log) \in Nat /\ DOMAIN log = 1..Len(log)
        BY <1>1, LenProperties
      <3>2. ReqOf(log) \in [1..Len(log) -> Seq(Probes)]
        BY <1>2, <3>1, EntryPuts DEF ReqOf
      <3> QED
        BY <3>1, <3>2, FunctionSeq
    <2>2. CountIn(FlattenSeq(ReqOf(log)), {p})
            = Total([n \in DOMAIN ReqOf(log) |-> CountIn(ReqOf(log)[n], {p})])
      BY <2>1, CountOfFlatten
    <2>3. DOMAIN ReqOf(log) = DOMAIN log
      BY DEF ReqOf
    <2>4. ASSUME NEW n \in DOMAIN log
          PROVE  CountIn(ReqOf(log)[n], {p}) =
                   IF log[n].names = <<>> THEN Count(log[n].probes, p) ELSE 0
      <3>1. Count(log[n].probes, p) = CountIn(log[n].probes, {p})
        BY <1>2, CountType
      <3>2. ReqOf(log)[n] = Req(log[n])
        BY DEF ReqOf
      <3> QED
        BY <3>1, <3>2, CountInEmpty DEF Req
    <2>5. [n \in DOMAIN ReqOf(log) |-> CountIn(ReqOf(log)[n], {p})]
            = [n \in DOMAIN log |-> IF log[n].names = <<>> THEN Count(log[n].probes, p) ELSE 0]
      BY <2>3, <2>4
    <2>6. Count(required, p) = CountIn(required, {p})
      BY <1>1, CountType DEF RegistryTypeOK
    <2> QED
      BY <1>1, <2>2, <2>5, <2>6 DEF LoggedRequired
  <1>4. ASSUME NEW g \in Groups PROVE Count(optional[g], p) = LoggedIn(g, p)
    <2>1. InGroupOf(log, g) \in Seq(Seq(Probes))
      <3>1. Len(log) \in Nat /\ DOMAIN log = 1..Len(log)
        BY <1>1, LenProperties
      <3>2. InGroupOf(log, g) \in [1..Len(log) -> Seq(Probes)]
        BY <1>2, <3>1, EntryPuts DEF InGroupOf
      <3> QED
        BY <3>1, <3>2, FunctionSeq
    <2>2. CountIn(FlattenSeq(InGroupOf(log, g)), {p})
            = Total([n \in DOMAIN InGroupOf(log, g) |-> CountIn(InGroupOf(log, g)[n], {p})])
      BY <2>1, CountOfFlatten
    <2>3. DOMAIN InGroupOf(log, g) = DOMAIN log
      BY DEF InGroupOf
    <2>4. ASSUME NEW n \in DOMAIN log
          PROVE  CountIn(InGroupOf(log, g)[n], {p}) =
                   Count(log[n].names, g) * Count(log[n].probes, p)
      <3> DEFINE k == Count(log[n].names, g)
                 c == Count(log[n].probes, p)
                 copies == [i \in 1..k |-> log[n].probes]
      <3>1. c = CountIn(log[n].probes, {p}) /\ c \in Nat
        BY <1>2, CountType
      <3>2. k \in Nat /\ copies \in Seq(Seq(Probes))
        BY <1>2, EntryPuts
      <3>3. InGroupOf(log, g)[n] = FlattenSeq(copies)
        BY DEF InGroupOf, InGroup
      <3>4. DOMAIN copies = 1..k /\ \A i \in 1..k : copies[i] = log[n].probes
        OBVIOUS
      <3> HIDE DEF k, c, copies
      <3>5. CountIn(FlattenSeq(copies), {p}) = Total([i \in DOMAIN copies |-> CountIn(copies[i], {p})])
        BY <3>2, CountOfFlatten
      <3>6. [i \in DOMAIN copies |-> CountIn(copies[i], {p})] = [i \in 1..k |-> c]
        BY <3>1, <3>4
      <3>7. Total([i \in 1..k |-> c]) = k * c
        BY <3>1, <3>2, TotalOfEqual
      <3> QED
        BY <3>3, <3>5, <3>6, <3>7 DEF k, c
    <2>5. [n \in DOMAIN InGroupOf(log, g) |-> CountIn(InGroupOf(log, g)[n], {p})]
            = [n \in DOMAIN log |-> Count(log[n].names, g) * Count(log[n].probes, p)]
      BY <2>3, <2>4
    <2>6. Count(optional[g], p) = CountIn(optional[g], {p})
      BY <1>1, CountType DEF RegistryTypeOK
    <2> QED
      BY <1>1, <2>2, <2>5, <2>6 DEF LoggedIn
  <1> QED
    BY <1>3, <1>4

(* A source that is not strict, and only such a one, lets the probe fail.  *)
LEMMA LenientIs ==
  ASSUME NEW own \in BOOLEAN, NEW flag \in Flags
  PROVE  (IF flag = None THEN own ELSE flag) <=> ~Strict(own, flag)
  BY ProbeAssumption DEF Strict, Flags

(* The sources of p among what is collected, and their parts of it.        *)
LEMMA CollectedSources ==
  ASSUME RegistryTypeOK, NEW with_groups \in Seq(Groups), NEW skip \in BOOLEAN,
         NEW p \in Probes, NEW flag
  PROVE  flag \in Sources(Collect(with_groups, skip), p) <=>
           \/ ~skip /\ flag = None /\ Count(required, p) > 0
           \/ \E i \in DOMAIN with_groups :
                 /\ flag = group_allow_failure[with_groups[i]]
                 /\ Count(optional[with_groups[i]], p) > 0
  <1> DEFINE entries == Collect(with_groups, skip)
             V == OfSource(p, flag)
             parts == [i \in DOMAIN with_groups |-> GroupPart(with_groups[i], V)]
  <1>1. /\ entries \in Seq(Entry) /\ RequiredPart(skip, V) \in Nat /\ parts \in Seq(Nat)
        /\ CountIn(entries, V) = RequiredPart(skip, V) + Total(parts)
    BY CollectCounts
  <1>2. RequiredPart(skip, V) > 0 <=> ~skip /\ flag = None /\ Count(required, p) > 0
    <2>1. CountIn(From(required, None), V) = IF None = flag THEN Count(required, p) ELSE 0
      BY FromCounts DEF RegistryTypeOK, Flags
    <2> HIDE DEF V
    <2> QED
      BY <2>1 DEF RequiredPart
  <1>3. ASSUME NEW i \in DOMAIN with_groups
        PROVE  parts[i] > 0 <=> /\ flag = group_allow_failure[with_groups[i]]
                                /\ Count(optional[with_groups[i]], p) > 0
    <2>1. with_groups[i] \in Groups
      BY LenProperties, ElementOfSeq
    <2>2. CountIn(From(optional[with_groups[i]], group_allow_failure[with_groups[i]]), V) =
            IF group_allow_failure[with_groups[i]] = flag
            THEN Count(optional[with_groups[i]], p) ELSE 0
      BY <2>1, FromCounts DEF RegistryTypeOK
    <2> HIDE DEF V
    <2> QED
      BY <2>2 DEF GroupPart
  <1>4. DOMAIN parts = DOMAIN with_groups
    OBVIOUS
  <1>5. flag \in Sources(entries, p) <=> \E j \in DOMAIN entries : entries[j] \in V
    <2>1. \A j \in DOMAIN entries : entries[j] \in Entry
      BY <1>1, LenProperties, ElementOfSeq
    <2> HIDE DEF entries
    <2> QED
      BY <2>1 DEF Sources, OfSource
  <1> HIDE DEF entries, V, parts
  <1>6. CountIn(entries, V) > 0 <=> \E j \in DOMAIN entries : entries[j] \in V
    BY <1>1, CountInType
  <1>7. Total(parts) > 0 <=> \E i \in DOMAIN parts : parts[i] > 0
    BY <1>1, TotalPositive
  <1>8. Total(parts) \in Nat
    BY <1>1, TotalType
  <1>9. CountIn(entries, V) > 0 <=> RequiredPart(skip, V) > 0 \/ Total(parts) > 0
    BY <1>1, <1>8
  <1> QED
    BY <1>2, <1>3, <1>4, <1>5, <1>6, <1>7, <1>9 DEF entries

(* A run collects a probe as often as it was registered in the sources of  *)
(* the run, and lets it fail only if none of them is strict (add_probes,   *)
(* docs).                                                                  *)
THEOREM CollectionFollowsTheCalls == LogSpec => []CollectMatchesLog
  <1> SUFFICES ASSUME LogInv PROVE CollectMatchesLog
    BY LogInvariant, PTL
  <1> SUFFICES ASSUME NEW with_groups \in RunGroups, NEW skip \in BOOLEAN, NEW p \in Probes
               PROVE  LET entries == Collect(with_groups, skip)
                          groups == DOMAIN with_groups
                          asRequired == IF skip THEN 0 ELSE LoggedRequired(p)
                          through == [i \in groups |-> LoggedIn(with_groups[i], p)]
                          times == asRequired + Total(through)
                      IN  /\ Cardinality({i \in DOMAIN entries : entries[i].probe = p}) = times
                          /\ times > 0 =>
                               \A own \in BOOLEAN :
                                 EffectiveAllowFailure(own, Sources(entries, p))
                                   <=> /\ asRequired > 0 => ~Strict(own, None)
                                       /\ \A i \in groups : through[i] > 0
                                            => ~Strict(own, LoggedFlag(with_groups[i]))
    BY DEF CollectMatchesLog
  <1> DEFINE entries == Collect(with_groups, skip)
             asRequired == IF skip THEN 0 ELSE LoggedRequired(p)
             through == [i \in DOMAIN with_groups |-> LoggedIn(with_groups[i], p)]
             V == OfProbe(p)
             parts == [i \in DOMAIN with_groups |-> GroupPart(with_groups[i], V)]
  <1>1. with_groups \in Seq(Groups) /\ RegistryTypeOK
    BY ProbirkaAssumption DEF LogInv
  <1>2. \A i \in DOMAIN with_groups : with_groups[i] \in Groups
    BY <1>1, LenProperties, ElementOfSeq
  <1>3. /\ Count(required, p) = LoggedRequired(p)
        /\ \A g \in Groups : Count(optional[g], p) = LoggedIn(g, p)
        /\ \A g \in Groups : group_allow_failure[g] = LoggedFlag(g)
    BY LoggedCounts DEF LogInv
  <1>4. Cardinality({i \in DOMAIN entries : entries[i].probe = p}) = asRequired + Total(through)
    <2>1. entries \in Seq(Entry) /\ CountIn(entries, V) = RequiredPart(skip, V) + Total(parts)
      BY <1>1, CollectCounts
    <2>2. RequiredPart(skip, V) = asRequired
      <3>1. CountIn(From(required, None), V) = Count(required, p)
        BY <1>1, FromCounts DEF RegistryTypeOK, Flags
      <3> QED
        BY <1>3, <3>1 DEF RequiredPart
    <2>3. parts = through
      <3>1. ASSUME NEW i \in DOMAIN with_groups
            PROVE  GroupPart(with_groups[i], V) = LoggedIn(with_groups[i], p)
        <4>1. CountIn(From(optional[with_groups[i]], group_allow_failure[with_groups[i]]), V)
                = Count(optional[with_groups[i]], p)
          BY <1>1, <1>2, FromCounts DEF RegistryTypeOK
        <4> QED
          BY <1>2, <1>3, <4>1 DEF GroupPart
      <3> QED
        BY <3>1
    <2>4. {i \in DOMAIN entries : entries[i].probe = p} = {i \in DOMAIN entries : entries[i] \in V}
      <3>1. \A i \in DOMAIN entries : entries[i] \in Entry
        BY <2>1, LenProperties, ElementOfSeq
      <3> HIDE DEF entries
      <3> QED
        BY <3>1 DEF OfProbe
    <2> HIDE DEF entries, V, parts, through, asRequired
    <2> QED
      BY <2>1, <2>2, <2>3, <2>4 DEF CountIn
  <1>5. ASSUME NEW own \in BOOLEAN
        PROVE  EffectiveAllowFailure(own, Sources(entries, p))
                 <=> /\ asRequired > 0 => ~Strict(own, None)
                     /\ \A i \in DOMAIN with_groups : through[i] > 0
                          => ~Strict(own, LoggedFlag(with_groups[i]))
    <2>1. \A flag : flag \in Sources(entries, p) <=>
             \/ ~skip /\ flag = None /\ LoggedRequired(p) > 0
             \/ \E i \in DOMAIN with_groups :
                   flag = LoggedFlag(with_groups[i]) /\ LoggedIn(with_groups[i], p) > 0
      BY <1>1, <1>2, <1>3, CollectedSources
    <2>2. None \in Flags /\ \A i \in DOMAIN with_groups : LoggedFlag(with_groups[i]) \in Flags
      BY <1>1, <1>2, <1>3 DEF RegistryTypeOK, Flags
    <2>3. /\ own <=> ~Strict(own, None)
          /\ \A i \in DOMAIN with_groups :
                (IF LoggedFlag(with_groups[i]) = None THEN own ELSE LoggedFlag(with_groups[i]))
                  <=> ~Strict(own, LoggedFlag(with_groups[i]))
      BY <2>2, LenientIs
    <2>4. asRequired > 0 <=> ~skip /\ LoggedRequired(p) > 0
      OBVIOUS
    <2>5. \A i \in DOMAIN with_groups : through[i] = LoggedIn(with_groups[i], p)
      OBVIOUS
    <2> HIDE DEF entries, asRequired, through
    <2> DEFINE lets(flag) == IF flag = None THEN own ELSE flag
    <2>6. EffectiveAllowFailure(own, Sources(entries, p))
            <=> \A flag \in Sources(entries, p) : lets(flag)
      BY DEF EffectiveAllowFailure
    <2>7. /\ lets(None) <=> ~Strict(own, None)
          /\ \A i \in DOMAIN with_groups :
                lets(LoggedFlag(with_groups[i])) <=> ~Strict(own, LoggedFlag(with_groups[i]))
      BY <2>3
    <2> HIDE DEF lets
    <2>8. (\A flag \in Sources(entries, p) : lets(flag)) <=>
             /\ ~skip /\ LoggedRequired(p) > 0 => lets(None)
             /\ \A i \in DOMAIN with_groups :
                   LoggedIn(with_groups[i], p) > 0 => lets(LoggedFlag(with_groups[i]))
      BY <2>1, Zenon
    <2> QED
      BY <2>4, <2>5, <2>6, <2>7, <2>8
  <1> QED
    BY <1>4, <1>5
=============================================================================
