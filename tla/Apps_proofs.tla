------------------------------- MODULE Apps_proofs -------------------------------
(***************************************************************************)
(* Proofs about Apps: for every time limit of a rollout, and all tests     *)
(* whose cleanups name what they install; the proofs about readiness and   *)
(* mounts, if also their applications take nothing from each other.        *)
(***************************************************************************)
EXTENDS Apps, SequenceTheorems, TLAPS

Types ==
  /\ scenario \in Scenarios
  /\ at \in Nat /\ at <= Len(scenario.subs)
  /\ phase \in Phases
  /\ app \in Nat \ {0} /\ pc \in Nat \ {0}
  /\ used \in Nat /\ used <= Cap
  /\ gaveUp \in BOOLEAN /\ dirty \in BOOLEAN

PodsInv == \A p \in pods : p.of.kind \in {"Deployment", "Job"}

\* A test that gave up a rollout does not wait for another one.
GivenUp == GivesUpOnTime /\ (gaveUp => phase \in {"uninstall", "over"})

\* What the cleanup's commands before number j of application i remove is gone.
GoneBefore(i, j) ==
  \A o \in cluster : LeftByDesign(o) \/
    \A k \in DOMAIN test.cleanup : \A l \in DOMAIN test.cleanup[k].uninstall :
      k < i \/ (k = i /\ l < j) => ~Removes(test.cleanup[k].uninstall[l], o)

CleanedUp ==
  /\ phase = "uninstall" => GoneBefore(app, pc)
  /\ phase = "over" /\ ~dirty => GoneBefore(Len(test.cleanup) + 1, 1)

IInv == Types /\ PodsInv /\ GivenUp /\ CleanedUp

------------------------------------------------------------------------------
(* A sequence has its positions. *)
LEMMA SequencePositions ==
  ASSUME NEW s, Sequence(s)
  PROVE  Len(s) \in Nat /\ DOMAIN s = 1..Len(s)
BY DEF Sequence

(* The test that runs is one of the scenarios'. *)
LEMMA TestRuns ==
  ASSUME Types
  PROVE  test \in AllTests
<1>1. test \in TestsOf(scenario)
  <2>1. CASE at = 0
    BY <2>1 DEF test, TestsOf
  <2>2. CASE at # 0
    <3>1. Len(scenario.subs) \in Nat /\ DOMAIN scenario.subs = 1..Len(scenario.subs)
      BY TestsAssumption, SequencePositions DEF Types
    <3>2. at \in DOMAIN scenario.subs
      BY <2>2, <3>1 DEF Types
    <3> QED
      BY <2>2, <3>2 DEF test, TestsOf
  <2> QED
    BY <2>1, <2>2
<1> QED
  BY <1>1 DEF AllTests, Types

(* What the cleanups of all tests are made of. *)
LEMMA CleanupCommand ==
  ASSUME Types, phase = "uninstall", Running
  PROVE  /\ app \in DOMAIN test.cleanup /\ pc \in DOMAIN test.cleanup[app].uninstall
         /\ command = test.cleanup[app].uninstall[pc]
         /\ command.do # "rollout"
         /\ command.do \in {"apply", "create"} => \A o \in command.objs : LeftByDesign(o)
<1>1. apps = test.cleanup
  BY DEF apps
<1>2. test \in AllTests
  BY TestRuns
<1>3. Sequence(test.cleanup)
  BY <1>2, TestsAssumption
<1>4. app \in DOMAIN test.cleanup
  <2>1. Len(test.cleanup) \in Nat /\ DOMAIN test.cleanup = 1..Len(test.cleanup)
    BY <1>3, SequencePositions
  <2> QED
    BY <1>1, <2>1 DEF Running, Types
<1>5. Sequence(test.cleanup[app].uninstall)
  BY <1>2, <1>4, TestsAssumption
<1>6. pc \in DOMAIN test.cleanup[app].uninstall
  <2> DEFINE program == test.cleanup[app].uninstall
  <2>1. Len(program) \in Nat /\ DOMAIN program = 1..Len(program)
    BY <1>5, SequencePositions
  <2>2. pc <= Len(program)
    BY <1>1 DEF Running
  <2> QED
    BY <2>1, <2>2 DEF Types
<1>7. command = test.cleanup[app].uninstall[pc]
  BY <1>1 DEF command
<1>8. command \in CommandsOf(test.cleanup[app], "uninstall")
  BY <1>6, <1>7 DEF CommandsOf
<1> QED
  BY <1>2, <1>4, <1>6, <1>7, <1>8, TestsAssumption

(* Division leaves less than the divisor. *)
LEMMA Division ==
  ASSUME NEW n \in Nat, NEW d \in Nat \ {0}
  PROVE  /\ n \div d \in Nat /\ d * (n \div d) \in Nat
         /\ d * (n \div d) <= n /\ n < d * (n \div d) + d
<1>1. n \div d \in Int
  BY SMT
<1>2. n = d * (n \div d) + (n % d) /\ n % d \in 0..(d - 1)
  BY SMT
<1> QED
  BY <1>1, <1>2, SMT

(* Time is rounded to a whole number of seconds that is the nearest to it. *)
LEMMA RoundedToNearest ==
  ASSUME NEW x \in Nat
  PROVE  /\ Rounded(x) \in Nat /\ Second * Rounded(x) \in Nat
         /\ 2 * (Second * Rounded(x)) >= 2 * x - Second
         /\ 2 * (Second * Rounded(x)) <= 2 * x + Second
<1> DEFINE h == Second \div 2
           q == (x + h) \div Second
<1>1. Second \in Nat \ {0, 1}
  BY AppsAssumption
<1>2. h \in Nat /\ 2 * h <= Second /\ 2 * h >= Second - 1
  BY <1>1
<1>3. q \in Nat /\ Second * q \in Nat /\ Second * q <= x + h /\ x + h < Second * q + Second
  BY <1>1, <1>2, Division
<1>4. Rounded(x) = q
  BY DEF Rounded
<1> HIDE DEF h, q
<1> QED
  BY <1>1, <1>2, <1>3, <1>4

(* The time used is counted up to its cap. *)
LEMMA TimeIsCapped ==
  ASSUME NEW t \in Nat
  PROVE  Capped(t) \in Nat /\ Capped(t) <= Cap /\ (t <= Cap => Capped(t) = t)
BY AppsAssumption DEF Capped, Cap

(* Commands and applications of a cleanup are numbered from 1. *)
LEMMA NumberedFromOne ==
  ASSUME NEW t \in AllTests
  PROVE  /\ Len(t.cleanup) \in Nat
         /\ DOMAIN t.cleanup = 1..Len(t.cleanup)
         /\ \A k \in DOMAIN t.cleanup :
              /\ Len(t.cleanup[k].uninstall) \in Nat
              /\ DOMAIN t.cleanup[k].uninstall = 1..Len(t.cleanup[k].uninstall)
<1>1. Sequence(t.cleanup) /\ \A k \in DOMAIN t.cleanup : Sequence(t.cleanup[k].uninstall)
  BY TestsAssumption
<1>2. Len(t.cleanup) \in Nat /\ DOMAIN t.cleanup = 1..Len(t.cleanup)
  BY <1>1, SequencePositions
<1>3. ASSUME NEW k \in DOMAIN t.cleanup
      PROVE  /\ Len(t.cleanup[k].uninstall) \in Nat
             /\ DOMAIN t.cleanup[k].uninstall = 1..Len(t.cleanup[k].uninstall)
  BY <1>1, SequencePositions
<1> QED
  BY <1>2, <1>3

(* A cleanup that begins has nothing to have removed. *)
LEMMA NothingBeforeFirst ==
  ASSUME NEW t \in AllTests
  PROVE  \A k \in DOMAIN t.cleanup : \A l \in DOMAIN t.cleanup[k].uninstall :
           ~(k < 1 \/ (k = 1 /\ l < 1))
<1> SUFFICES ASSUME NEW k \in DOMAIN t.cleanup, NEW l \in DOMAIN t.cleanup[k].uninstall
             PROVE  ~(k < 1 \/ (k = 1 /\ l < 1))
  OBVIOUS
<1>1. k \in Nat /\ 1 <= k
  BY NumberedFromOne
<1>2. l \in Nat /\ 1 <= l
  BY NumberedFromOne
<1> QED
  BY <1>1, <1>2

------------------------------------------------------------------------------
(* The invariant holds in the initial states. *)
LEMMA InitialStates ==
  ASSUME Init
  PROVE  IInv
<1>1. Len(scenario.subs) \in Nat
  BY TestsAssumption, SequencePositions DEF Init
<1>2. Types
  <2>1. scenario \in Scenarios /\ at = 0 /\ phase = "install" /\ app = 1 /\ pc = 1
        /\ used = 0 /\ gaveUp = FALSE /\ dirty = FALSE
    BY DEF Init
  <2>2. 0 <= Len(scenario.subs)
    BY <1>1
  <2>3. 0 <= Cap
    BY AppsAssumption DEF Cap
  <2>4. at \in Nat /\ at <= Len(scenario.subs) /\ used \in Nat /\ used <= Cap
    BY <2>1, <2>2, <2>3
  <2>5. app \in Nat \ {0} /\ pc \in Nat \ {0} /\ phase \in Phases
    BY <2>1 DEF Phases
  <2>6. gaveUp \in BOOLEAN /\ dirty \in BOOLEAN
    BY <2>1
  <2> QED
    BY <2>1, <2>4, <2>5, <2>6 DEF Types
<1>3. PodsInv /\ GivenUp /\ CleanedUp
  BY DEF Init, PodsInv, GivenUp, GivesUpOnTime, CleanedUp
<1> QED
  BY <1>2, <1>3 DEF IInv

(* A command that works in a cleanup, and leaves nothing of what it removes. *)
LEMMA CommandDone ==
  ASSUME IInv, phase = "uninstall", Running, Advance,
         \A o \in cluster' : LeftByDesign(o) \/ (o \in cluster /\ ~Removes(command, o))
  PROVE  GoneBefore(app, pc)'
<1>1. test' = test /\ app' = app /\ pc' = pc + 1
  BY DEF Advance, test
<1>2. GoneBefore(app, pc)
  BY DEF IInv, CleanedUp
<1>3. command = test.cleanup[app].uninstall[pc] /\ pc \in Nat
  BY CleanupCommand DEF IInv, Types
<1> SUFFICES ASSUME NEW o \in cluster', ~LeftByDesign(o),
                    NEW k \in DOMAIN test.cleanup, NEW l \in DOMAIN test.cleanup[k].uninstall,
                    k < app \/ (k = app /\ l < pc + 1)
             PROVE  ~Removes(test.cleanup[k].uninstall[l], o)
  BY <1>1 DEF GoneBefore
<1>4. o \in cluster /\ ~Removes(command, o)
  OBVIOUS
<1>5. CASE k < app \/ (k = app /\ l < pc)
  BY <1>2, <1>4, <1>5 DEF GoneBefore
<1>6. CASE k = app /\ l = pc
  BY <1>3, <1>4, <1>6
<1>7. l \in Nat
  <2>1. test \in AllTests
    BY TestRuns DEF IInv
  <2>2. DOMAIN test.cleanup[k].uninstall = 1..Len(test.cleanup[k].uninstall)
        /\ Len(test.cleanup[k].uninstall) \in Nat
    BY <2>1, NumberedFromOne
  <2> QED
    BY <2>2
<1>8. l < pc + 1 => l < pc \/ l = pc
  BY <1>3, <1>7
<1> QED
  BY <1>5, <1>6, <1>8

(* A command that works. *)
LEMMA AdvanceKeeps ==
  ASSUME IInv, Running, Advance, used' \in Nat, used' <= Cap,
         phase = "uninstall" => used' = used, PodsInv',
         phase = "uninstall" =>
           \A o \in cluster' : LeftByDesign(o) \/ (o \in cluster /\ ~Removes(command, o))
  PROVE  IInv'
<1>1. Types'
  BY DEF IInv, Types, Advance, Cap, history
<1>2. GivenUp'
  BY DEF IInv, GivenUp, GivesUpOnTime, Running, Advance, history
<1>3. CleanedUp'
  BY CommandDone DEF CleanedUp, Advance, Running
<1> QED
  BY <1>1, <1>2, <1>3 DEF IInv

(* A command that fails: the cleanup begins, if it has not, or is cut short. *)
LEMMA FailKeeps ==
  ASSUME IInv, Running, Fail, used' \in Nat, used' <= Cap, gaveUp' \in BOOLEAN,
         GivesUpOnTime', PodsInv'
  PROVE  IInv'
<1>1. Types'
  BY DEF IInv, Types, Fail, Phases, Cap
<1>2. GivenUp'
  BY DEF GivenUp, Fail
<1>3. test' = test /\ test \in AllTests
  BY TestRuns DEF IInv, Fail, test
<1>4. phase' = "uninstall" => GoneBefore(app, pc)'
  BY <1>3, NothingBeforeFirst DEF Fail, GoneBefore
<1>5. phase' = "over" => dirty'
  BY DEF Fail
<1> QED
  BY <1>1, <1>2, <1>4, <1>5 DEF IInv, CleanedUp

(* What fails without a rollout uses no time. *)
LEMMA BreaksKeeps ==
  ASSUME IInv, Running, Breaks, PodsInv'
  PROVE  IInv'
BY FailKeeps DEF Breaks, IInv, Types, GivenUp, GivesUpOnTime

(* What works without a rollout uses no time. *)
LEMMA WorksKeeps ==
  ASSUME IInv, Running, Works, PodsInv',
         phase = "uninstall" =>
           \A o \in cluster' : LeftByDesign(o) \/ (o \in cluster /\ ~Removes(command, o))
  PROVE  IInv'
BY AdvanceKeeps DEF Works, IInv, Types

(* Applying and creating. *)
LEMMA ApplyKeeps ==
  ASSUME IInv, Apply \/ Create
  PROVE  IInv'
<1>1. Running /\ command.do \in {"apply", "create"} /\ pods' = pods
  BY DEF Apply, Create
<1>2. PodsInv'
  BY <1>1 DEF IInv, PodsInv
<1>3. CASE Breaks
  BY <1>1, <1>2, <1>3, BreaksKeeps
<1>4. CASE Works
  <2>1. cluster' \subseteq cluster \cup command.objs
    <3>1. CASE cluster' = Without(cluster, command.objs) \cup command.objs
      BY <3>1 DEF Without
    <3>2. CASE ~(cluster' = Without(cluster, command.objs) \cup command.objs)
      <4>1. ~Breaks
        BY <1>1, <1>4 DEF Works, Advance, Breaks, Fail, Running
      <4> QED
        BY <3>2, <4>1 DEF Apply, Create
    <3> QED
      BY <3>1, <3>2
  <2>2. \A o : ~Removes(command, o)
    BY <1>1 DEF Removes
  <2>3. phase = "uninstall" => \A o \in command.objs : LeftByDesign(o)
    BY <1>1, CleanupCommand DEF IInv
  <2> QED
    BY <1>1, <1>2, <1>4, <2>1, <2>2, <2>3, WorksKeeps
<1> QED
  BY <1>3, <1>4 DEF Apply, Create

(* Deleting objects, or a namespace with all that is in it. *)
LEMMA DeleteKeeps ==
  ASSUME IInv, Delete \/ DeleteNs
  PROVE  IInv'
<1>1. PodsInv'
  BY DEF Delete, DeleteNs, PodsWithout, IInv, PodsInv
<1>2. ASSUME Delete
      PROVE  IInv'
  <2>1. Running /\ command.do = "delete"
    BY <1>2 DEF Delete
  <2>2. CASE Breaks
    BY <1>1, <2>1, <2>2, BreaksKeeps
  <2>3. CASE cluster' = Without(cluster, command.objs) /\ Works
    <3>1. \A o \in cluster' : o \in cluster /\ Key(o) \notin Keys(command.objs)
      BY <2>3 DEF Without
    <3>2. \A o \in cluster' : o \in cluster /\ ~Removes(command, o)
      BY <2>1, <3>1 DEF Removes
    <3> QED
      BY <1>1, <2>1, <2>3, <3>2, WorksKeeps
  <2> QED
    BY <1>2, <2>2, <2>3 DEF Delete
<1>3. ASSUME DeleteNs
      PROVE  IInv'
  <2>1. Running /\ command.do = "deleteNamespace"
    BY <1>3 DEF DeleteNs
  <2>2. CASE Breaks
    BY <1>1, <2>1, <2>2, BreaksKeeps
  <2>3. ASSUME NEW n \in command.objs, cluster' = cluster \ {o \in cluster : o.ns = n.name \/ o = n}, Works
        PROVE  IInv'
    <3>1. \A o \in cluster' : o \in cluster /\ ~Removes(command, o)
      BY <2>1, <2>3 DEF Removes
    <3> QED
      BY <1>1, <2>1, <2>3, <3>1, WorksKeeps
  <2> QED
    BY <1>3, <2>2, <2>3 DEF DeleteNs
<1> QED
  BY <1>2, <1>3

(* Asking and waiting. *)
LEMMA AskKeeps ==
  ASSUME IInv, AskCluster \/ WaitFor
  PROVE  IInv'
<1>1. Running /\ command.do \in {"ask", "waitFor"} /\ UNCHANGED <<cluster, pods>> /\ (Works \/ Breaks)
  BY DEF AskCluster, WaitFor
<1>2. PodsInv' /\ \A o : ~Removes(command, o)
  BY <1>1 DEF IInv, PodsInv, Removes
<1> QED
  BY <1>1, <1>2, WorksKeeps, BreaksKeeps

(* A rollout: what is left of its time was rounded, but it is given up on time. *)
LEMMA RolloutKeeps ==
  ASSUME IInv, RolloutComplete \/ RolloutTimesOut \/ RolloutFails
  PROVE  IInv'
<1>1. Running /\ command.do = "rollout" /\ UNCHANGED <<cluster, pods>>
  BY DEF RolloutComplete, RolloutTimesOut, RolloutFails
<1>2. PodsInv' /\ phase # "uninstall"
  BY <1>1, CleanupCommand DEF IInv, PodsInv
<1>3. usedUpTime \in Nat /\ Budget \in Nat
  BY AppsAssumption DEF usedUpTime, IInv, Types
<1>4. CASE RolloutComplete
  <2>1. PICK t \in 0..Cap : used' = Capped(usedUpTime + t)
    BY <1>4 DEF RolloutComplete, Took
  <2>2. usedUpTime + t \in Nat
    BY <1>3, <2>1 DEF Cap
  <2> QED
    BY <1>1, <1>2, <1>4, <2>1, <2>2, TimeIsCapped, AdvanceKeeps DEF RolloutComplete
<1>5. CASE RolloutTimesOut
  <2> DEFINE t == usedUpTime + Second * remainingTime
  <2>1. Budget - usedUpTime \in Nat
    <3>1. remainingTime # 0
      BY <1>5 DEF RolloutTimesOut
    <3> QED
      BY <1>3, <3>1 DEF remainingTime, Rounded
  <2>2. t \in Nat /\ 2 * t >= 2 * Budget - Second /\ 2 * t <= 2 * Budget + Second
    <3> DEFINE x == Budget - usedUpTime
               y == Second * Rounded(x)
    <3>1. y \in Nat /\ 2 * y >= 2 * x - Second /\ 2 * y <= 2 * x + Second
      BY <2>1, RoundedToNearest
    <3>2. t = usedUpTime + y /\ x = Budget - usedUpTime /\ Second \in Nat
      BY AppsAssumption DEF remainingTime
    <3> HIDE DEF t, x, y
    <3> QED
      BY <1>3, <3>1, <3>2
  <2>3. t <= Cap
    BY <1>3, <2>2, AppsAssumption DEF Cap
  <2>4. used' = t /\ gaveUp'
    BY <1>5, <2>2, <2>3, TimeIsCapped DEF RolloutTimesOut
  <2>5. used' \in Nat /\ used' <= Cap /\ GivesUpOnTime'
    BY <2>2, <2>3, <2>4 DEF GivesUpOnTime
  <2> QED
    BY <1>1, <1>2, <1>5, <2>5, FailKeeps DEF RolloutTimesOut
<1>6. CASE RolloutFails
  BY <1>1, <1>2, <1>6, BreaksKeeps DEF RolloutFails
<1> QED
  BY <1>4, <1>5, <1>6

(* From one method to the next. *)
LEMMA MethodsKeep ==
  ASSUME IInv, NextApp \/ InstallAndWaitReady \/ Uninstalled
  PROVE  IInv'
<1>1. /\ UNCHANGED <<scenario, cluster, pods, used, at, gaveUp>>
      /\ app' \in Nat \ {0} /\ pc' = 1 /\ test' = test
  BY DEF NextApp, InstallAndWaitReady, Uninstalled, Same, Goto, history, IInv, Types, test
<1>2. PodsInv'
  BY <1>1 DEF IInv, PodsInv
<1>3. test \in AllTests
  BY TestRuns DEF IInv
<1>4. /\ Len(test.cleanup) \in Nat /\ DOMAIN test.cleanup = 1..Len(test.cleanup)
      /\ \A k \in DOMAIN test.cleanup :
           /\ Len(test.cleanup[k].uninstall) \in Nat
           /\ DOMAIN test.cleanup[k].uninstall = 1..Len(test.cleanup[k].uninstall)
  BY <1>3, NumberedFromOne
<1>5. CASE NextApp
  <2>1. /\ UNCHANGED <<phase, dirty>> /\ app' = app + 1 /\ app \in Nat /\ pc \in Nat
        /\ app <= Len(apps) /\ pc > Len(apps[app][phase]) /\ phase # "over"
    BY <1>5 DEF NextApp, history, IInv, Types
  <2>2. Types' /\ GivenUp'
    BY <1>1, <2>1 DEF IInv, Types, GivenUp, GivesUpOnTime, Cap
  <2>3. ASSUME phase = "uninstall"
        PROVE  GoneBefore(app, pc)'
    <3>1. apps = test.cleanup /\ pc > Len(test.cleanup[app].uninstall)
      BY <2>1, <2>3 DEF apps
    <3>2. GoneBefore(app, pc)
      BY <2>3 DEF IInv, CleanedUp
    <3> SUFFICES ASSUME NEW o \in cluster, ~LeftByDesign(o),
                        NEW k \in DOMAIN test.cleanup, NEW l \in DOMAIN test.cleanup[k].uninstall,
                        k < app + 1 \/ (k = app + 1 /\ l < 1)
                 PROVE  ~Removes(test.cleanup[k].uninstall[l], o)
      BY <1>1, <2>1 DEF GoneBefore
    <3>3. k \in Nat /\ l \in Nat /\ 1 <= l /\ l <= Len(test.cleanup[k].uninstall)
      <4>1. k \in Nat
        BY <1>4
      <4>2. DOMAIN test.cleanup[k].uninstall = 1..Len(test.cleanup[k].uninstall)
            /\ Len(test.cleanup[k].uninstall) \in Nat
        BY <1>4
      <4> QED
        BY <4>1, <4>2
    <3>4. k < app \/ k = app
      BY <2>1, <3>3
    <3>5. k = app => l < pc
      <4> SUFFICES ASSUME k = app
                   PROVE  l < pc
        OBVIOUS
      <4>1. Len(test.cleanup[app].uninstall) \in Nat
        BY <1>4
      <4> QED
        BY <2>1, <3>1, <3>3, <4>1
    <3> QED
      BY <3>2, <3>4, <3>5 DEF GoneBefore
  <2> QED
    BY <1>2, <2>1, <2>2, <2>3 DEF IInv, CleanedUp
<1>6. CASE InstallAndWaitReady
  BY <1>1, <1>2, <1>6 DEF InstallAndWaitReady, Goto, history, IInv, Types, GivenUp, GivesUpOnTime, CleanedUp, Phases, Cap
<1>7. CASE Uninstalled
  <2>1. phase = "uninstall" /\ phase' = "over" /\ app > Len(apps) /\ ~dirty' /\ dirty' \in BOOLEAN
    BY <1>7 DEF Uninstalled, Goto
  <2>2. Types' /\ GivenUp'
    BY <1>1, <2>1 DEF IInv, Types, GivenUp, GivesUpOnTime, Phases, Cap
  <2>3. GoneBefore(app, pc) /\ app > Len(test.cleanup) /\ app \in Nat
    BY <2>1 DEF IInv, CleanedUp, Types, apps
  <2>4. GoneBefore(Len(test.cleanup) + 1, 1)'
    <3> SUFFICES ASSUME NEW o \in cluster, ~LeftByDesign(o),
                        NEW k \in DOMAIN test.cleanup, NEW l \in DOMAIN test.cleanup[k].uninstall
                 PROVE  ~Removes(test.cleanup[k].uninstall[l], o)
      BY <1>1 DEF GoneBefore
    <3>1. k < app
      BY <1>4, <2>3
    <3> QED
      BY <2>3, <3>1 DEF GoneBefore
  <2> QED
    BY <1>2, <2>1, <2>2, <2>4 DEF IInv, CleanedUp
<1> QED
  BY <1>5, <1>6, <1>7

(* From one test to the next; the cleanup of the outer test comes last. *)
LEMMA TestsKeep ==
  ASSUME IInv, BodyEnds \/ NextTest
  PROVE  IInv'
<1>1. UNCHANGED <<scenario, cluster, pods, used>> /\ app' = 1 /\ pc' = 1
  BY DEF BodyEnds, NextTest, Begin, Goto, Same
<1>2. /\ at' \in Nat /\ at' <= Len(scenario.subs)
      /\ \/ phase' = "install" /\ gaveUp' = FALSE /\ dirty' = FALSE
         \/ phase' = "uninstall" /\ UNCHANGED <<gaveUp, dirty>>
  <2>1. Len(scenario.subs) \in Nat /\ scenario.subs \in Seq({scenario.subs[i] : i \in DOMAIN scenario.subs})
    BY TestsAssumption, SequencePositions DEF IInv, Types, Sequence
  <2>2. scenario.subs # <<>> => 1 <= Len(scenario.subs)
    BY <2>1, EmptySeq
  <2>3. CASE BodyEnds
    BY <2>1, <2>2, <2>3 DEF BodyEnds, Begin, Goto, history, IInv, Types
  <2>4. CASE NextTest
    BY <2>1, <2>4 DEF NextTest, Begin, Goto, history, IInv, Types
  <2> QED
    BY <2>3, <2>4
<1>3. Types' /\ PodsInv'
  <2>1. phase' \in Phases /\ gaveUp' \in BOOLEAN /\ dirty' \in BOOLEAN
    BY <1>2 DEF IInv, Types, Phases
  <2>2. app' \in Nat \ {0} /\ pc' \in Nat \ {0}
    BY <1>1
  <2> QED
    BY <1>1, <1>2, <2>1, <2>2 DEF IInv, Types, PodsInv, Cap
<1>4. GivenUp'
  BY <1>1, <1>2 DEF IInv, GivenUp, GivesUpOnTime
<1>5. test' \in AllTests
  <2>1. test' \in TestsOf(scenario)
    <3>1. CASE at' = 0
      BY <1>1, <3>1 DEF test, TestsOf
    <3>2. CASE at' # 0
      <4>1. Len(scenario.subs) \in Nat /\ DOMAIN scenario.subs = 1..Len(scenario.subs)
        BY TestsAssumption, SequencePositions DEF IInv, Types
      <4>2. at' \in DOMAIN scenario.subs
        BY <1>2, <3>2, <4>1
      <4> QED
        BY <1>1, <3>2, <4>2 DEF test, TestsOf
    <3> QED
      BY <3>1, <3>2
  <2> QED
    BY <2>1 DEF AllTests, IInv, Types
<1>6. phase' = "uninstall" => GoneBefore(app, pc)'
  BY <1>1, <1>5, NothingBeforeFirst DEF GoneBefore
<1> QED
  BY <1>2, <1>3, <1>4, <1>6 DEF IInv, CleanedUp

(* Pods start. *)
LEMMA RollOutKeeps ==
  ASSUME IInv, RollOut
  PROVE  IInv'
<1>1. UNCHANGED <<scenario, at, phase, app, pc, cluster, used, gaveUp, dirty>> /\ test' = test
  BY DEF RollOut, position, history, test
<1>2. PodsInv'
  BY DEF RollOut, PodsWithout, Workloads, IInv, PodsInv
<1> QED
  BY <1>1, <1>2 DEF IInv, Types, GivenUp, GivesUpOnTime, CleanedUp, GoneBefore, Cap

(* Nothing changes when nothing is done. *)
LEMMA StutteringKeepsIt ==
  ASSUME IInv, UNCHANGED vars
  PROVE  IInv'
BY DEF vars, position, history, test, IInv, Types, PodsInv, GivenUp, GivesUpOnTime, CleanedUp, GoneBefore, Cap

(* The invariant holds throughout every behaviour. *)
THEOREM AppsInvariant == Spec => []IInv
<1>1. Init => IInv
  BY InitialStates
<1>2. IInv /\ [Next]_vars => IInv'
  BY ApplyKeeps, DeleteKeeps, AskKeeps, RolloutKeeps, MethodsKeep, TestsKeep, RollOutKeeps,
     StutteringKeepsIt DEF Next, Done
<1> QED
  BY <1>1, <1>2, PTL DEF Spec

------------------------------------------------------------------------------
(* A test with a cleanup that came to its end has left none of its objects. *)
LEMMA CleanedUpSuffices ==
  ASSUME IInv
  PROVE  CleanupLeavesNothing
<1> SUFFICES ASSUME phase = "over", ~dirty, test.cleanup # <<>>, NEW i \in DOMAIN test.apps,
                    NEW o \in Creates(test.apps[i]), ~LeftByDesign(o), Key(o) \in Keys(cluster)
             PROVE  FALSE
  BY DEF CleanupLeavesNothing
<1>1. GoneBefore(Len(test.cleanup) + 1, 1)
  BY DEF IInv, CleanedUp
<1>2. test \in AllTests
  BY TestRuns DEF IInv
<1>3. PICK j \in DOMAIN test.cleanup :
        \E c \in CommandsOf(test.cleanup[j], "uninstall") : Removes(c, o)
  BY <1>2, TestsAssumption
<1>4. PICK l \in DOMAIN test.cleanup[j].uninstall : Removes(test.cleanup[j].uninstall[l], o)
  BY <1>3 DEF CommandsOf
<1>5. PICK p \in cluster : Key(p) = Key(o)
  BY DEF Keys
<1>6. p.kind = o.kind /\ p.ns = o.ns /\ p.name = o.name
  BY <1>5 DEF Key
<1>7. ~LeftByDesign(p) /\ Removes(test.cleanup[j].uninstall[l], p)
  BY <1>4, <1>5, <1>6 DEF LeftByDesign, Removes
<1>8. j < Len(test.cleanup) + 1
  BY <1>2, NumberedFromOne
<1> QED
  BY <1>1, <1>7, <1>8 DEF GoneBefore

(***************************************************************************)
(* A cleanup that runs to its end removes all that its test's applications *)
(* may have created, wherever the installation stopped and whatever other  *)
(* tests left: for all tests whose cleanups name what they install.        *)
(***************************************************************************)
THEOREM CleanupsLeaveNothing == Spec => []CleanupLeavesNothing
<1>1. IInv => CleanupLeavesNothing
  BY CleanedUpSuffices
<1> QED
  BY <1>1, AppsInvariant, PTL

(* A rollout is given up at most half a second from the limit of the whole call,
   for every time limit, every number of ticks to the second, and every number of
   deployments that share the limit. *)
THEOREM GivenUpOnTime == Spec => []GivesUpOnTime
<1>1. IInv => GivesUpOnTime
  BY DEF IInv, GivenUp
<1> QED
  BY <1>1, AppsInvariant, PTL

(* The types of the state of Apps. *)
THEOREM AppsTypes == Spec => []TypeOK
<1>1. IInv => TypeOK
  <2> SUFFICES ASSUME IInv
               PROVE  TypeOK
    OBVIOUS
  <2>1. Len(scenario.subs) \in Nat
    BY TestsAssumption, SequencePositions DEF IInv, Types
  <2>2. at \in 0..Len(scenario.subs) /\ used \in 0..Cap
    BY <2>1, AppsAssumption DEF IInv, Types, Cap
  <2>3. \A p \in pods : p.of \in Workloads({p.of})
    BY DEF IInv, PodsInv, Workloads
  <2> QED
    BY <2>2, <2>3 DEF IInv, Types, TypeOK
<1> QED
  BY <1>1, AppsInvariant, PTL

------------------------------------------------------------------------------
(* What is ready stays ready: the objects of the applications that the test *)
(* and the outer test have installed, in whatever state other tests, and    *)
(* commands that failed, had left the cluster.                              *)

Earlier(k, l, i, j) == k < i \/ (k = i /\ l < j)
IsWorkload(o) == o.kind \in {"Deployment", "Job"}
Rolled(o) == \E p \in pods : p.of = o

\* What the commands before number j of application i have installed is there.
Installed(t, i, j) ==
  \A k \in DOMAIN t.apps : \A l \in DOMAIN t.apps[k].install :
    Earlier(k, l, i, j) => Installs(t.apps[k].install[l]) \subseteq cluster
AllInstalled(t) == \A k \in DOMAIN t.apps : Creates(t.apps[k]) \subseteq cluster

\* The workloads that were waited for before command j of application i run.
Waited(t, i, j) ==
  \A k \in DOMAIN t.apps : \A l \in DOMAIN t.apps[k].wait :
    Earlier(k, l, i, j) =>
      \A o \in Creates(t.apps[k]) : IsWorkload(o) /\ Key(o) \in Keys(t.apps[k].wait[l].objs) => Rolled(o)
AllRun(t) == \A k \in DOMAIN t.apps : \A o \in Creates(t.apps[k]) : IsWorkload(o) => Rolled(o)

ReadyInv ==
  /\ phase = "install" => Installed(test, app, pc)
  /\ phase \in {"wait", "body"} => AllInstalled(test)
  /\ phase = "wait" => Waited(test, app, pc)
  /\ phase = "body" => AllRun(test)
  /\ at > 0 => AllInstalled(scenario.outer) /\ AllRun(scenario.outer)

\* There is one object of a key; pods belong to an object, though it may have been
\* applied again since, and mount what belongs to it.
ClusterInv ==
  /\ DistinctKeys(cluster)
  /\ \A p \in pods : Key(p.of) \in Keys(cluster) /\ \A m \in p.mounted : Mounts(p.of, m)

\* A workload that was not there before came with one of the commands so far.
New(o) == IsWorkload(o) /\ Key(o) \notin before
CameWithInstall(o) ==
  \E k \in DOMAIN test.apps : \E l \in DOMAIN test.apps[k].install :
    Earlier(k, l, app, pc) /\ o \in Installs(test.apps[k].install[l])
FreshInv ==
  /\ phase = "install" =>
       /\ \A o \in cluster : New(o) => CameWithInstall(o)
       /\ \A p \in pods : New(p.of) => CameWithInstall(p.of)
  /\ phase \in {"install", "wait", "body"} =>
       \A p \in pods : New(p.of) => p.mounted \subseteq cluster

RInv == ReadyInv /\ ClusterInv /\ FreshInv

------------------------------------------------------------------------------
(* The commands of an install, and of every method, against those before. *)

(* The positions of an application's commands. *)
LEMMA AppPositions ==
  ASSUME NEW t \in AllTests
  PROVE  /\ Len(t.apps) \in Nat /\ DOMAIN t.apps = 1..Len(t.apps)
         /\ \A k \in DOMAIN t.apps :
              /\ Len(t.apps[k].install) \in Nat
              /\ DOMAIN t.apps[k].install = 1..Len(t.apps[k].install)
              /\ Len(t.apps[k].wait) \in Nat
              /\ DOMAIN t.apps[k].wait = 1..Len(t.apps[k].wait)
<1>1. Sequence(t.apps) /\ \A k \in DOMAIN t.apps : InOrder(t.apps[k])
  BY ApplicationsAssumption
<1>2. ASSUME NEW k \in DOMAIN t.apps
      PROVE  /\ Len(t.apps[k].install) \in Nat
             /\ DOMAIN t.apps[k].install = 1..Len(t.apps[k].install)
             /\ Len(t.apps[k].wait) \in Nat
             /\ DOMAIN t.apps[k].wait = 1..Len(t.apps[k].wait)
  <2>1. Sequence(t.apps[k].install) /\ Sequence(t.apps[k].wait)
    BY <1>1 DEF InOrder
  <2> QED
    BY <2>1, SequencePositions
<1> QED
  BY <1>1, <1>2, SequencePositions

(* A command of an installation spares what those before it have installed. *)
LEMMA InstallCommand ==
  ASSUME Types, phase = "install", Running
  PROVE  /\ app \in DOMAIN test.apps /\ pc \in DOMAIN test.apps[app].install
         /\ command = test.apps[app].install[pc]
         /\ DistinctKeys(Installs(command))
         /\ \A k \in DOMAIN test.apps : \A l \in DOMAIN test.apps[k].install :
              Earlier(k, l, app, pc) => Spares(command, test.apps[k].install[l])
<1>1. test \in AllTests /\ apps = test.apps
  BY TestRuns DEF apps
<1>2. app \in DOMAIN test.apps
  BY <1>1, AppPositions DEF Running, Types
<1>3. pc \in DOMAIN test.apps[app].install
  <2>1. Len(test.apps[app].install) \in Nat
        /\ DOMAIN test.apps[app].install = 1..Len(test.apps[app].install)
    BY <1>1, <1>2, AppPositions
  <2>2. pc <= Len(test.apps[app].install)
    BY <1>1 DEF Running
  <2> QED
    BY <2>1, <2>2 DEF Types
<1>4. command = test.apps[app].install[pc]
  BY <1>1 DEF command
<1>5. InOrder(test.apps[app])
  BY <1>1, <1>2, ApplicationsAssumption
<1>6. DistinctKeys(Installs(command))
  BY <1>3, <1>4, <1>5 DEF InOrder
<1>7. ASSUME NEW k \in DOMAIN test.apps, NEW l \in DOMAIN test.apps[k].install,
             Earlier(k, l, app, pc)
      PROVE  Spares(command, test.apps[k].install[l])
  <2>1. k \in Nat /\ 1 <= k
    BY <1>1, AppPositions
  <2>2. l \in Nat /\ 1 <= l
    BY <1>1, AppPositions
  <2>3. CASE k < app
    <3>1. k \in 1..(app - 1)
      BY <2>1, <2>3 DEF Types
    <3>2. /\ test.apps[k].install[l] \in CommandsOf(test.apps[k], "install")
          /\ command \in CommandsOf(test.apps[app], "install")
      BY <1>3, <1>4 DEF CommandsOf
    <3> QED
      BY <1>1, <1>2, <3>1, <3>2, ApplicationsAssumption
  <2>4. CASE k = app /\ l < pc
    <3>1. l \in 1..(pc - 1)
      BY <2>2, <2>4 DEF Types
    <3> QED
      BY <1>3, <1>4, <1>5, <2>4, <3>1 DEF InOrder
  <2> QED
    BY <1>7, <2>3, <2>4 DEF Earlier
<1> QED
  BY <1>2, <1>3, <1>4, <1>6, <1>7

(* The commands that wait for an application only wait. *)
LEMMA WaitCommand ==
  ASSUME Types, phase = "wait", Running
  PROVE  /\ app \in DOMAIN test.apps /\ pc \in DOMAIN test.apps[app].wait
         /\ command = test.apps[app].wait[pc]
         /\ command.do \in {"rollout", "waitFor"}
<1>1. test \in AllTests /\ apps = test.apps
  BY TestRuns DEF apps
<1>2. app \in DOMAIN test.apps
  BY <1>1, AppPositions DEF Running, Types
<1>3. pc \in DOMAIN test.apps[app].wait
  <2>1. Len(test.apps[app].wait) \in Nat
        /\ DOMAIN test.apps[app].wait = 1..Len(test.apps[app].wait)
    BY <1>1, <1>2, AppPositions
  <2>2. pc <= Len(test.apps[app].wait)
    BY <1>1 DEF Running
  <2> QED
    BY <2>1, <2>2 DEF Types
<1>4. command = test.apps[app].wait[pc]
  BY <1>1 DEF command
<1>5. InOrder(test.apps[app])
  BY <1>1, <1>2, ApplicationsAssumption
<1>6. command \in CommandsOf(test.apps[app], "wait")
  BY <1>3, <1>4 DEF CommandsOf
<1> QED
  BY <1>2, <1>3, <1>4, <1>5, <1>6 DEF InOrder

(* No command has two manifests of one object. *)
LEMMA CommandsDistinct ==
  ASSUME Types, Running
  PROVE  DistinctKeys(Installs(command))
<1>1. CASE phase = "install"
  BY <1>1, InstallCommand
<1>2. CASE phase = "wait"
  <2>1. Installs(command) = {}
    BY <1>2, WaitCommand DEF Installs
  <2> QED
    BY <2>1 DEF DistinctKeys
<1>3. CASE phase = "uninstall"
  <2>1. test \in AllTests /\ app \in DOMAIN test.cleanup
        /\ command \in CommandsOf(test.cleanup[app], "uninstall")
    BY <1>3, TestRuns, CleanupCommand DEF CommandsOf
  <2> QED
    BY <2>1, ApplicationsAssumption
<1> QED
  BY <1>1, <1>2, <1>3 DEF Running

(* A subtest leaves alone what the outer test has installed. *)
LEMMA OuterSpared ==
  ASSUME Types, Running, at > 0,
         NEW i \in DOMAIN scenario.outer.apps, NEW o \in Creates(scenario.outer.apps[i])
  PROVE  ~Disturbs(command, o)
<1>1. scenario \in Scenarios /\ at \in DOMAIN scenario.subs /\ test = scenario.subs[at]
  <2>1. Len(scenario.subs) \in Nat /\ DOMAIN scenario.subs = 1..Len(scenario.subs)
    BY TestsAssumption, SequencePositions DEF Types
  <2> QED
    BY <2>1 DEF Types, test
<1>2. CASE phase = "install"
  <2>1. app \in DOMAIN test.apps /\ command \in CommandsOf(test.apps[app], "install")
    BY <1>2, InstallCommand DEF CommandsOf
  <2> QED
    BY <1>1, <2>1, ApplicationsAssumption
<1>3. CASE phase = "wait"
  BY <1>3, WaitCommand DEF Disturbs, Installs
<1>4. CASE phase = "uninstall"
  <2>1. app \in DOMAIN test.cleanup /\ command \in CommandsOf(test.cleanup[app], "uninstall")
    BY <1>4, CleanupCommand DEF CommandsOf
  <2> QED
    BY <1>1, <2>1, ApplicationsAssumption
<1> QED
  BY <1>2, <1>3, <1>4 DEF Running

------------------------------------------------------------------------------
(* What a command does to the cluster, whether it works or fails half-way. *)

CommandStep ==
  Apply \/ Create \/ Delete \/ DeleteNs \/ AskCluster \/ WaitFor
    \/ RolloutComplete \/ RolloutTimesOut \/ RolloutFails

Puts(done) ==
  done \subseteq Installs(command) /\ cluster' = Without(cluster, done) \cup done /\ pods' = pods
Drops(done) ==
  /\ \A o : Key(o) \in Keys(done) => Disturbs(command, o)
  /\ cluster' = Without(cluster, done) /\ pods' = PodsWithout(done)

(* A command's work, when it fails, is part of it. *)
LEMMA PartIsPart ==
  ASSUME NEW S, NEW done \in Partial(S)
  PROVE  done \subseteq S
BY DEF Partial

(* Without nothing, everything is left. *)
LEMMA WithoutNothing == Without(cluster, {}) = cluster /\ PodsWithout({}) = pods
BY DEF Without, PodsWithout, Keys

(* Where every key has one object, deleting objects is deleting their keys. *)
LEMMA DeletedByKey ==
  ASSUME ClusterInv, NEW done, done \subseteq cluster
  PROVE  cluster \ done = Without(cluster, done)
<1>1. ASSUME NEW o \in cluster, Key(o) \in Keys(done)
      PROVE  o \in done
  BY <1>1 DEF Keys, ClusterInv, DistinctKeys
<1>2. ASSUME NEW o \in done
      PROVE  Key(o) \in Keys(done)
  BY DEF Keys
<1> QED
  BY <1>1, <1>2 DEF Without

(* Commands go on to the next, or fail. *)
LEMMA StepGoes ==
  ASSUME CommandStep
  PROVE  Running /\ (Advance \/ Fail) /\ UNCHANGED <<scenario, at, before>>
BY DEF CommandStep, Apply, Create, Delete, DeleteNs, AskCluster, WaitFor, RolloutComplete,
       RolloutTimesOut, RolloutFails, Works, Breaks, Advance, Fail, history

(* Every command puts objects there, or drops some. *)
LEMMA Effect ==
  ASSUME ClusterInv, CommandStep
  PROVE  /\ \E done : Puts(done) \/ Drops(done)
         /\ Advance => Installs(command) \subseteq cluster'
<1>0. Running /\ ~(Advance /\ Fail)
  BY StepGoes DEF Advance, Fail, Running
<1>1. CASE Apply
  <2>1. Installs(command) = command.objs /\ pods' = pods
    BY <1>1 DEF Apply, Installs
  <2>2. CASE cluster' = Without(cluster, command.objs) \cup command.objs /\ Works
    BY <2>1, <2>2 DEF Puts
  <2>3. CASE Breaks /\ \E done \in Partial({o \in command.objs : NamespaceExists(o.ns)}) :
               cluster' = Without(cluster, done) \cup done
    <3>1. PICK done \in Partial({o \in command.objs : NamespaceExists(o.ns)}) :
            cluster' = Without(cluster, done) \cup done
      BY <2>3
    <3>2. done \subseteq command.objs
      BY PartIsPart
    <3> QED
      BY <1>0, <2>1, <2>3, <3>1, <3>2 DEF Puts, Breaks
  <2> QED
    BY <1>1, <2>2, <2>3 DEF Apply
<1>2. CASE Create
  <2>1. Installs(command) = command.objs /\ pods' = pods
    BY <1>2 DEF Create, Installs
  <2>2. CASE /\ \A o \in command.objs : Key(o) \notin Keys(cluster)
             /\ cluster' = cluster \cup command.objs /\ Works
    <3>1. \A o \in cluster : Key(o) \notin Keys(command.objs)
      BY <2>2 DEF Keys
    <3>2. Without(cluster, command.objs) = cluster
      BY <3>1 DEF Without
    <3> QED
      BY <2>1, <2>2, <3>2 DEF Puts
  <2>3. CASE cluster' = cluster /\ Breaks
    <3>1. Puts({})
      BY <2>1, <2>3, WithoutNothing DEF Puts
    <3> QED
      BY <1>0, <2>3, <3>1 DEF Breaks
  <2> QED
    BY <1>2, <2>2, <2>3 DEF Create
<1>3. CASE Delete
  <2>1. Installs(command) = {} /\ command.do = "delete"
    BY <1>3 DEF Delete, Installs
  <2>2. ASSUME NEW done, done \subseteq command.objs, NEW o, Key(o) \in Keys(done)
        PROVE  Disturbs(command, o)
    BY <2>1, <2>2 DEF Disturbs, Keys
  <2>3. PICK done : /\ done \subseteq command.objs
                    /\ cluster' = Without(cluster, done) /\ pods' = PodsWithout(done)
    BY <1>3, PartIsPart DEF Delete
  <2> QED
    BY <2>1, <2>2, <2>3 DEF Drops
<1>4. CASE DeleteNs
  <2>1. Installs(command) = {} /\ command.do = "deleteNamespace"
    BY <1>4 DEF DeleteNs, Installs
  <2>2. PICK n \in command.objs :
          \/ /\ cluster' = cluster \ {o \in cluster : o.ns = n.name \/ o = n}
             /\ pods' = PodsWithout({o \in cluster : o.ns = n.name \/ o = n})
          \/ \E done \in Partial({o \in cluster : o.ns = n.name \/ o = n} \ {n}) :
               cluster' = cluster \ done /\ pods' = PodsWithout(done)
    BY <1>4 DEF DeleteNs
  <2>3. PICK done : /\ done \subseteq {o \in cluster : o.ns = n.name \/ o = n}
                    /\ cluster' = cluster \ done /\ pods' = PodsWithout(done)
    BY <2>2, PartIsPart
  <2>4. ASSUME NEW o, Key(o) \in Keys(done)
        PROVE  Disturbs(command, o)
    <3>1. PICK q \in done : Key(q) = Key(o)
      BY <2>4 DEF Keys
    <3>2. q.ns = o.ns
      BY <3>1 DEF Key
    <3>3. CASE q.ns = n.name
      BY <2>1, <3>2, <3>3 DEF Disturbs
    <3>4. CASE q = n
      BY <2>1, <3>1, <3>4 DEF Disturbs, Keys
    <3> QED
      BY <2>3, <3>3, <3>4
  <2>5. cluster' = Without(cluster, done)
    BY <2>3, DeletedByKey
  <2> QED
    BY <2>1, <2>3, <2>4, <2>5 DEF Drops
<1>5. CASE AskCluster \/ WaitFor \/ RolloutComplete \/ RolloutTimesOut \/ RolloutFails
  <2>1. Installs(command) = {} /\ UNCHANGED <<cluster, pods>>
    BY <1>5 DEF AskCluster, WaitFor, RolloutComplete, RolloutTimesOut, RolloutFails, Installs
  <2>2. Puts({})
    BY <2>1, WithoutNothing DEF Puts
  <2> QED
    BY <2>1, <2>2
<1> QED
  BY <1>1, <1>2, <1>3, <1>4, <1>5 DEF CommandStep

(* What a command does not disturb stays, and goes on running. *)
LEMMA Undisturbed ==
  ASSUME ClusterInv, CommandStep, NEW o \in cluster, ~Disturbs(command, o)
  PROVE  o \in cluster' /\ (Rolled(o) => Rolled(o)')
<1>1. PICK done : Puts(done) \/ Drops(done)
  BY Effect
<1>2. CASE Puts(done)
  <2>1. Rolled(o) => Rolled(o)'
    BY <1>2 DEF Puts, Rolled
  <2>2. Key(o) \in Keys(done) => o \in done
    BY <1>2 DEF Puts, Keys, Disturbs
  <2> QED
    BY <1>2, <2>1, <2>2 DEF Puts, Without
<1>3. CASE Drops(done)
  BY <1>3 DEF Drops, Without, PodsWithout, Rolled
<1> QED
  BY <1>1, <1>2, <1>3

(* What a pod mounts stays if the command spares its workload. *)
LEMMA MountedStays ==
  ASSUME ClusterInv, CommandStep, NEW b, Spares(command, b),
         NEW p \in pods, p.of \in Installs(b), NEW m \in p.mounted, m \in cluster
  PROVE  m \in cluster'
<1>1. Mounts(p.of, m)
  BY DEF ClusterInv
<1>2. ASSUME NEW d \in command.objs
      PROVE  Key(d) # Key(m)
  <2>1. ~Mounts(p.of, d)
    BY DEF Spares
  <2> QED
    BY <1>1, <2>1 DEF Mounts, Key
<1>3. ~Disturbs(command, p.of)
  BY DEF Spares
<1>4. ~Disturbs(command, m)
  <2>1. Key(m) \notin Keys(command.objs)
    BY <1>2 DEF Keys
  <2>2. m.ns = p.of.ns
    BY <1>1 DEF Mounts
  <2>3. \A q \in Installs(command) : q \in command.objs
    BY DEF Installs
  <2> QED
    BY <1>2, <1>3, <2>1, <2>2, <2>3 DEF Disturbs
<1> QED
  BY <1>4, Undisturbed

(* The cluster has one object of each key, to which the pods belong. *)
LEMMA CommandKeepsCluster ==
  ASSUME Types, ClusterInv, CommandStep
  PROVE  ClusterInv'
<1>1. PICK done : Puts(done) \/ Drops(done)
  BY Effect
<1>2. DistinctKeys(Installs(command))
  BY StepGoes, CommandsDistinct
<1>3. CASE Puts(done)
  <2>1. \A o \in done : o \in Installs(command)
    BY <1>3 DEF Puts
  <2>2. DistinctKeys(cluster)'
    BY <1>2, <1>3, <2>1 DEF Puts, DistinctKeys, ClusterInv, Without, Keys
  <2>3. Keys(cluster) \subseteq Keys(cluster')
    BY <1>3 DEF Puts, Without, Keys
  <2> QED
    BY <1>3, <2>2, <2>3 DEF Puts, ClusterInv
<1>4. CASE Drops(done)
  <2>1. cluster' \subseteq cluster /\ pods' \subseteq pods
    BY <1>4 DEF Drops, Without, PodsWithout
  <2>2. DistinctKeys(cluster)'
    BY <2>1 DEF DistinctKeys, ClusterInv
  <2>3. ASSUME NEW p \in pods'
        PROVE  Key(p.of) \in Keys(cluster')
    <3>1. p \in pods /\ Key(p.of) \notin Keys(done)
      BY <1>4 DEF Drops, PodsWithout
    <3>2. PICK o \in cluster : Key(o) = Key(p.of)
      BY <3>1 DEF ClusterInv, Keys
    <3>3. o \in cluster'
      BY <1>4, <3>1, <3>2 DEF Drops, Without
    <3> QED
      BY <3>2, <3>3 DEF Keys
  <2> QED
    BY <2>1, <2>2, <2>3 DEF ClusterInv
<1> QED
  BY <1>1, <1>3, <1>4

------------------------------------------------------------------------------
(* Commands keep what the tests rely on. *)

(* Running workloads are known by their key. *)
LEMMA RolledByKey ==
  ASSUME ClusterInv, NEW o \in cluster, RolledOut(Key(o))
  PROVE  Rolled(o)
BY DEF ClusterInv, DistinctKeys, RolledOut, Rolled

(* What is installed before a command, and what it installs, is there after it. *)
LEMMA InstallsMore ==
  ASSUME Types, ClusterInv, CommandStep, phase = "install", Advance, Installed(test, app, pc)
  PROVE  Installed(test, app, pc)'
<1>1. /\ app \in DOMAIN test.apps /\ pc \in DOMAIN test.apps[app].install
      /\ command = test.apps[app].install[pc]
      /\ \A k \in DOMAIN test.apps : \A l \in DOMAIN test.apps[k].install :
           Earlier(k, l, app, pc) => Spares(command, test.apps[k].install[l])
  BY StepGoes, InstallCommand
<1>2. test' = test /\ app' = app /\ pc' = pc + 1 /\ test \in AllTests
  BY TestRuns DEF Advance, test
<1> SUFFICES ASSUME NEW k \in DOMAIN test.apps, NEW l \in DOMAIN test.apps[k].install,
                    Earlier(k, l, app, pc + 1)
             PROVE  Installs(test.apps[k].install[l]) \subseteq cluster'
  BY <1>2 DEF Installed
<1>3. CASE Earlier(k, l, app, pc)
  BY <1>1, <1>3, Undisturbed DEF Installed, Spares
<1>4. CASE k = app /\ l = pc
  BY <1>1, <1>4, Effect
<1>5. Earlier(k, l, app, pc) \/ (k = app /\ l = pc)
  <2>1. DOMAIN test.apps[k].install = 1..Len(test.apps[k].install)
        /\ Len(test.apps[k].install) \in Nat
    BY <1>2, AppPositions
  <2>2. l \in Nat /\ pc \in Nat
    BY <2>1 DEF Types
  <2> QED
    BY <2>2 DEF Earlier
<1> QED
  BY <1>3, <1>4, <1>5

(* A command that waits has waited for its workloads. *)
LEMMA WaitsForMore ==
  ASSUME Types, ClusterInv, CommandStep, phase = "wait", Advance,
         AllInstalled(test), Waited(test, app, pc)
  PROVE  AllInstalled(test)' /\ Waited(test, app, pc)'
<1>1. /\ app \in DOMAIN test.apps /\ pc \in DOMAIN test.apps[app].wait
      /\ command = test.apps[app].wait[pc] /\ command.do \in {"rollout", "waitFor"}
  BY StepGoes, WaitCommand
<1>2. test' = test /\ app' = app /\ pc' = pc + 1 /\ test \in AllTests
  BY TestRuns DEF Advance, test
<1>3. /\ UNCHANGED <<cluster, pods>>
      /\ \A o \in command.objs : RolledOut(Key(o))
  <2>1. ~Fail
    BY <1>2, StepGoes DEF Advance, Fail, Running
  <2> QED
    BY <1>1, <2>1 DEF CommandStep, Apply, Create, Delete, DeleteNs, AskCluster, WaitFor,
                      RolloutComplete, RolloutTimesOut, RolloutFails, Breaks
<1>4. AllInstalled(test)'
  BY <1>2, <1>3 DEF AllInstalled
<1>5. ASSUME NEW k \in DOMAIN test.apps, NEW l \in DOMAIN test.apps[k].wait,
             Earlier(k, l, app, pc + 1), NEW o \in Creates(test.apps[k]), IsWorkload(o),
             Key(o) \in Keys(test.apps[k].wait[l].objs)
      PROVE  Rolled(o)
  <2>1. CASE Earlier(k, l, app, pc)
    BY <1>5, <2>1 DEF Waited
  <2>2. CASE k = app /\ l = pc
    <3>1. PICK d \in command.objs : Key(d) = Key(o)
      BY <1>1, <1>5, <2>2 DEF Keys
    <3>2. RolledOut(Key(o)) /\ o \in cluster
      BY <1>3, <3>1 DEF AllInstalled
    <3> QED
      BY <3>2, RolledByKey
  <2>3. DOMAIN test.apps[k].wait = 1..Len(test.apps[k].wait) /\ Len(test.apps[k].wait) \in Nat
    BY <1>2, AppPositions
  <2>4. l \in Nat /\ pc \in Nat
    BY <2>3 DEF Types
  <2>5. Earlier(k, l, app, pc) \/ (k = app /\ l = pc)
    BY <1>5, <2>4 DEF Earlier
  <2> QED
    BY <2>1, <2>2, <2>5
<1>6. Waited(test, app, pc)'
  BY <1>2, <1>3, <1>5 DEF Waited, Rolled
<1> QED
  BY <1>4, <1>6

(* The outer test's applications stay while a subtest's commands run. *)
LEMMA OuterStays ==
  ASSUME Types, ClusterInv, CommandStep, at > 0,
         AllInstalled(scenario.outer), AllRun(scenario.outer)
  PROVE  AllInstalled(scenario.outer)' /\ AllRun(scenario.outer)'
<1>1. ASSUME NEW i \in DOMAIN scenario.outer.apps, NEW o \in Creates(scenario.outer.apps[i])
      PROVE  o \in cluster' /\ (IsWorkload(o) => Rolled(o)')
  BY StepGoes, OuterSpared, Undisturbed DEF AllInstalled, AllRun
<1>2. scenario' = scenario
  BY StepGoes
<1> QED
  BY <1>1, <1>2 DEF AllInstalled, AllRun, Rolled

(* What the test has made ready, or is making so, stays. *)
LEMMA CommandKeepsReady ==
  ASSUME Types, RInv, CommandStep
  PROVE  ReadyInv'
<1>1. Running /\ (Advance \/ Fail) /\ UNCHANGED <<scenario, at>>
  BY StepGoes
<1>2. (at > 0)' => (AllInstalled(scenario.outer) /\ AllRun(scenario.outer))'
  BY <1>1, OuterStays DEF RInv, ReadyInv
<1>3. CASE Fail
  BY <1>2, <1>3 DEF Fail, ReadyInv
<1>4. CASE Advance
  <2>1. phase' = phase /\ phase # "body"
    BY <1>1, <1>4 DEF Advance, Running
  <2>2. phase = "install" => Installed(test, app, pc)'
    BY <1>4, InstallsMore DEF RInv, ReadyInv
  <2>3. phase = "wait" => AllInstalled(test)' /\ Waited(test, app, pc)'
    BY <1>4, WaitsForMore DEF RInv, ReadyInv
  <2> QED
    BY <1>2, <2>1, <2>2, <2>3 DEF ReadyInv
<1> QED
  BY <1>1, <1>3, <1>4

(* A fresh workload, and what its pods mount, stays as it came. *)
LEMMA CommandKeepsFresh ==
  ASSUME Types, RInv, CommandStep
  PROVE  FreshInv'
<1>1. Running /\ (Advance \/ Fail) /\ UNCHANGED <<scenario, at, before>> /\ ClusterInv
  BY StepGoes DEF RInv
<1>2. CASE Fail
  BY <1>2 DEF Fail, FreshInv
<1>3. CASE Advance /\ phase = "uninstall"
  BY <1>3 DEF Advance, FreshInv
<1>4. CASE Advance /\ phase = "wait"
  <2>1. command.do \in {"rollout", "waitFor"} /\ phase' = "wait"
    BY <1>1, <1>4, WaitCommand DEF Advance
  <2>2. UNCHANGED <<cluster, pods>>
    BY <2>1 DEF CommandStep, Apply, Create, Delete, DeleteNs, AskCluster, WaitFor,
                RolloutComplete, RolloutTimesOut, RolloutFails
  <2> QED
    BY <1>1, <1>4, <2>1, <2>2 DEF RInv, FreshInv, New
<1>5. CASE Advance /\ phase = "install"
  <2>1. /\ app \in DOMAIN test.apps /\ pc \in DOMAIN test.apps[app].install
        /\ command = test.apps[app].install[pc]
        /\ \A k \in DOMAIN test.apps : \A l \in DOMAIN test.apps[k].install :
             Earlier(k, l, app, pc) => Spares(command, test.apps[k].install[l])
    BY <1>1, <1>5, InstallCommand
  <2>2. test' = test /\ app' = app /\ pc' = pc + 1 /\ phase' = "install"
    BY <1>5 DEF Advance, test
  <2>3. PICK done : Puts(done) \/ Drops(done)
    BY <1>1, Effect
  <2>4. pods' \subseteq pods /\ cluster' \subseteq cluster \cup Installs(command)
    BY <2>3 DEF Puts, Drops, Without, PodsWithout
  <2>5. ASSUME NEW o, CameWithInstall(o) \/ o \in Installs(command)
        PROVE  CameWithInstall(o)'
    <3>1. pc \in Nat /\ test \in AllTests
      BY TestRuns DEF Types
    <3>2. CASE o \in Installs(command)
      BY <2>1, <2>2, <3>1, <3>2 DEF CameWithInstall, Earlier
    <3>3. CASE CameWithInstall(o)
      <4>1. PICK k \in DOMAIN test.apps : \E l \in DOMAIN test.apps[k].install :
              Earlier(k, l, app, pc) /\ o \in Installs(test.apps[k].install[l])
        BY <3>3 DEF CameWithInstall
      <4>2. PICK l \in DOMAIN test.apps[k].install :
              Earlier(k, l, app, pc) /\ o \in Installs(test.apps[k].install[l])
        BY <4>1
      <4>3. DOMAIN test.apps[k].install = 1..Len(test.apps[k].install)
            /\ Len(test.apps[k].install) \in Nat
        BY <3>1, AppPositions
      <4>4. Earlier(k, l, app, pc + 1)
        BY <3>1, <4>2, <4>3 DEF Earlier
      <4> QED
        BY <2>2, <4>2, <4>4 DEF CameWithInstall
    <3> QED
      BY <2>5, <3>2, <3>3
  <2>6. \A o \in cluster' : New(o)' => CameWithInstall(o)'
    BY <1>1, <1>5, <2>4, <2>5 DEF RInv, FreshInv, New
  <2>7. \A p \in pods' : New(p.of)' => CameWithInstall(p.of)'
    BY <1>1, <1>5, <2>4, <2>5 DEF RInv, FreshInv, New
  <2>8. ASSUME NEW p \in pods', New(p.of), NEW m \in p.mounted
        PROVE  m \in cluster'
    <3>1. p \in pods /\ CameWithInstall(p.of) /\ m \in cluster
      BY <1>5, <2>4, <2>8 DEF RInv, FreshInv
    <3>2. PICK k \in DOMAIN test.apps : \E l \in DOMAIN test.apps[k].install :
            Earlier(k, l, app, pc) /\ p.of \in Installs(test.apps[k].install[l])
      BY <3>1 DEF CameWithInstall
    <3>3. PICK l \in DOMAIN test.apps[k].install :
            Earlier(k, l, app, pc) /\ p.of \in Installs(test.apps[k].install[l])
      BY <3>2
    <3>4. Spares(command, test.apps[k].install[l])
      BY <2>1, <3>3
    <3> QED
      BY <1>1, <2>8, <3>1, <3>3, <3>4, MountedStays
  <2> QED
    BY <1>1, <2>2, <2>6, <2>7, <2>8 DEF FreshInv, New
<1> QED
  BY <1>1, <1>2, <1>3, <1>4, <1>5 DEF Running

(* Every command keeps the invariant. *)
LEMMA CommandKeeps ==
  ASSUME Types, RInv, CommandStep
  PROVE  RInv'
BY CommandKeepsReady, CommandKeepsCluster, CommandKeepsFresh DEF RInv

------------------------------------------------------------------------------
(* Between commands: methods and tests come to their ends, and pods start. *)

(* From one application to the next, and from one method to the next. *)
LEMMA MethodsKeepReady ==
  ASSUME Types, RInv, NextApp \/ InstallAndWaitReady \/ Uninstalled
  PROVE  RInv'
<1>1. /\ UNCHANGED <<scenario, cluster, pods, at, before>> /\ test' = test /\ test \in AllTests
      /\ phase = "uninstall" => phase' \in {"uninstall", "over"}
  BY TestRuns DEF NextApp, InstallAndWaitReady, Uninstalled, Same, Goto, history, test
<1>2. /\ Len(test.apps) \in Nat /\ DOMAIN test.apps = 1..Len(test.apps)
      /\ app \in Nat /\ pc \in Nat
  BY <1>1, AppPositions DEF Types
<1>3. ClusterInv'
  BY <1>1 DEF RInv, ClusterInv
<1>4. (at > 0)' => (AllInstalled(scenario.outer) /\ AllRun(scenario.outer))'
  BY <1>1 DEF RInv, ReadyInv, AllInstalled, AllRun, Rolled
<1>5. CASE phase = "uninstall"
  BY <1>1, <1>3, <1>4, <1>5 DEF RInv, ReadyInv, FreshInv
<1>6. CASE NextApp /\ phase = "install"
  <2>1. /\ phase' = phase /\ app' = app + 1 /\ pc' = 1 /\ app \in DOMAIN test.apps
        /\ pc > Len(test.apps[app].install)
    BY <1>2, <1>6 DEF NextApp, apps, Types
  <2>2. ASSUME NEW k \in DOMAIN test.apps, NEW l \in DOMAIN test.apps[k].install,
               Earlier(k, l, app + 1, 1)
        PROVE  Earlier(k, l, app, pc)
    <3>1. k \in Nat /\ l \in 1..Len(test.apps[k].install) /\ Len(test.apps[k].install) \in Nat
      BY <1>1, <1>2, AppPositions
    <3>2. CASE k = app
      BY <1>2, <2>1, <2>2, <3>1, <3>2 DEF Earlier
    <3>3. CASE k # app
      BY <1>2, <2>2, <3>1, <3>3 DEF Earlier
    <3> QED
      BY <3>2, <3>3
  <2>3. Installed(test, app, pc)'
    BY <1>1, <1>6, <2>1, <2>2 DEF RInv, ReadyInv, Installed
  <2>4. ASSUME NEW o, CameWithInstall(o)
        PROVE  CameWithInstall(o)'
    <3>1. PICK k \in DOMAIN test.apps : \E l \in DOMAIN test.apps[k].install :
            Earlier(k, l, app, pc) /\ o \in Installs(test.apps[k].install[l])
      BY <2>4 DEF CameWithInstall
    <3>2. PICK l \in DOMAIN test.apps[k].install :
            Earlier(k, l, app, pc) /\ o \in Installs(test.apps[k].install[l])
      BY <3>1
    <3>3. Earlier(k, l, app + 1, 1)
      BY <1>2, <3>2 DEF Earlier
    <3> QED
      BY <1>1, <2>1, <3>2, <3>3 DEF CameWithInstall
  <2>5. FreshInv'
    BY <1>1, <1>6, <2>1, <2>4 DEF RInv, FreshInv, New
  <2> QED
    BY <1>3, <1>4, <1>6, <2>1, <2>3, <2>5 DEF RInv, ReadyInv
<1>7. CASE NextApp /\ phase = "wait"
  <2>1. /\ phase' = phase /\ app' = app + 1 /\ pc' = 1 /\ app \in DOMAIN test.apps
        /\ pc > Len(test.apps[app].wait)
    BY <1>2, <1>7 DEF NextApp, apps, Types
  <2>2. ASSUME NEW k \in DOMAIN test.apps, NEW l \in DOMAIN test.apps[k].wait,
               Earlier(k, l, app + 1, 1)
        PROVE  Earlier(k, l, app, pc)
    <3>1. k \in Nat /\ l \in 1..Len(test.apps[k].wait) /\ Len(test.apps[k].wait) \in Nat
      BY <1>1, <1>2, AppPositions
    <3>2. CASE k = app
      BY <1>2, <2>1, <2>2, <3>1, <3>2 DEF Earlier
    <3>3. CASE k # app
      BY <1>2, <2>2, <3>1, <3>3 DEF Earlier
    <3> QED
      BY <3>2, <3>3
  <2>3. AllInstalled(test)' /\ Waited(test, app, pc)'
    BY <1>1, <1>7, <2>1, <2>2 DEF RInv, ReadyInv, AllInstalled, Waited, Rolled
  <2>4. FreshInv'
    BY <1>1, <1>7, <2>1 DEF RInv, FreshInv, New
  <2> QED
    BY <1>3, <1>4, <1>7, <2>1, <2>3, <2>4 DEF RInv, ReadyInv
<1>8. CASE InstallAndWaitReady /\ phase = "install"
  <2>1. phase' = "wait" /\ app' = 1 /\ pc' = 1 /\ app > Len(test.apps)
    BY <1>8 DEF InstallAndWaitReady, Goto, apps
  <2>2. AllInstalled(test)
    <3> SUFFICES ASSUME NEW k \in DOMAIN test.apps, NEW c \in CommandsOf(test.apps[k], "install")
                 PROVE  Installs(c) \subseteq cluster
      BY DEF AllInstalled, Creates
    <3>1. PICK l \in DOMAIN test.apps[k].install : c = test.apps[k].install[l]
      BY DEF CommandsOf
    <3>2. Earlier(k, l, app, pc)
      BY <1>2, <2>1 DEF Earlier
    <3> QED
      BY <1>8, <3>1, <3>2 DEF RInv, ReadyInv, Installed
  <2>3. ASSUME NEW k \in DOMAIN test.apps, NEW l \in DOMAIN test.apps[k].wait
        PROVE  ~Earlier(k, l, 1, 1)
    <3>1. k \in Nat /\ 1 <= k
      BY <1>2
    <3>2. l \in Nat /\ 1 <= l
      BY <1>1, AppPositions
    <3> QED
      BY <3>1, <3>2 DEF Earlier
  <2>4. AllInstalled(test)' /\ Waited(test, app, pc)'
    BY <1>1, <2>1, <2>2, <2>3 DEF AllInstalled, Waited
  <2>5. FreshInv'
    BY <1>1, <1>8, <2>1 DEF RInv, FreshInv, New
  <2> QED
    BY <1>3, <1>4, <2>1, <2>4, <2>5 DEF RInv, ReadyInv
<1>9. CASE InstallAndWaitReady /\ phase = "wait"
  <2>1. phase' = "body" /\ app > Len(test.apps)
    BY <1>9 DEF InstallAndWaitReady, Goto, apps
  <2>2. AllRun(test)
    <3> SUFFICES ASSUME NEW k \in DOMAIN test.apps, NEW o \in Creates(test.apps[k]), IsWorkload(o)
                 PROVE  Rolled(o)
      BY DEF AllRun
    <3>1. InOrder(test.apps[k])
      BY <1>1, ApplicationsAssumption
    <3>2. PICK c \in CommandsOf(test.apps[k], "wait") : Key(o) \in Keys(c.objs)
      BY <3>1 DEF InOrder, IsWorkload
    <3>3. PICK l \in DOMAIN test.apps[k].wait : c = test.apps[k].wait[l]
      BY DEF CommandsOf
    <3>4. Earlier(k, l, app, pc)
      BY <1>2, <2>1 DEF Earlier
    <3> QED
      BY <1>9, <3>2, <3>3, <3>4 DEF RInv, ReadyInv, Waited
  <2>3. AllInstalled(test)' /\ AllRun(test)'
    BY <1>1, <1>9, <2>2 DEF RInv, ReadyInv, AllInstalled, AllRun, Rolled
  <2>4. FreshInv'
    BY <1>1, <1>9, <2>1 DEF RInv, FreshInv, New
  <2> QED
    BY <1>3, <1>4, <2>1, <2>3, <2>4 DEF RInv, ReadyInv
<1> QED
  BY <1>5, <1>6, <1>7, <1>8, <1>9 DEF NextApp, InstallAndWaitReady, Uninstalled

(* A test that begins finds workloads, but has made none. *)
LEMMA BeginKeepsReady ==
  ASSUME ClusterInv, NEW t \in Nat, Begin(t), test' \in AllTests,
         t > 0 => AllInstalled(scenario.outer) /\ AllRun(scenario.outer)
  PROVE  RInv'
<1>1. /\ UNCHANGED <<scenario, cluster, pods>> /\ phase' = "install" /\ at' = t
      /\ app' = 1 /\ pc' = 1 /\ before' = Keys(Workloads(cluster))
  BY DEF Begin, Goto, Same
<1>2. ClusterInv'
  BY <1>1 DEF ClusterInv
<1>3. \A o \in cluster : ~New(o)'
  BY <1>1 DEF New, IsWorkload, Workloads, Keys
<1>4. ASSUME NEW p \in pods
      PROVE  ~New(p.of)'
  <2>1. PICK o \in cluster : Key(o) = Key(p.of)
    BY DEF ClusterInv, Keys
  <2>2. o.kind = p.of.kind
    BY <2>1 DEF Key
  <2> QED
    BY <1>1, <2>1, <2>2 DEF New, IsWorkload, Workloads, Keys
<1>5. ASSUME NEW k \in DOMAIN test'.apps, NEW l \in DOMAIN test'.apps[k].install
      PROVE  ~Earlier(k, l, 1, 1)
  <2>1. k \in Nat /\ 1 <= k
    BY AppPositions
  <2>2. l \in Nat /\ 1 <= l
    BY AppPositions
  <2> QED
    BY <2>1, <2>2 DEF Earlier
<1>6. Installed(test, app, pc)'
  BY <1>1, <1>5 DEF Installed
<1>7. (at > 0)' => (AllInstalled(scenario.outer) /\ AllRun(scenario.outer))'
  BY <1>1 DEF AllInstalled, AllRun, Rolled
<1> QED
  BY <1>1, <1>2, <1>3, <1>4, <1>6, <1>7 DEF RInv, ReadyInv, FreshInv


(* After a body, or a subtest, comes the next subtest or a cleanup. *)
LEMMA TestsKeepReady ==
  ASSUME IInv, RInv, BodyEnds \/ NextTest
  PROVE  RInv'
<1>1. UNCHANGED <<scenario, cluster, pods>> /\ ClusterInv
  BY DEF BodyEnds, NextTest, Begin, Goto, Same, RInv
<1>2. Len(scenario.subs) \in Nat /\ DOMAIN scenario.subs = 1..Len(scenario.subs)
  BY TestsAssumption, SequencePositions DEF IInv, Types
<1>3. at > 0 => AllInstalled(scenario.outer) /\ AllRun(scenario.outer)
  BY DEF RInv, ReadyInv
<1>4. ASSUME NEW t \in 1..Len(scenario.subs), Begin(t),
             AllInstalled(scenario.outer) /\ AllRun(scenario.outer)
      PROVE  RInv'
  <2>1. at' = t /\ t \in Nat /\ t # 0
    BY <1>2, <1>4 DEF Begin, Goto
  <2>2. test' \in AllTests
    BY <1>1, <1>2, <2>1 DEF test, AllTests, TestsOf, IInv, Types
  <2> QED
    BY <1>1, <1>4, <2>1, <2>2, BeginKeepsReady
<1>5. ASSUME phase' = "uninstall", at' = at \/ at' = 0
      PROVE  RInv'
  <2>1. ClusterInv'
    BY <1>1 DEF ClusterInv
  <2>2. (at > 0)' => (AllInstalled(scenario.outer) /\ AllRun(scenario.outer))'
    BY <1>1, <1>3, <1>5 DEF AllInstalled, AllRun, Rolled
  <2> QED
    BY <1>5, <2>1, <2>2 DEF RInv, ReadyInv, FreshInv
<1>6. CASE BodyEnds
  <2>1. CASE at = 0 /\ scenario.subs # <<>>
    <3>1. scenario.subs \in Seq({scenario.subs[i] : i \in DOMAIN scenario.subs})
      BY TestsAssumption DEF IInv, Types, Sequence
    <3>2. 1 \in 1..Len(scenario.subs)
      BY <1>2, <2>1, <3>1, EmptySeq
    <3>3. test = scenario.outer /\ AllInstalled(test) /\ AllRun(test)
      BY <1>6, <2>1 DEF test, BodyEnds, RInv, ReadyInv
    <3> QED
      BY <1>4, <1>6, <2>1, <3>2, <3>3 DEF BodyEnds
  <2> QED
    BY <1>5, <1>6, <2>1 DEF BodyEnds, Goto
<1>7. CASE NextTest
  <2>1. CASE at < Len(scenario.subs)
    <3>1. at + 1 \in 1..Len(scenario.subs) /\ at > 0
      BY <1>2, <1>7, <2>1 DEF NextTest, IInv, Types
    <3> QED
      BY <1>3, <1>4, <1>7, <2>1, <3>1 DEF NextTest
  <2> QED
    BY <1>5, <1>7, <2>1 DEF NextTest, Goto
<1> QED
  BY <1>6, <1>7

(* Pods that start replace those of another manifest, not of what is there. *)
LEMMA RollOutKeepsReady ==
  ASSUME RInv, RollOut
  PROVE  RInv'
<1>1. /\ UNCHANGED <<scenario, at, phase, app, pc, cluster, before>> /\ test' = test
      /\ ReadyInv /\ ClusterInv /\ FreshInv
  BY DEF RollOut, position, history, test, RInv
<1>2. PICK o \in Workloads(cluster) :
        pods' = PodsWithout({o}) \cup {[of |-> o, mounted |-> {m \in cluster : Mounts(o, m)}]}
  BY DEF RollOut
<1>3. o \in cluster
  BY DEF Workloads
<1>4. ASSUME NEW p \in pods'
      PROVE  p \in pods \/ (p.of = o /\ p.mounted = {m \in cluster : Mounts(o, m)})
  BY <1>2 DEF PodsWithout
<1>5. ASSUME NEW w \in cluster, Rolled(w)
      PROVE  Rolled(w)'
  <2>1. PICK p \in pods : p.of = w
    BY <1>5 DEF Rolled
  <2>2. CASE w = o
    <3> DEFINE pod == [of |-> o, mounted |-> {m \in cluster : Mounts(o, m)}]
    <3>1. pod \in pods' /\ pod.of = o
      BY <1>2
    <3> QED
      BY <2>2, <3>1 DEF Rolled
  <2>3. CASE w # o
    <3>1. Key(w) \notin Keys({o})
      BY <1>1, <1>3, <2>3 DEF ClusterInv, DistinctKeys, Keys
    <3> QED
      BY <1>2, <2>1, <3>1 DEF PodsWithout, Rolled
  <2> QED
    BY <2>2, <2>3
<1>6. ReadyInv'
  <2>1. ASSUME NEW t, AllInstalled(t), AllRun(t)
        PROVE  AllInstalled(t)' /\ AllRun(t)'
    BY <1>1, <1>5, <2>1 DEF AllInstalled, AllRun
  <2>2. phase = "install" => Installed(test, app, pc)'
    BY <1>1 DEF ReadyInv, Installed
  <2>3. phase = "wait" => AllInstalled(test)' /\ Waited(test, app, pc)'
    BY <1>1, <1>5 DEF ReadyInv, AllInstalled, Waited
  <2> QED
    BY <1>1, <2>1, <2>2, <2>3 DEF ReadyInv
<1>7. ClusterInv'
  <2>1. ASSUME NEW p \in pods'
        PROVE  Key(p.of) \in Keys(cluster) /\ \A m \in p.mounted : Mounts(p.of, m)
    BY <1>1, <1>3, <1>4 DEF ClusterInv, Keys
  <2> QED
    BY <1>1, <2>1 DEF ClusterInv
<1>8. FreshInv'
  <2>1. ASSUME NEW p \in pods', New(p.of)
        PROVE  /\ phase = "install" => CameWithInstall(p.of)
               /\ phase \in {"install", "wait", "body"} => p.mounted \subseteq cluster
    BY <1>1, <1>3, <1>4, <2>1 DEF FreshInv
  <2> QED
    BY <1>1, <2>1 DEF FreshInv, New, CameWithInstall
<1> QED
  BY <1>6, <1>7, <1>8 DEF RInv

(* Before the first command, what is there was there before. *)
LEMMA InitiallyReady ==
  ASSUME Init
  PROVE  RInv
<1>1. at = 0 /\ phase = "install" /\ app = 1 /\ pc = 1 /\ pods = {} /\ cluster = Initially
      /\ before = Keys(Workloads(Initially)) /\ test \in AllTests
  BY DEF Init, test, AllTests, TestsOf
<1>2. ASSUME NEW k \in DOMAIN test.apps, NEW l \in DOMAIN test.apps[k].install
      PROVE  ~Earlier(k, l, 1, 1)
  <2>1. k \in Nat /\ 1 <= k
    BY <1>1, AppPositions
  <2>2. l \in Nat /\ 1 <= l
    BY <1>1, AppPositions
  <2> QED
    BY <2>1, <2>2 DEF Earlier
<1>3. ReadyInv
  BY <1>1, <1>2 DEF ReadyInv, Installed
<1>4. ClusterInv
  BY <1>1, ApplicationsAssumption DEF ClusterInv
<1>5. \A o \in cluster : ~New(o)
  BY <1>1 DEF New, IsWorkload, Workloads, Keys
<1> QED
  BY <1>1, <1>3, <1>4, <1>5 DEF RInv, FreshInv

(* What is ready stays so when nothing is done. *)
LEMMA StutteringKeepsReady ==
  ASSUME RInv, UNCHANGED vars
  PROVE  RInv'
<1>1. UNCHANGED <<scenario, at, phase, app, pc, cluster, pods, before>> /\ test' = test
  BY DEF vars, position, history, test
<1> QED
  BY <1>1 DEF RInv, ReadyInv, ClusterInv, FreshInv, Installed, AllInstalled, Waited, AllRun, Rolled,
              New, CameWithInstall

(* Throughout every behaviour, what a test has installed so far is there and
   what it has waited for runs; what it found in the cluster may be in the way
   at any point, and any command may have failed half-way before. *)
THEOREM ReadyInvariant == Spec => []RInv
<1>1. Init => RInv
  BY InitiallyReady
<1>2. IInv /\ RInv /\ [Next]_vars => RInv'
  <2> SUFFICES ASSUME IInv, RInv, [Next]_vars
               PROVE  RInv'
    OBVIOUS
  <2>1. CASE CommandStep
    BY <2>1, CommandKeeps DEF IInv
  <2>2. CASE NextApp \/ InstallAndWaitReady \/ Uninstalled
    BY <2>2, MethodsKeepReady DEF IInv
  <2>3. CASE BodyEnds \/ NextTest
    BY <2>3, TestsKeepReady
  <2>4. CASE RollOut
    BY <2>4, RollOutKeepsReady
  <2>5. CASE UNCHANGED vars
    BY <2>5, StutteringKeepsReady
  <2> QED
    BY <2>1, <2>2, <2>3, <2>4, <2>5 DEF Next, Done, CommandStep
<1> QED
  BY <1>1, <1>2, AppsInvariant, PTL DEF Spec

(***************************************************************************)
(* When InstallAndWaitReady has returned, everything that the test and the *)
(* outer test have installed is there and runs, whatever was there before: *)
(* for all tests whose applications take nothing from each other.          *)
(***************************************************************************)
THEOREM ReadyApplicationsRun == Spec => []ReadyAppsRun
<1>1. IInv /\ RInv => ReadyAppsRun
  <2> SUFFICES ASSUME IInv, RInv, phase = "body", NEW t \in Alive, NEW i \in DOMAIN t.apps
               PROVE  /\ Creates(t.apps[i]) \subseteq cluster
                      /\ Workloads(Creates(t.apps[i])) \subseteq {p.of : p \in pods}
    BY DEF ReadyAppsRun
  <2>1. AllInstalled(t) /\ AllRun(t)
    <3>1. AllInstalled(test) /\ AllRun(test)
      BY DEF RInv, ReadyInv
    <3>2. at > 0 => AllInstalled(scenario.outer) /\ AllRun(scenario.outer)
      BY DEF RInv, ReadyInv
    <3>3. at = 0 => test = scenario.outer
      BY DEF test
    <3> QED
      BY <3>1, <3>2, <3>3 DEF Alive, IInv, Types
  <2> QED
    BY <2>1 DEF AllInstalled, AllRun, IsWorkload, Rolled, Workloads
<1> QED
  BY <1>1, AppsInvariant, ReadyInvariant, PTL

(* A workload that the test has installed anew runs with what is there: no
   secret or config map is replaced under a pod that has started. *)
THEOREM FreshPodsMountWhatIsThere == Spec => []FreshPodsMountTheirConfig
<1>1. IInv /\ RInv => FreshPodsMountTheirConfig
  BY DEF IInv, PodsInv, RInv, FreshInv, New, IsWorkload, FreshPodsMountTheirConfig
<1> QED
  BY <1>1, AppsInvariant, ReadyInvariant, PTL


------------------------------------------------------------------------------
(* The applications of pkg/app, in every namespace and variant, are as the *)
(* proofs assume: what is left to assume is that those of a test go        *)
(* together, and that its cleanup names them or their namespaces.          *)

Elements(s) == {s[i] : i \in DOMAIN s}
Ordered(s) ==
  Sequence(s) /\ \A i \in DOMAIN s :
    DistinctKeys(Installs(s[i])) /\ \A j \in 1..(i - 1) : Spares(s[i], s[j])

\* What is installed and not left by design, the application's own Uninstall names.
UninstallsItself(a) ==
  \A o \in Creates(a) : LeftByDesign(o) \/ \E c \in CommandsOf(a, "uninstall") : Removes(c, o)
Suits(a) == InOrder(a) /\ UninstallsItself(a)

\* Commands in order that install objects of S, wait for all of S, or delete all of S.
Makes(s, S) ==
  Ordered(s) /\ \A c \in Elements(s) :
    /\ Installs(c) \subseteq S
    /\ \/ c.do \in {"ask", "apply", "create", "delete"} /\ c.objs \subseteq S
       \/ c.do = "rollout" /\ \A d \in c.objs : d.kind = "Deployment"
WaitsFor(s, S) ==
  /\ Sequence(s) /\ \A c \in Elements(s) : c.do \in {"rollout", "waitFor"}
  /\ \A o \in S : IsWorkload(o) => \E c \in Elements(s) : Key(o) \in Keys(c.objs)
Deletes(s, S) ==
  Sequence(s) /\ \A o \in S : \E c \in Elements(s) : c.do = "delete" /\ Key(o) \in Keys(c.objs)
Apart(S, T) == \A o \in S, d \in T : Key(o) # Key(d) /\ ~Mounts(o, d)

(* Methods are put together from helpers' commands. *)
LEMMA Joined ==
  ASSUME NEW s, NEW t, Sequence(s), Sequence(t)
  PROVE  /\ Sequence(s \o t) /\ Elements(s \o t) = Elements(s) \cup Elements(t)
         /\ Ordered(s) /\ Ordered(t) /\ (\A b \in Elements(s), c \in Elements(t) : Spares(c, b))
              => Ordered(s \o t)
<1> DEFINE S == Elements(s) \cup Elements(t)
           u == s \o t
<1>1. s \in Seq(S) /\ t \in Seq(S)
  <2>1. s \in Seq(Elements(s)) /\ t \in Seq(Elements(t))
    BY DEF Sequence, Elements
  <2>2. Elements(s) \subseteq S /\ Elements(t) \subseteq S
    OBVIOUS
  <2> QED
    BY <2>1, <2>2
<1>2. /\ u \in Seq(S) /\ Len(u) = Len(s) + Len(t) /\ Len(s) \in Nat /\ Len(t) \in Nat
      /\ DOMAIN s = 1..Len(s) /\ DOMAIN t = 1..Len(t) /\ DOMAIN u = 1..(Len(s) + Len(t))
      /\ \A i \in DOMAIN u : u[i] = IF i <= Len(s) THEN s[i] ELSE t[i - Len(s)]
  BY <1>1, ConcatProperties
<1>3. \A i \in DOMAIN s : i \in DOMAIN u /\ u[i] = s[i]
  BY <1>2
<1>4. \A i \in DOMAIN t : i + Len(s) \in DOMAIN u /\ u[i + Len(s)] = t[i]
  BY <1>2
<1>5. \A i \in DOMAIN u : i \in DOMAIN s \/ (i - Len(s) \in DOMAIN t /\ i > Len(s))
  BY <1>2
<1>6. Elements(u) = S
  <2>1. Elements(u) \subseteq S
    BY <1>2, <1>5 DEF Elements
  <2>2. S \subseteq Elements(u)
    BY <1>3, <1>4 DEF Elements
  <2> QED
    BY <2>1, <2>2
<1>7. Sequence(u)
  <2>1. u \in Seq(Elements(u))
    BY <1>2, <1>6
  <2> QED
    BY <2>1 DEF Sequence, Elements
<1>8. ASSUME Ordered(s), Ordered(t), \A b \in Elements(s), c \in Elements(t) : Spares(c, b)
      PROVE  Ordered(u)
  <2>1. ASSUME NEW i \in DOMAIN u
        PROVE  DistinctKeys(Installs(u[i]))
    BY <1>2, <1>5, <1>8 DEF Ordered
  <2>2. ASSUME NEW i \in DOMAIN u, NEW j \in 1..(i - 1)
        PROVE  Spares(u[i], u[j])
    <3>0. i \in Nat /\ j \in Nat /\ j \in DOMAIN u
      BY <1>2
    <3>1. CASE i \in DOMAIN s
      <4>1. j \in DOMAIN s /\ u[i] = s[i] /\ u[j] = s[j]
        BY <1>2, <1>3, <3>0, <3>1
      <4> QED
        BY <1>8, <3>1, <4>1 DEF Ordered
    <3>2. CASE i - Len(s) \in DOMAIN t /\ i > Len(s) /\ j \in DOMAIN s
      <4>1. u[i] \in Elements(t) /\ u[j] \in Elements(s)
        BY <1>2, <1>3, <3>2 DEF Elements
      <4> QED
        BY <1>8, <4>1
    <3>3. CASE i - Len(s) \in DOMAIN t /\ i > Len(s) /\ j \notin DOMAIN s
      <4>1. j - Len(s) \in 1..(i - Len(s) - 1) /\ u[i] = t[i - Len(s)] /\ u[j] = t[j - Len(s)]
        BY <1>2, <3>0, <3>3
      <4> QED
        BY <1>8, <3>3, <4>1 DEF Ordered
    <3> QED
      BY <1>5, <3>1, <3>2, <3>3
  <2> QED
    BY <1>7, <2>1, <2>2 DEF Ordered
<1> QED
  BY <1>6, <1>7, <1>8

(* One command, which lists every object once. *)
LEMMA Single ==
  ASSUME NEW c, DistinctKeys(Installs(c))
  PROVE  Ordered(<<c>>) /\ Elements(<<c>>) = {c} /\ Sequence(<<c>>)
<1>1. Elements(<<c>>) = {c} /\ DOMAIN <<c>> = {1} /\ <<c>>[1] = c
  BY DEF Elements
<1>2. Sequence(<<c>>)
  <2>1. <<c>> \in Seq(Elements(<<c>>))
    BY <1>1
  <2> QED
    BY <2>1 DEF Sequence, Elements
<1> QED
  BY <1>1, <1>2 DEF Ordered

(* Commands that install nothing are in any order. *)
LEMMA RolloutCommands ==
  ASSUME NEW ns, NEW names, Len(names) \in Nat
  PROVE  /\ Ordered(Rollout(ns, names))
         /\ \A c \in Elements(Rollout(ns, names)) :
              c.do = "rollout" /\ Installs(c) = {} /\ \A d \in c.objs : d.kind = "Deployment"
         /\ \A i \in 1..Len(names) :
              /\ Rollout(ns, names)[i] \in Elements(Rollout(ns, names))
              /\ Key(Deployment(ns, names[i], "")) \in Keys(Rollout(ns, names)[i].objs)
<1> DEFINE r == Rollout(ns, names)
<1>1. DOMAIN r = 1..Len(names)
  BY DEF Rollout
<1>2. ASSUME NEW i \in DOMAIN r
      PROVE  /\ r[i].do = "rollout" /\ r[i].objs = {Deployment(ns, names[i], "")}
             /\ Installs(r[i]) = {}
  BY <1>1 DEF Rollout, Command, Installs
<1>3. Sequence(r)
  <2>1. \A i \in 1..Len(names) : r[i] \in {r[j] : j \in DOMAIN r}
    BY <1>1
  <2>2. r = [i \in 1..Len(names) |-> r[i]]
    BY <1>1 DEF Rollout
  <2> HIDE DEF r
  <2>3. r \in [1..Len(names) -> {r[j] : j \in DOMAIN r}]
    BY <2>1, <2>2
  <2> QED
    BY <2>3, SeqDef DEF Sequence
<1>4. Ordered(r)
  <2>1. ASSUME NEW i \in DOMAIN r, NEW j \in 1..(i - 1)
        PROVE  Installs(r[i]) = {} /\ Installs(r[j]) = {}
    <3>1. j \in DOMAIN r
      BY <1>1
    <3> QED
      BY <1>2, <3>1
  <2> QED
    BY <1>2, <1>3, <2>1 DEF Ordered, DistinctKeys, Spares
<1>5. \A i : Deployment(ns, names[i], "").kind = "Deployment"
  BY DEF Deployment, Object
<1> QED
  BY <1>1, <1>2, <1>4, <1>5 DEF Elements, Keys


(* A list of one name. *)
LEMMA OneName ==
  ASSUME NEW name
  PROVE  Len(<<name>>) \in Nat /\ 1 \in 1..Len(<<name>>) /\ <<name>>[1] = name
OBVIOUS

(* The rollout of one deployment. *)
LEMMA RollsOutOne ==
  ASSUME NEW ns, NEW name, NEW S,
         \A o \in S : IsWorkload(o) => Key(o) = Key(Deployment(ns, name, ""))
  PROVE  Makes(Rollout(ns, <<name>>), {}) /\ WaitsFor(Rollout(ns, <<name>>), S)
<1>1. Len(<<name>>) \in Nat /\ 1 \in 1..Len(<<name>>) /\ <<name>>[1] = name
  BY OneName
<1>2. /\ Rollout(ns, <<name>>)[1] \in Elements(Rollout(ns, <<name>>))
      /\ Key(Deployment(ns, <<name>>[1], "")) \in Keys(Rollout(ns, <<name>>)[1].objs)
  BY <1>1, RolloutCommands
<1>3. /\ Ordered(Rollout(ns, <<name>>))
      /\ \A c \in Elements(Rollout(ns, <<name>>)) :
           c.do = "rollout" /\ Installs(c) = {} /\ \A d \in c.objs : d.kind = "Deployment"
  BY <1>1, RolloutCommands
<1>4. Makes(Rollout(ns, <<name>>), {})
  BY <1>3 DEF Makes
<1>5. WaitsFor(Rollout(ns, <<name>>), S)
  BY <1>1, <1>2, <1>3 DEF WaitsFor, Ordered
<1> QED
  BY <1>4, <1>5

(* One command that waits for its workload. *)
LEMMA WaitsOnce ==
  ASSUME NEW o
  PROVE  WaitsFor(WaitCondition(o), {o})
<1> DEFINE c == Command("waitFor", {o})
<1>1. DistinctKeys(Installs(c)) /\ c.do = "waitFor" /\ Key(o) \in Keys(c.objs)
  BY DEF Command, Installs, DistinctKeys, Keys
<1>2. WaitCondition(o) = <<c>>
  BY DEF WaitCondition
<1> HIDE DEF c
<1> QED
  BY <1>1, <1>2, Single DEF WaitsFor

(* Applying a manifest that lists every object once. *)
LEMMA Applies ==
  ASSUME NEW objs, DistinctKeys(objs)
  PROVE  Makes(ApplyTemplate(objs), objs)
<1> DEFINE c == Command("apply", objs)
<1>1. c.do = "apply" /\ c.objs = objs /\ Installs(c) = objs
  BY DEF Command, Installs
<1>2. ApplyTemplate(objs) = <<c>>
  BY DEF ApplyTemplate
<1> HIDE DEF c
<1> QED
  BY <1>1, <1>2, Single DEF Makes

(* Questions and deletions install nothing. *)
LEMMA InstallsNothing ==
  ASSUME NEW do \in {"ask", "delete"}, NEW objs
  PROVE  /\ Makes(<<Command(do, objs)>>, objs)
         /\ do = "delete" => Deletes(<<Command(do, objs)>>, objs)
         /\ Sequence(<<Command(do, objs)>>)
<1> DEFINE c == Command(do, objs)
<1>1. c.do = do /\ c.objs = objs /\ Installs(c) = {} /\ DistinctKeys({})
      /\ \A o \in objs : Key(o) \in Keys(objs)
  BY DEF Command, Installs, DistinctKeys, Keys
<1>2. <<Command(do, objs)>> = <<c>>
  OBVIOUS
<1> HIDE DEF c
<1>3. Ordered(<<c>>) /\ Elements(<<c>>) = {c} /\ Sequence(<<c>>)
  BY <1>1, Single
<1> QED
  BY <1>1, <1>2, <1>3 DEF Makes, Deletes

(* Deleting what a manifest lists, and asking, which deletes nothing. *)
LEMMA Deletions ==
  ASSUME NEW objs
  PROVE  Deletes(DeleteFromTemplate(objs), objs) /\ Makes(Ask, {}) /\ Deletes(Ask, {})
<1>1. Deletes(<<Command("delete", objs)>>, objs)
  BY InstallsNothing
<1>2. Makes(<<Command("ask", {})>>, {}) /\ Sequence(<<Command("ask", {})>>)
  BY InstallsNothing
<1> QED
  BY <1>1, <1>2 DEF DeleteFromTemplate, Ask, Deletes

(* A file or a secret is deleted before it is created. *)
LEMMA DeletesAndCreates ==
  ASSUME NEW o
  PROVE  Makes(CreateFromFiles(o), {o}) /\ Makes(CreateTLSSecret(o), {o})
<1> DEFINE c == Command("delete", {o})
           d == Command("create", {o})
<1>1. /\ c.do = "delete" /\ c.objs = {o} /\ Installs(c) = {}
      /\ d.do = "create" /\ d.objs = {o} /\ Installs(d) = {o}
  BY DEF Command, Installs
<1>2. CreateFromFiles(o) = <<c, d>> /\ CreateTLSSecret(o) = <<c, d>>
  BY DEF CreateFromFiles, CreateTLSSecret
<1> HIDE DEF c, d
<1>3. Elements(<<c, d>>) = {c, d} /\ DOMAIN <<c, d>> = 1..2 /\ <<c, d>>[1] = c /\ <<c, d>>[2] = d
  BY DEF Elements
<1>4. Sequence(<<c, d>>)
  <2>1. <<c, d>> \in Seq(Elements(<<c, d>>))
    BY <1>3
  <2> QED
    BY <2>1 DEF Sequence, Elements
<1>5. Ordered(<<c, d>>)
  <2>1. DistinctKeys(Installs(c)) /\ DistinctKeys(Installs(d)) /\ Spares(d, c)
    BY <1>1 DEF DistinctKeys, Spares
  <2>2. \A i \in 1..2 : \A j \in 1..(i - 1) : i = 2 /\ j = 1
    OBVIOUS
  <2> QED
    BY <1>3, <1>4, <2>1, <2>2 DEF Ordered
<1> QED
  BY <1>1, <1>2, <1>3, <1>5 DEF Makes

(* Commands that go together follow one another. *)
LEMMA MakesBoth ==
  ASSUME NEW s, NEW t, NEW S, NEW T, Makes(s, S), Makes(t, T), Apart(S, T)
  PROVE  Makes(s \o t, S \cup T)
<1>1. Sequence(s) /\ Sequence(t) /\ Ordered(s) /\ Ordered(t)
  BY DEF Makes, Ordered
<1>2. ASSUME NEW b \in Elements(s), NEW c \in Elements(t)
      PROVE  Spares(c, b)
  <2>1. Installs(b) \subseteq S
    BY DEF Makes
  <2>2. CASE c.do \in {"ask", "apply", "create", "delete"} /\ c.objs \subseteq T
    <3>1. \A o \in Installs(b) : Key(o) \notin Keys(c.objs) /\ \A d \in c.objs : ~Mounts(o, d)
      BY <2>1, <2>2 DEF Apart, Keys
    <3>2. \A p \in Installs(c) : Key(p) \in Keys(c.objs)
      BY DEF Installs, Keys
    <3>3. c.do # "deleteNamespace"
      BY <2>2
    <3> QED
      BY <3>1, <3>2, <3>3 DEF Spares, Disturbs
  <2>3. CASE c.do = "rollout" /\ \A d \in c.objs : d.kind = "Deployment"
    BY <2>3 DEF Spares, Disturbs, Installs, Mounts
  <2> QED
    BY <2>2, <2>3 DEF Makes
<1>3. Ordered(s \o t) /\ Elements(s \o t) = Elements(s) \cup Elements(t)
  BY <1>1, <1>2, Joined
<1> QED
  BY <1>3 DEF Makes

LEMMA DeletesBoth ==
  ASSUME NEW s, NEW t, NEW S, NEW T, Deletes(s, S), Deletes(t, T)
  PROVE  Deletes(s \o t, S \cup T)
<1>1. Sequence(s \o t) /\ Elements(s \o t) = Elements(s) \cup Elements(t)
  BY Joined DEF Deletes
<1> QED
  BY <1>1 DEF Deletes

(* An application that makes S, waits for it and deletes it is as it should be. *)
LEMMA SuitsIf ==
  ASSUME NEW install, NEW wait, NEW uninstall, NEW S, NEW T,
         Makes(install, S), WaitsFor(wait, S), Deletes(uninstall, T),
         \A o \in S : LeftByDesign(o) \/ Key(o) \in Keys(T)
  PROVE  Suits(App(install, wait, uninstall))
<1> DEFINE a == App(install, wait, uninstall)
<1>1. a.install = install /\ a.wait = wait /\ a.uninstall = uninstall
  BY DEF App
<1>2. /\ CommandsOf(a, "install") = Elements(install) /\ CommandsOf(a, "wait") = Elements(wait)
      /\ CommandsOf(a, "uninstall") = Elements(uninstall)
  BY <1>1 DEF CommandsOf, Elements
<1> HIDE DEF a
<1>3. \A o \in Creates(a) : o \in S
  BY <1>2 DEF Creates, Makes
<1>4. InOrder(a)
  <2>1. Ordered(a.install) /\ Sequence(a.wait)
    BY <1>1 DEF Makes, WaitsFor
  <2> QED
    BY <1>2, <1>3, <2>1 DEF InOrder, Ordered, WaitsFor, IsWorkload
<1>5. UninstallsItself(a)
  <2> SUFFICES ASSUME NEW o \in S, ~LeftByDesign(o)
               PROVE  \E c \in Elements(uninstall) : Removes(c, o)
    BY <1>2, <1>3 DEF UninstallsItself
  <2>1. PICK d \in T : Key(d) = Key(o)
    BY DEF Keys
  <2>2. PICK c \in Elements(uninstall) : c.do = "delete" /\ Key(d) \in Keys(c.objs)
    BY DEF Deletes
  <2> QED
    BY <2>1, <2>2 DEF Removes
<1> QED
  BY <1>4, <1>5 DEF Suits, a

(* Applications with one manifest, and one workload to wait for. *)
LEMMA TemplateSuits ==
  ASSUME NEW ns, NEW objs, NEW name, DistinctKeys(objs),
         \A o \in objs : IsWorkload(o) => Key(o) = Key(Deployment(ns, name, ""))
  PROVE  Suits(Template(ns, objs, name))
<1>1. Makes(ApplyTemplate(objs), objs) /\ Deletes(DeleteFromTemplate(objs), objs)
  BY Applies, Deletions
<1>2. WaitsFor(Rollout(ns, <<name>>), objs)
  BY RollsOutOne
<1>3. \A o \in objs : Key(o) \in Keys(objs)
  BY DEF Keys
<1> QED
  BY <1>1, <1>2, <1>3, SuitsIf DEF Template


(* One object of each kind. *)
LEMMA DistinctKinds ==
  ASSUME NEW S, \A o, p \in S : o.kind = p.kind => o = p
  PROVE  DistinctKeys(S)
BY DEF DistinctKeys, Key

(* Objects of other kinds are apart, unless they are mounted. *)
LEMMA KindsApart ==
  ASSUME NEW S, NEW T, \A o \in S : o.mounts = {}, \A o \in S, d \in T : o.kind # d.kind
  PROVE  Apart(S, T)
BY DEF Apart, Key, Mounts


(* The applications with one manifest. *)
LEMMA TemplatesSuit ==
  ASSUME NEW ns, NEW name, NEW spec
  PROVE  /\ Suits(Httpbin(ns, name, spec)) /\ Suits(Fortio(ns))
         /\ Suits(Echo(ns)) /\ Suits(EchoV1(ns)) /\ Suits(EchoV2(ns))
<1>1. ASSUME NEW n, NEW v
      PROVE  Key(Deployment(ns, n, v)) = Key(Deployment(ns, n, ""))
  BY DEF Key, Deployment, Object
<1>2. ASSUME NEW kind \in {"ServiceAccount", "Service"}, NEW n, NEW v
      PROVE  ~IsWorkload(Object(kind, ns, n, v))
  BY DEF IsWorkload, Object
<1>3. ASSUME NEW n, NEW v, NEW m, NEW w
      PROVE  DistinctKeys({Object("Service", ns, n, v), Deployment(ns, m, w)})
  BY DEF DistinctKeys, Key, Deployment, Object
<1>4. Suits(Httpbin(ns, name, spec))
  <2> DEFINE objs == {Object("ServiceAccount", ns, "httpbin", ""),
                      Object("Service", ns, "httpbin", ""), Deployment(ns, name, spec)}
  <2>1. DistinctKeys(objs)
    <3>1. /\ Object("ServiceAccount", ns, "httpbin", "").kind = "ServiceAccount"
          /\ Object("Service", ns, "httpbin", "").kind = "Service"
          /\ Deployment(ns, name, spec).kind = "Deployment"
      BY DEF Object, Deployment
    <3>2. \A o, p \in objs : o.kind = p.kind => o = p
      BY <3>1
    <3> HIDE DEF objs
    <3> QED
      BY <3>2, DistinctKinds
  <2>2. \A o \in objs : IsWorkload(o) => Key(o) = Key(Deployment(ns, name, ""))
    BY <1>1, <1>2
  <2>3. Httpbin(ns, name, spec) = Template(ns, objs, name)
    BY DEF Httpbin
  <2> HIDE DEF objs
  <2> QED
    BY <2>1, <2>2, <2>3, TemplateSuits
<1>5. ASSUME NEW n, NEW v, NEW m
      PROVE  Suits(Template(ns, {Object("Service", ns, n, v), Deployment(ns, m, "")}, m))
  <2> DEFINE objs == {Object("Service", ns, n, v), Deployment(ns, m, "")}
  <2>1. DistinctKeys(objs) /\ \A o \in objs : IsWorkload(o) => Key(o) = Key(Deployment(ns, m, ""))
    BY <1>2, <1>3
  <2> HIDE DEF objs
  <2>2. Suits(Template(ns, objs, m))
    BY <2>1, TemplateSuits
  <2> QED
    BY <2>2 DEF objs
<1> QED
  BY <1>4, <1>5 DEF Echo, EchoV1, EchoV2, Fortio

(* Sleep asks before it applies and before it deletes. *)
LEMMA SleepSuits ==
  ASSUME NEW ns, NEW spec
  PROVE  Suits(Sleep(ns, spec))
<1> DEFINE objs == SleepTemplate(ns, spec)
<1>0. /\ Object("ServiceAccount", ns, "sleep", "").kind = "ServiceAccount" /\ Object("ServiceAccount", ns, "sleep", "").mounts = {}
      /\ Object("Service", ns, "sleep", "").kind = "Service" /\ Object("Service", ns, "sleep", "").mounts = {}
      /\ Deployment(ns, "sleep", spec).kind = "Deployment" /\ Deployment(ns, "sleep", spec).mounts = {}
  BY DEF Object, Deployment, Namespace
<1>1. DistinctKeys(objs)
  <2>1. \A o, p \in objs : o.kind = p.kind => o = p
    BY <1>0 DEF SleepTemplate
  <2> HIDE DEF objs
  <2> QED
    BY <2>1, DistinctKinds
<1>2. \A o \in objs : IsWorkload(o) => Key(o) = Key(Deployment(ns, "sleep", ""))
  <2>1. Key(Deployment(ns, "sleep", spec)) = Key(Deployment(ns, "sleep", ""))
    BY DEF Key, Deployment, Object
  <2> QED
    BY <1>0, <2>1 DEF SleepTemplate, IsWorkload
<1> HIDE DEF objs
<1>3. Makes(Ask \o ApplyTemplate(objs), {} \cup objs)
  BY <1>1, Applies, Deletions, MakesBoth DEF Apart
<1>4. Deletes(Ask \o DeleteFromTemplate(objs), {} \cup objs)
  BY Deletions, DeletesBoth
<1>5. WaitsFor(Rollout(ns, <<"sleep">>), {} \cup objs)
  BY <1>2, RollsOutOne
<1>6. \A o \in {} \cup objs : Key(o) \in Keys({} \cup objs)
  BY DEF Keys
<1> QED
  BY <1>3, <1>4, <1>5, <1>6, SuitsIf DEF Sleep, objs

(* Redis creates its namespace, and leaves it. *)
LEMMA RedisSuits ==
  ASSUME NEW ns
  PROVE  Suits(Redis(ns))
<1> DEFINE objs == redisTemplate(ns)
           S == {Namespace(ns)} \cup objs
<1>0. /\ Namespace(ns).kind = "Namespace" /\ Namespace(ns).mounts = {}
      /\ Object("ServiceAccount", ns, "redis", "").kind = "ServiceAccount" /\ Object("ServiceAccount", ns, "redis", "").mounts = {}
      /\ Object("Service", ns, "redis", "").kind = "Service" /\ Object("Service", ns, "redis", "").mounts = {}
      /\ Deployment(ns, "redis", "").kind = "Deployment" /\ Deployment(ns, "redis", "").mounts = {}
  BY DEF Object, Deployment, Namespace
<1>1. DistinctKeys(objs) /\ DistinctKeys({Namespace(ns)})
  <2>1. \A o, p \in objs : o.kind = p.kind => o = p
    BY <1>0 DEF redisTemplate
  <2> HIDE DEF objs
  <2> QED
    BY <2>1, DistinctKinds
<1>2. \A o \in S : IsWorkload(o) => Key(o) = Key(Deployment(ns, "redis", ""))
  BY <1>0 DEF redisTemplate, IsWorkload
<1>3. Apart({Namespace(ns)}, objs)
  <2>1. \A o \in {Namespace(ns)}, d \in objs : o.kind # d.kind
    BY <1>0 DEF redisTemplate
  <2>2. \A o \in {Namespace(ns)} : o.mounts = {}
    BY <1>0
  <2> HIDE DEF objs
  <2> QED
    BY <2>1, <2>2, KindsApart
<1>4. LeftByDesign(Namespace(ns))
  BY DEF LeftByDesign, Namespace, Object
<1>5. CreateNamespace(ns) = ApplyTemplate({Namespace(ns)})
  BY DEF CreateNamespace, ApplyTemplate
<1> HIDE DEF objs
<1>6. Makes(CreateNamespace(ns) \o ApplyTemplate(objs), S)
  BY <1>1, <1>3, <1>5, Applies, MakesBoth
<1>7. Deletes(DeleteFromTemplate(objs), objs)
  BY Deletions
<1>8. \A o \in S : LeftByDesign(o) \/ Key(o) \in Keys(objs)
  BY <1>4 DEF Keys
<1> HIDE DEF S
<1>9. WaitsFor(Rollout(ns, <<"redis">>), S)
  BY <1>2, RollsOutOne
<1> QED
  BY <1>6, <1>7, <1>8, <1>9, SuitsIf DEF Redis, objs

(* A job is waited for until it is complete. *)
LEMMA GrpCurlSuits ==
  ASSUME NEW ns
  PROVE  Suits(GrpCurl(ns))
<1> DEFINE job == Object("Job", ns, "grpcurl", "")
           objs == {job}
<1>1. DistinctKeys(objs) /\ \A o \in objs : Key(o) \in Keys(objs)
  BY DEF DistinctKeys, Keys
<1>2. Makes(ApplyTemplate(objs), objs) /\ Deletes(DeleteFromTemplate(objs), objs)
  BY <1>1, Applies, Deletions
<1>3. WaitsFor(WaitCondition(job), objs)
  BY WaitsOnce
<1> QED
  BY <1>1, <1>2, <1>3, SuitsIf DEF GrpCurl

(* Minio waits for its deployment, too, before it makes its secret, which it leaves. *)
LEMMA MinioSuits ==
  ASSUME NEW ns
  PROVE  Suits(Minio(ns))
<1> DEFINE objs == minioTemplate(ns)
           secret == {Object("Secret", ns, "my-storage-secret", "")}
           rollout == Rollout(ns, <<"minio">>)
           S == objs \cup secret
<1>0. /\ Object("PersistentVolumeClaim", ns, "minio-pv-claim", "").kind = "PersistentVolumeClaim" /\ Object("PersistentVolumeClaim", ns, "minio-pv-claim", "").mounts = {}
      /\ Deployment(ns, "minio", "").kind = "Deployment" /\ Deployment(ns, "minio", "").mounts = {}
      /\ Object("Service", ns, "minio", "").kind = "Service" /\ Object("Service", ns, "minio", "").mounts = {}
      /\ Object("Route", ns, "minio-route", "").kind = "Route" /\ Object("Route", ns, "minio-route", "").mounts = {}
      /\ Object("Secret", ns, "my-storage-secret", "").kind = "Secret" /\ Object("Secret", ns, "my-storage-secret", "").mounts = {}
  BY DEF Object, Deployment, Namespace
<1>1. DistinctKeys(objs) /\ DistinctKeys(secret)
  <2>1. \A o, p \in objs : o.kind = p.kind => o = p
    BY <1>0 DEF minioTemplate
  <2>2. \A o, p \in secret : o.kind = p.kind => o = p
    OBVIOUS
  <2> HIDE DEF objs, secret
  <2> QED
    BY <2>1, <2>2, DistinctKinds
<1>2. \A o \in S : IsWorkload(o) => Key(o) = Key(Deployment(ns, "minio", ""))
  BY <1>0 DEF minioTemplate, IsWorkload
<1>3. Apart(objs, secret)
  <2>1. \A o \in objs, d \in secret : o.kind # d.kind
    BY <1>0 DEF minioTemplate
  <2>2. \A o \in objs : o.mounts = {}
    BY <1>0 DEF minioTemplate
  <2> HIDE DEF objs, secret
  <2> QED
    BY <2>1, <2>2, KindsApart
<1>4. \A o \in secret : LeftByDesign(o)
  <2>1. LeftByDesign(Object("Secret", ns, "my-storage-secret", ""))
    BY DEF LeftByDesign, Object
  <2> QED
    BY <2>1
<1> HIDE DEF objs, secret
<1>5. \A o \in S : LeftByDesign(o) \/ Key(o) \in Keys(objs)
  BY <1>4 DEF Keys
<1>6. \A T : Apart({}, T) /\ Apart(T, {})
  BY DEF Apart
<1>7. Makes(ApplyTemplate(objs), objs) /\ Makes(ApplyTemplate(secret), secret) /\ Makes(Ask, {})
      /\ Deletes(DeleteFromTemplate(objs), objs)
  BY <1>1, Applies, Deletions
<1> HIDE DEF S
<1>8. Makes(rollout, {}) /\ WaitsFor(rollout, S)
  BY <1>2, RollsOutOne
<1> HIDE DEF rollout
<1>9. Makes(Ask \o ApplyTemplate(objs), objs)
  <2>1. Makes(Ask \o ApplyTemplate(objs), {} \cup objs)
    BY <1>6, <1>7, MakesBoth
  <2> QED
    BY <2>1
<1>10. Makes(Ask \o ApplyTemplate(objs) \o rollout, objs)
  <2>1. Makes(Ask \o ApplyTemplate(objs) \o rollout, objs \cup {})
    BY <1>6, <1>8, <1>9, MakesBoth
  <2> QED
    BY <2>1
<1>11. Makes(Ask \o ApplyTemplate(objs) \o rollout \o Ask, objs)
  <2>1. Makes(Ask \o ApplyTemplate(objs) \o rollout \o Ask, objs \cup {})
    BY <1>6, <1>7, <1>10, MakesBoth
  <2> QED
    BY <2>1
<1>12. Makes(Ask \o ApplyTemplate(objs) \o rollout \o Ask \o ApplyTemplate(secret), S)
  BY <1>3, <1>7, <1>11, MakesBoth DEF S
<1> QED
  BY <1>5, <1>7, <1>8, <1>12, SuitsIf DEF Minio, objs, secret, rollout


(* Bookinfo: what is around its deployments comes first, with mTLS or without. *)
LEMMA BookinfoSuits ==
  ASSUME NEW ns, NEW mTLS
  PROVE  Suits(Bookinfo(ns, mTLS))
<1> DEFINE rule == Object("DestinationRule", ns, "all", mTLS)
           plain == Object("DestinationRule", ns, "all", "")
           gate == BookinfoGateway(ns)
           objs == BookinfoTemplate(ns)
           names == BookinfoDeployments
           workloads == {Deployment(ns, names[i], "") : i \in DOMAIN names}
           S == gate \cup {rule} \cup objs
           T == {plain} \cup gate \cup objs
<1>1. /\ Object("Service", ns, "bookinfo", "").kind = "Service"
      /\ Object("Service", ns, "bookinfo", "").mounts = {}
      /\ Object("Gateway", ns, "bookinfo-gateway", "").kind = "Gateway"
      /\ Object("Gateway", ns, "bookinfo-gateway", "").mounts = {}
      /\ Object("VirtualService", ns, "bookinfo", "").kind = "VirtualService"
      /\ Object("VirtualService", ns, "bookinfo", "").mounts = {}
  BY DEF Object
<1>2. rule.kind = "DestinationRule" /\ rule.mounts = {} /\ Key(rule) = Key(plain)
  BY DEF Object, Key
<1>3. \A o \in workloads : o.kind = "Deployment" /\ o.mounts = {}
  <2>1. ASSUME NEW n
        PROVE  Deployment(ns, n, "").kind = "Deployment" /\ Deployment(ns, n, "").mounts = {}
    BY DEF Deployment, Object
  <2> QED
    BY <2>1
<1>4. DistinctKeys(workloads)
  <2>1. ASSUME NEW n, NEW m, Key(Deployment(ns, n, "")) = Key(Deployment(ns, m, ""))
        PROVE  n = m
    BY <2>1 DEF Key, Deployment, Object
  <2> QED
    BY <2>1 DEF DistinctKeys
<1>5. objs = {Object("Service", ns, "bookinfo", "")} \cup workloads
  BY DEF BookinfoTemplate
<1> HIDE DEF workloads
<1>6. DistinctKeys(objs)
  <2> SUFFICES ASSUME NEW o \in objs, NEW p \in objs, Key(o) = Key(p)
               PROVE  o = p
    BY DEF DistinctKeys
  <2>1. o.kind = p.kind
    BY DEF Key
  <2>2. CASE o.kind = "Deployment"
    <3>1. o \in workloads /\ p \in workloads
      BY <1>1, <1>5, <2>1, <2>2
    <3> QED
      BY <1>4, <3>1 DEF DistinctKeys
  <2>3. CASE o.kind # "Deployment"
    BY <1>3, <1>5, <2>1, <2>3
  <2> QED
    BY <2>2, <2>3
<1>7. DistinctKeys(gate) /\ DistinctKeys({rule})
  <2>1. \A o, p \in gate : o.kind = p.kind => o = p
    BY <1>1 DEF BookinfoGateway
  <2> HIDE DEF gate, rule
  <2> QED
    BY <2>1, DistinctKinds
<1>8. /\ \A o \in gate : o.kind \in {"Gateway", "VirtualService"} /\ o.mounts = {}
      /\ \A o \in objs : o.kind \in {"Service", "Deployment"}
  BY <1>1, <1>3, <1>5 DEF BookinfoGateway
<1> HIDE DEF objs, gate, rule, plain
<1>9. Apart(gate, {rule}) /\ Apart(gate \cup {rule}, objs)
  <2>1. /\ \A o \in gate, d \in {rule} : o.kind # d.kind
        /\ \A o \in gate \cup {rule}, d \in objs : o.kind # d.kind
        /\ \A o \in gate \cup {rule} : o.mounts = {}
    BY <1>2, <1>8
  <2> QED
    BY <2>1, KindsApart
<1>10. Makes(ApplyTemplate(gate) \o ApplyTemplate({rule}) \o ApplyTemplate(objs), S)
  <2>1. Makes(ApplyTemplate(gate) \o ApplyTemplate({rule}), gate \cup {rule})
    BY <1>7, <1>9, Applies, MakesBoth
  <2> QED
    BY <1>6, <1>9, <2>1, Applies, MakesBoth
<1>11. Deletes(DeleteFromTemplate({plain}) \o DeleteFromTemplate(gate) \o DeleteFromTemplate(objs), T)
  <2>1. Deletes(DeleteFromTemplate({plain}) \o DeleteFromTemplate(gate), {plain} \cup gate)
    BY Deletions, DeletesBoth
  <2> QED
    BY <2>1, Deletions, DeletesBoth
<1>12. WaitsFor(Rollout(ns, names), S)
  <2>1. Len(names) \in Nat /\ DOMAIN names = 1..Len(names)
    BY DEF BookinfoDeployments
  <2> HIDE DEF names
  <2>2. Ordered(Rollout(ns, names)) /\ \A c \in Elements(Rollout(ns, names)) : c.do = "rollout"
    BY <2>1, RolloutCommands
  <2>3. ASSUME NEW i \in 1..Len(names)
        PROVE  \E c \in Elements(Rollout(ns, names)) : Key(Deployment(ns, names[i], "")) \in Keys(c.objs)
    <3>1. /\ Rollout(ns, names)[i] \in Elements(Rollout(ns, names))
          /\ Key(Deployment(ns, names[i], "")) \in Keys(Rollout(ns, names)[i].objs)
      BY <2>1, RolloutCommands
    <3> QED
      BY <3>1
  <2>4. \A o \in S : IsWorkload(o) => o \in workloads
    BY <1>1, <1>2, <1>5, <1>8 DEF IsWorkload
  <2>5. \A o \in workloads : \E i \in 1..Len(names) : o = Deployment(ns, names[i], "")
    BY <2>1 DEF workloads
  <2> QED
    BY <2>2, <2>3, <2>4, <2>5 DEF WaitsFor, Ordered
<1>13. \A o \in S : Key(o) \in Keys(T)
  BY <1>2 DEF Keys
<1> HIDE DEF S, T
<1>14. Suits(App(ApplyTemplate(gate) \o ApplyTemplate({rule}) \o ApplyTemplate(objs),
                 Rollout(ns, names),
                 DeleteFromTemplate({plain}) \o DeleteFromTemplate(gate) \o DeleteFromTemplate(objs)))
  BY <1>10, <1>11, <1>12, <1>13, SuitsIf
<1> QED
  BY <1>14 DEF Bookinfo, BookinfoRuleAll, gate, objs, rule, plain

(* Nginx: its secrets and its configuration come before the pods that mount them. *)
LEMMA NginxSuits ==
  ASSUME NEW ns, NEW conf
  PROVE  Suits(Nginx(ns, conf))
<1> DEFINE certs == IF conf = "nginx" THEN "nginx" ELSE "mesh-external"
           ca == Object("Secret", ns, "nginx-ca-certs", "")
           server == Object("Secret", ns, "nginx-server-certs", certs)
           config == Object("ConfigMap", ns, "nginx-configmap", conf)
           noServer == Object("Secret", ns, "nginx-server-certs", "")
           noConfig == Object("ConfigMap", ns, "nginx-configmap", "")
           service == Object("Service", ns, "my-nginx", "")
           workload == [Deployment(ns, "my-nginx", "") EXCEPT
                          !.mounts = {"nginx-ca-certs", "nginx-server-certs", "nginx-configmap"}]
           objs == nginxYamlFile(ns)
           S == {ca} \cup {server} \cup {config} \cup objs
           T == objs \cup {noServer} \cup {ca} \cup {noConfig}
<1>1. /\ ca.mounts = {} /\ server.mounts = {} /\ config.mounts = {}
      /\ ca.kind = "Secret" /\ server.kind = "Secret" /\ config.kind = "ConfigMap"
      /\ ca.name = "nginx-ca-certs" /\ server.name = "nginx-server-certs"
  BY DEF Object
<1>2. service.kind = "Service" /\ workload.kind = "Deployment"
  BY DEF Object, Deployment
<1>3. Key(server) = Key(noServer) /\ Key(config) = Key(noConfig)
      /\ Key(workload) = Key(Deployment(ns, "my-nginx", ""))
  BY DEF Object, Deployment, Key
<1>4. objs = {service, workload}
  BY DEF nginxYamlFile
<1>5. NginxInstall(ns, conf) =
        CreateFromFiles(ca) \o CreateTLSSecret(server) \o CreateFromFiles(config) \o ApplyTemplate(objs)
  BY DEF NginxInstall
<1>6. NginxUninstall(ns) =
        DeleteFromTemplate(objs) \o DeleteFromTemplate({noServer}) \o DeleteFromTemplate({ca})
          \o DeleteFromTemplate({noConfig})
  BY DEF NginxUninstall, DeleteResource, DeleteFromTemplate
<1> HIDE DEF ca, server, config, noServer, noConfig, service, workload, objs
<1>7. \A o, p : Key(o) = Key(p) => o.kind = p.kind /\ o.name = p.name
  BY DEF Key
<1>8. Apart({ca}, {server}) /\ Apart({ca} \cup {server}, {config})
      /\ Apart({ca} \cup {server} \cup {config}, objs)
  BY <1>1, <1>2, <1>4, <1>7 DEF Apart, Mounts
<1>9. DistinctKeys(objs)
  BY <1>2, <1>4, <1>7 DEF DistinctKeys
<1>10. Makes(NginxInstall(ns, conf), S)
  <2>1. Makes(CreateFromFiles(ca) \o CreateTLSSecret(server), {ca} \cup {server})
    BY <1>8, DeletesAndCreates, MakesBoth
  <2>2. Makes(CreateFromFiles(ca) \o CreateTLSSecret(server) \o CreateFromFiles(config),
              {ca} \cup {server} \cup {config})
    BY <1>8, <2>1, DeletesAndCreates, MakesBoth
  <2>3. Makes(CreateFromFiles(ca) \o CreateTLSSecret(server) \o CreateFromFiles(config)
                \o ApplyTemplate(objs), S)
    BY <1>8, <1>9, <2>2, Applies, MakesBoth
  <2> HIDE DEF S
  <2> QED
    BY <1>5, <2>3
<1>11. Deletes(NginxUninstall(ns), T)
  <2>1. Deletes(DeleteFromTemplate(objs) \o DeleteFromTemplate({noServer}), objs \cup {noServer})
    BY Deletions, DeletesBoth
  <2>2. Deletes(DeleteFromTemplate(objs) \o DeleteFromTemplate({noServer}) \o DeleteFromTemplate({ca}),
                objs \cup {noServer} \cup {ca})
    BY <2>1, Deletions, DeletesBoth
  <2>3. Deletes(DeleteFromTemplate(objs) \o DeleteFromTemplate({noServer}) \o DeleteFromTemplate({ca})
                  \o DeleteFromTemplate({noConfig}), T)
    BY <2>2, Deletions, DeletesBoth
  <2> HIDE DEF T
  <2> QED
    BY <1>6, <2>3
<1>12. \A o \in S : IsWorkload(o) => Key(o) = Key(Deployment(ns, "my-nginx", ""))
  BY <1>1, <1>2, <1>3, <1>4 DEF IsWorkload
<1>13. \A o \in S : Key(o) \in Keys(T)
  BY <1>3 DEF Keys
<1> HIDE DEF S, T
<1>14. WaitsFor(Rollout(ns, <<"my-nginx">>), S)
  BY <1>12, RollsOutOne
<1> QED
  BY <1>10, <1>11, <1>13, <1>14, SuitsIf DEF Nginx

(***************************************************************************)
(* Every application, in every namespace and variant, installs its         *)
(* workloads after what they mount, waits for each of them, and names in   *)
(* its Uninstall all that it installs but Redis's namespace and Minio's    *)
(* secret.                                                                 *)
(***************************************************************************)
THEOREM ApplicationsSuit ==
  ASSUME NEW ns, NEW name, NEW variant
  PROVE  \A a \in {Httpbin(ns, name, variant), Echo(ns), EchoV1(ns), EchoV2(ns), Fortio(ns),
                   Sleep(ns, variant), Redis(ns), GrpCurl(ns), Minio(ns), Bookinfo(ns, variant),
                   Nginx(ns, variant)} :
           InOrder(a) /\ UninstallsItself(a)
BY TemplatesSuit, SleepSuits, RedisSuits, GrpCurlSuits, MinioSuits, BookinfoSuits, NginxSuits DEF Suits

================================================================================
