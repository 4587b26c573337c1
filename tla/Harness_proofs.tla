---------------------------- MODULE Harness_proofs ----------------------------
(***************************************************************************)
(* Proofs about Harness for every depth of nesting, number of attempts and *)
(* set of clusters.                                                        *)
(***************************************************************************)
EXTENDS Harness, TLAPS

\* The activation that a call starts has the type of activations.
LEMMA NewFrameType ==
  ASSUME NEW k \in Kinds, NEW b \in 0..MaxDepth, NEW o \in Configs,
         NEW s \in Configs, NEW st \in Stages
  PROVE  NewFrame(k, b, o, s, st) \in Frame
BY HarnessAssumption DEF NewFrame, Frame

\* An unused slot and a new test are activations.
LEMMA UnusedType == Unused \in Frame /\ Test \in Frame
BY HarnessAssumption DEF Unused, Test, NewFrame, Frame, Kinds, Loops, Configs, Stages

\* Marking a helper as failed changes failed flags only, and only sets them.
LEMMA MarkFailedType ==
  ASSUME NEW fs \in [Levels -> Frame], NEW h \in Levels, tests \in Nat
  PROVE  /\ MarkFailed(fs, h) \in [Levels -> Frame]
         /\ \A d \in Levels :
              LET f == MarkFailed(fs, h)[d]
              IN /\ f.kind = fs[d].kind /\ f.base = fs[d].base /\ f.n = fs[d].n
                 /\ f.oc = fs[d].oc /\ f.saved = fs[d].saved
                 /\ f.stage = fs[d].stage /\ f.cleanups = fs[d].cleanups
                 /\ f.gathered = fs[d].gathered
                 /\ fs[d].failed => f.failed
                 /\ d > h => f = fs[d]
         /\ MarkFailed(fs, h)[h].failed
         /\ h <= tests => \A d \in 1..h : MarkFailed(fs, h)[d].failed
         /\ h > tests => \A d \in Levels : d # h => MarkFailed(fs, h)[d] = fs[d]
<1> DEFINE mf == MarkFailed(fs, h)
           E(d) == [fs[d] EXCEPT !.failed = TRUE]
<1>1. \A d \in Levels : /\ E(d) \in Frame /\ E(d).failed
                        /\ E(d).kind = fs[d].kind /\ E(d).base = fs[d].base
                        /\ E(d).n = fs[d].n /\ E(d).oc = fs[d].oc
                        /\ E(d).saved = fs[d].saved /\ E(d).stage = fs[d].stage
                        /\ E(d).cleanups = fs[d].cleanups
                        /\ E(d).gathered = fs[d].gathered
  BY DEF Frame
<1>2. CASE h <= tests
  <2>1. mf = [i \in Levels |-> IF i <= h THEN E(i) ELSE fs[i]]
    BY <1>2 DEF MarkFailed
  <2> HIDE DEF mf, E
  <2>2. \A d \in Levels : mf[d] = IF d <= h THEN E(d) ELSE fs[d]
    BY <2>1
  <2>3. mf \in [Levels -> Frame]
    BY <2>1, <1>1
  <2>4. ~(h > tests) /\ h \in Nat
    BY <1>2, HarnessAssumption DEF Levels
  <2> QED
    BY <2>2, <2>3, <2>4, <1>1, HarnessAssumption DEF mf, Levels
<1>3. CASE ~(h <= tests)
  <2>1. mf = [fs EXCEPT ![h] = E(h)]
    BY <1>3 DEF MarkFailed
  <2> HIDE DEF mf, E
  <2>2. \A d \in Levels : mf[d] = IF d = h THEN E(h) ELSE fs[d]
    BY <2>1
  <2>3. mf \in [Levels -> Frame]
    BY <2>1, <1>1
  <2> QED
    BY <2>2, <2>3, <1>1, <1>3, HarnessAssumption DEF mf, Levels
<1> QED BY <1>2, <1>3

------------------------------------------------------------------------------
\* What the helper of the running code is.
LEMMA HelperOfTop ==
  ASSUME TypeOK, HelperInv
  PROVE  /\ Helper \in tests..depth
         /\ Helper \in Levels
         /\ Helper > tests => Recovers(frames[Helper]) /\ HelperAt(frames[Helper], Helper) = Helper
         /\ InCall => /\ Top.base = HelperAt(frames[depth - 1], depth - 1)
                      /\ Top.base \in tests..depth - 1
                      /\ Top.base \in Levels
                      /\ Top.base > tests => /\ Recovers(frames[Top.base])
                                             /\ HelperAt(frames[Top.base], Top.base) = Top.base
                      /\ Helper = depth \/ Helper = Top.base
BY HarnessAssumption DEF TypeOK, HelperInv, Helper, HelperAt, Top, Levels, InCall

\* The frames and the layout after the three ways a step changes the stack:
\* marking a helper, dropping the top, and pushing.
LEMMA MarkStack ==
  ASSUME TypeOK, NEW h \in 1..depth, depth' = depth, tests' = tests,
         frames' = MarkFailed(frames, h)
  PROVE  frames' \in [Levels -> Frame] /\ Layout'
<1>1. h \in Levels /\ tests \in Nat
  BY HarnessAssumption DEF TypeOK, Levels
<1>2. /\ frames' \in [Levels -> Frame]
      /\ \A d \in Levels : /\ frames'[d].kind = frames[d].kind
                           /\ d > h => frames'[d] = frames[d]
  BY <1>1, MarkFailedType DEF TypeOK
<1> QED
  BY <1>1, <1>2, HarnessAssumption DEF TypeOK, Layout, Levels

\* The top is dropped: the rest keeps its types and its place.
LEMMA DropStack ==
  ASSUME TypeOK, InCall, depth' = depth - 1, tests' = tests,
         frames' = [frames EXCEPT ![depth] = Unused]
  PROVE  /\ depth' \in Levels /\ tests' \in 1..depth'
         /\ frames' \in [Levels -> Frame] /\ Layout'
         /\ \A d \in 1..depth' : frames'[d] = frames[d]
<1>1. /\ frames' \in [Levels -> Frame]
      /\ \A d \in Levels : frames'[d] = IF d = depth THEN Unused ELSE frames[d]
  BY UnusedType DEF TypeOK
<1>2. Unused.kind = "none"
  BY DEF Unused, NewFrame
<1> QED
  BY <1>1, <1>2, HarnessAssumption DEF TypeOK, InCall, Layout, Levels

\* The top is dropped and a helper below it marked as failed (GiveUp).
LEMMA DropAndMarkStack ==
  ASSUME TypeOK, InCall, depth' = depth - 1, tests' = tests, NEW h \in 1..depth - 1,
         frames' = MarkFailed([frames EXCEPT ![depth] = Unused], h)
  PROVE  /\ depth' \in Levels /\ tests' \in 1..depth'
         /\ frames' \in [Levels -> Frame] /\ Layout'
         /\ \A d \in 1..depth' :
              /\ frames'[d].kind = frames[d].kind /\ frames'[d].base = frames[d].base
              /\ frames'[d].n = frames[d].n       /\ frames'[d].oc = frames[d].oc
              /\ frames'[d].saved = frames[d].saved
              /\ frames'[d].stage = frames[d].stage
              /\ frames[d].failed => frames'[d].failed
              /\ d # h /\ h > tests => (frames'[d].failed <=> frames[d].failed)
         /\ frames'[h].failed
         /\ h <= tests => \A d \in 1..h : frames'[d].failed
<1> DEFINE fs == [frames EXCEPT ![depth] = Unused]
<1>1. /\ fs \in [Levels -> Frame]
      /\ \A d \in Levels : fs[d] = IF d = depth THEN Unused ELSE frames[d]
  BY UnusedType DEF TypeOK
<1>2. /\ Unused.kind = "none" /\ h \in Levels /\ frames' = MarkFailed(fs, h)
      /\ tests \in Nat
  BY HarnessAssumption DEF Unused, NewFrame, TypeOK, Levels
<1> HIDE DEF fs
<1>3. /\ frames' \in [Levels -> Frame]
      /\ \A d \in Levels : /\ frames'[d].kind = fs[d].kind /\ frames'[d].base = fs[d].base
                           /\ frames'[d].n = fs[d].n       /\ frames'[d].oc = fs[d].oc
                           /\ frames'[d].saved = fs[d].saved
                           /\ frames'[d].stage = fs[d].stage
                           /\ fs[d].failed => frames'[d].failed
                           /\ d > h => frames'[d] = fs[d]
      /\ frames'[h].failed
      /\ h <= tests => \A d \in 1..h : frames'[d].failed
      /\ h > tests => \A d \in Levels : d # h => frames'[d] = fs[d]
  <2> DEFINE m == MarkFailed(fs, h)
  <2>1. /\ m \in [Levels -> Frame]
        /\ \A d \in Levels :
             /\ m[d].kind = fs[d].kind /\ m[d].base = fs[d].base /\ m[d].n = fs[d].n
             /\ m[d].oc = fs[d].oc /\ m[d].saved = fs[d].saved
             /\ m[d].stage = fs[d].stage
             /\ fs[d].failed => m[d].failed
             /\ d > h => m[d] = fs[d]
        /\ m[h].failed
        /\ h <= tests => \A d \in 1..h : m[d].failed
        /\ h > tests => \A d \in Levels : d # h => m[d] = fs[d]
    BY <1>1, <1>2, MarkFailedType
  <2> HIDE DEF m
  <2> QED
    BY <2>1, <1>2, ZenonT(30) DEF m
<1>4. /\ depth' \in Levels /\ tests' \in 1..depth' /\ 1..depth' \in SUBSET Levels
      /\ \A d \in 1..depth' : fs[d] = frames[d]
  BY <1>1, HarnessAssumption DEF TypeOK, InCall, Levels
<1>5. Layout'
  <2> SUFFICES ASSUME NEW d \in Levels
               PROVE  /\ d <= tests <=> frames'[d].kind = "test"
                      /\ d > depth - 1 <=> frames'[d].kind = "none"
                      /\ d > depth - 1 => frames'[d] = Unused
    BY DEF Layout
  <2>1. frames'[d].kind = fs[d].kind /\ (d > h => frames'[d] = fs[d])
    BY <1>3
  <2> QED
    BY <2>1, <1>1, <1>2, HarnessAssumption DEF TypeOK, InCall, Layout, Levels
<1>6. ASSUME NEW d \in 1..depth'
      PROVE  d \in Levels /\ fs[d] = frames[d]
  BY <1>4
<1>7. ASSUME NEW d \in 1..depth'
      PROVE  /\ frames'[d].kind = frames[d].kind /\ frames'[d].base = frames[d].base
             /\ frames'[d].n = frames[d].n       /\ frames'[d].oc = frames[d].oc
             /\ frames'[d].saved = frames[d].saved
             /\ frames'[d].stage = frames[d].stage
             /\ frames[d].failed => frames'[d].failed
             /\ d # h /\ h > tests => (frames'[d].failed <=> frames[d].failed)
  <2>1. d \in Levels /\ fs[d] = frames[d]
    BY <1>6
  <2> HIDE DEF fs
  <2>2. d # h /\ h > tests => frames'[d] = fs[d]
    BY <1>3, <2>1
  <2>3. /\ frames'[d].kind = fs[d].kind /\ frames'[d].base = fs[d].base
        /\ frames'[d].n = fs[d].n       /\ frames'[d].oc = fs[d].oc
        /\ frames'[d].saved = fs[d].saved
        /\ frames'[d].stage = fs[d].stage
        /\ fs[d].failed => frames'[d].failed
    BY <1>3, <2>1
  <2> QED
    BY <2>1, <2>2, <2>3
<1> HIDE DEF fs
<1>8. depth' \in Levels /\ tests' \in 1..depth'
  BY <1>4
<1>9. /\ frames' \in [Levels -> Frame]
      /\ frames'[h].failed
      /\ h <= tests => \A d \in 1..h : frames'[d].failed
  BY <1>3
<1> QED
  BY <1>5, <1>7, <1>8, <1>9

\* An activation of a helper, or a subtest where no helper runs, goes on top.
LEMMA PushStack ==
  ASSUME TypeOK, depth < MaxDepth, depth' = depth + 1, NEW f \in Frame,
         frames' = [frames EXCEPT ![depth + 1] = f],
         \/ f.kind \in Loops \cup {"with"} /\ tests' = tests
         \/ f.kind = "test" /\ tests = depth /\ tests' = tests + 1
  PROVE  /\ depth' \in Levels /\ tests' \in 1..depth'
         /\ frames' \in [Levels -> Frame] /\ Layout'
         /\ \A d \in 1..depth : frames'[d] = frames[d]
         /\ frames'[depth + 1] = f
<1>1. /\ frames' \in [Levels -> Frame]
      /\ \A d \in Levels : frames'[d] = IF d = depth + 1 THEN f ELSE frames[d]
      /\ depth + 1 \in Levels
  BY HarnessAssumption DEF TypeOK, Levels
<1> QED
  BY <1>1, HarnessAssumption DEF TypeOK, Layout, Levels, Loops

------------------------------------------------------------------------------
\* Each action keeps the types.
LEMMA TypeStep == TypeOK /\ HelperInv /\ StageInv /\ [Next]_vars => TypeOK'
<1> SUFFICES ASSUME TypeOK, HelperInv, StageInv, [Next]_vars
             PROVE  TypeOK'
  OBVIOUS
<1> USE HarnessAssumption DEF Levels
<1>h. /\ Helper \in 1..depth
      /\ InCall => Top.base \in 1..depth - 1 /\ tests \in 1..depth - 1
  BY HelperOfTop DEF TypeOK, InCall
<1>t. /\ depth \in Levels /\ tests \in 1..depth
      /\ frames \in [Levels -> Frame] /\ Top \in Frame
      /\ kubeconfig \in Configs /\ NoConfig \in Configs
      /\ Top.saved \in Configs /\ Top.oc \in Configs
  BY DEF TypeOK, Top, Configs, Frame
<1>1. CASE Error
  BY <1>1, <1>h, MarkStack DEF TypeOK, Error
<1>2. CASE Fatal
  BY <1>2, <1>h, MarkStack DEF TypeOK, Fatal, FailNowMode
<1>3. CASE Skip
  BY <1>3 DEF TypeOK, Layout, Skip, history
<1>4. CASE Panic
  BY <1>4 DEF TypeOK, Layout, Panic
<1>5. ASSUME NEW k \in Loops \cup {"with"}, NEW o \in Configs, Call(k, o)
      PROVE  TypeOK'
  <2> DEFINE f == NewFrame(k, Helper, o, SaveFor(o, kubeconfig), "none")
  <2>1. /\ f \in Frame /\ f.kind = k
        /\ Enter(o, kubeconfig) \in Configs /\ Enter(o, want[depth]) \in Configs
    BY <1>h, <1>t DEF NewFrame, Frame, SaveFor, Enter, Kinds, Stages, TypeOK
  <2> HIDE DEF f
  <2>2. /\ depth < MaxDepth /\ depth' = depth + 1 /\ tests' = tests
        /\ frames' = [frames EXCEPT ![depth + 1] = f]
    BY <1>5 DEF Call, f
  <2>3. /\ depth' \in Levels /\ tests' \in 1..depth'
        /\ frames' \in [Levels -> Frame] /\ Layout'
    BY <2>1, <2>2, PushStack
  <2> QED
    BY <1>5, <2>1, <2>3 DEF TypeOK, Call
<1>6. CASE Return
  BY <1>6, <1>t, DropStack DEF TypeOK, Return, PopHistory, Leave
<1>7. ASSUME InCall, Top.kind \in Loops, Retry, UNCHANGED <<tests, process, crashing>>,
             leaked' \in BOOLEAN
      PROVE  TypeOK'
  <2> DEFINE g == [frames[depth] EXCEPT !.n = @ + 1, !.failed = FALSE,
                                        !.saved = SaveFor(Top.oc, kubeconfig)]
  <2>1. g \in Frame /\ g.kind = frames[depth].kind
    <3>1. SaveFor(Top.oc, kubeconfig) \in Configs /\ frames[depth] \in Frame
      BY <1>t DEF SaveFor
    <3>2. frames[depth].n + 1 \in Nat
      BY <3>1 DEF Frame
    <3> QED
      BY <3>1, <3>2 DEF Frame
  <2>2. frames' = [frames EXCEPT ![depth] = g]
    BY <1>7, <1>t DEF Retry
  <2>3. Enter(Top.oc, kubeconfig) \in Configs
    BY <1>t DEF Enter
  <2> HIDE DEF g
  <2>4. /\ frames' \in [Levels -> Frame]
        /\ \A d \in Levels : frames'[d].kind = frames[d].kind
        /\ \A d \in Levels : d # depth => frames'[d] = frames[d]
    BY <1>t, <2>1, <2>2
  <2>5. depth' = depth /\ tests' = tests
    BY <1>7 DEF Retry
  <2>6. Layout'
    <3> SUFFICES ASSUME NEW d \in Levels
                 PROVE  /\ d <= tests <=> frames'[d].kind = "test"
                        /\ d > depth <=> frames'[d].kind = "none"
                        /\ d > depth => frames'[d] = Unused
      BY <2>5 DEF Layout
    <3>1. frames'[d].kind = frames[d].kind
      BY <2>4
    <3>2. d > depth => frames'[d] = frames[d]
      BY <2>4, <1>t
    <3>3. /\ d <= tests <=> frames[d].kind = "test"
          /\ d > depth <=> frames[d].kind = "none"
          /\ d > depth => frames[d] = Unused
      BY DEF TypeOK, Layout
    <3> QED
      BY <3>1, <3>2, <3>3
  <2> QED
    BY <1>7, <1>t, <2>3, <2>4, <2>5, <2>6 DEF TypeOK, Retry
<1>8. ASSUME InCall, Top.kind \in Loops, GiveUp, UNCHANGED <<tests, process, crashing>>,
             leaked' \in BOOLEAN
      PROVE  TypeOK'
  BY <1>8, <1>t, <1>h, DropAndMarkStack DEF TypeOK, GiveUp, InCall, PopHistory, FailNowMode
<1>9. CASE AttemptFailed
  BY <1>7, <1>8, <1>9 DEF AttemptFailed, TypeOK, Loops
<1>10. CASE Recover
  BY <1>7, <1>8, <1>10 DEF Recover, TypeOK, Recovers, Loops
<1>11. CASE Unwind
  BY <1>11, <1>t, DropStack DEF TypeOK, Unwind, PopHistory
<1> DEFINE keep(fs) == /\ fs \in [Levels -> Frame]
                       /\ \A d \in Levels : fs[d].kind = frames[d].kind
                       /\ \A d \in Levels : d # depth => fs[d] = frames[d]
<1>12. ASSUME keep(frames'), UNCHANGED <<depth, tests, kubeconfig, dirty, want, leaked>>,
              mode' \in {mode, "run"}, process' \in {process, "exited", "crashed"},
              crashing' \in BOOLEAN
       PROVE  TypeOK'
  BY <1>12 DEF TypeOK, Layout
<1>13. CASE Cleanup
  <2>1. keep(frames')
    <3> DEFINE g == [frames[depth] EXCEPT !.cleanups = @ + 1]
    <3>0. frames[depth].cleanups + 1 \in 0..MaxCleanups /\ frames[depth] \in Frame
      BY <1>13, <1>t DEF Cleanup, Frame, Top
    <3>1. g \in Frame /\ g.kind = frames[depth].kind
      BY <3>0 DEF Frame
    <3>2. frames' = [frames EXCEPT ![depth] = g]
      BY <1>13, <1>t DEF Cleanup
    <3> HIDE DEF g
    <3> QED BY <1>t, <3>1, <3>2
  <2> QED BY <1>12, <1>13, <2>1 DEF Cleanup, history, TypeOK
<1>14. CASE RunSubtest
  <2>1. Test \in Frame /\ Test.kind = "test"
    BY UnusedType DEF Test, NewFrame
  <2> QED
    BY <1>14, <2>1, PushStack DEF RunSubtest, TypeOK
<1>15. CASE EndBody
  <2>1. keep(frames')
    BY <1>15, <1>t DEF EndBody, Frame, Stages, Top
  <2> QED BY <1>12, <1>15, <2>1 DEF EndBody, history, TypeOK
<1>16. CASE RunCleanup
  <2>1. keep(frames')
    BY <1>16, <1>t DEF RunCleanup, Frame, Stages, Top
  <2> QED BY <1>12, <1>16, <2>1 DEF RunCleanup, history, TypeOK
<1>17. CASE EndCleanup
  <2>1. keep(frames')
    BY <1>17, <1>t DEF EndCleanup, Frame, Stages, Top
  <2> QED BY <1>12, <1>17, <2>1 DEF EndCleanup, history, TypeOK
<1>18. CASE FinishSubtest
  <2> DEFINE fs == IF crashing THEN MarkFailed(frames, tests) ELSE frames
             us == [fs EXCEPT ![depth] = Unused]
             p  == [us[depth - 1] EXCEPT !.stage = "cleanups"]
             gs == IF crashing THEN [us EXCEPT ![depth - 1] = p] ELSE us
  <2>1. /\ depth = tests /\ depth > 1 /\ depth' = depth - 1 /\ tests' = tests - 1
        /\ depth - 1 \in Levels /\ tests \in Levels
    BY <1>18, <1>t DEF FinishSubtest, AllCleanedUp
  <2>2. fs \in [Levels -> Frame] /\ \A d \in Levels : fs[d].kind = frames[d].kind /\ (d > depth => fs[d] = frames[d])
    BY <2>1, <1>t, MarkFailedType
  <2>3. frames' = gs
    BY <1>18, <2>1, <2>2 DEF FinishSubtest
  <2> HIDE DEF fs
  <2>a. us \in [Levels -> Frame] /\ \A d \in Levels : us[d] = IF d = depth THEN Unused ELSE fs[d]
    BY <2>1, <2>2, UnusedType
  <2> HIDE DEF us
  <2>4. p \in Frame /\ p.kind = us[depth - 1].kind
    BY <2>1, <2>a, SMTT(20) DEF Frame, Stages
  <2> HIDE DEF p
  <2>5. /\ gs \in [Levels -> Frame]
        /\ \A d \in Levels : /\ d < depth => gs[d].kind = frames[d].kind
                             /\ d = depth => gs[d] = Unused
                             /\ d > depth => gs[d] = frames[d]
    BY <2>1, <2>2, <2>4, <2>a, <1>t
  <2> HIDE DEF gs
  <2>b. Unused.kind = "none"
    BY DEF Unused, NewFrame
  <2>6. frames' \in [Levels -> Frame] /\ Layout'
    <3> SUFFICES ASSUME NEW d \in Levels
                 PROVE  /\ d <= depth - 1 <=> gs[d].kind = "test"
                        /\ d > depth - 1 <=> gs[d].kind = "none"
                        /\ d > depth - 1 => gs[d] = Unused
      BY <2>1, <2>3, <2>5 DEF Layout
    <3> QED
      BY <2>1, <2>5, <2>b, <1>t DEF TypeOK, Layout
  <2>7. /\ dirty' \in [Levels -> BOOLEAN] /\ want' \in [Levels -> Configs]
        /\ UNCHANGED <<mode, kubeconfig, process, crashing, leaked>>
    BY <1>18, <1>t DEF FinishSubtest, PopHistory, TypeOK
  <2>8. depth' \in Levels /\ tests' \in 1..depth'
    BY <2>1, <1>t
  <2> QED
    BY <2>6, <2>7, <2>8 DEF TypeOK
<1>19. CASE FinishTest
  <2> DEFINE fs == IF crashing THEN MarkFailed(frames, 1) ELSE frames
             p  == [fs[1] EXCEPT !.stage = "done"]
  <2>1. depth = 1 /\ tests = 1 /\ 1 \in Levels
    BY <1>19, <1>t DEF FinishTest, AllCleanedUp
  <2>2. fs \in [Levels -> Frame] /\ \A d \in Levels : fs[d].kind = frames[d].kind /\ (d # 1 => fs[d] = frames[d])
    BY <2>1, <1>t, MarkFailedType
  <2>3. frames' = [fs EXCEPT ![1] = p]
    BY <1>19, <2>1, <2>2 DEF FinishTest
  <2>4. p \in Frame /\ p.kind = fs[1].kind
    BY <2>1, <2>2, SMTT(20) DEF Frame, Stages
  <2> HIDE DEF fs, p
  <2>5. keep(frames')
    BY <2>1, <2>2, <2>3, <2>4
  <2> QED
    BY <1>12, <1>19, <2>5 DEF FinishTest, history, TypeOK
<1>20. CASE Ended \/ UNCHANGED vars
  BY <1>20 DEF TypeOK, Layout, Ended, vars
<1> QED
  BY <1>1, <1>2, <1>3, <1>4, <1>5, <1>6, <1>9, <1>10, <1>11, <1>13, <1>14, <1>15, <1>16,
     <1>17, <1>18, <1>19, <1>20, <1>t
  DEF Next, UntilSuccess, WaitFor, RetryFunction, WithKubeconfig, Loops

------------------------------------------------------------------------------
(***************************************************************************)
(* The five shapes a step can have, as far as the stack is concerned.      *)
(***************************************************************************)
Same(d) == /\ frames'[d].kind = frames[d].kind /\ frames'[d].base = frames[d].base
           /\ frames'[d].n = frames[d].n       /\ frames'[d].oc = frames[d].oc
           /\ frames'[d].saved = frames[d].saved
           /\ frames[d].failed => frames'[d].failed

StayShape == /\ depth' = depth /\ tests' = tests
             /\ \A d \in Levels : Same(d)
             /\ \A d \in Levels : d # depth => frames'[d].stage = frames[d].stage

PopShape == /\ InCall /\ depth' = depth - 1 /\ tests' = tests
            /\ \A d \in 1..depth' : Same(d) /\ frames'[d].stage = frames[d].stage
            /\ \A d \in Levels : d > depth' => frames'[d] = Unused

PushShape(f) == /\ depth < MaxDepth /\ depth' = depth + 1
                /\ frames'[depth + 1] = f
                /\ \A d \in Levels : d # depth + 1 => frames'[d] = frames[d]

RetryShape == /\ InCall /\ depth' = depth /\ tests' = tests
              /\ \A d \in Levels : d # depth => frames'[d] = frames[d]
              /\ frames'[depth].kind = Top.kind /\ frames'[depth].base = Top.base
              /\ frames'[depth].oc = Top.oc /\ frames'[depth].n = Top.n + 1
              /\ frames'[depth].saved = SaveFor(Top.oc, kubeconfig)
              /\ frames'[depth].stage = Top.stage
              /\ ~frames'[depth].failed

SubEndShape == /\ depth = tests /\ tests > 1
               /\ depth' = depth - 1 /\ tests' = tests - 1
               /\ \A d \in 1..depth' : Same(d)
               /\ \A d \in 1..depth' - 1 : frames'[d].stage = frames[d].stage
               /\ frames'[depth'].stage =
                    IF crashing THEN "cleanups" ELSE frames[depth'].stage
               /\ \A d \in Levels : d > depth' => frames'[d] = Unused
               /\ \A d \in 1..depth' :
                    (frames'[d].failed <=> crashing \/ frames[d].failed)

\* Marking a helper leaves the stack as it is.
LEMMA MarkStay ==
  ASSUME TypeOK, NEW h \in 1..depth, depth' = depth, tests' = tests,
         frames' = MarkFailed(frames, h)
  PROVE  StayShape /\ \A d \in Levels : frames'[d].stage = frames[d].stage
<1>1. h \in Levels /\ tests \in Nat
  BY HarnessAssumption DEF TypeOK, Levels
<1> QED
  BY <1>1, MarkFailedType DEF TypeOK, StayShape, Same

\* The actions that leave the stack as it is, but for the top's stage.
LEMMA StayActions ==
  ASSUME TypeOK, HelperInv,
         \/ Error \/ Fatal \/ Skip \/ Panic \/ Cleanup \/ EndBody \/ RunCleanup
         \/ EndCleanup \/ FinishTest \/ Ended \/ UNCHANGED vars
  PROVE  StayShape
<1>h. Helper \in 1..depth
  BY HelperOfTop DEF TypeOK
<1>t. /\ depth \in Levels /\ frames \in [Levels -> Frame] /\ 1 \in Levels
      /\ tests \in Nat
  BY HarnessAssumption DEF TypeOK, Levels
<1>1. CASE Error \/ Fatal
  BY <1>1, <1>h, MarkStay DEF Error, Fatal
<1>2. CASE Skip \/ Panic \/ Ended \/ UNCHANGED vars
  BY <1>2 DEF Skip, Panic, Ended, vars, StayShape, Same
<1>3. CASE Cleanup
  BY <1>3, <1>t DEF Cleanup, StayShape, Same, Frame
<1>4. CASE EndBody
  BY <1>4, <1>t DEF EndBody, StayShape, Same, Frame
<1>5. CASE RunCleanup
  BY <1>5, <1>t DEF RunCleanup, StayShape, Same, Frame
<1>6. CASE EndCleanup
  BY <1>6, <1>t DEF EndCleanup, StayShape, Same, Frame
<1>7. CASE FinishTest
  <2> DEFINE fs == IF crashing THEN MarkFailed(frames, 1) ELSE frames
  <2>1. depth = 1 /\ tests = 1 /\ depth' = depth /\ tests' = tests
    BY <1>7 DEF FinishTest, AllCleanedUp
  <2>2. /\ fs \in [Levels -> Frame]
        /\ \A d \in Levels :
             /\ fs[d].kind = frames[d].kind /\ fs[d].base = frames[d].base
             /\ fs[d].n = frames[d].n /\ fs[d].oc = frames[d].oc
             /\ fs[d].saved = frames[d].saved /\ fs[d].stage = frames[d].stage
             /\ frames[d].failed => fs[d].failed
    <3>1. CASE crashing
      BY <3>1, <1>t, MarkFailedType
    <3>2. CASE ~crashing
      BY <3>2, <1>t
    <3> QED BY <3>1, <3>2
  <2>3. frames' = [fs EXCEPT ![1].stage = "done"]
    BY <1>7 DEF FinishTest
  <2> HIDE DEF fs
  <2> QED
    BY <2>1, <2>2, <2>3, <1>t DEF StayShape, Same, Frame
<1> QED
  BY <1>1, <1>2, <1>3, <1>4, <1>5, <1>6, <1>7

\* The actions that drop the top and, within a test, no more.
LEMMA PopActions ==
  ASSUME TypeOK, HelperInv,
         \/ Return \/ Unwind
         \/ InCall /\ GiveUp /\ UNCHANGED tests
  PROVE  PopShape
<1>t. /\ depth \in Levels /\ tests \in 1..depth /\ frames \in [Levels -> Frame]
      /\ \A d \in Levels : d > depth => frames[d] = Unused
  BY DEF TypeOK, Layout
<1>1. CASE Return \/ Unwind
  <2>1. /\ InCall /\ depth' = depth - 1 /\ tests' = tests
        /\ frames' = [frames EXCEPT ![depth] = Unused]
    BY <1>1 DEF Return, Unwind
  <2>2. \A d \in Levels : frames'[d] = IF d = depth THEN Unused ELSE frames[d]
    BY <2>1, <1>t
  <2> QED
    BY <2>1, <2>2, <1>t, HarnessAssumption DEF PopShape, Same, Levels
<1>2. CASE InCall /\ GiveUp /\ UNCHANGED tests
  <2> DEFINE h == IF Top.kind = "until" THEN tests ELSE Top.base
  <2>1. /\ InCall /\ depth' = depth - 1 /\ tests' = tests
        /\ frames' = MarkFailed([frames EXCEPT ![depth] = Unused], h)
    BY <1>2 DEF GiveUp
  <2>2. h \in 1..depth - 1
    BY <2>1, <1>t, HelperOfTop DEF InCall
  <2> HIDE DEF h
  <2> QED
    BY <2>1, <2>2, DropAndMarkStack, ZenonT(30) DEF PopShape, Same, Layout
<1> QED
  BY <1>1, <1>2

\* The calls of helpers, which push an activation.
LEMMA CallShape ==
  ASSUME TypeOK, NEW k \in Loops \cup {"with"}, NEW o \in Configs, Call(k, o)
  PROVE  /\ PushShape(NewFrame(k, Helper, o, SaveFor(o, kubeconfig), "none"))
         /\ tests' = tests
BY HarnessAssumption DEF TypeOK, Call, PushShape, Levels

\* The start of a subtest, which pushes a test.
LEMMA SubtestShape ==
  ASSUME TypeOK, RunSubtest
  PROVE  PushShape(Test) /\ tests' = tests + 1 /\ tests = depth
BY HarnessAssumption DEF TypeOK, RunSubtest, PushShape, Levels

\* The start of another attempt, which is all on the top.
LEMMA RetryActions ==
  ASSUME TypeOK, InCall, Retry, tests' = tests
  PROVE  RetryShape
<1> DEFINE g == [frames[depth] EXCEPT !.n = @ + 1, !.failed = FALSE,
                                      !.saved = SaveFor(Top.oc, kubeconfig)]
<1>1. /\ frames' = [frames EXCEPT ![depth] = g] /\ depth \in Levels
      /\ frames \in [Levels -> Frame] /\ depth' = depth
  BY DEF Retry, TypeOK
<1>2. /\ g.kind = Top.kind /\ g.base = Top.base /\ g.oc = Top.oc /\ g.n = Top.n + 1
      /\ g.saved = SaveFor(Top.oc, kubeconfig) /\ g.stage = Top.stage /\ ~g.failed
  BY <1>1 DEF Top, Frame
<1> HIDE DEF g
<1> QED
  BY <1>1, <1>2 DEF RetryShape

\* The end of a subtest, which drops a test.
LEMMA SubEndActions ==
  ASSUME TypeOK, FinishSubtest
  PROVE  SubEndShape
<1> DEFINE fs == IF crashing THEN MarkFailed(frames, tests) ELSE frames
           us == [fs EXCEPT ![depth] = Unused]
           gs == IF crashing THEN [us EXCEPT ![depth - 1].stage = "cleanups"] ELSE us
<1>t. /\ depth \in Levels /\ tests \in 1..depth /\ frames \in [Levels -> Frame]
      /\ \A d \in Levels : d > depth => frames[d] = Unused
  BY DEF TypeOK, Layout
<1>1. /\ depth = tests /\ tests > 1 /\ depth' = depth - 1 /\ tests' = tests - 1
      /\ depth - 1 \in Levels /\ tests \in Levels
  BY <1>t, HarnessAssumption DEF FinishSubtest, AllCleanedUp, Levels
<1>2. /\ fs \in [Levels -> Frame]
      /\ \A d \in Levels :
           /\ fs[d].kind = frames[d].kind /\ fs[d].base = frames[d].base
           /\ fs[d].n = frames[d].n /\ fs[d].oc = frames[d].oc
           /\ fs[d].saved = frames[d].saved /\ fs[d].stage = frames[d].stage
           /\ frames[d].failed => fs[d].failed
           /\ d > depth => fs[d] = frames[d]
           /\ d <= depth => (fs[d].failed <=> crashing \/ frames[d].failed)
  <2>1. CASE crashing
    <3> DEFINE m == MarkFailed(frames, tests)
    <3>1. /\ m \in [Levels -> Frame]
          /\ \A d \in Levels :
               /\ m[d].kind = frames[d].kind /\ m[d].base = frames[d].base
               /\ m[d].n = frames[d].n /\ m[d].oc = frames[d].oc
               /\ m[d].saved = frames[d].saved /\ m[d].stage = frames[d].stage
               /\ frames[d].failed => m[d].failed
               /\ d > tests => m[d] = frames[d]
          /\ \A d \in 1..tests : m[d].failed
      BY <1>1, <1>t, MarkFailedType
    <3>2. fs = m
      BY <2>1
    <3> HIDE DEF m, fs
    <3>3. \A d \in Levels : d <= depth => d \in 1..tests
      BY <1>1, <1>t, HarnessAssumption DEF Levels
    <3> QED BY <2>1, <3>1, <3>2, <3>3, <1>1
  <2>2. CASE ~crashing
    <3>1. fs = frames
      BY <2>2
    <3> HIDE DEF fs
    <3> QED BY <2>2, <3>1, <1>t
  <2> QED BY <2>1, <2>2
<1>3. frames' = gs
  BY <1>1 DEF FinishSubtest
<1> HIDE DEF fs
<1>4. us \in [Levels -> Frame] /\ \A d \in Levels : us[d] = IF d = depth THEN Unused ELSE fs[d]
  BY <1>1, <1>2, UnusedType
<1> HIDE DEF us
<1>5. /\ \A d \in Levels : d # depth - 1 => gs[d] = us[d]
      /\ gs[depth - 1].kind = us[depth - 1].kind /\ gs[depth - 1].base = us[depth - 1].base
      /\ gs[depth - 1].n = us[depth - 1].n /\ gs[depth - 1].oc = us[depth - 1].oc
      /\ gs[depth - 1].saved = us[depth - 1].saved
      /\ (gs[depth - 1].failed <=> us[depth - 1].failed)
      /\ gs[depth - 1].stage = IF crashing THEN "cleanups" ELSE us[depth - 1].stage
  BY <1>1, <1>4 DEF Frame
<1> HIDE DEF gs
<1>6. ASSUME NEW d \in 1..depth - 1
      PROVE  /\ Same(d)
             /\ d # depth - 1 => frames'[d].stage = frames[d].stage
             /\ (frames'[d].failed <=> crashing \/ frames[d].failed)
  <2>1. d \in Levels /\ us[d] = fs[d]
    BY <1>1, <1>4, <1>t, HarnessAssumption DEF Levels
  <2>a. /\ d <= depth /\ fs[d].kind = frames[d].kind /\ fs[d].base = frames[d].base
        /\ fs[d].n = frames[d].n /\ fs[d].oc = frames[d].oc
        /\ fs[d].saved = frames[d].saved /\ fs[d].stage = frames[d].stage
        /\ frames[d].failed => fs[d].failed
        /\ fs[d].failed <=> crashing \/ frames[d].failed
    BY <2>1, <1>1, <1>2, <1>t
  <2>2. CASE d # depth - 1
    <3>1. frames'[d] = fs[d]
      BY <2>1, <2>2, <1>3, <1>5
    <3> QED BY <2>a, <2>2, <3>1 DEF Same
  <2>3. CASE d = depth - 1
    <3>1. /\ frames'[d].kind = fs[d].kind /\ frames'[d].base = fs[d].base
          /\ frames'[d].n = fs[d].n /\ frames'[d].oc = fs[d].oc
          /\ frames'[d].saved = fs[d].saved
          /\ frames'[d].failed <=> fs[d].failed
      BY <2>1, <2>3, <1>3, <1>5
    <3> QED BY <2>a, <2>3, <3>1 DEF Same
  <2> QED BY <2>2, <2>3
<1>7. frames'[depth - 1].stage = IF crashing THEN "cleanups" ELSE frames[depth - 1].stage
  BY <1>1, <1>2, <1>3, <1>4, <1>5
<1>8. \A d \in Levels : d > depth - 1 => frames'[d] = Unused
  BY <1>1, <1>2, <1>3, <1>4, <1>5, <1>t
<1>9. \A d \in 1..depth - 1 : Same(d)
  BY <1>6
<1>10. \A d \in 1..(depth - 1) - 1 : frames'[d].stage = frames[d].stage
  BY <1>6, <1>1, <1>t, HarnessAssumption DEF Levels
<1>11. \A d \in 1..depth - 1 : frames'[d].failed <=> crashing \/ frames[d].failed
  BY <1>6
<1>12. depth' = depth - 1 /\ tests' = tests - 1 /\ depth = tests /\ tests > 1
  BY <1>1
<1> QED
  BY <1>7, <1>8, <1>9, <1>10, <1>11, <1>12 DEF SubEndShape

------------------------------------------------------------------------------
\* Captured helpers: a step that keeps kinds, attempt numbers and captured
\* helpers of the activations that stay keeps who fails on what.
LEMMA HelperKept ==
  ASSUME TypeOK, HelperInv, TypeOK', tests' = tests, depth' \in tests..depth,
         \A d \in 1..depth' : Same(d)
  PROVE  HelperInv'
<1>t. depth \in Nat /\ tests \in 1..depth /\ depth' \in Nat
  BY HarnessAssumption DEF TypeOK, Levels
<1>1. \A d \in 1..depth' : /\ HelperAt(frames'[d], d) = HelperAt(frames[d], d)
                           /\ Recovers(frames'[d]) <=> Recovers(frames[d])
  BY DEF Same, HelperAt, Recovers
<1>2. \A d \in tests + 1..depth' : frames'[d].base = HelperAt(frames'[d - 1], d - 1)
  BY <1>1, <1>t DEF HelperInv, Same
<1>3. ASSUME NEW d \in tests..depth'
      PROVE  LET h == HelperAt(frames'[d], d)
             IN /\ h \in tests..d
                /\ h > tests => Recovers(frames'[h]) /\ HelperAt(frames'[h], h) = h
  <2>1. LET h == HelperAt(frames[d], d)
        IN /\ h \in tests..d
           /\ h > tests => Recovers(frames[h]) /\ HelperAt(frames[h], h) = h
    BY <1>t DEF HelperInv
  <2> QED
    BY <2>1, <1>1, <1>t
<1> QED
  BY <1>2, <1>3 DEF HelperInv

\* Every step keeps the captured helpers in keeping with the stack.
LEMMA HelperStep == TypeOK /\ HelperInv /\ TypeOK' /\ [Next]_vars => HelperInv'
<1> SUFFICES ASSUME TypeOK, HelperInv, TypeOK', [Next]_vars
             PROVE  HelperInv'
  OBVIOUS
<1>t. depth \in Nat /\ tests \in 1..depth /\ 1..depth \in SUBSET Levels
  BY HarnessAssumption DEF TypeOK, Levels
<1>1. CASE \/ Error \/ Fatal \/ Skip \/ Panic \/ Cleanup \/ EndBody \/ RunCleanup
           \/ EndCleanup \/ FinishTest \/ Ended \/ UNCHANGED vars
  BY <1>1, <1>t, StayActions, HelperKept DEF StayShape
<1>2. CASE \/ Return \/ Unwind
           \/ InCall /\ GiveUp /\ UNCHANGED tests
  <2>1. PopShape
    BY <1>2, PopActions
  <2> QED
    BY <2>1, <1>t, HelperKept DEF PopShape, InCall
<1>3. ASSUME NEW k \in Loops \cup {"with"}, NEW o \in Configs, Call(k, o)
      PROVE  HelperInv'
  <2> DEFINE f == NewFrame(k, Helper, o, SaveFor(o, kubeconfig), "none")
  <2>1. PushShape(f) /\ tests' = tests
    BY <1>3, CallShape
  <2>2. f.kind = k /\ f.base = Helper /\ f.n = 0
    BY DEF NewFrame
  <2> HIDE DEF f
  <2>3. /\ depth' = depth + 1 /\ frames'[depth + 1] = f
        /\ \A d \in 1..depth : frames'[d] = frames[d]
    BY <2>1, <1>t DEF PushShape
  <2>4. HelperAt(f, depth + 1) = depth + 1 => Recovers(f) \/ Helper = depth + 1
    BY <2>2, <1>t DEF HelperAt, Recovers, Loops
  <2>5. HelperAt(f, depth + 1) \in {depth + 1, Helper}
    BY <2>2 DEF HelperAt
  <2>6. /\ Helper \in tests..depth
        /\ Helper > tests => /\ Recovers(frames[Helper])
                             /\ HelperAt(frames[Helper], Helper) = Helper
    BY HelperOfTop
  <2>7. ASSUME NEW d \in tests + 1..depth'
        PROVE  frames'[d].base = HelperAt(frames'[d - 1], d - 1)
    <3>1. CASE d = depth + 1
      BY <3>1, <2>2, <2>3, <1>t DEF Helper, Top
    <3>2. CASE d \in tests + 1..depth
      BY <3>2, <2>3, <1>t DEF HelperInv
    <3> QED BY <3>1, <3>2, <2>3, <2>7, <1>t
  <2>8. ASSUME NEW d \in tests..depth'
        PROVE  LET h == HelperAt(frames'[d], d)
               IN /\ h \in tests..d
                  /\ h > tests => Recovers(frames'[h]) /\ HelperAt(frames'[h], h) = h
    <3>1. CASE d = depth + 1
      <4>1. CASE HelperAt(f, depth + 1) = depth + 1
        BY <4>1, <3>1, <2>3, <2>4, <2>6, <1>t
      <4>2. CASE HelperAt(f, depth + 1) = Helper
        BY <4>2, <3>1, <2>3, <2>6, <1>t
      <4> QED BY <4>1, <4>2, <2>5
    <3>2. CASE d \in tests..depth
      <4>1. LET h == HelperAt(frames[d], d)
            IN /\ h \in tests..d
               /\ h > tests => Recovers(frames[h]) /\ HelperAt(frames[h], h) = h
        BY <3>2 DEF HelperInv
      <4> QED BY <4>1, <3>2, <2>3, <1>t
    <3> QED BY <3>1, <3>2, <2>3, <2>8, <1>t
  <2> QED
    BY <2>1, <2>7, <2>8 DEF HelperInv
<1>4. CASE RunSubtest
  <2>1. /\ depth' = depth + 1 /\ tests' = depth + 1 /\ tests = depth
        /\ frames'[depth + 1] = Test
    BY <1>4, SubtestShape DEF PushShape
  <2>2. HelperAt(Test, depth + 1) = depth + 1
    BY DEF HelperAt, Test, NewFrame
  <2> QED
    BY <2>1, <2>2, <1>t DEF HelperInv
<1>5. CASE InCall /\ Retry /\ tests' = tests
  <2>1. RetryShape
    BY <1>5, RetryActions
  <2>2. /\ depth' = depth /\ tests' = tests /\ depth > tests
        /\ \A d \in 1..depth - 1 : frames'[d] = frames[d]
        /\ frames'[depth].base = Top.base /\ frames'[depth].kind = Top.kind
    BY <2>1, <1>t DEF RetryShape, InCall
  <2>3. /\ Top.base = HelperAt(frames[depth - 1], depth - 1)
        /\ Top.base \in tests..depth - 1
        /\ Top.base > tests => /\ Recovers(frames[Top.base])
                               /\ HelperAt(frames[Top.base], Top.base) = Top.base
    BY <1>5, HelperOfTop
  <2>4. \/ HelperAt(frames'[depth], depth) = Top.base
        \/ HelperAt(frames'[depth], depth) = depth /\ Recovers(frames'[depth])
    BY <2>2, <1>t DEF HelperAt, Recovers, TypeOK, Layout
  <2>5. ASSUME NEW d \in tests + 1..depth
        PROVE  frames'[d].base = HelperAt(frames'[d - 1], d - 1)
    <3>1. CASE d = depth
      BY <3>1, <2>2, <2>3, <1>t
    <3>2. CASE d \in tests + 1..depth - 1
      BY <3>2, <2>2, <1>t DEF HelperInv
    <3> QED BY <3>1, <3>2, <1>t
  <2>6. ASSUME NEW d \in tests..depth
        PROVE  LET h == HelperAt(frames'[d], d)
               IN /\ h \in tests..d
                  /\ h > tests => Recovers(frames'[h]) /\ HelperAt(frames'[h], h) = h
    <3>1. CASE d = depth
      BY <3>1, <2>2, <2>3, <2>4, <1>t
    <3>2. CASE d \in tests..depth - 1
      <4>1. LET h == HelperAt(frames[d], d)
            IN /\ h \in tests..d
               /\ h > tests => Recovers(frames[h]) /\ HelperAt(frames[h], h) = h
        BY <3>2, <1>t DEF HelperInv
      <4> QED BY <4>1, <3>2, <2>2, <1>t
    <3> QED BY <3>1, <3>2, <1>t
  <2> QED
    BY <2>2, <2>5, <2>6 DEF HelperInv
<1>6. CASE FinishSubtest
  <2>1. SubEndShape
    BY <1>6, SubEndActions
  <2>2. /\ depth' = depth - 1 /\ tests' = depth - 1 /\ depth - 1 \in 1..depth
        /\ depth - 1 <= tests
    BY <2>1, <1>t DEF SubEndShape
  <2>3. frames'[depth - 1].kind = "test"
    BY <2>1, <2>2, <1>t DEF SubEndShape, Same, TypeOK, Layout
  <2>4. HelperAt(frames'[depth - 1], depth - 1) = depth - 1
    BY <2>3 DEF HelperAt
  <2>5. \A d \in tests'..depth' : d = depth - 1
    BY <2>2, <1>t
  <2>6. \A d \in tests' + 1..depth' : FALSE
    BY <2>2, <1>t
  <2> QED
    BY <2>2, <2>4, <2>5, <2>6, <1>t DEF HelperInv
<1>7. CASE AttemptFailed
  BY <1>2, <1>5, <1>7 DEF AttemptFailed
<1>8. CASE Recover
  BY <1>2, <1>5, <1>8 DEF Recover
<1>9. NoConfig \in Configs
  BY DEF Configs
<1> QED
  BY <1>1, <1>2, <1>3, <1>4, <1>6, <1>7, <1>8, <1>9
  DEF Next, UntilSuccess, WaitFor, RetryFunction, WithKubeconfig, Loops

------------------------------------------------------------------------------
\* Tests go through their stages in order, and the process ends once.
LEMMA StageStep == TypeOK /\ HelperInv /\ StageInv /\ [Next]_vars => StageInv'
<1> SUFFICES ASSUME TypeOK, HelperInv, StageInv, [Next]_vars
             PROVE  StageInv'
  OBVIOUS
<1>t. /\ depth \in Levels /\ tests \in 1..depth /\ frames \in [Levels -> Frame]
      /\ Levels = 1..MaxDepth /\ MaxDepth \in Nat /\ depth \in Nat /\ tests \in Nat
  BY HarnessAssumption DEF TypeOK, Levels
<1>h. Helper \in 1..depth
  BY HelperOfTop DEF TypeOK
<1>u. Unused.stage = "none" /\ Test.stage = "body"
  BY DEF Unused, Test, NewFrame
<1> DEFINE sameStages == \A d \in Levels : frames'[d].stage = frames[d].stage
<1>k. ASSUME sameStages, UNCHANGED <<tests, process, crashing>>,
             (mode' = mode /\ depth' = depth) \/ frames[tests].stage \in {"body", "cleanup"}
      PROVE  StageInv'
  BY <1>k, <1>t DEF StageInv
<1>1. CASE Error \/ Fatal
  <2>1. sameStages
    BY <1>1, <1>h, MarkStay DEF Error, Fatal
  <2> QED
    BY <1>1, <1>k, <2>1 DEF Error, Fatal, Running
<1>2. CASE Skip \/ Panic \/ Ended \/ UNCHANGED vars
  BY <1>2, <1>k DEF Skip, Panic, Ended, vars, Running
<1>3. CASE Cleanup
  <2>1. sameStages
    BY <1>3, <1>t DEF Cleanup, Frame
  <2> QED
    BY <1>3, <1>k, <2>1 DEF Cleanup, Running
<1>p. ASSUME PopShape, UNCHANGED <<process, crashing>>,
             frames[tests].stage \in {"body", "cleanup"}
      PROVE  StageInv'
  <2>1. /\ tests' = tests /\ depth' \in tests..depth /\ depth' = depth - 1
        /\ \A d \in 1..depth' : frames'[d].stage = frames[d].stage
        /\ \A d \in Levels : d > depth' => frames'[d].stage = "none"
    BY <1>p, <1>t, <1>u DEF PopShape, InCall
  <2>2. \A d \in tests + 1..MaxDepth : frames'[d].stage = "none"
    BY <2>1, <1>t DEF StageInv
  <2>3. \A d \in 1..tests : frames'[d].stage = frames[d].stage
    BY <2>1, <1>t
  <2> QED
    BY <1>p, <2>1, <2>2, <2>3, <1>t DEF StageInv
<1>4. CASE Return \/ Unwind
  <2>1. PopShape
    BY <1>4, PopActions
  <2>2. frames[tests].stage \in {"body", "cleanup"}
    BY <1>4, <1>t DEF Return, Unwind, Running, StageInv, TypeOK, Frame, Stages
  <2> QED
    BY <1>4, <1>p, <2>1, <2>2 DEF Return, Unwind
<1>5. CASE AttemptFailed \/ Recover
  <2>1. /\ InCall /\ tests' = tests /\ UNCHANGED <<process, crashing>>
        /\ frames[tests].stage \in {"body", "cleanup"}
    BY <1>5, <1>t DEF AttemptFailed, Recover, Running, StageInv, Frame, Stages
  <2>2. CASE Retry
    <3>1. RetryShape
      BY <2>1, <2>2, RetryActions
    <3>2. sameStages
      BY <3>1, <1>t DEF RetryShape, Top
    <3> QED
      BY <2>1, <3>2, <1>k
  <2>3. CASE GiveUp
    BY <2>1, <2>3, <1>p, PopActions
  <2> QED
    BY <1>5, <2>2, <2>3 DEF AttemptFailed, Recover
<1>6. ASSUME NEW k \in Loops \cup {"with"}, NEW o \in Configs, Call(k, o)
      PROVE  StageInv'
  <2> DEFINE f == NewFrame(k, Helper, o, SaveFor(o, kubeconfig), "none")
  <2>1. PushShape(f) /\ f.stage = "none" /\ tests' = tests
    BY <1>6, CallShape DEF NewFrame
  <2> HIDE DEF f
  <2>2. /\ Running /\ UNCHANGED <<process, crashing>>
    BY <1>6 DEF Call
  <2>3. sameStages
    BY <2>1, <1>t DEF PushShape, StageInv
  <2> QED
    BY <2>1, <2>2, <2>3, <1>k DEF Running
<1>7. CASE RunSubtest
  <2>1. /\ PushShape(Test) /\ tests' = tests + 1 /\ tests = depth
        /\ UNCHANGED <<process, crashing, mode>> /\ Running
        /\ frames[tests].stage = "body"
    BY <1>7, SubtestShape DEF RunSubtest, Top
  <2>2. /\ \A d \in Levels : d # tests + 1 => frames'[d].stage = frames[d].stage
        /\ frames'[tests + 1].stage = "body" /\ depth' = depth + 1 /\ tests + 1 \in Levels
    BY <2>1, <1>t, <1>u DEF PushShape
  <2> QED
    BY <2>1, <2>2, <1>t DEF StageInv
<1>s. ASSUME depth = tests, depth' = depth, tests' = tests, mode' = "run",
             \A d \in Levels : d # depth => frames'[d].stage = frames[d].stage,
             \/ /\ frames'[depth].stage \in {"cleanups", "cleanup"} /\ process' = process
                /\ process = "alive"
             \/ /\ frames'[depth].stage = "done" /\ tests = 1
                /\ process' \in {"exited", "crashed"}
                /\ process' = "exited" => ~crashing'
      PROVE  StageInv'
  BY <1>s, <1>t DEF StageInv
<1>8. CASE EndBody \/ RunCleanup \/ EndCleanup
  <2>1. StayShape
    BY <1>8, StayActions
  <2>2. frames'[depth].stage \in {"cleanups", "cleanup"} /\ frames[depth].stage # "done"
    BY <1>8, <1>t DEF EndBody, RunCleanup, EndCleanup, Top, Frame
  <2>3. depth = tests /\ mode' = "run" /\ process' = process
    BY <1>8 DEF EndBody, RunCleanup, EndCleanup, StageInv, Top
  <2>4. process \in {"alive", "exited", "crashed"}
    BY DEF TypeOK
  <2> QED
    BY <2>1, <2>2, <2>3, <2>4, <1>s DEF StayShape, StageInv
<1>9. CASE FinishTest
  <2>1. StayShape
    BY <1>9, StayActions
  <2>2. /\ depth = tests /\ tests = 1 /\ mode' = "run" /\ crashing' = crashing
        /\ process' = IF crashing THEN "crashed" ELSE "exited"
    BY <1>9 DEF FinishTest, AllCleanedUp, StageInv, Top
  <2>3. frames'[depth].stage = "done"
    <3> DEFINE fs == IF crashing THEN MarkFailed(frames, 1) ELSE frames
    <3>1. fs \in [Levels -> Frame] /\ 1 \in Levels
      BY <1>t, MarkFailedType
    <3>2. frames' = [fs EXCEPT ![1].stage = "done"]
      BY <1>9 DEF FinishTest
    <3> HIDE DEF fs
    <3> QED
      BY <3>1, <3>2, <2>2 DEF Frame
  <2> QED
    BY <2>1, <2>2, <2>3, <1>s DEF StayShape
<1>10. CASE FinishSubtest
  <2>1. SubEndShape
    BY <1>10, SubEndActions
  <2>2. /\ UNCHANGED <<process, crashing, mode>> /\ mode = "run"
        /\ frames[tests].stage = "cleanups"
    BY <1>10 DEF FinishSubtest, AllCleanedUp, StageInv, Top
  <2>3. /\ \A d \in 1..tests' - 1 : frames'[d].stage = "body"
        /\ \A d \in tests' + 1..MaxDepth : frames'[d].stage = "none"
        /\ frames'[tests'].stage \in {"body", "cleanups"}
    <3>1. /\ tests' = tests - 1 /\ depth' = tests - 1 /\ tests > 1 /\ depth = tests
          /\ \A d \in 1..tests - 2 : frames'[d].stage = frames[d].stage
          /\ frames'[tests - 1].stage = IF crashing THEN "cleanups" ELSE frames[tests - 1].stage
          /\ \A d \in Levels : d > tests - 1 => frames'[d] = Unused
      BY <2>1, <1>t DEF SubEndShape
    <3>2. \A d \in 1..tests - 1 : frames[d].stage = "body"
      BY DEF StageInv
    <3>3. \A d \in 1..tests - 2 : frames'[d].stage = "body"
      BY <3>1, <3>2, <1>t
    <3>4. \A d \in tests..MaxDepth : frames'[d].stage = "none"
      BY <3>1, <1>t, <1>u
    <3>5. frames'[tests - 1].stage \in {"body", "cleanups"}
      BY <3>1, <3>2, <1>t
    <3>6. tests' = tests - 1 /\ (tests - 1) - 1 = tests - 2 /\ (tests - 1) + 1 = tests
      BY <3>1, <1>t
    <3> QED
      BY <3>3, <3>4, <3>5, <3>6
  <2>4. depth' = tests' /\ tests' \in Nat
    BY <2>1, <1>t DEF SubEndShape
  <2> QED
    BY <2>2, <2>3, <2>4, <1>t DEF StageInv, TypeOK
<1>11. NoConfig \in Configs
  BY DEF Configs
<1> QED
  BY <1>1, <1>2, <1>3, <1>4, <1>5, <1>6, <1>7, <1>8, <1>9, <1>10, <1>11
  DEF Next, UntilSuccess, WaitFor, RetryFunction, WithKubeconfig, Loops

\* retryPanicKey is raised only where a recover is waiting, and unwinding it
\* does not pass that recover.
LEMMA PanicStep ==
  TypeOK /\ HelperInv /\ StageInv /\ RetryPanicCaught /\ [Next]_vars => RetryPanicCaught'
<1> SUFFICES ASSUME TypeOK, HelperInv, StageInv, RetryPanicCaught, [Next]_vars,
                    mode' = "panic"
             PROVE  \E d \in tests' + 1..depth' : Recovers(frames'[d])
  BY DEF RetryPanicCaught
<1>t. /\ depth \in Levels /\ tests \in 1..depth /\ Levels = 1..MaxDepth
      /\ MaxDepth \in Nat /\ depth \in Nat /\ tests \in Nat
  BY HarnessAssumption DEF TypeOK, Levels
<1>k. ASSUME NEW d \in Levels, Same(d), Recovers(frames[d])
      PROVE  Recovers(frames'[d])
  BY <1>k DEF Same, Recovers
<1>1. CASE Fatal
  <2>1. StayShape /\ Helper > tests
    BY <1>1, StayActions, HelperOfTop, <1>t DEF Fatal, FailNowMode
  <2>2. Helper \in tests + 1..depth /\ Helper \in Levels /\ Recovers(frames[Helper])
    BY <2>1, <1>t, HelperOfTop
  <2> QED
    BY <2>1, <2>2, <1>k, <1>t DEF StayShape
<1>2. CASE AttemptFailed \/ Recover
  <2>1. GiveUp /\ InCall /\ tests' = tests /\ Top.kind # "until" /\ Top.base > tests
    <3>1. GiveUp /\ InCall /\ tests' = tests
      BY <1>2 DEF AttemptFailed, Recover, Retry
    <3>2. Top.base \in Nat
      BY <3>1, <1>t, HelperOfTop
    <3>3. mode' = FailNowMode(IF Top.kind = "until" THEN tests ELSE Top.base)
      BY <3>1 DEF GiveUp
    <3>4. Top.kind # "until"
      BY <3>3, <1>t DEF FailNowMode
    <3>5. mode' = FailNowMode(Top.base)
      BY <3>3, <3>4
    <3>6. Top.base > tests
      BY <3>2, <3>5, <1>t DEF FailNowMode
    <3> QED
      BY <3>1, <3>4, <3>6
  <2>2. PopShape
    BY <2>1, PopActions
  <2>3. Top.base \in tests + 1..depth - 1 /\ Top.base \in Levels /\ Recovers(frames[Top.base])
    BY <2>1, <1>t, HelperOfTop
  <2> QED
    BY <2>2, <2>3, <1>k, <1>t DEF PopShape
<1>3. CASE Unwind
  <2>1. PopShape /\ mode = "panic" /\ ~Recovers(Top)
    BY <1>3, PopActions DEF Unwind
  <2>2. PICK d \in tests + 1..depth : Recovers(frames[d])
    BY <2>1 DEF RetryPanicCaught
  <2>3. d \in tests + 1..depth - 1 /\ d \in Levels
    BY <2>1, <2>2, <1>t DEF Top
  <2> QED
    BY <2>1, <2>2, <2>3, <1>k, <1>t DEF PopShape
<1>4. CASE Ended \/ UNCHANGED vars
  BY <1>4 DEF RetryPanicCaught, Ended, vars
<1>5. CASE \/ Error \/ Skip \/ Panic \/ Return \/ Cleanup \/ RunSubtest
           \/ EndBody \/ RunCleanup \/ EndCleanup \/ FinishSubtest \/ FinishTest
           \/ \E k \in Loops \cup {"with"}, o \in Configs : Call(k, o)
  BY <1>5 DEF Error, Skip, Panic, Return, Cleanup, RunSubtest, EndBody, RunCleanup,
              EndCleanup, FinishSubtest, FinishTest, AllCleanedUp, Call, Running, StageInv, Top
<1>6. NoConfig \in Configs
  BY DEF Configs
<1> QED
  BY <1>1, <1>2, <1>3, <1>4, <1>5, <1>6
  DEF Next, UntilSuccess, WaitFor, RetryFunction, WithKubeconfig, Loops

------------------------------------------------------------------------------
\* KUBECONFIG: what withKubeconfig saves and restores nests with the calls.
LEMMA ConfigStep ==
  TypeOK /\ HelperInv /\ StageInv /\ ConfigInv /\ TypeOK' /\ [Next]_vars => ConfigInv'
<1> SUFFICES ASSUME TypeOK, HelperInv, StageInv, ConfigInv, TypeOK', [Next]_vars
             PROVE  ConfigInv'
  OBVIOUS
<1>t. /\ depth \in Levels /\ tests \in 1..depth /\ Levels = 1..MaxDepth
      /\ MaxDepth \in Nat /\ depth \in Nat /\ tests \in Nat
      /\ frames \in [Levels -> Frame] /\ want \in [Levels -> Configs]
  BY HarnessAssumption DEF TypeOK, Levels
<1>c. /\ want[1] = NoConfig
      /\ \A d \in 1..depth : frames[d].kind \in {"test", "until", "waitfor"}
                               => frames[d].oc = NoConfig
      /\ \A d \in 2..depth : want[d] = Enter(frames[d].oc, want[d - 1])
      /\ ~leaked => /\ kubeconfig = want[depth]
                    /\ \A d \in 2..depth : frames[d].oc # NoConfig
                                             => frames[d].saved = want[d - 1]
  BY DEF ConfigInv
<1>k. ASSUME depth' \in 1..depth, \A d \in 1..depth' : Same(d) /\ want'[d] = want[d],
             leaked => leaked', ~leaked' => kubeconfig' = want[depth']
      PROVE  ConfigInv'
  <2>1. ASSUME NEW d \in 1..depth'
        PROVE  /\ d \in 1..depth /\ want'[d] = want[d]
               /\ frames'[d].kind = frames[d].kind /\ frames'[d].oc = frames[d].oc
               /\ frames'[d].saved = frames[d].saved
    BY <1>k, <1>t DEF Same
  <2>2. \A d \in 2..depth' : d \in 1..depth' /\ d - 1 \in 1..depth' /\ d \in 2..depth
    BY <1>k, <1>t
  <2>3. want'[1] = NoConfig
    BY <2>1, <1>k, <1>c, <1>t
  <2>4. \A d \in 1..depth' : frames'[d].kind \in {"test", "until", "waitfor"}
                              => frames'[d].oc = NoConfig
    BY <2>1, <1>c
  <2>5. \A d \in 2..depth' : want'[d] = Enter(frames'[d].oc, want'[d - 1])
    BY <2>1, <2>2, <1>c
  <2>6. ~leaked' => \A d \in 2..depth' : frames'[d].oc # NoConfig
                                           => frames'[d].saved = want'[d - 1]
    BY <2>1, <2>2, <1>c, <1>k
  <2>7. ~leaked' => kubeconfig' = want'[depth']
    BY <2>1, <1>k, <1>t
  <2> QED
    BY <2>3, <2>4, <2>5, <2>6, <2>7 DEF ConfigInv
<1>1. CASE \/ Error \/ Fatal \/ Skip \/ Panic \/ Cleanup \/ EndBody \/ RunCleanup
           \/ EndCleanup \/ FinishTest \/ Ended \/ UNCHANGED vars
  <2>1. StayShape
    BY <1>1, StayActions
  <2>2. UNCHANGED <<depth, want, leaked, kubeconfig>>
    BY <1>1 DEF Error, Fatal, Skip, Panic, Cleanup, EndBody, RunCleanup, EndCleanup,
                FinishTest, Ended, vars, history
  <2> QED
    BY <2>1, <2>2, <1>k, <1>c, <1>t DEF StayShape
\* The kubeconfig of the caller, if the top had none of its own.
<1>p. InCall /\ Top.oc = NoConfig => want[depth] = want[depth - 1]
  BY <1>c, <1>t DEF Enter, InCall, Top
<1>2. CASE Return
  <2>1. PopShape
    BY <1>2, PopActions
  <2>2. /\ depth' = depth - 1 /\ depth - 1 \in 1..depth /\ leaked' = leaked
        /\ \A d \in 1..depth - 1 : want'[d] = want[d]
        /\ kubeconfig' = Leave(Top, kubeconfig) /\ InCall
    BY <1>2, <1>t DEF Return, PopHistory, InCall
  <2>3. ~leaked => kubeconfig' = want[depth - 1]
    BY <2>2, <1>p, <1>c, <1>t DEF Leave, Top, InCall
  <2> QED
    BY <2>1, <2>2, <2>3, <1>k DEF PopShape
<1>3. ASSUME PopShape, want' = [want EXCEPT ![depth] = NoConfig], kubeconfig' = kubeconfig,
             leaked => leaked', ~leaked' => Top.oc = NoConfig
      PROVE  ConfigInv'
  <2>1. /\ depth' = depth - 1 /\ depth - 1 \in 1..depth /\ InCall
        /\ \A d \in 1..depth - 1 : want'[d] = want[d]
    BY <1>3, <1>t DEF PopShape, InCall
  <2>2. ~leaked' => kubeconfig' = want[depth - 1]
    BY <1>3, <2>1, <1>p, <1>c
  <2> QED
    BY <1>3, <2>1, <2>2, <1>k DEF PopShape
<1>4. CASE Unwind
  BY <1>4, <1>3, PopActions DEF Unwind, PopHistory
<1>5. CASE AttemptFailed \/ Recover
  <2>1. /\ InCall /\ tests' = tests
        /\ leaked => leaked'
        /\ ~leaked' => Top.oc = NoConfig
    <3>1. CASE AttemptFailed
      BY <3>1, <1>c, <1>t DEF AttemptFailed, Top
    <3>2. CASE Recover
      BY <3>2, <1>t DEF Recover, TypeOK
    <3> QED BY <1>5, <3>1, <3>2
  <2>2. CASE GiveUp
    BY <2>1, <2>2, <1>3, PopActions DEF GiveUp, PopHistory
  <2>3. CASE Retry
    <3>1. RetryShape
      BY <2>1, <2>3, RetryActions
    <3>2. /\ depth' = depth /\ want' = want /\ kubeconfig' = Enter(Top.oc, kubeconfig)
      BY <2>3 DEF Retry
    <3>3. /\ \A d \in 1..depth - 1 : frames'[d] = frames[d]
          /\ frames'[depth].kind = frames[depth].kind
          /\ frames'[depth].oc = frames[depth].oc
      BY <3>1, <1>t DEF RetryShape, Top
    <3>4. ~leaked' => kubeconfig' = kubeconfig /\ frames'[depth].oc = NoConfig
      BY <2>1, <3>2, <3>3 DEF Enter, Top
    <3>5. ASSUME NEW d \in 1..depth
          PROVE  frames'[d].kind = frames[d].kind /\ frames'[d].oc = frames[d].oc
      BY <3>3, <1>t
    <3>6. \A d \in 2..depth : d \in 1..depth /\ (d = depth \/ d \in 1..depth - 1)
      BY <1>t
    <3>7. ~leaked' => \A d \in 2..depth : frames'[d].oc # NoConfig
                                            => frames'[d].saved = want'[d - 1]
      BY <2>1, <3>2, <3>3, <3>4, <3>6, <1>c
    <3>8. \A d \in 2..depth : want'[d] = Enter(frames'[d].oc, want'[d - 1])
      BY <3>2, <3>5, <3>6, <1>c
    <3>9. \A d \in 1..depth : frames'[d].kind \in {"test", "until", "waitfor"}
                               => frames'[d].oc = NoConfig
      BY <3>5, <1>c
    <3> QED
      BY <2>1, <3>2, <3>4, <3>7, <3>8, <3>9, <1>c DEF ConfigInv
  <2> QED
    BY <1>5, <2>2, <2>3 DEF AttemptFailed, Recover
<1>6. ASSUME NEW k \in Loops \cup {"with"}, NEW o \in Configs, Call(k, o),
             k \in {"until", "waitfor"} => o = NoConfig
      PROVE  ConfigInv'
  <2> DEFINE f == NewFrame(k, Helper, o, SaveFor(o, kubeconfig), "none")
  <2>1. PushShape(f) /\ tests' = tests
    BY <1>6, CallShape
  <2>2. f.kind = k /\ f.oc = o /\ f.saved = SaveFor(o, kubeconfig)
    BY DEF NewFrame
  <2> HIDE DEF f
  <2>3. /\ depth' = depth + 1 /\ depth + 1 \in Levels /\ frames'[depth + 1] = f
        /\ \A d \in 1..depth : frames'[d] = frames[d]
    BY <2>1, <1>t DEF PushShape
  <2>4. /\ \A d \in 1..depth : want'[d] = want[d]
        /\ want'[depth + 1] = Enter(o, want[depth])
        /\ kubeconfig' = Enter(o, kubeconfig) /\ leaked' = leaked
    BY <1>6, <2>3, <1>t DEF Call
  <2>5. ~leaked => /\ kubeconfig' = want'[depth + 1]
                   /\ o # NoConfig => f.saved = want[depth]
    BY <2>2, <2>4, <1>c DEF SaveFor
  <2>6. k \in {"test", "until", "waitfor"} => o = NoConfig
    BY <1>6 DEF Loops
  <2>7. \A d \in 2..depth + 1 : want'[d] = Enter(frames'[d].oc, want'[d - 1])
    <3>1. ASSUME NEW d \in 2..depth PROVE want'[d] = Enter(frames'[d].oc, want'[d - 1])
      BY <2>3, <2>4, <1>c, <1>t
    <3>2. want'[depth + 1] = Enter(frames'[depth + 1].oc, want'[(depth + 1) - 1])
      BY <2>2, <2>3, <2>4, <1>t
    <3>3. \A d \in 2..depth + 1 : d \in 2..depth \/ d = depth + 1
      BY <1>t
    <3> QED BY <3>1, <3>2, <3>3
  <2>8. ~leaked => \A d \in 2..depth + 1 :
                     frames'[d].oc # NoConfig => frames'[d].saved = want'[d - 1]
    BY <2>2, <2>3, <2>4, <2>5, <1>c, <1>t
  <2>9. \A d \in 1..depth + 1 : frames'[d].kind \in {"test", "until", "waitfor"}
                                  => frames'[d].oc = NoConfig
    BY <2>2, <2>3, <2>6, <1>c, <1>t
  <2>10. want'[1] = NoConfig
    BY <2>4, <1>c, <1>t
  <2> QED
    BY <2>3, <2>4, <2>5, <2>7, <2>8, <2>9, <2>10 DEF ConfigInv
<1>7. CASE RunSubtest
  <2>1. PushShape(Test)
    BY <1>7, SubtestShape
  <2>2. Test.oc = NoConfig
    BY DEF Test, NewFrame
  <2>3. /\ depth' = depth + 1 /\ depth + 1 \in Levels /\ frames'[depth + 1] = Test
        /\ \A d \in 1..depth : frames'[d] = frames[d]
    BY <2>1, <1>t DEF PushShape
  <2>4. /\ \A d \in 1..depth : want'[d] = want[d]
        /\ want'[depth + 1] = want[depth]
        /\ kubeconfig' = kubeconfig /\ leaked' = leaked
    BY <1>7, <2>3, <1>t DEF RunSubtest
  <2>7. \A d \in 2..depth + 1 : want'[d] = Enter(frames'[d].oc, want'[d - 1])
    <3>1. ASSUME NEW d \in 2..depth PROVE want'[d] = Enter(frames'[d].oc, want'[d - 1])
      BY <2>3, <2>4, <1>c, <1>t
    <3>2. want'[depth + 1] = Enter(frames'[depth + 1].oc, want'[(depth + 1) - 1])
      BY <2>2, <2>3, <2>4, <1>t DEF Enter
    <3>3. \A d \in 2..depth + 1 : d \in 2..depth \/ d = depth + 1
      BY <1>t
    <3> QED BY <3>1, <3>2, <3>3
  <2>8. ~leaked => \A d \in 2..depth + 1 :
                     frames'[d].oc # NoConfig => frames'[d].saved = want'[d - 1]
    BY <2>2, <2>3, <2>4, <1>c, <1>t
  <2>9. \A d \in 1..depth + 1 : frames'[d].kind \in {"test", "until", "waitfor"}
                                  => frames'[d].oc = NoConfig
    BY <2>2, <2>3, <1>c, <1>t
  <2>10. want'[1] = NoConfig /\ (~leaked => kubeconfig' = want'[depth + 1])
    BY <2>4, <1>c, <1>t
  <2> QED
    BY <2>3, <2>4, <2>7, <2>8, <2>9, <2>10 DEF ConfigInv
<1>8. CASE FinishSubtest
  <2>1. SubEndShape
    BY <1>8, SubEndActions
  <2>2. /\ depth' = depth - 1 /\ depth - 1 \in 1..depth /\ depth = tests /\ depth \in 2..depth
        /\ leaked' = leaked /\ kubeconfig' = kubeconfig
        /\ \A d \in 1..depth - 1 : want'[d] = want[d]
    BY <1>8, <2>1, <1>t DEF SubEndShape, FinishSubtest, PopHistory
  <2>3. Top.oc = NoConfig
    BY <2>2, <1>c, <1>t DEF TypeOK, Layout, Top
  <2>4. want[depth] = want[depth - 1]
    BY <2>2, <2>3, <1>c DEF Enter, Top
  <2> QED
    BY <2>1, <2>2, <2>4, <1>c, <1>k DEF SubEndShape
<1>9. NoConfig \in Configs
  BY DEF Configs
<1> QED
  BY <1>1, <1>2, <1>4, <1>5, <1>6, <1>7, <1>8, <1>9
  DEF Next, UntilSuccess, WaitFor, RetryFunction, WithKubeconfig, Loops

------------------------------------------------------------------------------
\* The failed flags stay as they are.
FailedKept == \A d \in Levels : frames'[d].failed <=> frames[d].failed

\* Neither the registering and running of cleanups nor the end of a function
\* changes what is marked as failed.
LEMMA FailedKeptActions ==
  ASSUME TypeOK,
         \/ Skip \/ Panic \/ Cleanup \/ EndBody \/ RunCleanup \/ EndCleanup
         \/ Ended \/ UNCHANGED vars
  PROVE  FailedKept
<1>t. depth \in Levels /\ frames \in [Levels -> Frame]
  BY DEF TypeOK
<1>1. CASE Skip \/ Panic \/ Ended \/ UNCHANGED vars
  BY <1>1 DEF Skip, Panic, Ended, vars, FailedKept
<1>2. CASE Cleanup
  BY <1>2, <1>t DEF Cleanup, Frame, FailedKept
<1>3. CASE EndBody
  BY <1>3, <1>t DEF EndBody, Frame, FailedKept
<1>4. CASE RunCleanup
  BY <1>4, <1>t DEF RunCleanup, Frame, FailedKept
<1>5. CASE EndCleanup
  BY <1>5, <1>t DEF EndCleanup, Frame, FailedKept
<1> QED
  BY <1>1, <1>2, <1>3, <1>4, <1>5

\* A failure that the top leaves behind is on record with the helper of its
\* caller, when the loop on top is content or does not recover.
LEMMA FailureHandedDown ==
  ASSUME TypeOK, HelperInv, FailureInv, InCall, mode \in {"run", "panic"}, dirty[depth],
         \/ Top.kind \in Loops => ~frames[Asked(Top, depth)].failed
         \/ ~Recovers(Top)
  PROVE  /\ frames[HelperAt(frames[depth - 1], depth - 1)].failed
         /\ depth - 1 = tests => frames[tests].failed
<1>t. depth \in Nat /\ tests \in 1..depth /\ depth \in Levels /\ depth > tests
      /\ tests \in Nat /\ 1..depth \in SUBSET Levels
  BY HarnessAssumption DEF TypeOK, Levels, InCall
<1>1. frames[HelperAt(Top, depth)].failed
  BY <1>t DEF FailureInv, Top
<1>2. Top.base = HelperAt(frames[depth - 1], depth - 1)
  BY HelperOfTop
<1>3. HelperAt(Top, depth) = Top.base
  BY <1>1, <1>t DEF TypeOK, Layout, Top, HelperAt, Asked, Recovers, Loops
<1>4. depth - 1 = tests => HelperAt(frames[depth - 1], depth - 1) = tests
  BY <1>t DEF TypeOK, Layout, HelperAt
<1> QED
  BY <1>1, <1>2, <1>3, <1>4

\* Helpers of the activations below the top, when only the top changes.
LEMMA HelperBelow ==
  ASSUME TypeOK, HelperInv, NEW d \in tests..depth
  PROVE  HelperAt(frames[d], d) \in tests..d /\ HelperAt(frames[d], d) \in Levels
BY HarnessAssumption DEF TypeOK, HelperInv, Levels

\* No failure is forgotten before it is made good.
LEMMA FailureStep ==
  TypeOK /\ HelperInv /\ StageInv /\ FailureInv /\ TypeOK' /\ [Next]_vars => FailureInv'
<1> SUFFICES ASSUME TypeOK, HelperInv, StageInv, FailureInv, TypeOK', [Next]_vars
             PROVE  FailureInv'
  OBVIOUS
<1>t. /\ depth \in Levels /\ tests \in 1..depth /\ Levels = 1..MaxDepth
      /\ MaxDepth \in Nat /\ depth \in Nat /\ tests \in Nat
      /\ frames \in [Levels -> Frame] /\ dirty \in [Levels -> BOOLEAN]
  BY HarnessAssumption DEF TypeOK, Levels
<1>h. /\ Helper \in tests..depth /\ Helper \in Levels /\ Helper \in 1..depth
      /\ InCall => /\ Top.base = HelperAt(frames[depth - 1], depth - 1)
                   /\ Top.base \in tests..depth - 1 /\ Top.base \in Levels
  BY HelperOfTop, <1>t
<1> DEFINE F1 == \A d \in tests + 1..depth :
                   dirty[d] => frames[HelperAt(frames[d], d)].failed
           F3 == \A d \in 1..tests : dirty[d] => frames[d].failed
           F4 == \A d \in 2..tests : frames[d].failed => frames[d - 1].failed
<1>f. /\ \A d \in Levels : d > depth => ~dirty[d]
      /\ mode \in {"run", "panic"} => F1
      /\ mode = "goexit" /\ InCall => frames[tests].failed
      /\ mode # "crash" /\ ~crashing => F3
      /\ F4
  BY DEF FailureInv
<1>H. ASSUME NEW d \in tests..depth
      PROVE  HelperAt(frames[d], d) \in tests..d /\ HelperAt(frames[d], d) \in Levels
  BY HelperBelow
<1>S. ASSUME NEW d \in Levels, Same(d)
      PROVE  HelperAt(frames'[d], d) = HelperAt(frames[d], d)
  BY <1>S DEF Same, HelperAt
\* --- a failure is reported
<1>1. CASE Error \/ Fatal
  <2>1. /\ frames' = MarkFailed(frames, Helper) /\ depth' = depth /\ tests' = tests
        /\ dirty' = [dirty EXCEPT ![depth] = TRUE] /\ crashing' = crashing
        /\ mode = "run"
        /\ mode' = "run" \/ mode' = FailNowMode(Helper)
    BY <1>1 DEF Error, Fatal, Running
  <2>2. StayShape
    BY <1>1, StayActions
  <2> DEFINE mf == MarkFailed(frames, Helper)
  <2>a. /\ mf[Helper].failed
        /\ Helper <= tests => \A d \in 1..Helper : mf[d].failed
        /\ Helper > tests => \A d \in Levels : d # Helper => mf[d] = frames[d]
    BY <1>h, <1>t, MarkFailedType
  <2> HIDE DEF mf
  <2>3. /\ frames'[Helper].failed
        /\ Helper <= tests => \A d \in 1..tests : frames'[d].failed
        /\ Helper > tests => \A d \in 1..tests : frames'[d] = frames[d]
    <3>1. frames' = mf
      BY <2>1 DEF mf
    <3>2. \A d \in 1..tests : d \in Levels /\ (Helper > tests => d # Helper)
      BY <1>h, <1>t
    <3>3. Helper <= tests => Helper = tests
      BY <1>h, <1>t
    <3> QED BY <2>a, <3>1, <3>2, <3>3
  <2>4. /\ dirty'[depth]
        /\ \A d \in Levels : d # depth => (dirty'[d] <=> dirty[d])
    BY <2>1, <1>t
  <2>5. \A d \in tests + 1..depth : dirty'[d] => frames'[HelperAt(frames'[d], d)].failed
    <3> SUFFICES ASSUME NEW d \in tests + 1..depth, dirty'[d]
                 PROVE  frames'[HelperAt(frames'[d], d)].failed
      OBVIOUS
    <3>1. d \in Levels /\ d \in tests..depth
      BY <1>t
    <3>2. HelperAt(frames'[d], d) = HelperAt(frames[d], d)
      BY <3>1, <2>2, <1>S DEF StayShape
    <3>3. CASE d = depth
      BY <3>2, <3>3, <2>3 DEF Helper, Top
    <3>4. CASE d # depth
      BY <3>1, <3>2, <3>4, <2>1, <2>2, <2>4, <1>f, <1>H DEF StayShape, Same
    <3> QED BY <3>3, <3>4
  <2>6. ~crashing => \A d \in 1..tests : dirty'[d] => frames'[d].failed
    <3> SUFFICES ASSUME NEW d \in 1..tests, dirty'[d], ~crashing
                 PROVE  frames'[d].failed
      OBVIOUS
    <3>1. CASE d = depth
      <4>1. Helper = tests
        BY <3>1, <1>t, <1>h
      <4> QED BY <4>1, <2>3, <1>t
    <3>2. CASE d # depth
      BY <3>2, <2>1, <2>2, <2>4, <1>f, <1>t DEF StayShape, Same
    <3> QED BY <3>1, <3>2
  <2>7. \A d \in 2..tests : frames'[d].failed => frames'[d - 1].failed
    <3>1. CASE Helper <= tests
      BY <3>1, <2>3, <1>t
    <3>2. CASE Helper > tests
      BY <3>2, <2>3, <1>f, <1>t
    <3> QED BY <3>1, <3>2, <1>h, <1>t
  <2>8. \A d \in Levels : d > depth => ~dirty'[d]
    BY <2>4, <1>f, <1>t
  <2>9. mode' = "goexit" => frames'[tests].failed
    BY <2>1, <2>3, <1>t DEF FailNowMode
  <2> QED
    BY <2>1, <2>5, <2>6, <2>7, <2>8, <2>9 DEF FailureInv
\* --- nothing is reported and the stack stays
<1>2. CASE \/ Skip \/ Panic \/ Cleanup \/ EndBody \/ RunCleanup \/ EndCleanup
           \/ Ended \/ UNCHANGED vars
  <2>1. StayShape /\ FailedKept
    BY <1>2, StayActions, FailedKeptActions
  <2>2. /\ depth' = depth /\ tests' = tests
        /\ \A d \in Levels : frames'[d].failed <=> frames[d].failed
        /\ \A d \in Levels : HelperAt(frames'[d], d) = HelperAt(frames[d], d)
    BY <2>1, <1>S DEF StayShape, FailedKept
  <2>3. \/ dirty' = dirty
        \/ mode' = "crash" /\ dirty' = [dirty EXCEPT ![depth] = TRUE]
    BY <1>2 DEF Skip, Panic, Cleanup, EndBody, RunCleanup, EndCleanup, Ended, vars, history
  <2>4. \A d \in Levels : d > depth => ~dirty'[d]
    BY <2>3, <1>f, <1>t
  <2>5. mode' \in {"run", "panic"} =>
          \A d \in tests + 1..depth : dirty'[d] => frames'[HelperAt(frames'[d], d)].failed
    <3>1. mode' \in {"run", "panic"} =>
             dirty' = dirty /\ (mode' = mode \/ depth = tests)
      BY <1>2, <2>3 DEF Skip, Panic, Cleanup, EndBody, RunCleanup, EndCleanup, Ended, vars
    <3>2. \A d \in tests + 1..depth : d \in Levels /\ d \in tests..depth /\ depth # tests
      BY <1>t
    <3> QED BY <3>1, <3>2, <2>2, <1>f, <1>H
  <2>6. mode' = "goexit" /\ depth > tests => frames'[tests].failed
    <3>1. mode' = "goexit" /\ depth > tests => mode = "goexit" /\ tests \in Levels
      BY <1>2, <1>t DEF Skip, Panic, Cleanup, EndBody, RunCleanup, EndCleanup, Ended, vars
    <3> QED BY <3>1, <2>2, <1>f DEF InCall
  <2>7. mode' # "crash" /\ ~crashing' => \A d \in 1..tests : dirty'[d] => frames'[d].failed
    <3>1. mode' # "crash" /\ ~crashing' => dirty' = dirty /\ mode # "crash" /\ ~crashing
      BY <1>2, <2>3 DEF Skip, Panic, Cleanup, EndBody, RunCleanup, EndCleanup, Ended, vars,
                        Running, AllCleanedUp, StageInv, Top
    <3>2. \A d \in 1..tests : d \in Levels
      BY <1>t
    <3> QED BY <3>1, <3>2, <2>2, <1>f
  <2>8. \A d \in 2..tests : frames'[d].failed => frames'[d - 1].failed
    BY <2>2, <1>f, <1>t
  <2> QED
    BY <2>2, <2>4, <2>5, <2>6, <2>7, <2>8 DEF FailureInv, InCall
<1>3. CASE FinishTest
  <2>1. StayShape /\ tests = 1 /\ depth = 1
    BY <1>3, StayActions DEF FinishTest, AllCleanedUp
  <2>2. /\ depth' = depth /\ tests' = tests /\ mode' = mode /\ crashing' = crashing
        /\ dirty' = dirty
        /\ frames[1].failed => frames'[1].failed
    BY <1>3, <2>1, <1>t DEF FinishTest, history, StayShape, Same
  <2> QED
    BY <2>1, <2>2, <1>f, <1>t DEF FailureInv, InCall
\* --- an activation begins
<1>4. ASSUME NEW k \in Loops \cup {"with"}, NEW o \in Configs, Call(k, o)
      PROVE  FailureInv'
  <2> DEFINE f == NewFrame(k, Helper, o, SaveFor(o, kubeconfig), "none")
  <2>1. PushShape(f) /\ tests' = tests
    BY <1>4, CallShape
  <2> HIDE DEF f
  <2>2. /\ depth' = depth + 1 /\ depth + 1 \in Levels
        /\ \A d \in Levels : d # depth + 1 => frames'[d] = frames[d]
        /\ dirty' = dirty /\ mode' = mode /\ mode = "run" /\ crashing' = crashing
    BY <2>1, <1>4, <1>t DEF PushShape, Call, Running
  <2>3. ~dirty[depth + 1]
    BY <2>2, <1>f, <1>t
  <2>4. ASSUME NEW d \in tests + 1..depth + 1, dirty'[d]
        PROVE  frames'[HelperAt(frames'[d], d)].failed
    <3>1. d \in tests + 1..depth /\ d \in Levels /\ d \in tests..depth /\ d # depth + 1
      BY <2>2, <2>3, <2>4, <1>t
    <3>2. frames'[d] = frames[d] /\ dirty[d]
      BY <2>2, <2>4, <3>1
    <3>3. HelperAt(frames[d], d) \in Levels /\ HelperAt(frames[d], d) # depth + 1
      BY <3>1, <1>H, <1>t
    <3> QED BY <3>1, <3>2, <3>3, <2>2, <1>f
  <2>5. \A d \in 1..tests : frames'[d] = frames[d]
    BY <2>2, <1>t
  <2>6. \A d \in 2..tests : d \in 1..tests /\ d - 1 \in 1..tests
    BY <1>t
  <2> QED
    BY <2>1, <2>2, <2>4, <2>5, <2>6, <1>f, <1>t DEF FailureInv
<1>5. CASE RunSubtest
  <2>1. PushShape(Test) /\ tests' = tests + 1 /\ tests = depth
    BY <1>5, SubtestShape
  <2>2. /\ depth' = depth + 1 /\ depth + 1 \in Levels /\ frames'[depth + 1] = Test
        /\ \A d \in Levels : d # depth + 1 => frames'[d] = frames[d]
        /\ dirty' = dirty /\ mode' = mode /\ mode = "run" /\ crashing' = crashing
    BY <2>1, <1>5, <1>t DEF PushShape, RunSubtest, Running
  <2>3. ~dirty[depth + 1] /\ ~Test.failed
    BY <2>2, <1>f, <1>t DEF Test, NewFrame
  <2>4. \A d \in 1..tests + 1 : \/ d = depth + 1
                                \/ d \in 1..tests /\ frames'[d] = frames[d]
    BY <2>1, <2>2, <1>t
  <2>5. \A d \in 2..tests + 1 : \/ d = depth + 1
                                \/ d \in 2..tests /\ frames'[d] = frames[d]
                                                  /\ frames'[d - 1] = frames[d - 1]
    BY <2>1, <2>2, <1>t
  <2>6. ~crashing' => \A d \in 1..tests + 1 : dirty'[d] => frames'[d].failed
    BY <2>2, <2>3, <2>4, <1>f
  <2>7. \A d \in 2..tests + 1 : frames'[d].failed => frames'[d - 1].failed
    BY <2>2, <2>3, <2>5, <1>f
  <2>8. \A d \in Levels : d > depth + 1 => ~dirty'[d]
    BY <2>2, <1>f, <1>t
  <2>9. \A d \in tests' + 1..depth' : FALSE
    BY <2>1, <2>2, <1>t
  <2> QED
    BY <2>1, <2>2, <2>6, <2>7, <2>8, <2>9 DEF FailureInv
\* --- another attempt
<1>6. CASE InCall /\ Retry /\ UNCHANGED <<tests, crashing>> /\ mode \in {"run", "panic"}
  <2>1. RetryShape
    BY <1>6, RetryActions
  <2>2. /\ depth' = depth /\ tests' = tests /\ depth > tests /\ mode' = "run"
        /\ \A d \in Levels : d # depth => frames'[d] = frames[d]
        /\ dirty' = [dirty EXCEPT ![depth] = FALSE] /\ crashing' = crashing
    BY <2>1, <1>6 DEF RetryShape, InCall, Retry
  <2>3. \A d \in Levels : dirty'[d] => d # depth /\ dirty[d]
    BY <2>2, <1>t
  <2>4. ASSUME NEW d \in tests + 1..depth, dirty'[d]
        PROVE  frames'[HelperAt(frames'[d], d)].failed
    <3>1. d \in Levels /\ d \in tests..depth /\ d # depth /\ dirty[d]
      BY <2>3, <2>4, <1>t
    <3>2. HelperAt(frames[d], d) \in Levels /\ HelperAt(frames[d], d) # depth
      BY <3>1, <1>H, <1>t
    <3> QED BY <3>1, <3>2, <2>2, <1>f, <1>6
  <2>5. \A d \in 1..tests : d \in Levels /\ frames'[d] = frames[d]
    BY <2>2, <1>t
  <2>6. \A d \in 2..tests : d \in 1..tests /\ d - 1 \in 1..tests
    BY <1>t
  <2>7. \A d \in Levels : d > depth => ~dirty'[d]
    BY <2>3, <1>f
  <2>8. ~crashing' => \A d \in 1..tests : dirty'[d] => frames'[d].failed
    BY <2>2, <2>3, <2>5, <1>f, <1>6
  <2>9. \A d \in 2..tests : frames'[d].failed => frames'[d - 1].failed
    BY <2>5, <2>6, <1>f
  <2> QED
    BY <2>2, <2>4, <2>7, <2>8, <2>9 DEF FailureInv
\* --- an activation ends
<1>p. ASSUME InCall, depth' = depth - 1, PopHistory(TRUE) \/ PopHistory(dirty[depth])
      PROVE  /\ depth - 1 \in Levels /\ depth - 1 \in tests..depth
             /\ \A d \in Levels : d > depth - 1 => ~dirty'[d]
             /\ \A d \in Levels : d < depth - 1 => (dirty'[d] <=> dirty[d])
  <2>1. depth - 1 \in Levels /\ depth - 1 \in tests..depth
    BY <1>p, <1>t DEF InCall
  <2>2. \A d \in Levels : d # depth - 1 => (dirty'[d] <=> d # depth /\ dirty[d])
    BY <1>p, <2>1, <1>t DEF PopHistory
  <2> QED
    BY <2>1, <2>2, <1>f, <1>t
<1>7. CASE InCall /\ GiveUp /\ UNCHANGED <<tests, crashing>> /\ mode \in {"run", "panic"}
  <2> DEFINE h == IF Top.kind = "until" THEN tests ELSE Top.base
  <2>1. /\ depth' = depth - 1 /\ tests' = tests /\ depth > tests /\ crashing' = crashing
        /\ frames' = MarkFailed([frames EXCEPT ![depth] = Unused], h)
        /\ mode' = FailNowMode(h) /\ PopHistory(TRUE)
    BY <1>7 DEF GiveUp, InCall
  <2>2. /\ h \in 1..depth - 1 /\ h \in tests..depth - 1 /\ h \in Nat
        /\ h = tests \/ h = Top.base
    BY <1>7, <1>t, <1>h
  <2> HIDE DEF h
  <2>3. /\ \A d \in 1..depth - 1 : /\ frames[d].failed => frames'[d].failed
                                   /\ d # h /\ h > tests => (frames'[d].failed <=> frames[d].failed)
        /\ frames'[h].failed
        /\ h <= tests => \A d \in 1..h : frames'[d].failed
    BY <2>1, <2>2, <1>7, DropAndMarkStack
  <2>4. PopShape
    BY <1>7, PopActions
  <2>5. /\ \A d \in Levels : d > depth - 1 => ~dirty'[d]
        /\ \A d \in Levels : d < depth - 1 => (dirty'[d] <=> dirty[d])
        /\ depth - 1 \in Levels
    BY <1>7, <2>1, <1>p
  <2>6. CASE h <= tests
    <3>1. h = tests /\ mode' = "goexit" /\ \A d \in 1..tests : frames'[d].failed
      <4>1. h = tests
        BY <2>2, <2>6, <1>t
      <4>2. mode' = "goexit"
        BY <2>1, <2>6 DEF FailNowMode
      <4>3. \A d \in 1..h : frames'[d].failed
        BY <2>3, <2>6
      <4> QED BY <4>1, <4>2, <4>3
    <3>2. \A d \in 2..tests : d - 1 \in 1..tests /\ d \in 1..tests
      BY <1>t
    <3>3. tests \in 1..tests
      BY <1>t
    <3>4. \A d \in Levels : d > depth' => ~dirty'[d]
      BY <2>1, <2>5
    <3>5. \A d \in 2..tests' : frames'[d].failed => frames'[d - 1].failed
      BY <2>1, <3>1, <3>2
    <3>6. /\ mode' \notin {"run", "panic"}
          /\ frames'[tests'].failed
          /\ \A d \in 1..tests' : frames'[d].failed
      BY <2>1, <3>1, <3>3
    <3> QED
      BY <3>4, <3>5, <3>6 DEF FailureInv
  <2>7. CASE h > tests
    <3>1. h = Top.base /\ mode' = "panic" /\ h = HelperAt(frames[depth - 1], depth - 1)
      BY <2>1, <2>2, <2>7, <1>7, <1>h, <1>t DEF FailNowMode
    <3>2. ASSUME NEW d \in tests + 1..depth - 1, dirty'[d]
          PROVE  frames'[HelperAt(frames'[d], d)].failed
      <4>1. d \in Levels /\ d \in tests..depth /\ d \in 1..depth - 1
        BY <1>t
      <4>2. HelperAt(frames'[d], d) = HelperAt(frames[d], d)
        BY <4>1, <2>1, <2>4, <1>S DEF PopShape
      <4>3. CASE d = depth - 1
        BY <4>2, <4>3, <3>1, <2>3
      <4>4. CASE d < depth - 1
        <5>1. dirty[d] /\ frames[HelperAt(frames[d], d)].failed
          BY <4>1, <4>4, <3>2, <2>5, <1>f, <1>7, <1>t
        <5>2. HelperAt(frames[d], d) \in 1..depth - 1
          BY <4>1, <1>H, <1>t
        <5> QED BY <5>1, <5>2, <4>2, <2>3
      <4> QED BY <4>1, <4>3, <4>4, <1>t
    <3>3. \A d \in 1..tests : /\ d \in Levels /\ d < depth - 1 /\ d # h
                              /\ d \in 1..depth - 1
      BY <2>2, <2>7, <1>t
    <3>4. \A d \in 1..tests : frames'[d].failed <=> frames[d].failed
      BY <3>3, <2>3, <2>7
    <3>5. \A d \in 2..tests : d \in 1..tests /\ d - 1 \in 1..tests
      BY <1>t
    <3>6. ~crashing' => \A d \in 1..tests : dirty'[d] => frames'[d].failed
      <4>1. \A d \in 1..tests : dirty'[d] <=> dirty[d]
        BY <2>5, <3>3
      <4>2. ~crashing => \A d \in 1..tests : dirty[d] => frames[d].failed
        BY <1>f, <1>7
      <4>3. ASSUME ~crashing', NEW d \in 1..tests, dirty'[d]
            PROVE  frames'[d].failed
        BY <4>1, <4>2, <4>3, <2>1, <3>4
      <4> QED BY <4>3
    <3>7. \A d \in 2..tests : frames'[d].failed => frames'[d - 1].failed
      BY <3>4, <3>5, <1>f
    <3> QED
      BY <2>1, <2>5, <3>1, <3>2, <3>6, <3>7 DEF FailureInv
  <2> QED
    BY <2>2, <2>6, <2>7, <1>t
<1>8. CASE Return \/ Unwind
  <2>1. /\ InCall /\ depth' = depth - 1 /\ tests' = tests /\ depth > tests
        /\ crashing' = crashing /\ mode' = mode
        /\ frames' = [frames EXCEPT ![depth] = Unused] /\ PopHistory(dirty[depth])
    BY <1>8 DEF Return, Unwind, InCall
  <2>2. /\ \A d \in Levels : d > depth - 1 => ~dirty'[d]
        /\ \A d \in Levels : d < depth - 1 => (dirty'[d] <=> dirty[d])
        /\ depth - 1 \in Levels
    BY <2>1, <1>p
  <2>3. dirty'[depth - 1] => dirty[depth - 1] \/ dirty[depth]
    BY <2>1, <2>2, <1>t DEF PopHistory
  <2>4. \A d \in 1..depth - 1 : frames'[d] = frames[d]
    BY <2>1, DropStack
  <2>5. mode \in {"run", "panic"} /\ dirty[depth] =>
          /\ frames[HelperAt(frames[depth - 1], depth - 1)].failed
          /\ depth - 1 = tests => frames[tests].failed
    <3>1. \/ Top.kind \in Loops => ~frames[Asked(Top, depth)].failed
          \/ ~Recovers(Top) \/ mode \notin {"run", "panic"}
      BY <1>8 DEF Return, Unwind, Running
    <3> QED
      BY <3>1, <2>1, FailureHandedDown
  <2>6. ASSUME NEW d \in tests + 1..depth - 1, dirty'[d], mode \in {"run", "panic"}
        PROVE  frames'[HelperAt(frames'[d], d)].failed
    <3>1. d \in Levels /\ d \in tests..depth /\ d \in tests + 1..depth /\ frames'[d] = frames[d]
      BY <2>4, <1>t
    <3>2. HelperAt(frames[d], d) \in 1..depth - 1
      BY <3>1, <2>6, <1>H, <1>t
    <3>3. frames[HelperAt(frames[d], d)].failed
      <4>1. CASE d = depth - 1
        <5>1. dirty[d] \/ dirty[depth]
          BY <4>1, <2>3, <2>6
        <5> QED BY <5>1, <4>1, <3>1, <2>5, <2>6, <1>f
      <4>2. CASE d < depth - 1
        BY <4>2, <3>1, <2>2, <2>6, <1>f
      <4> QED BY <4>1, <4>2, <2>6, <1>t
    <3> QED BY <3>1, <3>2, <3>3, <2>4
  <2>7. ASSUME NEW d \in 1..tests, dirty'[d], mode # "crash", ~crashing
        PROVE  frames'[d].failed
    <3>1. d \in Levels /\ frames'[d] = frames[d] /\ (d = depth - 1 => d = tests)
          /\ (d # depth - 1 => d < depth - 1)
      BY <2>1, <2>4, <1>t
    <3>2. CASE d = depth - 1
      <4>1. mode = "goexit" \/ mode \in {"run", "panic"}
        BY <2>7 DEF TypeOK
      <4>2. dirty[d] \/ dirty[depth]
        BY <3>2, <2>3, <2>7
      <4> QED BY <4>1, <4>2, <3>1, <3>2, <2>1, <2>5, <2>7, <1>f
    <3>3. CASE d # depth - 1
      BY <3>1, <3>3, <2>2, <2>7, <1>f
    <3> QED BY <3>2, <3>3
  <2>8. /\ \A d \in 1..tests : d \in 1..depth - 1
        /\ \A d \in 2..tests : d \in 1..tests /\ d - 1 \in 1..tests
        /\ tests \in 1..tests
    BY <2>1, <1>t
  <2>9. \A d \in 2..tests : frames'[d].failed => frames'[d - 1].failed
    BY <2>4, <2>8, <1>f
  <2>10. mode = "goexit" => frames'[tests].failed
    BY <2>1, <2>4, <2>8, <1>f
  <2> QED
    BY <2>1, <2>2, <2>6, <2>7, <2>9, <2>10 DEF FailureInv
<1>9. CASE FinishSubtest
  <2>1. SubEndShape
    BY <1>9, SubEndActions
  <2>2. /\ depth' = depth - 1 /\ tests' = tests - 1 /\ depth = tests /\ tests > 1
        /\ \A d \in 1..tests - 1 : frames'[d].failed <=> crashing \/ frames[d].failed
    BY <2>1 DEF SubEndShape
  <2>3. /\ mode' = mode /\ mode = "run" /\ crashing' = crashing
    BY <1>9 DEF FinishSubtest, AllCleanedUp, StageInv, Top
  <2>4. /\ depth - 1 \in Levels
        /\ \A d \in Levels : d # depth - 1 => (dirty'[d] <=> d # depth /\ dirty[d])
        /\ dirty'[depth - 1] => dirty[depth - 1] \/ dirty[depth]
    BY <1>9, <2>2, <1>t DEF FinishSubtest, PopHistory
  <2>5. \A d \in Levels : d > depth - 1 => ~dirty'[d]
    BY <2>4, <1>f, <1>t
  <2>6. ASSUME NEW d \in 1..tests - 1, dirty'[d], ~crashing
        PROVE  frames'[d].failed
    <3>1. d \in Levels /\ d \in 1..tests /\ tests \in 1..tests /\ tests \in 2..tests
      BY <2>2, <1>t
    <3>2. CASE d = depth - 1
      BY <3>1, <3>2, <2>2, <2>3, <2>4, <2>6, <1>f
    <3>3. CASE d # depth - 1
      BY <3>1, <3>3, <2>2, <2>3, <2>4, <2>6, <1>f
    <3> QED BY <3>2, <3>3
  <2>7. \A d \in 2..tests - 1 : /\ d \in 2..tests /\ d \in 1..tests - 1
                                /\ d - 1 \in 1..tests - 1
    BY <1>t
  <2>8. \A d \in 2..tests - 1 : frames'[d].failed => frames'[d - 1].failed
    BY <2>2, <2>7, <1>f
  <2>9. \A d \in tests' + 1..depth' : FALSE
    BY <2>2, <1>t
  <2> QED
    BY <2>2, <2>3, <2>5, <2>6, <2>8, <2>9 DEF FailureInv
<1>10. CASE AttemptFailed
  BY <1>6, <1>7, <1>10 DEF AttemptFailed, Running
<1>11. CASE Recover
  BY <1>6, <1>7, <1>11 DEF Recover
<1>12. NoConfig \in Configs
  BY DEF Configs
<1> QED
  BY <1>1, <1>2, <1>3, <1>4, <1>5, <1>8, <1>9, <1>10, <1>11, <1>12
  DEF Next, UntilSuccess, WaitFor, RetryFunction, WithKubeconfig, Loops

------------------------------------------------------------------------------
\* One test running at the bottom, and nothing failed, wanted or leaked.
LEMMA InitIInv == Init => IInv
<1> SUFFICES ASSUME Init PROVE IInv
  OBVIOUS
<1>1. /\ MaxDepth \in Nat \ {0} /\ 1 \in Levels /\ NoConfig \in Configs
      /\ Test \in Frame /\ Unused \in Frame
  BY HarnessAssumption, UnusedType DEF Levels, Configs
<1>2. /\ frames \in [Levels -> Frame] /\ frames[1] = Test
      /\ \A d \in Levels : d # 1 => frames[d] = Unused
  BY <1>1 DEF Init
<1>3. /\ Test.kind = "test" /\ Test.oc = NoConfig /\ Test.stage = "body"
      /\ Unused.kind = "none" /\ Unused.stage = "none"
  BY DEF Test, Unused, NewFrame
<1>4. TypeOK
  <2>1. Layout
    <3> SUFFICES ASSUME NEW d \in Levels
                 PROVE  /\ d <= 1 <=> frames[d].kind = "test"
                        /\ d > 1 <=> frames[d].kind = "none"
                        /\ d > 1 => frames[d] = Unused
      BY DEF Layout, Init
    <3>1. d \in Nat /\ d >= 1
      BY <1>1 DEF Levels
    <3>2. CASE d = 1
      BY <3>2, <1>2, <1>3
    <3>3. CASE d # 1
      BY <3>1, <3>3, <1>2, <1>3
    <3> QED BY <3>2, <3>3
  <2>2. 1 \in 1..1
    OBVIOUS
  <2> QED
    BY <2>1, <2>2, <1>1, <1>2 DEF Init, TypeOK
<1>5. StageInv
  <2>1. \A d \in 1 + 1..MaxDepth : d \in Levels /\ d # 1
    BY <1>1 DEF Levels
  <2>2. \A d \in 1 + 1..MaxDepth : frames[d].stage = "none"
    BY <2>1, <1>2, <1>3
  <2>3. \A d \in 1..1 - 1 : FALSE
    OBVIOUS
  <2> QED
    BY <2>2, <2>3, <1>2, <1>3 DEF Init, StageInv
<1>6. HelperInv
  BY <1>1, <1>2, <1>3 DEF Init, HelperInv, HelperAt
<1>7. RetryPanicCaught
  BY DEF Init, RetryPanicCaught
<1>8. FailureInv
  BY <1>1 DEF Init, FailureInv, InCall
<1>9. ConfigInv
  BY <1>1, <1>2, <1>3 DEF Init, ConfigInv
<1> QED
  BY <1>4, <1>5, <1>6, <1>7, <1>8, <1>9 DEF IInv

(***************************************************************************)
(* The inductive invariant: the stack, who fails on whose helper, which    *)
(* failures are on record, and what withKubeconfig saved, fit together.    *)
(***************************************************************************)
THEOREM Invariant == Spec => []IInv
<1>1. Init => IInv
  BY InitIInv
<1>2. IInv /\ [Next]_vars => IInv'
  BY TypeStep, HelperStep, StageStep, PanicStep, FailureStep, ConfigStep DEF IInv
<1> QED
  BY <1>1, <1>2, PTL DEF Spec

(***************************************************************************)
(* The state is well typed and the stack well laid out: tests below the    *)
(* activations of helpers, nothing above the running one.                  *)
(***************************************************************************)
THEOREM TypesKept == Spec => []TypeOK
<1>1. IInv => TypeOK
  BY DEF IInv
<1> QED
  BY <1>1, Invariant, PTL

(***************************************************************************)
(* For any depth of nesting and any numbers of attempts: a test reported   *)
(* as passed had no failure that no later attempt made good.               *)
(***************************************************************************)
THEOREM VerdictIsSound == Spec => []VerdictSound
<1>1. IInv => VerdictSound
  <2> SUFFICES ASSUME IInv, process = "exited", dirty[1]
               PROVE  frames[1].failed
    BY DEF VerdictSound
  <2>1. tests = 1 /\ mode = "run" /\ ~crashing
    BY DEF IInv, StageInv
  <2> QED
    BY <2>1 DEF IInv, FailureInv
<1> QED
  BY <1>1, Invariant, PTL

(***************************************************************************)
(* The panic of RetryTestHelper.FailNow is always recovered by an attempt, *)
(* never by a test function or the testing package.                        *)
(***************************************************************************)
THEOREM RetryPanicIsCaught == Spec => []RetryPanicCaught
<1>1. IInv => RetryPanicCaught
  BY DEF IInv
<1> QED
  BY <1>1, Invariant, PTL

(***************************************************************************)
(* Unless a withKubeconfig was left by a panic or Goexit, every command    *)
(* runs against the cluster it is meant for.                               *)
(***************************************************************************)
THEOREM KubeconfigIsAsWanted == Spec => []KubeconfigAsWanted
<1>1. IInv => KubeconfigAsWanted
  BY DEF IInv, ConfigInv, KubeconfigAsWanted
<1> QED
  BY <1>1, Invariant, PTL

(***************************************************************************)
(* UntilSuccess returns only after an attempt without a failure that was   *)
(* not made good inside it.                                                *)
(***************************************************************************)
THEOREM UntilSuccessKeepsPromise == Spec => UntilSuccessPromise
<1> DEFINE P == Top.kind = "until" /\ mode = "run" /\ depth' < depth /\ mode' = "run"
                  => ~dirty[depth]
<1>1. IInv /\ [Next]_vars => P
  <2> SUFFICES ASSUME IInv, [Next]_vars, Top.kind = "until", mode = "run",
                      depth' < depth, mode' = "run"
               PROVE  ~dirty[depth]
    OBVIOUS
  <2>t. depth \in Nat /\ depth \in Levels /\ tests \in 1..depth /\ depth > tests
    BY HarnessAssumption DEF IInv, TypeOK, Layout, Levels, Top
  <2>1. CASE Return
    <3>1. ~frames[HelperAt(Top, depth)].failed
      BY <2>1 DEF Return, Asked, Loops
    <3> QED
      BY <3>1, <2>t DEF IInv, FailureInv, Top
  <2>2. ~Return => FALSE
    BY <2>t DEF Next, Error, Fatal, Skip, Panic, UntilSuccess, WaitFor, RetryFunction,
                WithKubeconfig, Call, AttemptFailed, Recover, Retry, GiveUp, FailNowMode,
                Unwind, Cleanup, RunSubtest, EndBody, RunCleanup, EndCleanup,
                FinishSubtest, FinishTest, AllCleanedUp, Ended, vars
  <2> QED
    BY <2>1, <2>2
<1>2. IInv /\ [Next]_vars => [P]_vars
  BY <1>1
<1> QED
  BY <1>2, Invariant, PTL DEF Spec, UntilSuccessPromise

(***************************************************************************)
(* Inside an attempt of another loop, retryFunction fails its caller only  *)
(* with its last attempt.                                                  *)
(***************************************************************************)
THEOREM ApplyPersists == Spec => ApplyPersistsInAttempt
<1> DEFINE P == Top.kind = "apply" /\ Top.base > tests /\ depth' < depth
                  /\ mode \in {"run", "panic"} /\ mode' # "run"
                  => Top.n + 1 >= ApplyAttempts
<1>1. IInv /\ [Next]_vars => P
  <2> SUFFICES ASSUME IInv, [Next]_vars, Top.kind = "apply", depth' < depth,
                      mode \in {"run", "panic"}, mode' # "run"
               PROVE  Top.n + 1 >= ApplyAttempts
    OBVIOUS
  <2>t. depth \in Nat /\ depth \in Levels /\ tests \in 1..depth /\ depth > tests
    BY HarnessAssumption DEF IInv, TypeOK, Layout, Levels, Top
  <2>1. CASE Recover
    <3>1. GiveUp
      BY <2>1 DEF Recover, Retry
    <3>2. Top.n + 1 >= Attempts["apply"]
      BY <3>1 DEF GiveUp
    <3>3. Attempts["apply"] = ApplyAttempts
      BY DEF Attempts, Loops
    <3> QED
      BY <3>2, <3>3
  <2>2. ~Recover => FALSE
    BY <2>t DEF Next, Error, Fatal, Skip, Panic, UntilSuccess, WaitFor, RetryFunction,
                WithKubeconfig, Call, AttemptFailed, Return, Running, Recovers,
                Unwind, Cleanup, RunSubtest, EndBody, RunCleanup, EndCleanup,
                FinishSubtest, FinishTest, AllCleanedUp, Ended, vars
  <2> QED
    BY <2>1, <2>2
<1>2. IInv /\ [Next]_vars => [P]_vars
  BY <1>1
<1> QED
  BY <1>2, Invariant, PTL DEF Spec, ApplyPersistsInAttempt

==============================================================================
