------------------------------- MODULE Harness -------------------------------
(***************************************************************************)
(* The control flow of one top-level test of the suite: the test function, *)
(* its subtests and cleanups, and every retrying helper they may be        *)
(* running in, as one stack of activations.                                *)
(*                                                                         *)
(* A failure is reported on a TestHelper.  On a testHelper (one per        *)
(* testing.T) FailNow ends the goroutine (Goexit); on a RetryTestHelper it *)
(* panics with retryPanicKey, which RetryTestHelper.Attempt recovers.      *)
(* Which of the two a piece of code fails on is decided by the helper it   *)
(* captured, which is not always the one of the innermost loop.            *)
(***************************************************************************)
EXTENDS Integers

CONSTANTS
  MaxDepth,       \* bound: activations on the stack
  MaxCleanups,    \* bound: cleanups one testing.T may register
  UntilAttempts,  \* maxAttempts of UntilSuccessWithOptions
  ApplyAttempts,  \* maxAttempts of OC.retryFunction (5)
  WaitAttempts,   \* maxAttempts of OC.WaitFor (30)
  Kubeconfigs,    \* kubeconfigs that OC objects other than DefaultOC carry
  NoConfig,       \* "": DefaultOC's kubeconfig, and KUBECONFIG as inherited
  MustGather      \* is MUST_GATHER enabled

ASSUME HarnessAssumption ==
  /\ MaxDepth \in Nat \ {0}
  /\ MaxCleanups \in Nat
  /\ UntilAttempts \in Nat \ {0}
  /\ ApplyAttempts \in Nat \ {0}
  /\ WaitAttempts \in Nat \ {0}
  /\ NoConfig \notin Kubeconfigs
  /\ MustGather \in BOOLEAN

VARIABLES
  depth,       \* number of activations; the topmost one is running
  tests,       \* how many of them, from the bottom, are tests (t.Run nesting)
  frames,      \* the activations
  mode,        \* how control moves: running, or unwinding and why
  kubeconfig,  \* the process environment's KUBECONFIG
  process,     \* the test binary: alive, exited after the test, or crashed
  crashing,    \* a panic no one recovered is on its way out
  dirty,       \* history: activation had a failure no later attempt made good
  want,        \* history: cluster the commands of an activation are meant for
  leaked       \* history: a withKubeconfig was left without restoring

code    == <<depth, tests, frames, mode, kubeconfig, process, crashing>>
history == <<dirty, want, leaked>>
vars    == <<depth, tests, frames, mode, kubeconfig, process, crashing,
             dirty, want, leaked>>

Levels  == 1..MaxDepth
Configs == Kubeconfigs \cup {NoConfig}
Loops   == {"until", "apply", "waitfor"}
Kinds   == Loops \cup {"none", "test", "with"}
Stages  == {"none", "body", "cleanups", "cleanup", "done"}

Attempts == [k \in Loops |-> CASE k = "until"   -> UntilAttempts
                               [] k = "apply"   -> ApplyAttempts
                               [] k = "waitfor" -> WaitAttempts]

(***************************************************************************)
(* An activation: what runs, the helper it was called with (the level of   *)
(* the activation that helper belongs to), the attempt number, the failed  *)
(* flag of the helper that belongs to it, the kubeconfig of its OC and the *)
(* KUBECONFIG that withKubeconfig will put back; for a test, its stage,    *)
(* the cleanups still to run and whether a must-gather was captured.       *)
(***************************************************************************)
Frame == [kind : Kinds, base : 0..MaxDepth, n : Nat, failed : BOOLEAN,
          oc : Configs, saved : Configs,
          stage : Stages, cleanups : 0..MaxCleanups, gathered : BOOLEAN]

NewFrame(k, b, o, s, st) ==
  [kind |-> k, base |-> b, n |-> 0, failed |-> FALSE, oc |-> o, saved |-> s,
   stage |-> st, cleanups |-> 0, gathered |-> FALSE]

Unused == NewFrame("none", 0, NoConfig, NoConfig, "none")
Test   == NewFrame("test", 0, NoConfig, NoConfig, "body")

Top == frames[depth]

\* The helper (by the level it belongs to) that the code of activation f at
\* level d fails on: a test and an attempt have their own, except that the
\* last attempt of UntilSuccess runs on its caller's; the closures passed to
\* retryFunction and withKubeconfig captured their caller's.
HelperAt(f, d) ==
  IF \/ f.kind \in {"test", "waitfor"}
     \/ f.kind = "until" /\ f.n < UntilAttempts - 1
  THEN d
  ELSE f.base

Helper == HelperAt(Top, depth)

\* Mutants: retryFunction or WaitFor calling its command without an Attempt.
RecoversNotInWaitFor(f) == \/ f.kind = "apply"
                           \/ f.kind = "until" /\ f.n < UntilAttempts - 1
RecoversNotInApply(f) == \/ f.kind = "waitfor"
                         \/ f.kind = "until" /\ f.n < UntilAttempts - 1

\* Activations whose attempt is wrapped in RetryTestHelper.Attempt.
Recovers(f) ==
  \/ f.kind \in {"apply", "waitfor"}
  \/ f.kind = "until" /\ f.n < UntilAttempts - 1

\* testing.T.Fail marks the test and its parents; RetryTestHelper.Fail marks
\* only the attempt.
MarkFailed(fs, h) ==
  IF h <= tests
  THEN [i \in Levels |-> IF i <= h THEN [fs[i] EXCEPT !.failed = TRUE] ELSE fs[i]]
  ELSE [fs EXCEPT ![h].failed = TRUE]

\* How FailNow on helper h leaves the calling code.
FailNowMode(h) == IF h <= tests THEN "goexit" ELSE "panic"

\* setEnv of withKubeconfig on the way in and on the (normal) way out.
Enter(o, env)     == IF o = NoConfig THEN env ELSE o
SaveFor(o, env)   == IF o = NoConfig THEN NoConfig ELSE env
LeaveUnrestored(f, env) == env  \* mutant: no second setEnv
Leave(f, env)     == IF f.oc = NoConfig THEN env ELSE f.saved

\* Mutants: asking the caller's helper, or always a helper of one's own.
AskedOfCaller(f, d) == IF f.kind = "apply" THEN d ELSE f.base
AskedOfOwn(f, d) == d

\* The helper whose Failed() the loop asks once an attempt is over.
Asked(f, d) == IF f.kind = "apply" THEN d ELSE HelperAt(f, d)

\* What retryFunction is given is one command, a further retryFunction or an
\* Invoke, and WaitFor's attempt is one command with a require check: neither
\* has a loop over checks in it, nor a check that could fail softly.
InApply    == \E d \in 1..depth : frames[d].kind = "apply"
ChecksHere == ~InApply /\ Top.kind # "waitfor"
MayCall(k) == /\ Top.kind # "waitfor"
              /\ InApply => k \in {"apply", "with"}

\* Some helper's code is running above the innermost test function.
InCall == depth > tests

Running == mode = "run" /\ frames[tests].stage \in {"body", "cleanup"}

\* The topmost activation is gone; a failure it did not make good is now its
\* caller's.
PopHistory(bad) ==
  /\ dirty' = [dirty EXCEPT ![depth] = FALSE,
                            ![depth - 1] = dirty[depth - 1] \/ bad]
  /\ want' = [want EXCEPT ![depth] = NoConfig]

------------------------------------------------------------------------------
Init ==
  /\ depth = 1
  /\ tests = 1
  /\ frames = [i \in Levels |-> IF i = 1 THEN Test ELSE Unused]
  /\ mode = "run"
  /\ kubeconfig = NoConfig
  /\ process = "alive"
  /\ crashing = FALSE
  /\ dirty = [i \in Levels |-> FALSE]
  /\ want = [i \in Levels |-> NoConfig]
  /\ leaked = FALSE

\* t.Error: an assert check fails; the code goes on.
Error ==
  /\ Running
  /\ ChecksHere
  /\ frames' = MarkFailed(frames, Helper)
  /\ dirty' = [dirty EXCEPT ![depth] = TRUE]
  /\ UNCHANGED <<depth, tests, mode, kubeconfig, process, crashing, want, leaked>>

\* t.Fatal: a command fails (shell.Execute) or a require check does.
Fatal ==
  /\ Running
  /\ frames' = MarkFailed(frames, Helper)
  /\ mode' = FailNowMode(Helper)
  /\ dirty' = [dirty EXCEPT ![depth] = TRUE]
  /\ UNCHANGED <<depth, tests, kubeconfig, process, crashing, want, leaked>>

\* t.Skip in a test body ends it without a failure.
Skip ==
  /\ Running
  /\ depth = tests
  /\ Top.stage = "body"
  /\ mode' = "goexit"
  /\ UNCHANGED <<depth, tests, frames, kubeconfig, process, crashing, history>>

\* Any other panic (an index out of range while parsing output, say).
Panic ==
  /\ Running
  /\ mode' = "crash"
  /\ dirty' = [dirty EXCEPT ![depth] = TRUE]
  /\ UNCHANGED <<depth, tests, frames, kubeconfig, process, crashing, want, leaked>>

Call(k, o) ==
  /\ Running
  /\ MayCall(k)
  /\ depth < MaxDepth
  /\ depth' = depth + 1
  /\ frames' = [frames EXCEPT ![depth + 1] =
                  NewFrame(k, Helper, o, SaveFor(o, kubeconfig), "none")]
  /\ kubeconfig' = Enter(o, kubeconfig)
  /\ want' = [want EXCEPT ![depth + 1] = Enter(o, want[depth])]
  /\ UNCHANGED <<tests, mode, process, crashing, dirty, leaked>>

UntilSuccess      == Call("until", NoConfig)
WaitFor           == Call("waitfor", NoConfig)
RetryFunction(o)  == Call("apply", o)
WithKubeconfig(o) == Call("with", o)

------------------------------------------------------------------------------
\* The attempt on top is over without failure, or withKubeconfig's f is:
\* the activation returns to its caller.
Return ==
  /\ Running
  /\ InCall
  /\ Top.kind \in Loops => ~frames[Asked(Top, depth)].failed
  /\ depth' = depth - 1
  /\ frames' = [frames EXCEPT ![depth] = Unused]
  /\ kubeconfig' = Leave(Top, kubeconfig)
  /\ PopHistory(dirty[depth])
  /\ UNCHANGED <<tests, mode, process, crashing, leaked>>

\* The attempt failed and is not the last one: sleep, then start another, with
\* a new RetryTestHelper where the loop has one of its own.
Retry ==
  /\ Top.n + 1 < Attempts[Top.kind]
  /\ frames' = [frames EXCEPT ![depth].n = @ + 1,
                              ![depth].failed = FALSE,
                              ![depth].saved = SaveFor(Top.oc, kubeconfig)]
  /\ kubeconfig' = Enter(Top.oc, kubeconfig)
  /\ mode' = "run"
  /\ dirty' = [dirty EXCEPT ![depth] = FALSE]
  /\ UNCHANGED <<depth, want>>

\* The last attempt failed.  UntilSuccess calls FailNow on the testing.T,
\* retryFunction and WaitFor on the helper they were given.
GiveUp ==
  LET h == IF Top.kind = "until" THEN tests ELSE Top.base
  IN /\ Top.n + 1 >= Attempts[Top.kind]
     /\ depth' = depth - 1
     /\ frames' = MarkFailed([frames EXCEPT ![depth] = Unused], h)
     /\ mode' = FailNowMode(h)
     /\ PopHistory(TRUE)
     /\ UNCHANGED kubeconfig

\* The function given to UntilSuccess ran to its end, but failed.  (Those of
\* retryFunction and WaitFor fail only by FailNow.)
AttemptFailed ==
  /\ Running
  /\ InCall
  /\ Top.kind = "until"
  /\ frames[Asked(Top, depth)].failed
  /\ Retry \/ GiveUp
  /\ UNCHANGED <<tests, process, crashing, leaked>>

\* RetryTestHelper.Attempt recovers from retryPanicKey and marks its own
\* attempt as failed.  A withKubeconfig inside it did not restore KUBECONFIG.
Recover ==
  /\ mode = "panic"
  /\ InCall
  /\ Recovers(Top)
  /\ Retry \/ GiveUp
  /\ leaked' = (leaked \/ Top.oc # NoConfig)
  /\ UNCHANGED <<tests, process, crashing>>

\* An activation that does not recover, or whose recover finds nothing of its
\* own, is left with no code of it running.
Unwind ==
  /\ mode # "run"
  /\ InCall
  /\ mode = "panic" => ~Recovers(Top)
  /\ depth' = depth - 1
  /\ frames' = [frames EXCEPT ![depth] = Unused]
  /\ PopHistory(dirty[depth])
  /\ leaked' = (leaked \/ Top.oc # NoConfig)
  /\ UNCHANGED <<tests, mode, kubeconfig, process, crashing>>

------------------------------------------------------------------------------
\* t.Cleanup registers on the testing.T.
Cleanup ==
  /\ Running
  /\ depth = tests
  /\ Top.stage = "body"
  /\ Top.cleanups < MaxCleanups
  /\ frames' = [frames EXCEPT ![depth].cleanups = @ + 1]
  /\ UNCHANGED <<depth, tests, mode, kubeconfig, process, crashing, history>>

\* Mutant: the subtest's function is called, but not through t.Run.
RunSubtestInline ==
  /\ Running
  /\ depth = tests
  /\ Top.stage = "body"
  /\ depth < MaxDepth
  /\ depth' = depth + 1
  /\ frames' = [frames EXCEPT ![depth + 1] = Test]
  /\ want' = [want EXCEPT ![depth + 1] = want[depth]]
  /\ UNCHANGED <<tests, mode, kubeconfig, process, crashing, dirty, leaked>>

\* t.NewSubTest(...).Run: a testing.T of its own, run to its end.
RunSubtest ==
  /\ Running
  /\ depth = tests
  /\ Top.stage = "body"
  /\ depth < MaxDepth
  /\ depth' = depth + 1
  /\ tests' = tests + 1
  /\ frames' = [frames EXCEPT ![depth + 1] = Test]
  /\ want' = [want EXCEPT ![depth + 1] = want[depth]]
  /\ UNCHANGED <<mode, kubeconfig, process, crashing, dirty, leaked>>

\* The function given to Run is over: its deferred closure reports and, if
\* the helper has failed by now, captures a must-gather.  Its call of
\* recoverPanic recovers nothing: recover is not called by the deferred
\* function itself, so a panic goes on.
EndBody ==
  /\ depth = tests
  /\ Top.stage = "body"
  /\ frames' = [frames EXCEPT ![depth].stage = "cleanups",
                              ![depth].gathered = MustGather /\ Top.failed]
  /\ mode' = "run"
  /\ crashing' = (crashing \/ mode \in {"panic", "crash"})
  /\ UNCHANGED <<depth, tests, kubeconfig, process, history>>

\* testing runs the cleanups, each to its end whatever happens in it.
RunCleanup ==
  /\ depth = tests
  /\ Top.stage = "cleanups"
  /\ Top.cleanups > 0
  /\ frames' = [frames EXCEPT ![depth].stage = "cleanup", ![depth].cleanups = @ - 1]
  /\ UNCHANGED <<depth, tests, mode, kubeconfig, process, crashing, history>>

EndCleanup ==
  /\ depth = tests
  /\ Top.stage = "cleanup"
  /\ frames' = [frames EXCEPT ![depth].stage = "cleanups"]
  /\ mode' = "run"
  /\ crashing' = (crashing \/ mode \in {"panic", "crash"})
  /\ UNCHANGED <<depth, tests, kubeconfig, process, history>>

AllCleanedUp ==
  /\ depth = tests
  /\ Top.stage = "cleanups"
  /\ Top.cleanups = 0

\* A subtest is over and its parent goes on, or, if a panic is on its way
\* out, only the parent's cleanups run.
FinishSubtest ==
  /\ AllCleanedUp
  /\ tests > 1
  /\ depth' = depth - 1
  /\ tests' = tests - 1
  /\ frames' = IF crashing
               THEN [MarkFailed(frames, tests) EXCEPT
                       ![depth] = Unused, ![depth - 1].stage = "cleanups"]
               ELSE [frames EXCEPT ![depth] = Unused]
  /\ PopHistory(dirty[depth])
  /\ UNCHANGED <<mode, kubeconfig, process, crashing, leaked>>

FinishTest ==
  /\ AllCleanedUp
  /\ tests = 1
  /\ frames' = IF crashing
               THEN [MarkFailed(frames, 1) EXCEPT ![1].stage = "done"]
               ELSE [frames EXCEPT ![1].stage = "done"]
  /\ process' = IF crashing THEN "crashed" ELSE "exited"
  /\ UNCHANGED <<depth, tests, mode, kubeconfig, crashing, history>>

Ended == process # "alive" /\ UNCHANGED vars

Next ==
  \/ Error \/ Fatal \/ Skip \/ Panic
  \/ UntilSuccess \/ WaitFor
  \/ \E o \in Configs : RetryFunction(o) \/ WithKubeconfig(o)
  \/ Return \/ AttemptFailed \/ Recover \/ Unwind
  \/ Cleanup \/ RunSubtest
  \/ EndBody \/ RunCleanup \/ EndCleanup \/ FinishSubtest \/ FinishTest
  \/ Ended

Spec == Init /\ [][Next]_vars

------------------------------------------------------------------------------
\* How the stack is laid out: tests at the bottom, nothing above the top.
Layout ==
  \A d \in Levels : /\ d <= tests <=> frames[d].kind = "test"
                    /\ d > depth <=> frames[d].kind = "none"
                    /\ d > depth => frames[d] = Unused

\* Types of the state.
TypeOK ==
  /\ depth \in Levels
  /\ tests \in 1..depth
  /\ frames \in [Levels -> Frame]
  /\ Layout
  /\ mode \in {"run", "panic", "goexit", "crash"}
  /\ kubeconfig \in Configs
  /\ process \in {"alive", "exited", "crashed"}
  /\ crashing \in BOOLEAN
  /\ dirty \in [Levels -> BOOLEAN]
  /\ want \in [Levels -> Configs]
  /\ leaked \in BOOLEAN

(***************************************************************************)
(* A test that is reported as passed (or skipped) had no failure that a    *)
(* later attempt did not make good: however loops nest, whichever helper a *)
(* closure captured, and whatever unwound, no failure is swallowed.        *)
(***************************************************************************)
VerdictSound == process = "exited" /\ dirty[1] => frames[1].failed

(***************************************************************************)
(* RetryTestHelper.FailNow always lands in an Attempt that recovers it:    *)
(* retryPanicKey never reaches a test function or a cleanup.               *)
(***************************************************************************)
RetryPanicCaught == mode = "panic" => \E d \in tests + 1..depth : Recovers(frames[d])

(***************************************************************************)
(* Commands run against the cluster their OC object names (DefaultOC's: the *)
(* enclosing withKubeconfig's, else the inherited one), at any nesting and *)
(* after any number of calls, unless a withKubeconfig was once left by a   *)
(* panic or Goexit, which skips the second setEnv.                         *)
(***************************************************************************)
KubeconfigAsWanted == mode = "run" /\ ~leaked => kubeconfig = want[depth]

(***************************************************************************)
(* UntilSuccess returns only after an attempt in which nothing failed that *)
(* was not made good inside the attempt.                                   *)
(***************************************************************************)
UntilSuccessPromise ==
  [][Top.kind = "until" /\ mode = "run" /\ depth' < depth /\ mode' = "run"
       => ~dirty[depth]]_vars

(***************************************************************************)
(* Called from inside an attempt of another loop, retryFunction fails its  *)
(* caller only when its last attempt failed (no foreign panic occurring).  *)
(***************************************************************************)
ApplyPersistsInAttempt ==
  [][Top.kind = "apply" /\ Top.base > tests /\ depth' < depth
       /\ mode \in {"run", "panic"} /\ mode' # "run"
       => Top.n + 1 >= ApplyAttempts]_vars

------------------------------------------------------------------------------
\* What comments, messages and documentation of the repository say.

\* "recover from panic if one occurred. This allows cleanup to be executed
\* after panic." (recoverPanic): a panic in a test does not end the process.
PanicIsRecovered == process # "crashed"

\* "applies the specified YAMLs using oc apply and retries if the command
\* fails" (ApplyString): a failed command is given up only at the last attempt.
ApplyRetriesIfCommandFails ==
  [][Top.kind = "apply" /\ depth' < depth /\ mode \in {"panic", "goexit"}
       => Top.n + 1 >= ApplyAttempts]_vars

------------------------------------------------------------------------------
(***************************************************************************)
(* The inductive invariant behind the invariants above.                    *)
(***************************************************************************)
\* Where the stack's tests are, and when the process has ended.
StageInv ==
  /\ \A d \in 1..tests - 1 : frames[d].stage = "body"
  /\ \A d \in tests + 1..MaxDepth : frames[d].stage = "none"
  /\ frames[tests].stage # "none"
  /\ frames[tests].stage \in {"cleanups", "done"} => mode = "run" /\ depth = tests
  /\ process # "alive" <=> frames[tests].stage = "done"
  /\ process # "alive" => tests = 1
  /\ process = "exited" => ~crashing

\* A helper is captured from the caller; one that is not a test's belongs to
\* an attempt that is still on the stack and recovers.
HelperInv ==
  /\ \A d \in tests + 1..depth : frames[d].base = HelperAt(frames[d - 1], d - 1)
  /\ \A d \in tests..depth :
       LET h == HelperAt(frames[d], d)
       IN /\ h \in tests..d
          /\ h > tests => Recovers(frames[h]) /\ HelperAt(frames[h], h) = h

\* A failure not made good is on record with the helper that will be asked, or
\* with the test, if that is where control is going.
FailureInv ==
  /\ \A d \in Levels : d > depth => ~dirty[d]
  /\ mode \in {"run", "panic"} =>
       \A d \in tests + 1..depth :
         dirty[d] => frames[HelperAt(frames[d], d)].failed
  /\ mode = "goexit" /\ InCall => frames[tests].failed
  /\ mode # "crash" /\ ~crashing => \A d \in 1..tests : dirty[d] => frames[d].failed
  /\ \A d \in 2..tests : frames[d].failed => frames[d - 1].failed

\* What each withKubeconfig saved is what its caller wants back.
ConfigInv ==
  /\ want[1] = NoConfig
  /\ \A d \in 1..depth : frames[d].kind \in {"test", "until", "waitfor"}
                           => frames[d].oc = NoConfig
  /\ \A d \in 2..depth : want[d] = Enter(frames[d].oc, want[d - 1])
  /\ ~leaked => /\ kubeconfig = want[depth]
                /\ \A d \in 2..depth : frames[d].oc # NoConfig
                                         => frames[d].saved = want[d - 1]

IInv == TypeOK /\ StageInv /\ HelperInv /\ RetryPanicCaught /\ FailureInv /\ ConfigInv

==============================================================================
