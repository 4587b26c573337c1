----------------------------- MODULE TempoInstall -----------------------------
(***************************************************************************)
(* TestTempoTracing and the cluster it leaves to its own reruns.  The test *)
(* registers Uninstall as its cleanup, then calls InstallIfNotExist, which *)
(* installs what it does not find: the Tempo operator, the OpenTelemetry   *)
(* operator, and the TempoStack.  Whether an operator was found is kept in *)
(* a variable of the process and decides whether Uninstall removes it.     *)
(*                                                                         *)
(* Every command may fail, and ends the test or its cleanup there; the     *)
(* process may be killed anywhere (go test -timeout); and the test is run  *)
(* again, in a new process, on the cluster as it was left.  OLM and the    *)
(* Tempo operator work concurrently with all of that.                      *)
(***************************************************************************)
EXTENDS Naturals

CONSTANTS
  MaxRuns,    \* bound: processes that run the test
  ChecksErr   \* may "oc get" fail while looking for something

ASSUME TempoInstallAssumption == MaxRuns \in Nat /\ ChecksErr \in BOOLEAN

Operators == {"tempo", "otel"}
OlmParts  == {"subscription", "csv", "pod"}
StackParts == {"minio", "tempostack", "frontend", "route"}

VARIABLES
  step,           \* the next command of the process; "idle" between processes
  op,             \* the operator it is about
  existedBefore,  \* tempoExistedBefore, otelExistedBefore
  csvName,        \* the name GetFullCsvName found is not empty
  own,            \* what exists of each operator in the namespace it is installed in
  stack,          \* what exists in the tracing-system namespace
  kindKnown,      \* the cluster knows the kind TempoStack
  preexisting,    \* where the administrator had installed each operator
  runs,           \* how many processes were started
  misread,        \* history: this process took an error of "oc get" for a find
  troubled        \* history: a process was killed, or Uninstall did not finish

process == <<step, op, existedBefore, csvName>>
cluster == <<own, stack, kindKnown>>
vars == <<step, op, existedBefore, csvName, own, stack, kindKnown, preexisting, runs,
          misread, troubled>>

InstallSteps   == {"check", "subscribe", "wait", "checkStack", "recreate",
                   "minio", "apply", "ready", "route"}
UninstallSteps == {"dropRoute", "dropStack", "dropMinio", "dropTracing",
                   "lookup", "unsubscribe", "dropCsv", "dropNamespace"}
Steps == {"idle", "test"} \cup InstallSteps \cup UninstallSteps

Initially(o) == IF preexisting[o] = "own" THEN OlmParts ELSE {}

\* ResourceByLabelExists for the operator's pod, in its own namespace or in
\* openshift-operators.
Exists(o) == "pod" \in own[o] \/ preexisting[o] = "shared"

\* What a check makes of a fact: existing is anything but NotFound, and an
\* error of the command ("|| true") is not that.
Answers(fact) == {fact} \cup (IF ChecksErr THEN {TRUE} ELSE {})

Init ==
  /\ step = "idle" /\ op = "tempo"
  /\ existedBefore = [o \in Operators |-> FALSE]
  /\ csvName = FALSE
  /\ preexisting \in [Operators -> {"none", "own", "shared"}]
  /\ own = [o \in Operators |-> Initially(o)]
  /\ stack = {}
  /\ kindKnown \in BOOLEAN
  /\ preexisting["tempo"] # "none" => kindKnown
  /\ runs = 0
  /\ misread = FALSE
  /\ troubled = FALSE

Goto(s) == step' = s /\ UNCHANGED op

\* The same for the other operator, after which comes s.
Tempo1st(first, s) ==
  IF op = "tempo" THEN op' = "otel" /\ step' = first
                  ELSE op' = "tempo" /\ step' = s

\* Mutant: the OpenTelemetry operator is looked for, and installed, first.
StartOtel1st ==
  /\ step = "idle"
  /\ runs < MaxRuns
  /\ runs' = runs + 1
  /\ step' = "check" /\ op' = "otel"
  /\ existedBefore' = [o \in Operators |-> FALSE]
  /\ misread' = FALSE
  /\ UNCHANGED <<csvName, cluster, preexisting, troubled>>

\* Mutant: reruns without a limit.
StartAgain ==
  /\ step = "idle"
  /\ runs' = runs + 1
  /\ step' = "check" /\ op' = "tempo"
  /\ existedBefore' = [o \in Operators |-> FALSE]
  /\ misread' = FALSE
  /\ UNCHANGED <<csvName, cluster, preexisting, troubled>>

\* A process is started: its first test command is that of InstallIfNotExist.
Start ==
  /\ step = "idle"
  /\ runs < MaxRuns
  /\ runs' = runs + 1
  /\ step' = "check" /\ op' = "tempo"
  /\ existedBefore' = [o \in Operators |-> FALSE]
  /\ misread' = FALSE
  /\ UNCHANGED <<csvName, cluster, preexisting, troubled>>

------------------------------------------------------------------------------
(***************************************************************************)
(* InstallIfNotExist.                                                      *)
(***************************************************************************)
\* Mutant: the flag is set after installing the operator, too.
CheckAlways ==
  /\ step = "check"
  /\ \E found \in Answers(Exists(op)) :
       /\ existedBefore' = [existedBefore EXCEPT ![op] = TRUE]
       /\ misread' = (misread \/ found # Exists(op))
       /\ IF found THEN Tempo1st("check", "checkStack") ELSE Goto("subscribe")
  /\ UNCHANGED <<csvName, cluster, preexisting, runs, troubled>>

Check ==
  /\ step = "check"
  /\ \E found \in Answers(Exists(op)) :
       /\ existedBefore' = [existedBefore EXCEPT ![op] = @ \/ found]
       /\ misread' = (misread \/ found # Exists(op))
       /\ IF found THEN Tempo1st("check", "checkStack") ELSE Goto("subscribe")
  /\ UNCHANGED <<csvName, cluster, preexisting, runs, troubled>>

\* CreateNamespace, then the subscription is applied.
Subscribe ==
  /\ step = "subscribe"
  /\ own' = [own EXCEPT ![op] = @ \cup {"subscription"}]
  /\ Goto("wait")
  /\ UNCHANGED <<existedBefore, csvName, stack, kindKnown, preexisting, runs, misread, troubled>>

\* WaitForOperatorInNamespaceReady: the CSV has succeeded, the pod is ready.
Wait ==
  /\ step = "wait"
  /\ {"csv", "pod"} \subseteq own[op]
  /\ Tempo1st("check", "checkStack")
  /\ UNCHANGED <<existedBefore, csvName, cluster, preexisting, runs, misread, troubled>>

CheckStack ==
  /\ step = "checkStack"
  /\ \E found \in Answers({"minio", "frontend"} \subseteq stack) :
       /\ misread' = (misread \/ found # ({"minio", "frontend"} \subseteq stack))
       /\ Goto(IF found THEN "test" ELSE "recreate")
  /\ UNCHANGED <<existedBefore, csvName, cluster, preexisting, runs, troubled>>

\* installTempoStack: what each of its commands makes of tracing-system.
InstallStack(s, next, parts) ==
  /\ step = s
  /\ stack' = parts
  /\ Goto(next)
  /\ UNCHANGED <<existedBefore, csvName, own, kindKnown, preexisting, runs, misread, troubled>>

RecreateTracing == InstallStack("recreate", "minio", {})
InstallMinio    == InstallStack("minio", "apply", stack \cup {"minio"})
ApplyStack      == kindKnown /\ InstallStack("apply", "ready", stack \cup {"tempostack"})
StackReady      == "frontend" \in stack /\ InstallStack("ready", "route", stack)
\* Mutant: the route is deleted, and not applied again.
DropHangingRoute == InstallStack("route", "test", stack \ {"route"})
ApplyRoute      == InstallStack("route", "test", stack \cup {"route"})

\* Mutant: the cleanup is registered after InstallIfNotExist.
CleanupOfTest ==
  /\ step \in (InstallSteps \cup {"test"}) \ {"check", "checkStack"}
  /\ step' = (IF step = "test" THEN "dropRoute" ELSE "idle") /\ op' = "tempo"
  /\ UNCHANGED <<existedBefore, csvName, cluster, preexisting, runs, misread, troubled>>

\* A command of InstallIfNotExist (the checks cannot fail: "|| true") or of the
\* rest of the test fails, or the test ends: its cleanup is run.
Cleanup ==
  /\ step \in (InstallSteps \cup {"test"}) \ {"check", "checkStack"}
  /\ step' = "dropRoute" /\ op' = "tempo"
  /\ UNCHANGED <<existedBefore, csvName, cluster, preexisting, runs, misread, troubled>>

------------------------------------------------------------------------------
(***************************************************************************)
(* Uninstall.                                                              *)
(***************************************************************************)
UninstallStack(s, next, parts) ==
  /\ step = s
  /\ stack' = stack \ parts
  /\ Goto(next)
  /\ UNCHANGED <<existedBefore, csvName, own, kindKnown, preexisting, runs, misread, troubled>>

DropRoute   == UninstallStack("dropRoute", "dropStack", {"route"})
\* Without the kind, oc delete is an error in spite of --ignore-not-found.
DropStack   == kindKnown /\ UninstallStack("dropStack", "dropMinio", {"tempostack"})
DropMinio   == UninstallStack("dropMinio", "dropTracing", {"minio"})
DropTracing == UninstallStack("dropTracing", "lookup", StackParts)

\* An operator that existed before stays, else DeleteOperatorViaOlm begins by
\* looking for the full name of the CSV.
Lookup ==
  /\ step = "lookup"
  /\ IF existedBefore[op]
     THEN UNCHANGED csvName /\ Tempo1st("lookup", "idle")
     ELSE csvName' = ("csv" \in own[op]) /\ Goto("unsubscribe")
  /\ UNCHANGED <<existedBefore, cluster, preexisting, runs, misread, troubled>>

UninstallOperator(s, parts) ==
  /\ step = s
  /\ own' = [own EXCEPT ![op] = @ \ parts]
  /\ UNCHANGED <<existedBefore, csvName, stack, kindKnown, preexisting, runs, misread, troubled>>

Unsubscribe == UninstallOperator("unsubscribe", {"subscription"}) /\ Goto("dropCsv")

\* Without a name, kubectl delete csv is an error.
DropCsv == csvName /\ UninstallOperator("dropCsv", {"csv"}) /\ Goto("dropNamespace")

DropNamespace ==
  /\ UninstallOperator("dropNamespace", OlmParts)
  /\ Tempo1st("lookup", "idle")

\* A command of Uninstall fails, and with it the cleanup; or the process is
\* killed, wherever it is.
Abort ==
  /\ step # "idle"
  /\ step' = "idle" /\ op' = "tempo"
  /\ troubled' = TRUE
  /\ UNCHANGED <<existedBefore, csvName, cluster, preexisting, runs, misread>>

------------------------------------------------------------------------------
(***************************************************************************)
(* The cluster's own controllers.                                          *)
(***************************************************************************)
\* OLM installs what is subscribed to, first its kinds and its CSV; kinds stay.
OlmInstall(o) ==
  /\ own' = [own EXCEPT ![o] = @ \cup
              (IF "csv" \in @ THEN {"pod"} ELSE IF "subscription" \in @ THEN {"csv"} ELSE {})]
  /\ own' # own
  /\ kindKnown' = (kindKnown \/ o = "tempo")
  /\ UNCHANGED <<process, stack, preexisting, runs, misread, troubled>>

\* The operator of a CSV that is gone is removed.
OlmRemove(o) ==
  /\ "pod" \in own[o] /\ "csv" \notin own[o]
  /\ own' = [own EXCEPT ![o] = @ \ {"pod"}]
  /\ UNCHANGED <<process, stack, kindKnown, preexisting, runs, misread, troubled>>

\* The Tempo operator makes the query frontend of a TempoStack, which is
\* garbage once the TempoStack is gone.
ReconcileStack ==
  /\ \/ "tempostack" \in stack /\ Exists("tempo") /\ stack' = stack \cup {"frontend"}
     \/ "tempostack" \notin stack /\ stack' = stack \ {"frontend"}
  /\ stack' # stack
  /\ UNCHANGED <<process, own, kindKnown, preexisting, runs, misread, troubled>>

Done == step = "idle" /\ runs = MaxRuns /\ UNCHANGED vars

Next ==
  \/ Start \/ Check \/ Subscribe \/ Wait \/ CheckStack
  \/ RecreateTracing \/ InstallMinio \/ ApplyStack \/ StackReady \/ ApplyRoute
  \/ Cleanup
  \/ DropRoute \/ DropStack \/ DropMinio \/ DropTracing
  \/ Lookup \/ Unsubscribe \/ DropCsv \/ DropNamespace
  \/ Abort
  \/ \E o \in Operators : OlmInstall(o) \/ OlmRemove(o)
  \/ ReconcileStack
  \/ Done

Spec == Init /\ [][Next]_vars

------------------------------------------------------------------------------
\* Types of the state.
TypeOK ==
  /\ step \in Steps
  /\ op \in Operators
  /\ existedBefore \in [Operators -> BOOLEAN]
  /\ csvName \in BOOLEAN
  /\ own \in [Operators -> SUBSET OlmParts]
  /\ stack \subseteq StackParts
  /\ preexisting \in [Operators -> {"none", "own", "shared"}]
  /\ kindKnown \in BOOLEAN
  /\ runs \in 0..MaxRuns
  /\ misread \in BOOLEAN
  /\ troubled \in BOOLEAN

(***************************************************************************)
(* The administrator's Tempo operator is still there, whole, whatever      *)
(* failed or was killed, in however many runs.                             *)
(***************************************************************************)
TempoSurvives == preexisting["tempo"] = "own" => own["tempo"] = OlmParts

(***************************************************************************)
(* Between processes nothing is left of what the test installed, unless a  *)
(* process was killed or an Uninstall did not finish; in particular when   *)
(* InstallIfNotExist failed half way, or took an error for a find.         *)
(***************************************************************************)
NothingLeftBehind ==
  step = "idle" /\ ~troubled =>
    stack = {} /\ \A o \in Operators : own[o] \subseteq Initially(o)

(***************************************************************************)
(* When InstallIfNotExist returns, both operators run and the TempoStack   *)
(* and its route exist, unless an earlier process left a mess or a check   *)
(* took an error for a find.                                               *)
(***************************************************************************)
InstalledIsUsable ==
  step = "test" /\ ~troubled /\ ~misread =>
    /\ StackParts \subseteq stack
    /\ \A o \in Operators : Exists(o)

(***************************************************************************)
(* An operator that existed before the process, but was not the            *)
(* administrator's, is one that an earlier process left (or an error).     *)
(***************************************************************************)
LeftoverMeansTrouble ==
  \A o \in Operators : existedBefore[o] /\ preexisting[o] = "none" => troubled \/ misread

------------------------------------------------------------------------------
(***************************************************************************)
(* The inductive invariant behind the invariants above.                    *)
(***************************************************************************)
ForOperator == {"check", "subscribe", "wait",
                "lookup", "unsubscribe", "dropCsv", "dropNamespace"}

\* The process has not touched operator o yet.
Before(o) == \/ step = "idle"
             \/ step \in {"check", "subscribe"} /\ op \in {o, "tempo"}
             \/ step = "wait" /\ op = "tempo" /\ o = "otel"

\* It is past looking for o and installing it, and Uninstall has not begun.
Past(o) == \/ step \in (InstallSteps \cup {"test"}) \ ForOperator
           \/ step \in {"check", "subscribe", "wait"} /\ op = "otel" /\ o = "tempo"

\* Uninstall is done with o.
Removed(o) == step \in ForOperator \ InstallSteps /\ op = "otel" /\ o = "tempo"

\* An operator found is not installed or uninstalled; none is found too early.
FlagInv ==
  /\ step \notin ForOperator => op = "tempo"
  /\ step \in {"check", "subscribe", "wait"} =>
       ~existedBefore[op] /\ (op = "tempo" => ~existedBefore["otel"])
  /\ step \in {"unsubscribe", "dropCsv", "dropNamespace"} => ~existedBefore[op]

\* The administrator's Tempo operator is found first of all.
TempoInv ==
  preexisting["tempo"] = "own" =>
    /\ own["tempo"] = OlmParts
    /\ \/ step = "idle"
       \/ step = "check" /\ op = "tempo"
       \/ existedBefore["tempo"]

\* Without trouble, what the cluster has of an operator and of the TempoStack
\* is what this process has got to.
OperatorInv(o) ==
  /\ Before(o) \/ Removed(o) => own[o] \in {Initially(o), {}}
  /\ existedBefore[o] => own[o] \in {Initially(o), {}}
  /\ existedBefore[o] /\ ~misread => preexisting[o] # "none" /\ own[o] = Initially(o)
  /\ Past(o) => existedBefore[o] \/ {"csv", "pod"} \subseteq own[o]

StackInv ==
  /\ step \in ForOperator \cup {"idle", "checkStack", "recreate", "minio"} => stack = {}
  /\ step \in {"apply", "ready", "route"} => "minio" \in stack
  /\ step \in {"ready", "route"} => "tempostack" \in stack
  /\ step = "route" => "frontend" \in stack
  /\ step = "test" /\ ~misread => StackParts \subseteq stack

CleanInv == ~troubled => StackInv /\ \A o \in Operators : OperatorInv(o)

IInv == TypeOK /\ FlagInv /\ TempoInv /\ CleanInv

==============================================================================
