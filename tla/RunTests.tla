-------------------------------- MODULE RunTests --------------------------------
(***************************************************************************)
(* scripts/runtests.sh, with the cert-manager tests as the tests it runs:  *)
(* for one SMCP version or all that are supported, reset the cluster, run  *)
(* gotestsum, and keep its reports.  "set -e" ends the script when one of  *)
(* its commands fails, but the pipe of gotestsum to tee never does, nor    *)
(* does the pipe at its end: it exits with 0.                              *)
(*                                                                         *)
(* Next to the versions, the environment of gotestsum is as in             *)
(* CertManager: with an argument (TEST_CASE), it has one test.  gotestsum  *)
(* itself may die before it has written the report.                        *)
(***************************************************************************)
EXTENDS CertManager, SequencesExt

CONSTANTS
  OperatorMinor,   \* OPERATOR_VERSION, 2.OperatorMinor
  SmcpMinors       \* what SMCP_VERSION may be: minor versions, 0 where it is not set

ASSUME RunTestsAssumption == OperatorMinor \in 3..6 /\ SmcpMinors \subseteq Nat

VARIABLES
  versions,    \* minor versions to come, the one in progress first
  single,      \* SMCP_VERSION was given
  at,          \* where the script is
  reported,    \* the versions with a report, in their order
  documented,  \* the versions with a documentation
  dirty        \* history: the mesh of an earlier version was there when a version began

script == <<versions, single, at, reported, documented, dirty>>
allVars == <<vars, script>>

SUPPORTED_VERSIONS == [i \in 1..3 |-> OperatorMinor - 3 + i]
Wanted == IF single > 0 THEN <<single>> ELSE SUPPORTED_VERSIONS
persistent == scenario.group = "persistent"

\* Between two runs of gotestsum there is no process.
InitScript ==
  /\ Init
  /\ single \in SmcpMinors
  /\ versions = Wanted
  /\ at = "resetFirst"
  /\ reported = <<>> /\ documented = <<>> /\ dirty = FALSE

Stopped == at \in {"failed", "done"}
NoProcess == UNCHANGED process
ScriptKept(next) == at' = next /\ UNCHANGED <<single, dirty>>

------------------------------------------------------------------------------
\* oc delete namespace: not the namespace of the operator.
ResetNamespaces == {Foo, certManagerNs} \cup (IF persistent THEN {} ELSE {meshNamespace})
Emptied == ResetNamespaces \cup UNION {Contents(ns) : ns \in ResetNamespaces}

\* Mutant: the script goes on when it fails.
ResetGoesOn(next) ==
  /\ Vanish(Emptied) \/ UNCHANGED cluster
  /\ ScriptKept(next)
  /\ NoProcess /\ UNCHANGED <<versions, reported, documented>>

resetCluster(next) ==
  /\ \/ Vanish(Emptied) /\ ScriptKept(next)
     \/ UNCHANGED cluster /\ ScriptKept("failed")
  /\ NoProcess /\ UNCHANGED <<versions, reported, documented>>

ResetFirst == at = "resetFirst" /\ resetCluster("run")
ResetAfterwards == at = "reset" /\ resetCluster("document")

\* gotestsum starts: a new environment, new processes; other packages come first.
OtherPackages ==
  IF scenario.leftMesh /\ "smcp" \notin objects
  THEN /\ objects' = objects \cup OldMesh
       /\ istiod' = [OldIstiod EXCEPT !.version = scenario'.version]
       /\ UNCHANGED <<certificate, inherited>>
  ELSE UNCHANGED cluster

RunTestsAgainstVersion ==
  /\ at = "run"
  /\ at' = "running"
  /\ scenario' = [scenario EXCEPT !.version = Version(2, Head(versions))]
  /\ OtherPackages
  /\ todo' = scenario.tests
  /\ Goto("setup")
  /\ reruns' = [t \in DOMAIN reruns |-> 0]
  /\ result' = [t \in DOMAIN result |-> "none"]
  /\ dirty' = (dirty \/ "smcp" \in objects)
  /\ UNCHANGED <<versions, single, reported, documented>>

\* Mutant: without "set -e".
TestsEndAnyhow ==
  /\ at = "running" /\ GotestsumEnds
  /\ ScriptKept("report") \/ ScriptKept("reset")
  /\ UNCHANGED <<versions, reported, documented>>
  /\ NoProcess /\ UNCHANGED cluster

\* gotestsum ends, with or without the report that sed needs; whether tests
\* failed makes no difference.
TestsEnd ==
  /\ at = "running" /\ GotestsumEnds
  /\ ScriptKept("report") \/ ScriptKept("failed")
  /\ UNCHANGED <<versions, reported, documented>>
  /\ NoProcess /\ UNCHANGED cluster

\* sed: the report, and the logs of skipped and failed tests.
Report ==
  /\ at = "report"
  /\ ScriptKept(IF single > 0 THEN "document" ELSE "reset")
  /\ reported' = Append(reported, Head(versions))
  /\ NoProcess /\ UNCHANGED <<versions, documented, cluster>>

\* Mutant: there is always another version.
DocumentAndGoOn ==
  /\ at = "document"
  /\ documented' = Append(documented, Head(versions))
  /\ versions' = Tail(versions)
  /\ ScriptKept("run")
  /\ NoProcess /\ UNCHANGED <<reported, cluster>>

writeDocumentation ==
  /\ at = "document"
  /\ documented' = Append(documented, Head(versions))
  /\ versions' = Tail(versions)
  /\ ScriptKept(IF versions' = <<>> THEN "done" ELSE "run")
  /\ NoProcess /\ UNCHANGED <<reported, cluster>>

\* The tests, while gotestsum runs; the cluster, always.
TestsRun == at = "running" /\ ProcessActs /\ UNCHANGED script
ClusterRuns == ClusterActs /\ UNCHANGED script
Ended == Stopped /\ UNCHANGED allVars

ScriptActs ==
  \/ ResetFirst \/ ResetAfterwards \/ RunTestsAgainstVersion \/ TestsEnd \/ Report
  \/ writeDocumentation

NextScript == ScriptActs \/ TestsRun \/ ClusterRuns \/ Ended

\* A command of the tests may hang; go test's timeout does not, nor gotestsum.
RerunsOrTimesOut == at = "running" /\ (Rerun \/ Timeout) /\ UNCHANGED script
Fairness == WF_allVars(ScriptActs) /\ WF_allVars(RerunsOrTimesOut)

SpecScript == InitScript /\ [][NextScript]_allVars /\ Fairness

------------------------------------------------------------------------------
\* Types of the state.
TypeOKScript ==
  /\ at \in {"resetFirst", "run", "running", "report", "reset", "document", "done", "failed"}
  /\ ~Stopped => versions # <<>>
  /\ {Len(reported), Len(documented)} \subseteq 0..3
  /\ dirty \in BOOLEAN

(***************************************************************************)
(* The versions are reported in the order in which they are wanted, each   *)
(* once and none left out, also if the script ends between two of them; no *)
(* version is documented that has no report, or before an earlier one.     *)
(* When the script comes to its end, it has done so for all of them.       *)
(***************************************************************************)
EveryVersionReported ==
  /\ IsPrefix(documented, reported) /\ IsPrefix(reported, Wanted)
  /\ at = "done" => documented = Wanted

(***************************************************************************)
(* No version starts with a mesh that was there before it, even if tests   *)
(* left it, were killed, or the cluster was still at work on it.           *)
(***************************************************************************)
NoMeshOfEarlierVersion == ~persistent => ~dirty

(***************************************************************************)
(* The script ends, though tests may hang, fail and be run again.          *)
(***************************************************************************)
ScriptEnds == <>Stopped

================================================================================
