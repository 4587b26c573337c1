------------------------------ MODULE CertManager ------------------------------
(***************************************************************************)
(* The test binary of the cert-manager tests, and gotestsum, that runs it  *)
(* again for the tests that failed; on a cluster where OLM, the operator   *)
(* of cert-manager, cert-manager, the controller of the SMCP and istiod    *)
(* act in their own time.                                                  *)
(*                                                                         *)
(* Any command may fail, or wait for something until its attempts are used *)
(* up: then the test, or the cleanup that runs it, ends there.  One that   *)
(* deletes or applies several objects may fail after any of them.  There   *)
(* is no timeout but that of go test, which ends the process.              *)
(***************************************************************************)
EXTENDS CertManagerPrograms, Functions

CONSTANTS
  Scenarios,   \* environments gotestsum may run in
  MaxReruns    \* --rerun-fails

\* The tests to run, in the order of their files; the versions; group and
\* architecture; whether another namespace has an operator of cert-manager;
\* whether other packages' tests left a mesh behind.
Environment(tests, minor, ocpMinor, group, elsewhere, leftMesh) ==
  [tests |-> tests, version |-> Version(2, minor), ocp |-> Version(4, ocpMinor),
   group |-> group, arch |-> "x86", elsewhere |-> elsewhere, leftMesh |-> leftMesh]

Versions == [Major : Nat, Minor : Nat]
EnvironmentType == [tests : Seq({"TestIstioCsr", "TestPluginCaCert"}), version : Versions, ocp : Versions,
                    group : STRING, arch : STRING, elsewhere : BOOLEAN, leftMesh : BOOLEAN]

ASSUME CertManagerAssumption ==
  /\ MaxReruns \in Nat
  /\ Scenarios \subseteq EnvironmentType
  /\ \A s \in Scenarios : s.tests # <<>>

VARIABLES
  scenario,
  todo,         \* the tests of this process, the running one first
  phase, pc,
  reruns,       \* of every test, how often it was run again
  result,       \* of every test, the last
  csvName,      \* what the code knows: did it find the name of the CSV
  firstGeneration,
  objects,      \* on the cluster
  certificate,  \* cacerts: the rotation that is wanted, and that of its secret
  istiod,       \* the one that runs
  inherited,    \* history: objects older than the test
  looked        \* history: what the "reloaded" checks saw and wanted

cluster == <<objects, certificate, istiod, inherited>>
process == <<scenario, todo, phase, pc, reruns, result, csvName, firstGeneration, looked>>
vars == <<process, cluster>>

test == todo[1]
MustSkip == TooOld(scenario.version, scenario.ocp)
Running == phase \in {"setup", "test", "cleanup", "cleaned", "over"}
program ==
  CASE phase = "setup"   -> BasicSetup
    [] phase = "test"    -> IF test = "TestIstioCsr" THEN TestIstioCsr ELSE TestPluginCaCert
    [] phase = "cleanup" -> IF test = "TestIstioCsr" THEN CleanupIstioCsr ELSE CleanupPluginCaCert
    [] OTHER             -> <<>>
command == program[pc]
Doing(what) == pc <= Len(program) /\ command.do = what /\ (phase = "test" => ~MustSkip)
Has(what) == what \subseteq objects

NoCertificate == [wanted |-> 0, issued |-> 0]
NoIstiod == [version |-> Version(0, 0), plugged |-> FALSE, loaded |-> 0, log |-> 0, generation |-> 0]
OldMesh == {meshNamespace, "smcp", "ready", "istiod"}
\* A mesh of another package's test: of the same version, without the certificate.
OldIstiod == [NoIstiod EXCEPT !.version = scenario.version, !.generation = 1]

Init ==
  /\ scenario \in Scenarios
  /\ todo = scenario.tests
  /\ phase = "setup" /\ pc = 1
  /\ reruns = [t \in Range(todo) |-> 0]
  /\ result = [t \in Range(todo) |-> "none"]
  /\ csvName = FALSE /\ firstGeneration = 0 /\ looked = {}
  /\ objects = IF scenario.leftMesh THEN OldMesh ELSE {}
  /\ istiod = IF scenario.leftMesh THEN OldIstiod ELSE NoIstiod
  /\ certificate = NoCertificate
  /\ inherited = {}

------------------------------------------------------------------------------
(***************************************************************************)
(* How commands end.                                                       *)
(***************************************************************************)
Read == <<csvName, firstGeneration, looked>>
Kept == UNCHANGED <<scenario, todo, reruns>>
ClusterKept == UNCHANGED cluster

Works == pc' = pc + 1 /\ Kept /\ UNCHANGED <<phase, result>>

\* Setup panics; a test goes on to its cleanup, if that is registered.
Fails ==
  /\ pc' = 1
  /\ CASE phase = "setup" -> phase' = "crashed" /\ UNCHANGED result
       [] phase = "test" ->
            /\ result' = [result EXCEPT ![test] = "fail"]
            /\ phase' = IF pc > 1 THEN "cleanup" ELSE "over"
       [] phase = "cleanup" -> result' = [result EXCEPT ![test] = "fail"] /\ phase' = "over"
  /\ Kept

Vanish(what) ==
  LET gone == what \cup (IF "smcp" \in what THEN {"ready", "istiod"} ELSE {})
  IN  /\ objects' = objects \ gone
      /\ inherited' = inherited \ gone
      /\ istiod' = IF "istiod" \in gone THEN NoIstiod ELSE istiod
      /\ certificate' =
           [wanted |-> IF "cacerts" \in gone THEN 0 ELSE certificate.wanted,
            issued |-> IF "cacerts-secret" \in gone THEN 0 ELSE certificate.issued]

Appear(what) ==
  /\ objects' = objects \cup what
  /\ certificate' = IF "cacerts" \in what /\ "cacerts" \notin objects
                    THEN [certificate EXCEPT !.wanted = 1] ELSE certificate
  /\ UNCHANGED <<istiod, inherited>>

------------------------------------------------------------------------------
(***************************************************************************)
(* The commands.                                                           *)
(***************************************************************************)
\* The namespace must exist, and cert-manager runs to admit what is its own.
CanApply(what) ==
  /\ \A ns \in Namespaces : Contents(ns) \cap what # {} => ns \in objects
  /\ OfCertManager \cap what # {} => Has({"crds", "controllers"})

Apply_ ==
  /\ Doing("apply") \/ Doing("helmInstall")
  /\ UNCHANGED Read
  /\ \/ /\ CanApply(command.what) /\ (command.do = "helmInstall" => ~Has(command.what))
        /\ Appear(command.what) /\ Works
     \/ /\ \/ ClusterKept
           \/ CanApply(command.what) /\ \E o \in command.what : Appear({o})
        /\ Fails

\* --ignore-not-found: but a kind that does not exist is an error, and so is a release.
Delete_ ==
  /\ Doing("delete") \/ Doing("helmUninstall")
  /\ UNCHANGED Read
  /\ \/ /\ OfCertManager \cap command.what # {} => "crds" \in objects
        /\ command.do = "helmUninstall" => Has(command.what)
        /\ Vanish(command.what) /\ Works
     \/ (ClusterKept \/ \E o \in command.what : Vanish({o})) /\ Fails

\* It waits until the namespace is gone with all that is in it.
DeleteNamespace_ ==
  /\ Doing("deleteNs")
  /\ UNCHANGED Read
  /\ LET all == command.what \cup UNION {Contents(ns) : ns \in command.what}
     IN  (Vanish(all) /\ Works) \/ ((ClusterKept \/ Vanish(all)) /\ Fails)

\* ResourceByLabelExists: an error that is neither of two messages is "exists".
SkipIfExists ==
  /\ Doing("skipIfExists")
  /\ \/ ~Has(command.what) /\ Works
     \/ pc' = pc + Len(install) + 1 /\ Kept /\ UNCHANGED <<phase, result>>
  /\ ClusterKept /\ UNCHANGED Read

\* operatorCsvExistsGlobally: in any namespace.
CsvAnywhere ==
  /\ Doing("csvAnywhere")
  /\ ((scenario.elsewhere \/ Has({"csv"})) /\ Works) \/ Fails
  /\ ClusterKept /\ UNCHANGED Read

\* The name is empty if the namespace has none.
ReadCsvName ==
  /\ Doing("readCsv")
  /\ (csvName' = Has({"csv"}) /\ Works) \/ (Fails /\ UNCHANGED csvName)
  /\ ClusterKept /\ UNCHANGED <<firstGeneration, looked>>

WaitForPhase ==
  /\ Doing("csvPhase")
  /\ (csvName /\ Has({"csv"}) /\ Works) \/ Fails
  /\ ClusterKept /\ UNCHANGED Read

\* Without a name, there is nothing to delete, which is an error.
DeleteCsv ==
  /\ Doing("deleteCsv")
  /\ UNCHANGED Read
  /\ \/ csvName /\ Vanish(command.what) /\ Works
     \/ ClusterKept /\ Fails

\* WaitPodReady, WaitSMCPReady, WaitDeploymentRolloutComplete.
Wait_ ==
  /\ Doing("wait")
  /\ (Has(command.what) /\ Works) \/ Fails
  /\ ClusterKept /\ UNCHANGED Read

RegisterCleanup == Doing("Cleanup") /\ Works /\ ClusterKept /\ UNCHANGED Read

Ask_ == Doing("ask") /\ (Works \/ Fails) /\ ClusterKept /\ UNCHANGED Read

PluggedIn ==
  /\ Doing("pluggedIn")
  /\ (istiod.plugged /\ Works) \/ Fails
  /\ ClusterKept /\ UNCHANGED Read

\* CountExpectedString: it succeeds when the number of lines is not the expected one.
Reloaded ==
  /\ Doing("reloaded")
  /\ ClusterKept /\ UNCHANGED <<csvName, firstGeneration>>
  /\ \/ /\ Has({"istiod"}) /\ istiod.log \notin command.what
        /\ looked' = looked \cup {<<istiod.log, command.what>>}
        /\ Works
     \/ Fails /\ UNCHANGED looked

Patch ==
  /\ Doing("patch")
  /\ UNCHANGED Read
  /\ \/ /\ Has(command.what)
        /\ certificate' = [certificate EXCEPT !.wanted = @ + 1]
        /\ UNCHANGED <<objects, istiod, inherited>>
        /\ Works
     \/ ClusterKept /\ Fails

\* getIstiodGeneration: of the deployment, which a restart of the pod does not change.
ReadGeneration ==
  /\ Doing("generation")
  /\ \/ Has({"istiod"}) /\ firstGeneration' = istiod.generation /\ Works
     \/ Fails /\ UNCHANGED firstGeneration
  /\ ClusterKept /\ UNCHANGED <<csvName, looked>>

\* t.Errorf: the test goes on, to its end.
SameGeneration ==
  /\ Doing("sameGeneration")
  /\ (Has({"istiod"}) /\ istiod.generation <= firstGeneration /\ Works) \/ Fails
  /\ ClusterKept /\ UNCHANGED Read

------------------------------------------------------------------------------
(***************************************************************************)
(* From one test, and one process, to the next.                            *)
(***************************************************************************)
Goto(p) == phase' = p /\ pc' = 1 /\ csvName' = FALSE /\ firstGeneration' = 0 /\ looked' = {}

Begin(tests) ==
  /\ todo' = tests
  /\ inherited' = objects
  /\ IF tests = <<>> THEN Goto("exited") ELSE Goto("test")
  /\ UNCHANGED <<scenario, reruns, objects, certificate, istiod>>

SetupDone == phase = "setup" /\ pc > Len(program) /\ Begin(todo) /\ UNCHANGED result

\* By the group, before anything else; by the versions, before Cleanup.
Skip ==
  /\ phase = "test" /\ pc = 1
  /\ MustSkip \/ SkippedByGroup(scenario.group, scenario.arch)
  /\ result' = [result EXCEPT ![test] = "skip"]
  /\ Begin(Tail(todo))

\* GetOCPVersion.
NoVersion ==
  /\ Doing("Cleanup") /\ Fails
  /\ ClusterKept /\ UNCHANGED Read

BodyEnds ==
  /\ phase = "test" /\ pc > Len(program)
  /\ phase' = "cleanup" /\ pc' = 1
  /\ result' = [result EXCEPT ![test] = "pass"]
  /\ Kept /\ ClusterKept /\ UNCHANGED Read

CleanupEnds ==
  /\ phase = "cleanup" /\ pc > Len(program)
  /\ phase' = "cleaned" /\ pc' = 1
  /\ Kept /\ ClusterKept /\ UNCHANGED <<result, Read>>

NextTest == phase \in {"cleaned", "over"} /\ Begin(Tail(todo)) /\ UNCHANGED result

\* Mutant: one rerun more than --rerun-fails says.
RerunOnceMore ==
  /\ phase = "exited"
  /\ \E t \in DOMAIN result :
       /\ result[t] = "fail" /\ reruns[t] <= MaxReruns
       /\ todo' = <<t>>
       /\ reruns' = [reruns EXCEPT ![t] = @ + 1]
  /\ Goto("setup")
  /\ UNCHANGED <<scenario, result, cluster>>

\* Mutant: reruns are not counted.
RerunUncounted ==
  /\ phase = "exited"
  /\ \E t \in DOMAIN result :
       /\ result[t] = "fail" /\ reruns[t] < MaxReruns
       /\ todo' = <<t>>
  /\ Goto("setup")
  /\ UNCHANGED <<scenario, reruns, result, cluster>>

\* gotestsum --rerun-fails: not after a panic.
Rerun ==
  /\ phase = "exited"
  /\ \E t \in DOMAIN result :
       /\ result[t] = "fail" /\ reruns[t] < MaxReruns
       /\ todo' = <<t>>
       /\ reruns' = [reruns EXCEPT ![t] = @ + 1]
  /\ Goto("setup")
  /\ UNCHANGED <<scenario, result, cluster>>

\* go test -timeout: a panic, and no cleanup.
Timeout ==
  /\ Running
  /\ Goto("crashed")
  /\ UNCHANGED <<scenario, todo, reruns, result, cluster>>

GotestsumEnds == phase = "crashed" \/ (phase = "exited" /\ \A t \in DOMAIN result :
                                          result[t] = "fail" => reruns[t] >= MaxReruns)
Done == GotestsumEnds /\ UNCHANGED vars

------------------------------------------------------------------------------
(***************************************************************************)
(* The cluster.                                                            *)
(***************************************************************************)
Comes(what, needs) == Has(needs) /\ ~Has(what) /\ Appear(what)

\* OLM, which also removes what it installed when the CSV is gone.
OLM ==
  \/ Comes({"csv"}, {"subscription"})
  \/ Comes({"operator"}, {"csv"})
  \/ "operator" \in objects /\ "csv" \notin objects /\ Vanish({"operator"})

\* The operator keeps cert-manager, and its namespace, in being.
OperatorActs == Comes({certManagerNs, "crds", "controllers"}, {"operator"})

\* For what asks for the certificate, signed with the secret of its issuer.
Issue(what, secret, ca) == Comes({secret}, {what, "controllers"} \cup ca)
CertManagerIssues ==
  \/ Issue("istio-ca", "istio-ca-secret", RootCA)
  \/ Issue("istio-csr", "istiod-tls-secret", {"istio-ca-secret"})
  \/ /\ Has({"cacerts", "controllers"} \cup RootCA)
     /\ certificate.issued # certificate.wanted \/ "cacerts-secret" \notin objects
     /\ objects' = objects \cup {"cacerts-secret"}
     /\ certificate' = [certificate EXCEPT !.issued = certificate.wanted]
     /\ UNCHANGED <<istiod, inherited>>

\* istiod, when it starts, uses the certificate if there is one.
Started(generation) ==
  LET plugged == "cacerts-secret" \in objects
  IN  [version |-> scenario.version, plugged |-> plugged, loaded |-> certificate.issued,
       log |-> IF plugged THEN 1 ELSE 0, generation |-> generation]
MeshIsInstalled ==
  /\ "smcp" \in objects /\ "istiod" \notin objects
  /\ objects' = objects \cup {"istiod"}
  /\ istiod' = Started(1)
  /\ UNCHANGED <<certificate, inherited>>
MeshIsReady == Comes({"ready"}, {"smcp", "istiod"})

\* The pod is restarted, or (a bound: once) the deployment is changed.
IstiodRestarts ==
  /\ "istiod" \in objects
  /\ \E generation \in {istiod.generation, 2} : istiod' = Started(generation)
  /\ UNCHANGED <<objects, certificate, inherited>>
IstiodReloads ==
  /\ istiod.plugged /\ istiod.loaded < certificate.issued
  /\ istiod' = [istiod EXCEPT !.loaded = certificate.issued, !.log = @ + 1]
  /\ UNCHANGED <<objects, certificate, inherited>>

ClusterActs ==
  /\ OLM \/ OperatorActs \/ CertManagerIssues \/ MeshIsInstalled \/ MeshIsReady
       \/ IstiodRestarts \/ IstiodReloads
  /\ UNCHANGED process

ProcessActs ==
  \/ Apply_ \/ Delete_ \/ DeleteNamespace_ \/ SkipIfExists \/ CsvAnywhere \/ ReadCsvName
  \/ WaitForPhase \/ DeleteCsv \/ Wait_ \/ RegisterCleanup \/ Ask_ \/ PluggedIn \/ Reloaded
  \/ Patch \/ ReadGeneration \/ SameGeneration
  \/ SetupDone \/ Skip \/ NoVersion \/ BodyEnds \/ CleanupEnds \/ NextTest \/ Rerun \/ Timeout

Next == ProcessActs \/ ClusterActs \/ Done

Spec == Init /\ [][Next]_vars

------------------------------------------------------------------------------
\* Types of the state.
TypeOK ==
  /\ \E s \in Scenarios : scenario = [s EXCEPT !.version = scenario.version]
  /\ phase \in {"setup", "test", "cleanup", "cleaned", "over", "exited", "crashed"}
  /\ Running => todo # <<>> /\ pc \in 1..Len(program) + 1
  /\ \A t \in DOMAIN result : /\ result[t] \in {"none", "pass", "fail", "skip"}
                              /\ reruns[t] \in 0..MaxReruns
  /\ csvName \in BOOLEAN
  /\ objects \subseteq Objects /\ inherited \subseteq objects
  /\ certificate.issued \in 0..certificate.wanted \/ "cacerts" \notin objects
  /\ ("istiod" \notin objects) = (istiod = NoIstiod)

Operator == {operatorNs, certManagerNs, "root-issuer"} \cup Contents(operatorNs) \cup Contents(certManagerNs)

\* The secret with the CA of the mesh that a test tries.
CaSecret(t) == IF t = "TestIstioCsr" THEN "istio-ca-secret" ELSE "cacerts-secret"

(***************************************************************************)
(* A test that passes has tried its own mesh: of what other tests, or an   *)
(* earlier attempt with a cleanup that failed, had left there is nothing   *)
(* in its namespace.  The CA of that mesh is signed by the root CA, which  *)
(* is there although its installation is skipped where the operator exists *)
(* already; in TestPluginCaCert, istiod uses it.                           *)
(***************************************************************************)
PassedOnOwnMesh ==
  phase = "cleanup" /\ pc = 1 /\ result[test] = "pass" =>
    /\ inherited \cap Contents(meshNamespace) = {}
    /\ Has({CaSecret(test)} \cup RootCA)
    /\ test = "TestPluginCaCert" => istiod.plugged

Secrets(t) == IF t = "TestIstioCsr" THEN {"istio-ca-secret", "istiod-tls-secret"} ELSE {"cacerts-secret"}

(***************************************************************************)
(* A cleanup that ends has removed the operator, with what it installs and *)
(* re-installs while it runs, and the secrets of its test, that            *)
(* cert-manager issues while it runs: the next istiod would use them.      *)
(***************************************************************************)
CleanupRemovesOperator ==
  phase = "cleaned" => objects \cap (Operator \cup {"smcp", "istiod"} \cup Secrets(test)) = {}

------------------------------------------------------------------------------
\* What the repository's own messages and comments say.


================================================================================
