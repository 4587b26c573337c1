------------------------- MODULE CertManagerTests_proofs -------------------------
(***************************************************************************)
(* What the cert-manager tests know of the cluster when they pass: proofs, *)
(* for every environment, of the types of the state, and that a test that  *)
(* passes has tried a mesh of its own, with a CA that the root CA signed.  *)
(***************************************************************************)
EXTENDS CertManager_proofs, FunctionTheorems

InstalledAt == 11   \* where both tests recreate the namespace of the mesh
\* Where they look for what only a mesh with its CA can show.
CheckedAt == IF Csr THEN 19 ELSE 16

CaSecrets == {"cacerts-secret", "istio-ca-secret"}
Deletions == {"delete", "helmUninstall", "deleteNs", "deleteCsv"}

\* The mesh, and what it is made from, are of this test: the CA of the mesh is
\* signed, and istiod uses one only while its secret is there.
Own ==
  /\ inherited \cap Contents(meshNamespace) = {}
  /\ CaSecrets \cap objects # {} => RootCA \subseteq objects
  /\ istiod.plugged => "cacerts-secret" \in objects

\* What the test has seen.
Checked == CaSecret(test) \in objects /\ (~Csr => istiod.plugged)

Results == {"none", "pass", "fail", "skip"}
Phases == {"setup", "test", "cleanup", "cleaned", "over", "exited", "crashed"}
Istiods == [version : Versions, plugged : BOOLEAN, loaded : Nat, log : Nat, generation : Nat]

\* The environment is one of those given, but for the version.
ScenarioInv ==
  /\ scenario \in EnvironmentType
  /\ \E s \in Scenarios : s.tests # <<>> /\ scenario = [s EXCEPT !.version = scenario.version]

\* Tests are run, and run again, among those of the environment.
TestsInv ==
  /\ phase \in Phases
  /\ result \in [Range(scenario.tests) -> Results]
  /\ reruns \in [Range(scenario.tests) -> 0..MaxReruns]
  /\ todo \in Seq(Range(scenario.tests))
  /\ Running => todo # <<>>
  /\ pc \in Nat /\ 1 <= pc /\ pc <= Len(program) + 1
  /\ csvName \in BOOLEAN

\* The secret is never ahead of its Certificate; there is an istiod exactly when
\* one is listed.
ObjectsInv ==
  /\ objects \subseteq Objects /\ inherited \subseteq objects
  /\ certificate \in [wanted : Nat, issued : Nat]
  /\ "cacerts" \in objects => certificate.issued <= certificate.wanted
  /\ "cacerts-secret" \notin objects => certificate.issued = 0
  /\ istiod \in Istiods
  /\ "istiod" \notin objects => istiod = NoIstiod
  /\ "istiod" \in objects => 1 <= istiod.generation

\* A namespace that is new has neither the Certificate nor its secret: the one
\* that is made in it is the first.
NewNamespace ==
  phase = "test" /\ ~Csr /\ pc \in {InstalledAt + 1, InstalledAt + 2} =>
    "cacerts" \notin objects /\ "cacerts-secret" \notin objects

\* From the new namespace on, up to a cleanup after a test that passed.
OwnInv ==
  /\ phase = "test" /\ InstalledAt < pc => Own
  /\ phase = "test" /\ CheckedAt < pc => Checked
  /\ phase = "cleanup" /\ pc = 1 /\ result[test] = "pass" => Own /\ Checked

TestInv == ScenarioInv /\ TestsInv /\ ObjectsInv /\ NewNamespace /\ OwnInv

------------------------------------------------------------------------------
(* The program of TestIstioCsr. *)
LEMMA TestIstioCsrProgram ==
  /\ Len(TestIstioCsr) = 22
  /\ TestIstioCsr[1] = Command("Cleanup", {})
  /\ TestIstioCsr[2] = Command("skipIfExists", {"operator"})
  /\ TestIstioCsr[3] = Command("apply", {operatorNs})
  /\ TestIstioCsr[4] = Command("apply", {"subscription"})
  /\ TestIstioCsr[5] = Command("csvAnywhere", {})
  /\ TestIstioCsr[6] = Command("readCsv", {})
  /\ TestIstioCsr[7] = Command("csvPhase", {})
  /\ TestIstioCsr[8] = Command("wait", {"operator"})
  /\ TestIstioCsr[9] = Command("wait", {"controllers"})
  /\ TestIstioCsr[10] = Command("apply", RootCA)
  /\ TestIstioCsr[11] = Command("deleteNs", {meshNamespace})
  /\ TestIstioCsr[12] = Command("apply", {meshNamespace})
  /\ TestIstioCsr[13] = Command("apply", {"istio-ca"})
  /\ TestIstioCsr[14] = Command("ask", {})
  /\ TestIstioCsr[15] = Command("helmInstall", {"istio-csr"})
  /\ TestIstioCsr[16] = Command("wait", {"istio-csr"})
  /\ TestIstioCsr[17] = Command("apply", {"smcp"})
  /\ TestIstioCsr[18] = Command("wait", {"ready"})
  /\ TestIstioCsr[19] = Command("wait", {"istio-csr", "istio-ca-secret"})
  /\ TestIstioCsr[20] = Command("ask", {})
  /\ TestIstioCsr[21] = Command("apply", {"httpbin"})
  /\ TestIstioCsr[22] = Command("ask", {})
BY DEF TestIstioCsr, IstioCARootCertCreated, InstallIfNotExist, install, CreateOperatorViaOlm,
       WaitForOperatorInNamespaceReady, GetFullCsvName, RecreateNamespace, DeployMesh, TryHttpbin,
       CreateNamespace, DeleteNamespace, Apply, Wait, Ask

(* The program of TestPluginCaCert. *)
LEMMA TestPluginCaProgram ==
  /\ Len(TestPluginCaCert) = 24
  /\ TestPluginCaCert[1] = Command("Cleanup", {})
  /\ TestPluginCaCert[2] = Command("skipIfExists", {"operator"})
  /\ TestPluginCaCert[3] = Command("apply", {operatorNs})
  /\ TestPluginCaCert[4] = Command("apply", {"subscription"})
  /\ TestPluginCaCert[5] = Command("csvAnywhere", {})
  /\ TestPluginCaCert[6] = Command("readCsv", {})
  /\ TestPluginCaCert[7] = Command("csvPhase", {})
  /\ TestPluginCaCert[8] = Command("wait", {"operator"})
  /\ TestPluginCaCert[9] = Command("wait", {"controllers"})
  /\ TestPluginCaCert[10] = Command("apply", RootCA)
  /\ TestPluginCaCert[11] = Command("deleteNs", {meshNamespace})
  /\ TestPluginCaCert[12] = Command("apply", {meshNamespace})
  /\ TestPluginCaCert[13] = Command("apply", {"cacerts"})
  /\ TestPluginCaCert[14] = Command("apply", {"smcp"})
  /\ TestPluginCaCert[15] = Command("wait", {"ready"})
  /\ TestPluginCaCert[16] = Command("pluggedIn", {})
  /\ TestPluginCaCert[17] = Command("apply", {"httpbin"})
  /\ TestPluginCaCert[18] = Command("ask", {})
  /\ TestPluginCaCert[19] = Command("generation", {})
  /\ TestPluginCaCert[20] = Command("patch", {"cacerts"})
  /\ TestPluginCaCert[21] = Command("reloaded", {2})
  /\ TestPluginCaCert[22] = Command("patch", {"cacerts"})
  /\ TestPluginCaCert[23] = Command("reloaded", {3})
  /\ TestPluginCaCert[24] = Command("sameGeneration", {})
BY DEF TestPluginCaCert, InstallIfNotExist, install, CreateOperatorViaOlm,
       WaitForOperatorInNamespaceReady, GetFullCsvName, RecreateNamespace, DeployMesh, TryHttpbin,
       CreateNamespace, DeleteNamespace, Apply, Wait, Ask

(* The commands of a test that make something, skip an installation or remove the mesh. *)
LEMMA TestCommand ==
  ASSUME phase = "test", pc \in Nat, 1 <= pc, pc <= Len(program)
  PROVE  /\ command.do \in {"apply", "helmInstall"} =>
              \/ command.what \in {{operatorNs}, {"subscription"}, RootCA, {meshNamespace},
                                   {"istio-ca"}, {"istio-csr"}, {"smcp"}, {"httpbin"}}
              \/ command.what = {"cacerts"} /\ ~Csr /\ pc = InstalledAt + 2
         /\ command.do = "skipIfExists" => pc = 2
         /\ pc = InstalledAt => command.do = "deleteNs" /\ command.what = {meshNamespace}
         /\ InstalledAt < pc => command.do \notin Deletions
         /\ pc = CheckedAt => IF Csr THEN command = IstioCARootCertCreated
                                    ELSE command.do = "pluggedIn"
         /\ InstalledAt + 2 <= Len(program)
<1> USE CommandParts DEF InstalledAt, CheckedAt, Deletions, IstioCARootCertCreated, Wait
<1>1. CASE Csr
  <2>1. program = TestIstioCsr
    BY <1>1 DEF program, Csr
  <2>2. command = TestIstioCsr[pc] /\ pc <= 22
    BY <2>1, TestIstioCsrProgram DEF command
  <2>3. \/ pc = 1 /\ command = Command("Cleanup", {})
        \/ pc = 2 /\ command = Command("skipIfExists", {"operator"})
        \/ pc = 3 /\ command = Command("apply", {operatorNs})
        \/ pc = 4 /\ command = Command("apply", {"subscription"})
        \/ pc = 5 /\ command = Command("csvAnywhere", {})
        \/ pc = 6 /\ command = Command("readCsv", {})
        \/ pc = 7 /\ command = Command("csvPhase", {})
        \/ pc = 8 /\ command = Command("wait", {"operator"})
        \/ pc = 9 /\ command = Command("wait", {"controllers"})
        \/ pc = 10 /\ command = Command("apply", RootCA)
        \/ pc = 11 /\ command = Command("deleteNs", {meshNamespace})
        \/ pc = 12 /\ command = Command("apply", {meshNamespace})
        \/ pc = 13 /\ command = Command("apply", {"istio-ca"})
        \/ pc = 14 /\ command = Command("ask", {})
        \/ pc = 15 /\ command = Command("helmInstall", {"istio-csr"})
        \/ pc = 16 /\ command = Command("wait", {"istio-csr"})
        \/ pc = 17 /\ command = Command("apply", {"smcp"})
        \/ pc = 18 /\ command = Command("wait", {"ready"})
        \/ pc = 19 /\ command = Command("wait", {"istio-csr", "istio-ca-secret"})
        \/ pc = 20 /\ command = Command("ask", {})
        \/ pc = 21 /\ command = Command("apply", {"httpbin"})
        \/ pc = 22 /\ command = Command("ask", {})
    BY <2>2, TestIstioCsrProgram
  <2> QED
    BY <1>1, <2>1, <2>3, TestIstioCsrProgram
<1>2. CASE ~Csr
  <2>1. program = TestPluginCaCert
    BY <1>2 DEF program, Csr
  <2>2. command = TestPluginCaCert[pc] /\ pc <= 24
    BY <2>1, TestPluginCaProgram DEF command
  <2>3. \/ pc = 1 /\ command = Command("Cleanup", {})
        \/ pc = 2 /\ command = Command("skipIfExists", {"operator"})
        \/ pc = 3 /\ command = Command("apply", {operatorNs})
        \/ pc = 4 /\ command = Command("apply", {"subscription"})
        \/ pc = 5 /\ command = Command("csvAnywhere", {})
        \/ pc = 6 /\ command = Command("readCsv", {})
        \/ pc = 7 /\ command = Command("csvPhase", {})
        \/ pc = 8 /\ command = Command("wait", {"operator"})
        \/ pc = 9 /\ command = Command("wait", {"controllers"})
        \/ pc = 10 /\ command = Command("apply", RootCA)
        \/ pc = 11 /\ command = Command("deleteNs", {meshNamespace})
        \/ pc = 12 /\ command = Command("apply", {meshNamespace})
        \/ pc = 13 /\ command = Command("apply", {"cacerts"})
        \/ pc = 14 /\ command = Command("apply", {"smcp"})
        \/ pc = 15 /\ command = Command("wait", {"ready"})
        \/ pc = 16 /\ command = Command("pluggedIn", {})
        \/ pc = 17 /\ command = Command("apply", {"httpbin"})
        \/ pc = 18 /\ command = Command("ask", {})
        \/ pc = 19 /\ command = Command("generation", {})
        \/ pc = 20 /\ command = Command("patch", {"cacerts"})
        \/ pc = 21 /\ command = Command("reloaded", {2})
        \/ pc = 22 /\ command = Command("patch", {"cacerts"})
        \/ pc = 23 /\ command = Command("reloaded", {3})
        \/ pc = 24 /\ command = Command("sameGeneration", {})
    BY <2>2, TestPluginCaProgram
  <2> QED
    BY <1>2, <2>1, <2>3, TestPluginCaProgram
<1> QED
  BY <1>1, <1>2

(* The objects there may be. *)
LEMMA ObjectsAre ==
  /\ Namespaces \subseteq Objects
  /\ Contents(meshNamespace) = {"smcp", "ready", "istiod", "cacerts", "cacerts-secret",
                                "istio-csr", "istiod-tls-secret", "istio-ca", "istio-ca-secret"}
  /\ {"crds", "root-issuer", "subscription", "csv", "operator", "controllers", "root-certificate",
      "smcp", "ready", "istiod", "cacerts", "cacerts-secret", "istio-csr", "istiod-tls-secret",
      "istio-ca", "istio-ca-secret", "httpbin"} \subseteq Objects
<1>1. /\ operatorNs # certManagerNs /\ operatorNs # meshNamespace /\ operatorNs # Foo
      /\ certManagerNs # meshNamespace /\ certManagerNs # Foo /\ meshNamespace # Foo
  BY DEF certManagerNs, operatorNs, meshNamespace, Foo
<1>2. /\ Contents(meshNamespace) = {"smcp", "ready", "istiod", "cacerts", "cacerts-secret",
                                    "istio-csr", "istiod-tls-secret", "istio-ca", "istio-ca-secret"}
      /\ Contents(Foo) = {"httpbin"}
  BY <1>1, Zenon DEF Contents
<1> QED
  BY <1>2, NamespacesHold DEF Objects, Namespaces, ClusterScoped

(* What any command may make: objects, but no istiod, and cacerts in one place only. *)
LEMMA AnyCommand ==
  ASSUME phase \in {"setup", "test", "cleanup"}, pc \in Nat, 1 <= pc, pc <= Len(program)
  PROVE  /\ command.do \in {"apply", "helmInstall"} =>
              /\ command.what \subseteq Objects /\ "istiod" \notin command.what
              /\ "cacerts" \in command.what => phase = "test" /\ ~Csr /\ pc = InstalledAt + 2
              /\ CaSecrets \cap command.what = {}
         /\ command.do = "skipIfExists" => phase = "test" /\ pc = 2
<1>1. /\ Namespaces \subseteq Objects
      /\ {"subscription", "httpbin", "istio-ca", "istio-csr", "smcp", "cacerts"} \subseteq Objects
      /\ RootCA \subseteq Objects
  BY ObjectsAre DEF RootCA
<1>2. {operatorNs, meshNamespace, Foo} \cap {"istiod", "cacerts", "cacerts-secret", "istio-ca-secret"} = {}
  BY DEF operatorNs, meshNamespace, Foo
<1>3. CASE phase = "setup"
  <2>1. program = BasicSetup /\ Len(BasicSetup) = 1 /\ BasicSetup[1] = Command("apply", {meshNamespace, Foo})
    BY <1>3 DEF program, BasicSetup, Apply
  <2>2. command = Command("apply", {meshNamespace, Foo})
    BY <2>1 DEF command
  <2>3. command.do = "apply" /\ command.what = {meshNamespace, Foo}
    BY <2>2, CommandParts
  <2>4. {meshNamespace, Foo} \subseteq Objects
    BY <1>1 DEF Namespaces
  <2> QED
    BY <1>2, <2>3, <2>4 DEF CaSecrets
<1>4. CASE phase = "test"
  <2>1. ASSUME command.do \in {"apply", "helmInstall"}
        PROVE  /\ command.what \subseteq Objects /\ "istiod" \notin command.what
               /\ "cacerts" \in command.what => ~Csr /\ pc = InstalledAt + 2
               /\ CaSecrets \cap command.what = {}
    BY <1>1, <1>2, <1>4, <2>1, TestCommand DEF RootCA, Namespaces, CaSecrets
  <2> QED
    BY <1>4, <2>1, TestCommand
<1>5. CASE phase = "cleanup"
  <2>1. command.do = "apply" => command.what = {Foo}
    BY <1>5, CsrCommand, PluginCaCommand
  <2>2. command.do # "skipIfExists" /\ command.do # "helmInstall"
    BY <1>5, CleanupCommands
  <2> QED
    BY <1>1, <1>2, <2>1, <2>2 DEF Namespaces, CaSecrets
<1> QED
  BY <1>3, <1>4, <1>5

------------------------------------------------------------------------------
\* A command makes what it is to make, or some of it.
Makes(what) ==
  /\ command.do \in {"apply", "helmInstall"} /\ what \subseteq command.what
  /\ Appear(what)
Patches ==
  /\ command.do = "patch" /\ Has(command.what)
  /\ certificate' = [certificate EXCEPT !.wanted = @ + 1]
  /\ UNCHANGED <<objects, istiod, inherited>>

\* The steps that are no commands.
NoCommand == SetupDone \/ Skip \/ NextTest \/ Rerun \/ Timeout \/ BodyEnds \/ CleanupEnds

(* What a command does to the process. *)
LEMMA CommandSteps ==
  ASSUME ProcessActs, ~NoCommand
  PROVE  /\ pc <= Len(program) /\ Kept
         /\ csvName' \in {csvName, Has({"csv"})}
         /\ \/ Works
            \/ Fails
            \/ /\ command.do = "skipIfExists"
               /\ pc' = pc + Len(install) + 1 /\ UNCHANGED <<phase, result>>
<1> USE DEF Doing, Read
<1>1. CASE Apply_ \/ Delete_ \/ DeleteNamespace_
  BY <1>1 DEF Apply_, Delete_, DeleteNamespace_, Works, Fails
<1>2. CASE SkipIfExists
  BY <1>2 DEF SkipIfExists, Works
<1>3. CASE CsvAnywhere \/ ReadCsvName \/ WaitForPhase
  BY <1>3 DEF CsvAnywhere, ReadCsvName, WaitForPhase, Works, Fails
<1>4. CASE DeleteCsv \/ Wait_ \/ RegisterCleanup \/ Ask_ \/ PluggedIn
  BY <1>4 DEF DeleteCsv, Wait_, RegisterCleanup, Ask_, PluggedIn, Works, Fails
<1>5. CASE Reloaded \/ Patch \/ ReadGeneration \/ SameGeneration \/ NoVersion
  BY <1>5 DEF Reloaded, Patch, ReadGeneration, SameGeneration, NoVersion, Works, Fails
<1> QED
  BY <1>1, <1>2, <1>3, <1>4, <1>5 DEF ProcessActs, NoCommand

(* What a command does to the cluster. *)
LEMMA CommandEffects ==
  ASSUME ProcessActs, ~NoCommand
  PROVE  /\ \/ ClusterKept
            \/ command.do \in Deletions /\ \E what : Vanish(what)
            \/ \E what : Makes(what)
            \/ Patches
         /\ command.do = "deleteNs" =>
              \/ \E what : /\ Vanish(what) /\ \A ns \in command.what : Contents(ns) \subseteq what
              \/ Fails
<1> USE DEF Doing, Deletions
<1>1. CASE Apply_
  <2>1. command.do \in {"apply", "helmInstall"}
    BY <1>1 DEF Apply_
  <2>2. ClusterKept \/ Makes(command.what) \/ \E o \in command.what : Makes({o})
    BY <1>1, <2>1 DEF Apply_, Makes
  <2> QED
    BY <2>1, <2>2
<1>2. CASE Delete_
  BY <1>2 DEF Delete_
<1>3. CASE DeleteNamespace_
  <2> DEFINE all == command.what \cup UNION {Contents(ns) : ns \in command.what}
  <2>1. command.do = "deleteNs" /\ (Vanish(all) \/ (ClusterKept /\ Fails))
    BY <1>3 DEF DeleteNamespace_
  <2>2. \A ns \in command.what : Contents(ns) \subseteq all
    OBVIOUS
  <2> HIDE DEF all
  <2> QED
    BY <2>1, <2>2
<1>4. CASE SkipIfExists \/ CsvAnywhere \/ ReadCsvName \/ WaitForPhase
  BY <1>4 DEF SkipIfExists, CsvAnywhere, ReadCsvName, WaitForPhase
<1>5. CASE DeleteCsv \/ Wait_ \/ RegisterCleanup \/ Ask_ \/ PluggedIn
  BY <1>5 DEF DeleteCsv, Wait_, RegisterCleanup, Ask_, PluggedIn
<1>6. CASE Reloaded \/ ReadGeneration \/ SameGeneration \/ NoVersion
  BY <1>6 DEF Reloaded, ReadGeneration, SameGeneration, NoVersion
<1>7. CASE Patch
  BY <1>7 DEF Patch, Patches
<1> QED
  BY <1>1, <1>2, <1>3, <1>4, <1>5, <1>6, <1>7 DEF ProcessActs, NoCommand

------------------------------------------------------------------------------
(* How many commands each program of the test binary has. *)
LEMMA ProgramLengths ==
  /\ Len(BasicSetup) = 1 /\ Len(TestIstioCsr) = 22 /\ Len(TestPluginCaCert) = 24
  /\ Len(CleanupIstioCsr) = 13 /\ Len(CleanupPluginCaCert) = 11 /\ Len(install) = 8
<1>1. Len(BasicSetup) = 1
  BY DEF BasicSetup
<1>2. Len(install) = 8
  BY DEF install, CreateOperatorViaOlm, WaitForOperatorInNamespaceReady, GetFullCsvName,
         CreateNamespace, Apply, Wait
<1> QED
  BY <1>1, <1>2, TestIstioCsrProgram, TestPluginCaProgram, CsrProgram, PluginCaProgram

(* The test in progress is one of the environment. *)
LEMMA TestIsRun ==
  ASSUME TestsInv, Running
  PROVE  test \in Range(scenario.tests)
BY DEF TestsInv, test

(* Commands leave the environment as it is, and so does everything else. *)
LEMMA EnvironmentStays ==
  ASSUME ProcessActs \/ ClusterActs
  PROVE  scenario' = scenario
<1>1. CASE ClusterActs
  BY <1>1 DEF ClusterActs, process
<1>2. CASE ProcessActs /\ ~NoCommand
  BY <1>2, CommandSteps DEF Kept
<1>3. CASE NoCommand
  BY <1>3 DEF NoCommand, SetupDone, Skip, NextTest, Rerun, Timeout, BodyEnds, CleanupEnds, Begin, Kept
<1> QED
  BY <1>1, <1>2, <1>3

(* The environment of the test binary stays as it is. *)
LEMMA ScenarioKeeps ==
  ASSUME ScenarioInv, scenario' = scenario
  PROVE  ScenarioInv'
BY DEF ScenarioInv

(* Commands are those of the setup, a test or its cleanup. *)
LEMMA CommandPhases ==
  ASSUME TestsInv, pc <= Len(program)
  PROVE  phase \in {"setup", "test", "cleanup"}
<1>1. phase \notin {"setup", "test", "cleanup"} => Len(program) = 0
  BY DEF program
<1> QED
  BY <1>1 DEF TestsInv

(* A command moves the process within its program, or out of it. *)
LEMMA CommandKeepsTests ==
  ASSUME ProcessActs, ~NoCommand, TestsInv
  PROVE  TestsInv'
<1>1. /\ pc <= Len(program) /\ scenario' = scenario /\ todo' = todo /\ reruns' = reruns
      /\ csvName' \in {csvName, Has({"csv"})}
      /\ \/ Works \/ Fails
         \/ /\ command.do = "skipIfExists"
            /\ pc' = pc + Len(install) + 1 /\ UNCHANGED <<phase, result>>
  BY CommandSteps DEF Kept
<1>2. phase \in {"setup", "test", "cleanup"}
  BY <1>1, CommandPhases
<1>3. todo # <<>> /\ test \in Range(scenario.tests)
  BY <1>2, TestIsRun DEF TestsInv, Running
<1>4. pc \in Nat /\ 1 <= pc
  BY DEF TestsInv
<1>5. csvName' \in BOOLEAN
  BY <1>1 DEF TestsInv, Has
<1>6. CASE phase' = phase /\ result' = result
  <2>1. program' = program /\ Len(program) \in Nat
    BY <1>1, <1>2, <1>6, ProgramLengths DEF program, test
  <2>2. pc' \in Nat /\ 1 <= pc' /\ pc' <= Len(program) + 1
    <3>1. CASE pc' = pc + 1
      BY <1>1, <1>4, <2>1, <3>1
    <3>2. CASE command.do = "skipIfExists" /\ pc' = pc + Len(install) + 1
      <4>1. phase = "test" /\ pc = 2
        BY <1>1, <1>2, <1>4, <3>2, AnyCommand
      <4>2. InstalledAt + 2 <= Len(program)
        BY <1>1, <1>4, <4>1, TestCommand
      <4> QED
        BY <2>1, <3>2, <4>1, <4>2, ProgramLengths DEF InstalledAt
    <3> QED
      BY <1>1, <1>2, <1>6, <3>1, <3>2 DEF Works, Fails
  <2> QED
    BY <1>1, <1>3, <1>5, <1>6, <2>1, <2>2 DEF TestsInv, Running
<1>7. CASE Fails
  <2>1. pc' = 1 /\ phase' \in Phases
    BY <1>2, <1>7 DEF Fails, Phases
  <2>2. result' \in [Range(scenario.tests) -> Results]
    BY <1>2, <1>3, <1>7 DEF Fails, TestsInv, Results
  <2>3. Len(program)' \in Nat /\ 1 <= Len(program)' + 1
    BY <1>1, <2>1, ProgramLengths DEF program, Phases, test
  <2> QED
    BY <1>1, <1>3, <1>5, <2>1, <2>2, <2>3 DEF TestsInv, Running
<1> QED
  BY <1>1, <1>6, <1>7 DEF Works

(* From one test, or one process, to the next. *)
LEMMA NoCommandKeepsTests ==
  ASSUME NoCommand, ScenarioInv, TestsInv
  PROVE  TestsInv'
<1>1. /\ scenario' = scenario
      /\ pc' = 1 /\ csvName' \in {csvName, FALSE}
      /\ phase' \in Phases
  BY DEF NoCommand, SetupDone, Skip, NextTest, Rerun, Timeout, BodyEnds, CleanupEnds, Begin, Goto,
         Kept, Read, Phases
<1>2. Len(program)' \in Nat /\ 1 <= Len(program)' + 1
  BY <1>1, ProgramLengths DEF program, Phases, test
<1>3. csvName' \in BOOLEAN
  BY <1>1 DEF TestsInv
<1>4. ASSUME todo' \in Seq(Range(scenario.tests)), Running' => todo' # <<>>,
             result' \in [Range(scenario.tests) -> Results],
             reruns' \in [Range(scenario.tests) -> 0..MaxReruns]
      PROVE  TestsInv'
  BY <1>1, <1>2, <1>3, <1>4 DEF TestsInv
<1>5. CASE SetupDone \/ NextTest
  <2>1. todo' \in Seq(Range(scenario.tests))
    <3>1. CASE SetupDone
      BY <3>1 DEF SetupDone, Begin, TestsInv
    <3>2. CASE NextTest
      <4>1. todo # <<>> /\ todo' = Tail(todo)
        BY <3>2 DEF NextTest, Begin, TestsInv, Running
      <4> QED
        BY <4>1 DEF TestsInv
    <3> QED
      BY <1>5, <3>1, <3>2
  <2>2. Running' => todo' # <<>>
    BY <1>5 DEF SetupDone, NextTest, Begin, Goto, Running
  <2> QED
    BY <1>4, <1>5, <2>1, <2>2 DEF SetupDone, NextTest, Begin, TestsInv
<1>6. CASE Skip
  BY <1>4, <1>6, TestIsRun DEF Skip, Begin, Goto, TestsInv, Running, Results
<1>7. CASE BodyEnds \/ CleanupEnds
  BY <1>4, <1>7, TestIsRun DEF BodyEnds, CleanupEnds, Kept, TestsInv, Running, Results
<1>8. CASE Rerun
  <2>1. PICK t \in DOMAIN result :
          /\ reruns[t] < MaxReruns /\ todo' = <<t>> /\ reruns' = [reruns EXCEPT ![t] = @ + 1]
          /\ result' = result
    BY <1>8 DEF Rerun
  <2>2. t \in Range(scenario.tests)
    BY <2>1 DEF TestsInv
  <2>3. reruns' \in [Range(scenario.tests) -> 0..MaxReruns]
    BY <2>1, <2>2, CertManagerAssumption DEF TestsInv
  <2> QED
    BY <1>4, <2>1, <2>2, <2>3 DEF TestsInv
<1>9. CASE Timeout
  BY <1>4, <1>9 DEF Timeout, Goto, TestsInv, Running
<1> QED
  BY <1>5, <1>6, <1>7, <1>8, <1>9 DEF NoCommand

------------------------------------------------------------------------------
(* What is gone takes its certificate, or is the istiod, with it. *)
LEMMA VanishKeepsObjects ==
  ASSUME NEW what, Vanish(what), ObjectsInv
  PROVE  ObjectsInv' /\ objects' \subseteq objects
<1> DEFINE gone == what \cup (IF "smcp" \in what THEN {"ready", "istiod"} ELSE {})
<1>1. /\ objects' = objects \ gone /\ inherited' = inherited \ gone
      /\ istiod' = IF "istiod" \in gone THEN NoIstiod ELSE istiod
      /\ certificate' = [wanted |-> IF "cacerts" \in gone THEN 0 ELSE certificate.wanted,
                         issued |-> IF "cacerts-secret" \in gone THEN 0 ELSE certificate.issued]
  BY DEF Vanish
<1> HIDE DEF gone
<1>2. objects' \subseteq Objects /\ inherited' \subseteq objects'
  BY <1>1 DEF ObjectsInv
<1>3. /\ certificate' \in [wanted : Nat, issued : Nat]
      /\ "cacerts" \in objects' => certificate'.issued <= certificate'.wanted
      /\ "cacerts-secret" \notin objects' => certificate'.issued = 0
  BY <1>1 DEF ObjectsInv
<1>4. NoIstiod \in Istiods
  BY DEF NoIstiod, Istiods, Versions, Version
<1>5. /\ istiod' \in Istiods
      /\ "istiod" \notin objects' => istiod' = NoIstiod
      /\ "istiod" \in objects' => 1 <= istiod'.generation
  BY <1>1, <1>4 DEF ObjectsInv
<1> QED
  BY <1>1, <1>2, <1>3, <1>5 DEF ObjectsInv

(* What a command makes: the Certificate only where there is no secret of another. *)
LEMMA MakesKeepsObjects ==
  ASSUME NEW what, Makes(what), pc <= Len(program), TestsInv, ObjectsInv, NewNamespace
  PROVE  /\ ObjectsInv'
         /\ objects' = objects \cup what /\ "istiod" \notin what /\ CaSecrets \cap what = {}
         /\ "cacerts" \in what => pc = InstalledAt + 2
<1>1. phase \in {"setup", "test", "cleanup"} /\ pc \in Nat /\ 1 <= pc
  BY CommandPhases DEF TestsInv
<1>2. /\ what \subseteq Objects /\ "istiod" \notin what
      /\ CaSecrets \cap what = {} /\ "cacerts-secret" \notin what
      /\ "cacerts" \in what => phase = "test" /\ ~Csr /\ pc = InstalledAt + 2
  BY <1>1, AnyCommand DEF Makes, CaSecrets
<1>3. /\ objects' = objects \cup what /\ istiod' = istiod /\ inherited' = inherited
      /\ certificate' = IF "cacerts" \in what /\ "cacerts" \notin objects
                        THEN [certificate EXCEPT !.wanted = 1] ELSE certificate
  BY DEF Makes, Appear
<1>4. "cacerts" \in what => certificate.issued = 0
  BY <1>2 DEF NewNamespace, ObjectsInv
<1>5. /\ certificate' \in [wanted : Nat, issued : Nat]
      /\ "cacerts" \in objects' => certificate'.issued <= certificate'.wanted
      /\ "cacerts-secret" \notin objects' => certificate'.issued = 0
  <2>1. CASE "cacerts" \in what /\ "cacerts" \notin objects
    BY <1>2, <1>3, <1>4, <2>1 DEF ObjectsInv
  <2>2. CASE ~("cacerts" \in what /\ "cacerts" \notin objects)
    BY <1>2, <1>3, <2>2 DEF ObjectsInv
  <2> QED
    BY <2>1, <2>2
<1> QED
  BY <1>2, <1>3, <1>5 DEF ObjectsInv

(* A command of the setup, a test or a cleanup keeps what is known of the cluster. *)
LEMMA CommandKeepsObjects ==
  ASSUME ProcessActs, ~NoCommand, TestsInv, ObjectsInv, NewNamespace
  PROVE  ObjectsInv'
<1>1. pc <= Len(program)
  BY CommandSteps
<1>2. CASE ClusterKept
  BY <1>2 DEF ClusterKept, cluster, ObjectsInv
<1>3. CASE Patches
  BY <1>3 DEF Patches, ObjectsInv
<1> QED
  BY <1>1, <1>2, <1>3, CommandEffects, VanishKeepsObjects, MakesKeepsObjects

(* What the test binary does between commands leaves the cluster alone. *)
LEMMA NoCommandKeepsObjects ==
  ASSUME NoCommand, ObjectsInv
  PROVE  /\ ObjectsInv'
         /\ objects' = objects /\ istiod' = istiod /\ scenario' = scenario
<1>1. /\ objects' = objects /\ istiod' = istiod /\ certificate' = certificate /\ scenario' = scenario
      /\ inherited' \in {inherited, objects}
  BY DEF NoCommand, SetupDone, Skip, NextTest, Rerun, Timeout, BodyEnds, CleanupEnds, Begin,
         Kept, ClusterKept, cluster
<1> QED
  BY <1>1 DEF ObjectsInv

(* The cluster only makes what its rules allow. *)
LEMMA ClusterKeepsObjects ==
  ASSUME ClusterActs, ScenarioInv, ObjectsInv
  PROVE  ObjectsInv'
<1>1. certManagerNs \in Objects /\ certManagerNs \notin {"cacerts", "cacerts-secret", "istiod"}
  BY ObjectsAre DEF Namespaces, certManagerNs
<1>2. ASSUME NEW what, NEW needs, Comes(what, needs), what \subseteq Objects,
             what \cap {"cacerts", "cacerts-secret", "istiod"} = {}
      PROVE  ObjectsInv'
  <2>1. /\ objects' = objects \cup what /\ certificate' = certificate
        /\ istiod' = istiod /\ inherited' = inherited
    BY <1>2 DEF Comes, Appear
  <2> QED
    BY <1>2, <2>1 DEF ObjectsInv
<1>3. CASE OLM
  <2>1. CASE Comes({"csv"}, {"subscription"})
    BY <1>2, <2>1, ObjectsAre
  <2>2. CASE Comes({"operator"}, {"csv"})
    BY <1>2, <2>2, ObjectsAre
  <2>3. CASE Vanish({"operator"})
    BY <2>3, VanishKeepsObjects
  <2> QED
    BY <1>3, <2>1, <2>2, <2>3 DEF OLM
<1>4. CASE OperatorActs
  BY <1>1, <1>2, <1>4, ObjectsAre DEF OperatorActs
<1>5. CASE CertManagerIssues
  <2>1. CASE Issue("istio-ca", "istio-ca-secret", RootCA)
    BY <1>2, <2>1, ObjectsAre DEF Issue
  <2>2. CASE Issue("istio-csr", "istiod-tls-secret", {"istio-ca-secret"})
    BY <1>2, <2>2, ObjectsAre DEF Issue
  <2>3. CASE /\ objects' = objects \cup {"cacerts-secret"}
             /\ certificate' = [certificate EXCEPT !.issued = certificate.wanted]
             /\ UNCHANGED <<istiod, inherited>>
    BY <2>3, ObjectsAre DEF ObjectsInv
  <2> QED
    BY <1>5, <2>1, <2>2, <2>3 DEF CertManagerIssues
<1>6. ASSUME NEW generation \in Nat, 1 <= generation
      PROVE  /\ Started(generation) \in Istiods
             /\ Started(generation).generation = generation
  <2>1. scenario.version \in Versions /\ certificate.issued \in Nat
    BY DEF ScenarioInv, EnvironmentType, ObjectsInv
  <2> QED
    BY <1>6, <2>1 DEF Started, Istiods
<1>7. CASE MeshIsInstalled
  <2>1. /\ objects' = objects \cup {"istiod"} /\ istiod' = Started(1)
        /\ certificate' = certificate /\ inherited' = inherited
    BY <1>7 DEF MeshIsInstalled
  <2> QED
    BY <1>6, <2>1, ObjectsAre DEF ObjectsInv
<1>8. CASE MeshIsReady
  BY <1>2, <1>8, ObjectsAre DEF MeshIsReady
<1>9. CASE IstiodRestarts
  <2>1. PICK generation \in {istiod.generation, 2} : istiod' = Started(generation)
    BY <1>9 DEF IstiodRestarts
  <2>2. /\ "istiod" \in objects /\ objects' = objects
        /\ certificate' = certificate /\ inherited' = inherited
    BY <1>9 DEF IstiodRestarts
  <2>3. generation \in Nat /\ 1 <= generation
    BY <2>1, <2>2 DEF ObjectsInv, Istiods
  <2> QED
    BY <1>6, <2>1, <2>2, <2>3 DEF ObjectsInv
<1>10. CASE IstiodReloads
  <2>1. /\ objects' = objects /\ certificate' = certificate /\ inherited' = inherited
        /\ istiod' = [istiod EXCEPT !.loaded = certificate.issued, !.log = @ + 1]
    BY <1>10 DEF IstiodReloads
  <2>2. "istiod" \in objects
    BY <1>10 DEF IstiodReloads, ObjectsInv, NoIstiod
  <2>3. istiod \in Istiods /\ certificate.issued \in Nat /\ istiod.log \in Nat
    BY DEF ObjectsInv, Istiods
  <2>4. istiod' = [version |-> istiod.version, plugged |-> istiod.plugged, loaded |-> certificate.issued,
                   log |-> istiod.log + 1, generation |-> istiod.generation]
    BY <2>1, <2>3 DEF Istiods
  <2>5. istiod' \in Istiods /\ istiod'.generation = istiod.generation
    BY <2>3, <2>4 DEF Istiods
  <2> QED
    BY <2>1, <2>2, <2>5 DEF ObjectsInv
<1> QED
  BY <1>3, <1>4, <1>5, <1>7, <1>8, <1>9, <1>10 DEF ClusterActs

------------------------------------------------------------------------------
(* A test recreates the namespace of the mesh, and only goes on without what was in it. *)
LEMMA MeshIsGone ==
  ASSUME ProcessActs, ~NoCommand, TestsInv, phase = "test", phase' = "test", pc = InstalledAt
  PROVE  objects' \cap Contents(meshNamespace) = {} /\ inherited' \cap Contents(meshNamespace) = {}
<1>1. pc <= Len(program)
  BY CommandSteps
<1>2. command.do = "deleteNs" /\ command.what = {meshNamespace}
  BY <1>1, TestCommand DEF TestsInv
<1>3. ~Fails
  BY DEF Fails
<1>4. PICK what : Vanish(what) /\ Contents(meshNamespace) \subseteq what
  BY <1>2, <1>3, CommandEffects
<1> QED
  BY <1>4 DEF Vanish

(* A command that works is followed by the next; only an installation may be skipped. *)
LEMMA TestGoesOn ==
  ASSUME ProcessActs, ~NoCommand, TestsInv, phase = "test", phase' = "test"
  PROVE  /\ pc' = pc + 1 \/ (pc = 2 /\ pc' = InstalledAt)
         /\ test' = test /\ result' = result
<1>1. pc <= Len(program) /\ todo' = todo
      /\ \/ Works \/ Fails
         \/ /\ command.do = "skipIfExists"
            /\ pc' = pc + Len(install) + 1 /\ UNCHANGED <<phase, result>>
  BY CommandSteps DEF Kept
<1>2. ~Fails
  BY DEF Fails
<1>3. command.do = "skipIfExists" => pc = 2
  BY <1>1, TestCommand DEF TestsInv
<1>4. Len(install) = 8
  BY ProgramLengths
<1> QED
  BY <1>1, <1>2, <1>3, <1>4 DEF Works, test, InstalledAt

(* No test starts on the way. *)
LEMMA TestBegins ==
  ASSUME ProcessActs, phase' = "test", phase # "test" \/ NoCommand
  PROVE  pc' = 1
<1>1. CASE NoCommand
  BY <1>1 DEF NoCommand, SetupDone, Skip, NextTest, Rerun, Timeout, BodyEnds, CleanupEnds, Begin, Goto
<1>2. CASE ~NoCommand
  <2>1. phase' = phase \/ Fails
    BY <1>2, CommandSteps DEF Works
  <2> QED
    BY <1>2, <2>1 DEF Fails
<1> QED
  BY <1>1, <1>2

(* In TestPluginCaCert, no secret of an earlier mesh comes into the new namespace. *)
LEMMA NamespaceStaysNew ==
  ASSUME ProcessActs, TestsInv, ObjectsInv, NewNamespace
  PROVE  NewNamespace'
<1> SUFFICES ASSUME phase' = "test", ~Csr', pc' \in {InstalledAt + 1, InstalledAt + 2}
             PROVE  "cacerts" \notin objects' /\ "cacerts-secret" \notin objects'
  BY DEF NewNamespace
<1>1. phase = "test" /\ ~NoCommand
  BY TestBegins DEF InstalledAt
<1>2. pc' = pc + 1 /\ test' = test /\ pc \in Nat
  BY <1>1, TestGoesOn DEF TestsInv, InstalledAt
<1>3. CASE pc = InstalledAt
  BY <1>1, <1>3, MeshIsGone, ObjectsAre
<1>4. CASE pc = InstalledAt + 1
  <2>1. "cacerts" \notin objects /\ "cacerts-secret" \notin objects
    BY <1>1, <1>2, <1>4 DEF NewNamespace, Csr
  <2>2. pc <= Len(program)
    BY <1>1, CommandSteps
  <2>3. \A what : Makes(what) => "cacerts" \notin what /\ "cacerts-secret" \notin what
    BY <1>4, <2>2, MakesKeepsObjects DEF InstalledAt, CaSecrets
  <2>4. \A what : Vanish(what) \/ Makes(what) => objects' \subseteq objects \cup what
    BY DEF Vanish, Makes, Appear
  <2>5. \A what : Vanish(what) => objects' \subseteq objects
    BY DEF Vanish
  <2> QED
    BY <1>1, <2>1, <2>3, <2>4, <2>5, CommandEffects DEF ClusterKept, cluster, Patches
<1> QED
  BY <1>2, <1>3, <1>4 DEF InstalledAt

(* In its namespace a test deletes nothing, and makes no secret of a CA: what it
   has seen is still there. *)
LEMMA CommandKeepsOwn ==
  ASSUME ProcessActs, ~NoCommand, TestsInv, ObjectsInv, NewNamespace, Own,
         phase = "test", phase' = "test", InstalledAt < pc
  PROVE  Own' /\ (Checked => Checked')
<1>1. pc <= Len(program) /\ test' = test
  BY CommandSteps, TestGoesOn
<1>2. command.do \notin Deletions
  BY <1>1, TestCommand DEF TestsInv
<1>3. CASE ClusterKept \/ Patches
  BY <1>1, <1>3 DEF ClusterKept, cluster, Patches, Own, Checked, Csr
<1>4. ASSUME NEW what, Makes(what)
      PROVE  Own' /\ (Checked => Checked')
  <2>1. objects' = objects \cup what /\ CaSecrets \cap what = {}
    BY <1>1, <1>4, MakesKeepsObjects
  <2>2. istiod' = istiod /\ inherited' = inherited
    BY <1>4 DEF Makes, Appear
  <2>3. Own'
    BY <2>1, <2>2 DEF Own
  <2>4. Checked => Checked'
    BY <1>1, <2>1, <2>2 DEF Checked, Csr
  <2> QED
    BY <2>3, <2>4
<1> QED
  BY <1>2, <1>3, <1>4, CommandEffects

(* What a test waits for, or finds plugged in, is there when it goes on. *)
LEMMA WaitSees ==
  ASSUME ProcessActs, ~NoCommand, ~Fails
  PROVE  /\ command.do = "wait" => Has(command.what) /\ ClusterKept
         /\ command.do = "pluggedIn" => istiod.plugged /\ ClusterKept
<1> USE DEF Doing
<1>1. CASE Wait_ \/ PluggedIn
  BY <1>1 DEF Wait_, PluggedIn
<1>2. CASE Apply_ \/ Delete_ \/ DeleteNamespace_ \/ SkipIfExists \/ CsvAnywhere \/ ReadCsvName
  BY <1>2 DEF Apply_, Delete_, DeleteNamespace_, SkipIfExists, CsvAnywhere, ReadCsvName
<1>3. CASE WaitForPhase \/ DeleteCsv \/ RegisterCleanup \/ Ask_ \/ NoVersion
  BY <1>3 DEF WaitForPhase, DeleteCsv, RegisterCleanup, Ask_, NoVersion
<1>4. CASE Reloaded \/ Patch \/ ReadGeneration \/ SameGeneration
  BY <1>4 DEF Reloaded, Patch, ReadGeneration, SameGeneration
<1> QED
  BY <1>1, <1>2, <1>3, <1>4 DEF ProcessActs, NoCommand

(* The logs of istio-csr and of istiod show the CA, or the test ends there. *)
LEMMA TestChecks ==
  ASSUME ProcessActs, ~NoCommand, TestsInv, Own, phase = "test", phase' = "test", pc = CheckedAt
  PROVE  Checked'
<1>1. pc <= Len(program) /\ test' = test /\ ~Fails
  BY CommandSteps, TestGoesOn DEF Fails
<1>2. IF Csr THEN command = IstioCARootCertCreated ELSE command.do = "pluggedIn"
  BY <1>1, TestCommand DEF TestsInv
<1>3. CASE Csr
  <2>1. command.do = "wait" /\ command.what = {"istio-csr", "istio-ca-secret"}
    BY <1>2, <1>3, CommandParts DEF IstioCARootCertCreated, Wait
  <2>2. "istio-ca-secret" \in objects'
    BY <1>1, <2>1, WaitSees DEF Has, ClusterKept, cluster
  <2> QED
    BY <1>1, <1>3, <2>2 DEF Checked, CaSecret, Csr
<1>4. CASE ~Csr
  <2>1. istiod.plugged /\ objects' = objects /\ istiod' = istiod
    BY <1>1, <1>2, <1>4, WaitSees DEF ClusterKept, cluster
  <2> QED
    BY <1>1, <1>4, <2>1 DEF Checked, CaSecret, Csr, Own
<1> QED
  BY <1>3, <1>4

(* The tests keep to their own mesh, and those that pass had one with its CA. *)
LEMMA ProcessKeepsOwn ==
  ASSUME ProcessActs, TestsInv, ObjectsInv, NewNamespace, OwnInv
  PROVE  OwnInv'
<1>1. ASSUME phase' = "test", InstalledAt < pc'
      PROVE  Own'
  <2>1. phase = "test" /\ ~NoCommand
    BY <1>1, TestBegins DEF InstalledAt
  <2>2. pc' = pc + 1 /\ pc \in Nat
    BY <1>1, <2>1, TestGoesOn DEF TestsInv, InstalledAt
  <2>3. CASE pc = InstalledAt
    <3>1. "istiod" \notin objects' /\ CaSecrets \cap objects' = {}
          /\ inherited' \cap Contents(meshNamespace) = {}
      BY <1>1, <2>1, <2>3, MeshIsGone, ObjectsAre DEF CaSecrets
    <3>2. istiod' = NoIstiod
      BY <2>1, <3>1, CommandKeepsObjects DEF ObjectsInv
    <3> QED
      BY <3>1, <3>2 DEF Own, NoIstiod
  <2>4. CASE pc # InstalledAt
    <3>1. InstalledAt < pc
      BY <1>1, <2>2, <2>4 DEF InstalledAt
    <3> QED
      BY <1>1, <2>1, <3>1, CommandKeepsOwn DEF OwnInv
  <2> QED
    BY <2>3, <2>4
<1>2. ASSUME phase' = "test", CheckedAt' < pc'
      PROVE  Checked'
  <2>1. phase = "test" /\ ~NoCommand
    BY <1>2, TestBegins DEF CheckedAt
  <2>2. pc' = pc + 1 /\ pc \in Nat /\ test' = test
    BY <1>2, <2>1, TestGoesOn DEF TestsInv, InstalledAt, CheckedAt
  <2>3. CheckedAt' = CheckedAt /\ CheckedAt \in {16, 19}
    BY <2>2 DEF CheckedAt, Csr
  <2>4. CheckedAt <= pc /\ InstalledAt < pc
    BY <1>2, <2>2, <2>3 DEF InstalledAt
  <2>5. Own
    BY <2>1, <2>4 DEF OwnInv
  <2>6. CASE pc = CheckedAt
    BY <1>2, <2>1, <2>5, <2>6, TestChecks
  <2>7. CASE pc # CheckedAt
    <3>1. Checked
      BY <2>1, <2>2, <2>3, <2>4, <2>7 DEF OwnInv
    <3> QED
      BY <1>2, <2>1, <2>4, <2>5, <3>1, CommandKeepsOwn
  <2> QED
    BY <2>6, <2>7
<1>3. ASSUME phase' = "cleanup", pc' = 1, result'[test'] = "pass"
      PROVE  Own' /\ Checked'
  <2>1. CASE BodyEnds
    <3>1. phase = "test" /\ pc > Len(program) /\ UNCHANGED <<objects, istiod, inherited, todo>>
      BY <2>1 DEF BodyEnds, Kept, ClusterKept, cluster
    <3>2. Len(program) = IF Csr THEN 22 ELSE 24
      BY <3>1, ProgramLengths DEF program, Csr
    <3>3. InstalledAt < pc /\ CheckedAt < pc
      BY <3>1, <3>2 DEF InstalledAt, CheckedAt, TestsInv
    <3> QED
      BY <3>1, <3>3 DEF OwnInv, Own, Checked, Csr, test
  <2>2. ~ \/ SetupDone \/ Skip \/ NextTest \/ Rerun \/ Timeout \/ CleanupEnds
    BY <1>3 DEF SetupDone, Skip, NextTest, Rerun, Timeout, CleanupEnds, Begin, Goto
  <2>3. ASSUME ~NoCommand
        PROVE  FALSE
    <3>1. /\ pc <= Len(program) /\ todo' = todo
          /\ \/ Works \/ Fails
             \/ /\ command.do = "skipIfExists"
                /\ pc' = pc + Len(install) + 1 /\ UNCHANGED <<phase, result>>
      BY <2>3, CommandSteps DEF Kept
    <3>2. Fails
      <4>1. pc \in Nat /\ 1 <= pc /\ Len(install) = 8
        BY ProgramLengths DEF TestsInv
      <4> QED
        BY <1>3, <3>1, <4>1 DEF Works
    <3>3. phase = "test"
      BY <1>3, <3>1, <3>2, CommandPhases DEF Fails
    <3>4. test \in Range(scenario.tests) /\ test' = test
      BY <3>1, <3>3, TestIsRun DEF Running, test
    <3>5. result' = [result EXCEPT ![test] = "fail"]
      BY <3>2, <3>3 DEF Fails
    <3> QED
      BY <1>3, <3>4, <3>5 DEF TestsInv
  <2> QED
    BY <2>1, <2>2, <2>3 DEF NoCommand
<1> QED
  BY <1>1, <1>2, <1>3 DEF OwnInv

(* The cluster signs a CA only with the root CA, and keeps what a test has seen. *)
LEMMA ClusterKeepsOwn ==
  ASSUME ClusterActs, ObjectsInv, Own
  PROVE  Own' /\ (Checked => Checked')
<1>1. test' = test
  BY DEF ClusterActs, process, test
<1>2. certManagerNs \notin CaSecrets
  BY DEF certManagerNs, CaSecrets
<1>3. ASSUME inherited' \subseteq inherited, istiod' = istiod,
             objects \cap ({"cacerts-secret", "istio-ca-secret"} \cup RootCA) \subseteq objects',
             CaSecrets \cap objects' # {} => CaSecrets \cap objects # {} \/ RootCA \subseteq objects
      PROVE  Own' /\ (Checked => Checked')
  <2>1. Own'
    BY <1>3 DEF Own, CaSecrets
  <2>2. Checked => Checked'
    BY <1>1, <1>3 DEF Checked, CaSecret, Csr
  <2> QED
    BY <2>1, <2>2
<1>4. ASSUME NEW what, NEW needs, Comes(what, needs),
             CaSecrets \cap what = {} \/ RootCA \subseteq needs
      PROVE  Own' /\ (Checked => Checked')
  BY <1>3, <1>4 DEF Comes, Appear, Has
<1>5. CASE OLM
  <2>1. CASE Comes({"csv"}, {"subscription"}) \/ Comes({"operator"}, {"csv"})
    BY <1>4, <2>1 DEF CaSecrets
  <2>2. CASE Vanish({"operator"})
    BY <1>3, <2>2 DEF Vanish, RootCA
  <2> QED
    BY <1>5, <2>1, <2>2 DEF OLM
<1>6. CASE OperatorActs
  BY <1>2, <1>4, <1>6 DEF OperatorActs, CaSecrets
<1>7. CASE CertManagerIssues
  <2>1. CASE \/ Issue("istio-ca", "istio-ca-secret", RootCA)
             \/ Issue("istio-csr", "istiod-tls-secret", {"istio-ca-secret"})
    BY <1>4, <2>1 DEF Issue, CaSecrets
  <2>2. CASE /\ Has({"cacerts", "controllers"} \cup RootCA)
             /\ objects' = objects \cup {"cacerts-secret"}
             /\ UNCHANGED <<istiod, inherited>>
    BY <1>3, <2>2 DEF Has
  <2> QED
    BY <1>7, <2>1, <2>2 DEF CertManagerIssues
<1>8. CASE MeshIsReady
  BY <1>4, <1>8 DEF MeshIsReady, CaSecrets
<1>9. CASE MeshIsInstalled \/ IstiodRestarts
  <2>1. PICK generation : istiod' = Started(generation)
    BY <1>9 DEF MeshIsInstalled, IstiodRestarts
  <2>2. istiod'.plugged = ("cacerts-secret" \in objects)
    BY <2>1 DEF Started
  <2>3. inherited' = inherited /\ objects \subseteq objects' /\ objects' \subseteq objects \cup {"istiod"}
    BY <1>9 DEF MeshIsInstalled, IstiodRestarts
  <2>4. Own'
    BY <2>2, <2>3 DEF Own, CaSecrets
  <2>5. Checked => Checked'
    BY <1>1, <2>2, <2>3 DEF Checked, CaSecret, Csr
  <2> QED
    BY <2>4, <2>5
<1>10. CASE IstiodReloads
  <2>1. UNCHANGED <<objects, inherited>> /\ istiod'.plugged = istiod.plugged
    BY <1>10 DEF IstiodReloads, ObjectsInv, Istiods
  <2> QED
    BY <1>1, <2>1 DEF Own, Checked, Csr
<1> QED
  BY <1>5, <1>6, <1>7, <1>8, <1>9, <1>10 DEF ClusterActs

(* The cluster keeps all of it. *)
LEMMA ClusterKeepsTests ==
  ASSUME ClusterActs, TestInv
  PROVE  TestInv'
<1>1. UNCHANGED <<scenario, todo, phase, pc, reruns, result, csvName>>
  BY DEF ClusterActs, process
<1>2. ScenarioInv' /\ TestsInv'
  BY <1>1 DEF TestInv, ScenarioInv, TestsInv, Running, program, test
<1>3. ObjectsInv'
  BY ClusterKeepsObjects DEF TestInv
<1>4. NewNamespace'
  <2>1. "cacerts" \notin objects /\ "cacerts-secret" \notin objects
          => "cacerts" \notin objects' /\ "cacerts-secret" \notin objects'
    BY ClusterAdds DEF certManagerNs
  <2> QED
    BY <1>1, <2>1 DEF TestInv, NewNamespace, Csr, test
<1>5. Own => Own' /\ (Checked => Checked')
  BY ClusterKeepsOwn DEF TestInv
<1>6. OwnInv'
  <2>1. test' = test /\ CheckedAt' = CheckedAt
    BY <1>1 DEF test, CheckedAt, Csr
  <2>2. CheckedAt < pc => InstalledAt < pc
    BY DEF CheckedAt, InstalledAt, TestInv, TestsInv
  <2> QED
    BY <1>1, <1>5, <2>1, <2>2 DEF TestInv, OwnInv
<1> QED
  BY <1>2, <1>3, <1>4, <1>6 DEF TestInv

(* Every step of the test binary keeps the invariant. *)
LEMMA ProcessKeepsTests ==
  ASSUME ProcessActs, TestInv
  PROVE  TestInv'
<1>1. ScenarioInv'
  BY EnvironmentStays, ScenarioKeeps DEF TestInv
<1>2. TestsInv'
  BY CommandKeepsTests, NoCommandKeepsTests DEF TestInv
<1>3. ObjectsInv'
  BY CommandKeepsObjects, NoCommandKeepsObjects DEF TestInv
<1>4. NewNamespace' /\ OwnInv'
  BY NamespaceStaysNew, ProcessKeepsOwn DEF TestInv
<1> QED
  BY <1>1, <1>2, <1>3, <1>4 DEF TestInv

(* Where nothing happens, or a namespace is deleted from outside while no test runs. *)
LEMMA VanishKeepsTests ==
  ASSUME UNCHANGED process, TestInv,
         \/ phase \notin {"test", "cleanup"} /\ \E what : Vanish(what)
         \/ UNCHANGED cluster
  PROVE  TestInv'
<1>1. UNCHANGED <<scenario, todo, phase, pc, reruns, result, csvName>>
  BY DEF process
<1>2. ScenarioInv' /\ TestsInv'
  BY <1>1 DEF TestInv, ScenarioInv, TestsInv, Running, program, test
<1>3. ObjectsInv' /\ objects' \subseteq objects
  <2>1. CASE UNCHANGED cluster
    BY <2>1 DEF cluster, TestInv, ObjectsInv
  <2> QED
    BY <2>1, VanishKeepsObjects DEF TestInv
<1>4. NewNamespace'
  BY <1>1, <1>3 DEF TestInv, NewNamespace, Csr, test
<1>5. OwnInv'
  <2>1. CASE phase \notin {"test", "cleanup"}
    BY <1>1, <2>1 DEF OwnInv
  <2>2. CASE UNCHANGED cluster
    <3>1. test' = test /\ CheckedAt' = CheckedAt
      BY <1>1 DEF test, CheckedAt, Csr
    <3>2. (Own => Own') /\ (Checked => Checked')
      BY <2>2, <3>1 DEF cluster, Own, Checked, Csr
    <3> QED
      BY <1>1, <3>1, <3>2 DEF TestInv, OwnInv
  <2> QED
    BY <2>1, <2>2
<1> QED
  BY <1>2, <1>3, <1>4, <1>5 DEF TestInv

(* The invariant holds when the test binary is started. *)
LEMMA TestsInitially ==
  ASSUME Init
  PROVE  TestInv
<1>1. scenario \in Scenarios /\ scenario \in EnvironmentType /\ scenario.tests # <<>>
  BY CertManagerAssumption DEF Init
<1>2. ScenarioInv
  <2>1. scenario = [scenario EXCEPT !.version = scenario.version]
    BY <1>1 DEF EnvironmentType
  <2> QED
    BY <1>1, <2>1 DEF ScenarioInv
<1>3. TestsInv
  <2>1. scenario.tests \in Seq(Range(scenario.tests))
    <3>1. scenario.tests \in Seq({"TestIstioCsr", "TestPluginCaCert"})
      BY <1>1 DEF EnvironmentType
    <3>2. \A i \in 1..Len(scenario.tests) : scenario.tests[i] \in Range(scenario.tests)
      BY <3>1 DEF Range
    <3> QED
      BY <3>1, <3>2
  <2>2. program = BasicSetup
    BY DEF Init, program
  <2>3. /\ result = [t \in Range(scenario.tests) |-> "none"]
        /\ reruns = [t \in Range(scenario.tests) |-> 0]
        /\ phase = "setup" /\ pc = 1 /\ todo = scenario.tests /\ csvName = FALSE
    BY DEF Init
  <2>4. 0 \in 0..MaxReruns
    BY CertManagerAssumption
  <2>5. pc <= Len(program) + 1
    BY <2>2, <2>3, ProgramLengths
  <2>6. /\ result \in [Range(scenario.tests) -> Results]
        /\ reruns \in [Range(scenario.tests) -> 0..MaxReruns]
    BY <2>3, <2>4 DEF Results
  <2>7. phase \in Phases /\ pc \in Nat /\ 1 <= pc
    BY <2>3 DEF Phases
  <2> QED
    BY <1>1, <2>1, <2>3, <2>5, <2>6, <2>7 DEF TestsInv
<1>4. ObjectsInv
  <2>1. scenario.version \in Versions
    BY <1>1 DEF EnvironmentType
  <2>2. NoIstiod \in Istiods /\ OldIstiod \in Istiods /\ OldIstiod.generation = 1
    BY <2>1 DEF NoIstiod, OldIstiod, Istiods, Versions, Version
  <2>3. OldMesh \subseteq Objects
    BY ObjectsAre DEF OldMesh, Namespaces
  <2>4. certificate = [wanted |-> 0, issued |-> 0] /\ inherited = {}
    BY DEF Init, NoCertificate
  <2> QED
    BY <2>2, <2>3, <2>4 DEF Init, ObjectsInv, OldMesh
<1> QED
  BY <1>2, <1>3, <1>4 DEF Init, TestInv, NewNamespace, OwnInv

(* The invariant is what was to be shown, and more. *)
LEMMA TestInvSuffices ==
  ASSUME TestInv
  PROVE  TypeOK /\ PassedOnOwnMesh
<1>1. PassedOnOwnMesh
  <2> SUFFICES ASSUME phase = "cleanup", pc = 1, result[test] = "pass"
               PROVE  /\ inherited \cap Contents(meshNamespace) = {}
                      /\ Has({CaSecret(test)} \cup RootCA)
                      /\ test = "TestPluginCaCert" => istiod.plugged
    BY DEF PassedOnOwnMesh
  <2>1. Own /\ Checked
    BY DEF TestInv, OwnInv
  <2>2. CaSecret(test) \in CaSecrets
    BY DEF CaSecret, CaSecrets
  <2> QED
    BY <2>1, <2>2 DEF Own, Checked, Csr, Has
<1>2. certificate.issued \in 0..certificate.wanted \/ "cacerts" \notin objects
  BY DEF TestInv, ObjectsInv
<1>3. ("istiod" \notin objects) = (istiod = NoIstiod)
  <2>1. "istiod" \in objects => istiod # NoIstiod
    BY DEF TestInv, ObjectsInv, NoIstiod
  <2> QED
    BY <2>1 DEF TestInv, ObjectsInv
<1>4. \A t \in DOMAIN result : /\ result[t] \in {"none", "pass", "fail", "skip"}
                              /\ reruns[t] \in 0..MaxReruns
  BY DEF TestInv, TestsInv, Results
<1>5. Running => todo # <<>> /\ pc \in 1..Len(program) + 1
  <2>1. Len(program) \in Nat
    BY ProgramLengths DEF program
  <2> QED
    BY <2>1 DEF TestInv, TestsInv
<1> QED
  BY <1>1, <1>2, <1>3, <1>4, <1>5 DEF TypeOK, TestInv, ScenarioInv, TestsInv, ObjectsInv, Phases

(* The invariant of the tests, outside of the script. *)
THEOREM TestsInvariant == Spec => []TestInv
<1>1. TestInv /\ [Next]_vars => TestInv'
  <2>1. Done \/ UNCHANGED vars => UNCHANGED process /\ UNCHANGED cluster
    BY DEF Done, vars
  <2> QED
    BY <2>1, ProcessKeepsTests, ClusterKeepsTests, VanishKeepsTests DEF Next
<1> QED
  BY <1>1, TestsInitially, PTL DEF Spec

(* What the process and the cluster may be: no test is run again more often than
   gotestsum allows, no command is run behind its program, and the secret of
   istiod never is of a rotation that its Certificate has not asked for. *)
THEOREM TestTypes == Spec => []TypeOK
BY TestInvSuffices, TestsInvariant, PTL

(***************************************************************************)
(* A test that passes has tried a mesh of its own new namespace, whatever  *)
(* an earlier test, a cleanup that failed or another attempt had left: its *)
(* CA was issued by the root CA, also where the installation of that was   *)
(* skipped, and istiod uses it if the test is TestPluginCaCert.            *)
(***************************************************************************)
THEOREM PassedTestsHadOwnMesh == Spec => []PassedOnOwnMesh
BY TestInvSuffices, TestsInvariant, PTL

================================================================================
