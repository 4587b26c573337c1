-------------------------- MODULE CertManagerPrograms --------------------------
(***************************************************************************)
(* What the tests of cert-manager run on the cluster: the installer of its *)
(* operator, the bodies of the two tests, and their cleanups.              *)
(***************************************************************************)
EXTENDS Naturals, Sequences

operatorNs == "cert-manager-operator"
certManagerNs == "cert-manager"
meshNamespace == "istio-system"
Foo == "foo"

\* The objects, by the namespace they go with.
Contents(ns) ==
  CASE ns = operatorNs    -> {"subscription", "csv", "operator"}
    [] ns = certManagerNs -> {"controllers", "root-certificate"}
    [] ns = meshNamespace -> {"smcp", "ready", "istiod", "cacerts", "cacerts-secret", "istio-csr",
                              "istiod-tls-secret", "istio-ca", "istio-ca-secret"}
    [] ns = Foo           -> {"httpbin"}
Namespaces == {operatorNs, certManagerNs, meshNamespace, Foo}
ClusterScoped == {"crds", "root-issuer"}
RootCA == {"root-certificate", "root-issuer"}
\* What kinds there are only once cert-manager has been installed.
OfCertManager == RootCA \cup {"cacerts", "istio-ca"}
Objects == Namespaces \cup ClusterScoped \cup UNION {Contents(ns) : ns \in Namespaces}

Command(do, what) == [do |-> do, what |-> what]
Apply(what) == Command("apply", what)
Delete(what) == Command("delete", what)
CreateNamespace(ns) == Command("apply", {ns})
DeleteNamespace(ns) == Command("deleteNs", {ns})
RecreateNamespace(ns) == <<DeleteNamespace(ns), CreateNamespace(ns)>>
Wait(what) == Command("wait", what)
Ask == Command("ask", {})

------------------------------------------------------------------------------
GetFullCsvName == <<Command("readCsv", {})>>

WaitForOperatorInNamespaceReady ==
  <<Command("csvAnywhere", {})>> \o GetFullCsvName \o <<Command("csvPhase", {}), Wait({"operator"})>>
CreateOperatorViaOlm == <<Apply({"subscription"})>> \o WaitForOperatorInNamespaceReady
DeleteOperatorViaOlm ==
  GetFullCsvName \o <<Delete({"subscription"}), Command("deleteCsv", {"csv"})>>

install ==
  <<CreateNamespace(operatorNs)>> \o CreateOperatorViaOlm \o <<Wait({"controllers"}), Apply(RootCA)>>

InstallIfNotExist ==
  <<Command("skipIfExists", {"operator"})>> \o install

\* Mutant: the operator still runs when its namespace of controllers is deleted.
UninstallControllersFirst ==
  <<Delete(RootCA), DeleteNamespace(certManagerNs)>>
    \o DeleteOperatorViaOlm \o <<DeleteNamespace(operatorNs)>>

Uninstall ==
  <<Delete(RootCA)>> \o DeleteOperatorViaOlm
    \o <<DeleteNamespace(operatorNs), DeleteNamespace(certManagerNs)>>

------------------------------------------------------------------------------
BasicSetup == <<Apply({meshNamespace, Foo})>>

DeployMesh == <<Apply({"smcp"}), Wait({"ready"})>>
\* Requests of the sleep pod, and through the ingress gateway.
TryHttpbin == <<Apply({"httpbin"}), Ask>>

\* Mutant: what is left of the mesh stays.
PluginCaOnOldMesh ==
  <<Command("Cleanup", {})>> \o InstallIfNotExist
    \o <<Apply({"cacerts"})>> \o DeployMesh
    \o <<Command("pluggedIn", {})>> \o TryHttpbin
    \o <<Command("generation", {})>>
    \o <<Command("patch", {"cacerts"}), Command("reloaded", {2})>>
    \o <<Command("patch", {"cacerts"}), Command("reloaded", {3})>>
    \o <<Command("sameGeneration", {})>>

\* "reloaded" has the number of log lines that the code expects.
TestPluginCaCert ==
  <<Command("Cleanup", {})>> \o InstallIfNotExist
    \o RecreateNamespace(meshNamespace) \o <<Apply({"cacerts"})>> \o DeployMesh
    \o <<Command("pluggedIn", {})>> \o TryHttpbin
    \o <<Command("generation", {})>>
    \o <<Command("patch", {"cacerts"}), Command("reloaded", {2})>>
    \o <<Command("patch", {"cacerts"}), Command("reloaded", {3})>>
    \o <<Command("sameGeneration", {})>>

\* istio-csr logs that it has made the config maps with root CA data: it has them
\* from its issuer istio-ca, hence once that has its secret.
IstioCARootCertCreated == Wait({"istio-csr", "istio-ca-secret"})

TestIstioCsr ==
  <<Command("Cleanup", {})>> \o InstallIfNotExist
    \o RecreateNamespace(meshNamespace) \o <<Apply({"istio-ca"}), Ask>>
    \o <<Command("helmInstall", {"istio-csr"}), Wait({"istio-csr"})>> \o DeployMesh
    \o <<IstioCARootCertCreated, Ask>> \o TryHttpbin

\* Mutant: cert-manager may issue the secret again before its Certificate goes.
PluginCaSecretFirst ==
  <<Delete({"smcp"}), Delete({"cacerts-secret"}), Delete({"cacerts"})>>
    \o RecreateNamespace(Foo) \o Uninstall

CleanupPluginCaCert ==
  <<Delete({"smcp"}), Delete({"cacerts"}), Delete({"cacerts-secret"})>>
    \o RecreateNamespace(Foo) \o Uninstall

CleanupIstioCsr ==
  <<Command("helmUninstall", {"istio-csr"}), Delete({"smcp"}), Delete({"istio-ca"}),
    Delete({"istiod-tls-secret"}), Delete({"istio-ca-secret"})>>
    \o RecreateNamespace(Foo) \o Uninstall

------------------------------------------------------------------------------
Version(major, minor) == [Major |-> major, Minor |-> minor]
LessThan(v, w) == v.Major < w.Major \/ (v.Major = w.Major /\ v.Minor < w.Minor)
SMCP_2_4 == Version(2, 4)
OCP_4_12 == Version(4, 12)

\* GetTestGroup, skipIfNecessary, and the skips of both tests themselves.
TestGroup(group, arch) == IF arch = "arm64" THEN "arm64" ELSE group
SkippedByGroup(group, arch) == TestGroup(group, arch) \notin {"full", "arm64"}
TooOld(smcpVersion, ocpVersion) ==
  LessThan(smcpVersion, SMCP_2_4) \/ LessThan(ocpVersion, OCP_4_12)

================================================================================
