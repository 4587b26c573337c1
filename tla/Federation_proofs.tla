---------------------------- MODULE Federation_proofs ----------------------------
(***************************************************************************)
(* Proofs about Federation: for every set of environments, every list of   *)
(* tests and any number of reruns.                                         *)
(***************************************************************************)
EXTENDS Federation, FiniteSetTheorems, WellFoundedInduction, TLAPS

------------------------------------------------------------------------------
(***************************************************************************)
(* The invariant.  In a test, the commands of its program are counted from *)
(* MeshesAt, after which the control planes are installed and the          *)
(* addresses read, and from ExchangeAt, after which each mesh is given the *)
(* certificate and the address of the other one.                           *)
(***************************************************************************)
\* The tests.
Names == {Tests[i] : i \in DOMAIN Tests}
Mesh(side) == smcpNamespace[side]
\* The numbers of commands before those for the control planes, and before the exchange
\* of certificates.
BeforeMeshes(t) == IF t = "split" THEN 3 ELSE 5
BeforeExchange(t, single) == BeforeMeshes(t) + (IF single THEN 7 ELSE 8)
MeshesAt == BeforeMeshes(test)
ExchangeAt == BeforeExchange(test, ~TwoClusters)
\* A test runs that is not skipped.
InTest == phase = "test" /\ ~MustSkip
Testing == phase \in {"test", "cleanup", "cleaned"}
Results == {"none", "pass", "fail", "skip"}
Phases == {"setup", "test", "cleanup", "cleaned", "over", "exited", "crashed"}

\* What is read is a record with a value for each side, whatever the value is.
Shaped(i) ==
  /\ i = [address |-> i.address, certificate |-> i.certificate, read |-> i.read]
  /\ i.address = [s \in Sides |-> i.address[s]]
  /\ i.certificate = [s \in Sides |-> i.certificate[s]]
  /\ i.read = [s \in Sides |-> i.read[s]]
\* Types: those that the run checks, and those of the history of results.
TypeInv ==
  /\ TypeOK
  /\ todo \in Seq(Names)
  /\ result \in [Names -> Results]
  /\ Shaped(info)

\* What the program that runs depends on.
Base ==
  /\ scenario \in Scenarios /\ phase \in Phases
  /\ todo \in Seq(Names) /\ (phase # "exited" => todo # <<>>)

\* KUBECONFIG is for the west cluster unless it was left changed; the setup can only
\* change it near its end; and a test whose KUBECONFIG is for the west cluster has run
\* nothing of its west mesh elsewhere, since it is never set back.
KubeInv ==
  /\ ~leaked => kubeconfig = "west"
  /\ phase = "setup" => kubeconfig = "west" \/ (pc >= 23 /\ scenario.kubeconfig2)
  /\ Testing /\ kubeconfig = "west" => westRanOn \subseteq {"west"}
  /\ Testing /\ ~TwoClusters => westRanOn \subseteq {kubeconfig}
  /\ (phase = "cleanup" /\ pc > 1) \/ phase = "cleaned" => westRanOn # {}

There(c, what) == Has(c, metallbNamespace, what)
SecondCluster == IF scenario.kubeconfig2 THEN "east" ELSE "west"
Parts == {"operator", "controller", "pool"}
\* The parts of MetalLB that are on the clusters when the setup has come by them.
InstalledSoFar ==
  /\ pc > 4 => There("west", "operator")
  /\ pc > 8 => There("west", "controller")
  /\ pc > 12 => There("west", "pool")
  /\ pc > 16 => There(SecondCluster, "operator")
  /\ pc > 20 => There(SecondCluster, "controller")
  /\ pc > 24 => There(SecondCluster, "pool")
\* In the setup that much of it, and when tests run all of it, is there on both clusters.
MetalInv ==
  scenario.metallb /\ ~misread =>
    /\ phase = "setup" => InstalledSoFar
    /\ phase \in {"test", "cleanup", "cleaned", "over"} =>
         \A c \in {"west", SecondCluster}, what \in Parts : There(c, what)

PeerOfEast(o) == o.on = "east" /\ o.ns = Mesh("east") /\ o.what = "peer"
\* Until the west mesh's address is read, all of its commands ran on one cluster, ...
EarlyWest == MeshesAt + 7 >= pc => westRanOn \subseteq {kubeconfig}
\* ... then the address tells on which one; if that is "east", KUBECONFIG cannot change
\* any more, ...
AddressWest ==
  pc > MeshesAt + 7 =>
    \/ info.address["west"][1] = "west"
    \/ info.address["west"][1] = "east" /\ kubeconfig = "east" /\ westRanOn \subseteq {"east"}
\* ... and the peers in the east are given that address.
GivenToEast ==
  pc > ExchangeAt + 7 => \A o \in cluster : PeerOfEast(o) => o.value = info.address["west"]
\* The failover test cannot begin on the east cluster: it asks for the regions.
AddressInv ==
  InTest /\ TwoClusters /\ test # "failover" => EarlyWest /\ AddressWest /\ GivenToEast

\* Where the east mesh is.
East == IF TwoClusters THEN "east" ELSE kubeconfig
\* What is to be shown of a test that passes, ...
SamePlace == westRanOn \subseteq {kubeconfig} /\ (test = "failover" => kubeconfig = "west")
\* ... which follows from its last comparison if the counts were read where its commands
\* ran.
EndInv ==
  /\ InTest =>
       /\ pc \in {Len(program) - 1, Len(program)} => info.read["east"] = <<East>>
       /\ pc = Len(program) => info.read["west"] = <<kubeconfig>>
       /\ pc = Len(program) + 1 => SamePlace
  /\ phase \in {"cleanup", "cleaned"} /\ result[test] = "pass" => SamePlace

OwnNamespaces == Namespaces(test, "west") \cup Namespaces(test, "east")
\* Where the objects of a test are that began without leftovers.
Place(o) == \/ o.on \in westRanOn /\ o.ns \in Namespaces(test, "west")
            \/ o.on = East /\ o.ns \in Namespaces(test, "east")
\* They are nowhere else.
OwnInv == Testing /\ fresh => \A o \in cluster : o.ns \in OwnNamespaces => Place(o)
\* What the cleanup's commands have deleted is gone.
GoneInv ==
  /\ (phase = "cleanup" /\ pc > 1) \/ phase = "cleaned" => ~Exists(kubeconfig, Namespaces(test, "west"))
  /\ (phase = "cleanup" /\ pc > Len(program)) \/ phase = "cleaned" => ~Exists(East, Namespaces(test, "east"))

HasAt(m, what) == Has(m[1], m[2], what)
\* Mesh m has been given v, and nothing else of the kind is there.
AllAre(m, what, v) ==
  /\ HasAt(m, what)
  /\ \A o \in cluster : o.on = m[1] /\ o.ns = m[2] /\ o.what = what => o.value = v
\* Only the west mesh of the certs test has the certificate of the secret.
Custom(ns) == test = "certs" /\ ns = Mesh("west")
\* The root certificate that the mesh has if its SMCP is this test's.
Cert(m) == IF Custom(m[2]) THEN <<"custom">> ELSE <<"self", m[1], m[2]>>
\* Of the certificates, nothing else is there than what this test made.
ControlPlanes ==
  \A o \in cluster :
    o.ns \in {Mesh("west"), Mesh("east")} =>
      /\ o.what = "smcp" => o.value = IF Custom(o.ns) THEN <<"custom">> ELSE <<>>
      /\ o.what = "istiod" => o.value = Cert(<<o.on, o.ns>>)
\* The control planes run once the test has waited for them, ...
Running ==
  /\ pc > MeshesAt + 5 => HasAt(WestMesh, "istiod")
  /\ pc > MeshesAt + 6 => HasAt(EastMesh, "istiod")
\* ... the addresses are those of the meshes, ...
AddressesRead ==
  /\ pc > MeshesAt + 7 => info.address["west"] = WestMesh
  /\ pc > ExchangeAt => info.address["east"] = EastMesh
\* ... and so are the certificates; ...
CertificatesRead ==
  /\ pc > ExchangeAt + 1 => info.certificate["west"] = Cert(WestMesh)
  /\ pc > ExchangeAt + 2 => info.certificate["east"] = Cert(EastMesh)
\* ... each mesh is given those of the other.
Given ==
  /\ pc > ExchangeAt + 3 => AllAre(WestMesh, "trust", Cert(EastMesh))
  /\ pc > ExchangeAt + 4 => AllAre(WestMesh, "peer", EastMesh)
  /\ pc > ExchangeAt + 6 => AllAre(EastMesh, "trust", Cert(WestMesh))
  /\ pc > ExchangeAt + 7 => AllAre(EastMesh, "peer", WestMesh)
\* A test that began without leftovers, with KUBECONFIG as it was, has read what is right
\* and given it to the other mesh, as far as it has come.
PeersInv ==
  InTest /\ fresh /\ ~leaked =>
    ControlPlanes /\ Running /\ AddressesRead /\ CertificatesRead /\ Given

------------------------------------------------------------------------------
(***************************************************************************)
(* The programs of the tests, part by part: for every test, and with one   *)
(* or two clusters.                                                        *)
(***************************************************************************)
\* The parts of the tests' programs, after the first k commands.
Regions(p, k) ==
  /\ p[k + 1] = Command("west", "region", "none", "none")
  /\ p[k + 2] = Command("east", "region", "none", "none")
Start(p, k, t) ==
  /\ p[k + 1] = Command("west", "Cleanup", "none", "none")
  /\ p[k + 2] = CreateNamespaces(t, "west")
  /\ p[k + 3] = CreateNamespaces(t, "east")
Secret(p, k) ==
  /\ p[k + 1] = Command("west", "delete", Mesh("west"), "cacerts")
  /\ p[k + 2] = Command("west", "create", Mesh("west"), "cacerts")
ControlPlane(p, k, smcp) ==
  /\ p[k + 1] = Apply("west", Mesh("west"), smcp)
  /\ p[k + 2] = Apply("west", Mesh("west"), "smmr")
  /\ p[k + 3] = Apply("east", Mesh("east"), "smcp")
  /\ p[k + 4] = Apply("east", Mesh("east"), "smmr")
  /\ p[k + 5] = Command("west", "smcpReady", Mesh("west"), "none")
  /\ p[k + 6] = Command("east", "smcpReady", Mesh("east"), "none")
ClusterIPs(p, k) == p[k + 1] = Command("west", "clusterIP", "none", "none")
LoadBalancers(p, k) ==
  /\ p[k + 1] = Until(1, Command("west", "address", Mesh("west"), "none"))
  /\ p[k + 2] = Until(2, Command("east", "address", Mesh("east"), "none"))
Exchange(p, k) ==
  /\ p[k + 1] = Command("west", "certificate", Mesh("west"), "none")
  /\ p[k + 2] = Command("east", "certificate", Mesh("east"), "none")
  /\ p[k + 3] = Apply("west", Mesh("west"), "trust")
  /\ p[k + 4] = Apply("west", Mesh("west"), "peer")
  /\ p[k + 5] = Apply("west", Mesh("west"), "services")
  /\ p[k + 6] = Apply("east", Mesh("east"), "trust")
  /\ p[k + 7] = Apply("east", Mesh("east"), "peer")
  /\ p[k + 8] = Apply("east", Mesh("east"), "services")
Bookinfo(p, k, t) ==
  /\ p[k + 1] = Apply("west", bookinfoNamespace(t)["west"], "ratingsService")
  /\ p[k + 2] = Apply("west", bookinfoNamespace(t)["west"], "ratings")
  /\ p[k + 3] = Apply("west", bookinfoNamespace(t)["west"], "mongodb")
  /\ p[k + 4] = Apply("west", bookinfoNamespace(t)["west"], "rules")
  /\ p[k + 5] = Apply("east", bookinfoNamespace(t)["east"], "bookinfo")
  /\ p[k + 6] = Apply("east", bookinfoNamespace(t)["east"], "ratings")
  /\ p[k + 7] = Apply("east", bookinfoNamespace(t)["east"], "gateway")
  /\ p[k + 8] = Apply("east", bookinfoNamespace(t)["east"], "rules")
  /\ p[k + 9] = Apply("east", bookinfoNamespace(t)["east"], "reviewsV3")
  /\ p[k + 10] = Apply("east", bookinfoNamespace(t)["east"], "mongodbService")
  /\ p[k + 11] = Apply("east", bookinfoNamespace(t)["east"], "remoteMongodb")
  /\ p[k + 12] = Apply("east", bookinfoNamespace(t)["east"], "ratingsSplit")
FailoverBookinfo(p, k, t) ==
  /\ p[k + 1] = Apply("west", bookinfoNamespace(t)["west"], "ratings")
  /\ p[k + 2] = Apply("west", bookinfoNamespace(t)["west"], "rules")
  /\ p[k + 3] = Apply("east", bookinfoNamespace(t)["east"], "ratings")
  /\ p[k + 4] = Apply("east", bookinfoNamespace(t)["east"], "gateway")
  /\ p[k + 5] = Apply("east", bookinfoNamespace(t)["east"], "rules")
  /\ p[k + 6] = Apply("east", bookinfoNamespace(t)["east"], "reviewsV3")
  /\ p[k + 7] = Apply("east", bookinfoNamespace(t)["east"], "failoverRule")
Connected(p, k, t) ==
  /\ p[k + 1] = Command("west", "podsReady", bookinfoNamespace(t)["west"], "none")
  /\ p[k + 2] = Command("east", "podsReady", bookinfoNamespace(t)["east"], "none")
  /\ p[k + 3] = Until(3, connected("west"))
  /\ p[k + 4] = Until(3, connected("east"))
Counts(p, k, n, expect) ==
  /\ p[k + 1] = Count(n, "east")
  /\ p[k + 2] = Count(n, "west")
  /\ p[k + 3] = Compare_(n, expect)
Imports(p, k, n) ==
  /\ p[k + 1] = Until(4, ImportedServices)
  /\ p[k + 2] = IF n = 0 THEN GetRouteURL ELSE Until(n, GetRouteURL)
Checks(p, k) ==
  /\ Imports(p, k, 4)
  /\ Counts(p, k + 2, 4, "both")
Scaled(p, k, replicas) ==
  /\ p[k + 1] = Command("east", "scale", bookinfoNamespace("failover")["east"], replicas)
  /\ p[k + 2] = Command("east", "ask", bookinfoNamespace("failover")["east"], "rollout")
FailoverChecks(p, k) ==
  /\ Imports(p, k, 0)
  /\ Counts(p, k + 2, 5, "eastOnly")
  /\ Scaled(p, k + 5, 0)
  /\ p[k + 8] = Count(6, "west")
  /\ p[k + 9] = Compare_(6, "west")
  /\ Scaled(p, k + 9, 1)
  /\ Counts(p, k + 11, 7, "eastOnly")
Size(t, single) == BeforeExchange(t, single) + (IF t = "failover" THEN 33 ELSE 29)
DefaultRun(p, t, K, L) ==
  /\ Start(p, 0, t)
  /\ IF t = "certs" THEN Secret(p, 3) /\ ControlPlane(p, 5, "customSmcp")
     ELSE ControlPlane(p, 3, "smcp")
  /\ Exchange(p, L) /\ Bookinfo(p, L + 8, t) /\ Connected(p, L + 20, t) /\ Checks(p, L + 24)
FailoverRun(p, L) ==
  /\ Regions(p, 0) /\ Start(p, 2, "failover") /\ ControlPlane(p, 5, "smcp")
  /\ Exchange(p, L) /\ FailoverBookinfo(p, L + 8, "failover")
  /\ Connected(p, L + 15, "failover")
  /\ FailoverChecks(p, L + 19)
IsRun(p, t, single) ==
  /\ single => ClusterIPs(p, BeforeMeshes(t) + 6)
  /\ ~single => LoadBalancers(p, BeforeMeshes(t) + 6)
  /\ t = "failover" => FailoverRun(p, BeforeExchange(t, single))
  /\ t # "failover" => DefaultRun(p, t, BeforeMeshes(t), BeforeExchange(t, single))
  /\ Len(p) = Size(t, single)
\* The split test, with two clusters, ...
LEMMA SplitRun ==
  ASSUME NEW single, single = FALSE
  PROVE  IsRun(runs["split"][single], "split", single)
<1> DEFINE controlPlane ==
             <<>> \o installSMCPandSMMR("west", "smcp") \o installSMCPandSMMR("east", "smcp")
           addresses == getLoadBalancerIngressAddress(1, "west")
                          \o getLoadBalancerIngressAddress(2, "east")
           q == federationTest_run("split", controlPlane, addresses,
                                   defaultBookinfoInstaller("split"), defaultChecker)
<1>1. runs["split"] = [s \in BOOLEAN |-> run("split", s)]
  BY DEF runs, Tests
<1>2. runs["split"][single] = run("split", single)
  BY <1>1
<1>3. runs["split"][single] = q
  BY <1>2 DEF run, controlPlaneInstaller, getAddresses
<1> USE DEF federationTest_run, installSMCPandSMMR, getLoadBalancerIngressAddress,
        getRootCertificate, Peers, WaitAllPodsReady, RequestCounts, Mesh,
        defaultBookinfoInstaller, defaultChecker
<1>4. Start(q, 0, "split")
  BY DEF Start
<1>5. ControlPlane(q, 3, "smcp")
  BY DEF ControlPlane
<1>6. LoadBalancers(q, 9)
  BY DEF LoadBalancers
<1>7. Exchange(q, 11)
  BY DEF Exchange
<1>8. Bookinfo(q, 19, "split")
  BY DEF Bookinfo
<1>9. Connected(q, 31, "split")
  BY DEF Connected
<1>10. Checks(q, 35)
  BY DEF Checks, Imports, Counts
<1>11. Len(q) = 40
  OBVIOUS
<1> HIDE DEF q
<1>12. BeforeMeshes("split") = 3 /\ BeforeExchange("split", single) = 11 /\ Size("split", single) = 40
  BY DEF BeforeMeshes, BeforeExchange, Size
<1>13. DefaultRun(q, "split", 3, 11)
  BY <1>4, <1>5, <1>6, <1>7, <1>8, <1>9, <1>10, <1>11 DEF DefaultRun
<1>14. IsRun(q, "split", single)
  BY <1>6, <1>11, <1>12, <1>13 DEF IsRun
<1> QED BY <1>3, <1>14

\* ... and with one.
LEMMA SplitRunSingle ==
  ASSUME NEW single, single = TRUE
  PROVE  IsRun(runs["split"][single], "split", single)
<1> DEFINE controlPlane ==
             <<>> \o installSMCPandSMMR("west", "smcp") \o installSMCPandSMMR("east", "smcp")
           addresses == <<Command("west", "clusterIP", "none", "none")>>
           q == federationTest_run("split", controlPlane, addresses,
                                   defaultBookinfoInstaller("split"), defaultChecker)
<1>1. runs["split"] = [s \in BOOLEAN |-> run("split", s)]
  BY DEF runs, Tests
<1>2. runs["split"][single] = run("split", single)
  BY <1>1
<1>3. runs["split"][single] = q
  BY <1>2 DEF run, controlPlaneInstaller, getAddresses
<1> USE DEF federationTest_run, installSMCPandSMMR, getLoadBalancerIngressAddress,
        getRootCertificate, Peers, WaitAllPodsReady, RequestCounts, Mesh,
        defaultBookinfoInstaller, defaultChecker
<1>4. Start(q, 0, "split")
  BY DEF Start
<1>5. ControlPlane(q, 3, "smcp")
  BY DEF ControlPlane
<1>6. ClusterIPs(q, 9)
  BY DEF ClusterIPs
<1>7. Exchange(q, 10)
  BY DEF Exchange
<1>8. Bookinfo(q, 18, "split")
  BY DEF Bookinfo
<1>9. Connected(q, 30, "split")
  BY DEF Connected
<1>10. Checks(q, 34)
  BY DEF Checks, Imports, Counts
<1>11. Len(q) = 39
  OBVIOUS
<1> HIDE DEF q
<1>12. BeforeMeshes("split") = 3 /\ BeforeExchange("split", single) = 10 /\ Size("split", single) = 39
  BY DEF BeforeMeshes, BeforeExchange, Size
<1>13. DefaultRun(q, "split", 3, 10)
  BY <1>4, <1>5, <1>6, <1>7, <1>8, <1>9, <1>10, <1>11 DEF DefaultRun
<1>14. ClusterIPs(q, BeforeMeshes("split") + 6)
  BY <1>6, <1>12
<1>15. IsRun(q, "split", single)
  BY <1>14, <1>11, <1>12, <1>13 DEF IsRun
<1> QED BY <1>3, <1>15

\* The test with certificates of its own, with two clusters, ...
LEMMA CertsRun ==
  ASSUME NEW single, single = FALSE
  PROVE  IsRun(runs["certs"][single], "certs", single)
<1> DEFINE controlPlane ==
             CacertsSecret \o installSMCPandSMMR("west", "customSmcp")
               \o installSMCPandSMMR("east", "smcp")
           addresses == getLoadBalancerIngressAddress(1, "west")
                          \o getLoadBalancerIngressAddress(2, "east")
           q == federationTest_run("certs", controlPlane, addresses,
                                   defaultBookinfoInstaller("certs"), defaultChecker)
<1>1. runs["certs"] = [s \in BOOLEAN |-> run("certs", s)]
  BY DEF runs, Tests
<1>2. runs["certs"][single] = run("certs", single)
  BY <1>1
<1>3. runs["certs"][single] = q
  BY <1>2 DEF run, controlPlaneInstaller, getAddresses
<1> USE DEF federationTest_run, installSMCPandSMMR, getLoadBalancerIngressAddress,
        getRootCertificate, Peers, WaitAllPodsReady, RequestCounts, Mesh,
        defaultBookinfoInstaller, defaultChecker, CacertsSecret
<1>4. Start(q, 0, "certs")
  BY DEF Start
<1>5. Secret(q, 3)
  BY DEF Secret
<1>6. ControlPlane(q, 5, "customSmcp")
  BY DEF ControlPlane
<1>7. LoadBalancers(q, 11)
  BY DEF LoadBalancers
<1>8. Exchange(q, 13)
  BY DEF Exchange
<1>9. Bookinfo(q, 21, "certs")
  BY DEF Bookinfo
<1>10. Connected(q, 33, "certs")
  BY DEF Connected
<1>11. Checks(q, 37)
  BY DEF Checks, Imports, Counts
<1>12. Len(q) = 42
  OBVIOUS
<1> HIDE DEF q
<1>13. BeforeMeshes("certs") = 5 /\ BeforeExchange("certs", single) = 13 /\ Size("certs", single) = 42
  BY DEF BeforeMeshes, BeforeExchange, Size
<1>14. DefaultRun(q, "certs", 5, 13)
  BY <1>4, <1>5, <1>6, <1>7, <1>8, <1>9, <1>10, <1>11, <1>12 DEF DefaultRun
<1>15. IsRun(q, "certs", single)
  BY <1>7, <1>12, <1>13, <1>14 DEF IsRun
<1> QED BY <1>3, <1>15

\* ... and with one.
LEMMA CertsRunSingle ==
  ASSUME NEW single, single = TRUE
  PROVE  IsRun(runs["certs"][single], "certs", single)
<1> DEFINE controlPlane ==
             CacertsSecret \o installSMCPandSMMR("west", "customSmcp")
               \o installSMCPandSMMR("east", "smcp")
           addresses == <<Command("west", "clusterIP", "none", "none")>>
           q == federationTest_run("certs", controlPlane, addresses,
                                   defaultBookinfoInstaller("certs"), defaultChecker)
<1>1. runs["certs"] = [s \in BOOLEAN |-> run("certs", s)]
  BY DEF runs, Tests
<1>2. runs["certs"][single] = run("certs", single)
  BY <1>1
<1>3. runs["certs"][single] = q
  BY <1>2 DEF run, controlPlaneInstaller, getAddresses
<1> USE DEF federationTest_run, installSMCPandSMMR, getLoadBalancerIngressAddress,
        getRootCertificate, Peers, WaitAllPodsReady, RequestCounts, Mesh,
        defaultBookinfoInstaller, defaultChecker, CacertsSecret
<1>4. Start(q, 0, "certs")
  BY DEF Start
<1>5. Secret(q, 3)
  BY DEF Secret
<1>6. ControlPlane(q, 5, "customSmcp")
  BY DEF ControlPlane
<1>7. ClusterIPs(q, 11)
  BY DEF ClusterIPs
<1>8. Exchange(q, 12)
  BY DEF Exchange
<1>9. Bookinfo(q, 20, "certs")
  BY DEF Bookinfo
<1>10. Connected(q, 32, "certs")
  BY DEF Connected
<1>11. Checks(q, 36)
  BY DEF Checks, Imports, Counts
<1>12. Len(q) = 41
  OBVIOUS
<1> HIDE DEF q
<1>13. BeforeMeshes("certs") = 5 /\ BeforeExchange("certs", single) = 12 /\ Size("certs", single) = 41
  BY DEF BeforeMeshes, BeforeExchange, Size
<1>14. DefaultRun(q, "certs", 5, 12)
  BY <1>4, <1>5, <1>6, <1>7, <1>8, <1>9, <1>10, <1>11, <1>12 DEF DefaultRun
<1>15. ClusterIPs(q, BeforeMeshes("certs") + 6)
  BY <1>7, <1>13
<1>16. IsRun(q, "certs", single)
  BY <1>15, <1>12, <1>13, <1>14 DEF IsRun
<1> QED BY <1>3, <1>16

\* The failover test, which has two clusters.
LEMMA FailoverRunIs ==
  ASSUME NEW single, single = FALSE
  PROVE  IsRun(runs["failover"][single], "failover", single)
<1> DEFINE controlPlane ==
             <<>> \o installSMCPandSMMR("west", "smcp") \o installSMCPandSMMR("east", "smcp")
           addresses == getLoadBalancerIngressAddress(1, "west")
                          \o getLoadBalancerIngressAddress(2, "east")
           q == getRegions \o federationTest_run("failover", controlPlane, addresses,
                                   failoverBookinfoInstaller("failover"), failoverChecker)
<1>1. runs["failover"] = [s \in BOOLEAN |-> run("failover", s)]
  BY DEF runs, Tests
<1>2. runs["failover"][single] = run("failover", single)
  BY <1>1
<1>3. runs["failover"][single] = q
  BY <1>2 DEF run, controlPlaneInstaller, getAddresses
<1> USE DEF federationTest_run, installSMCPandSMMR, getLoadBalancerIngressAddress,
        getRootCertificate, Peers, WaitAllPodsReady, RequestCounts, Mesh,
        failoverBookinfoInstaller, failoverChecker, ScaleDeploymentAndWait, getRegions
<1>4. Regions(q, 0)
  BY DEF Regions
<1>5. Start(q, 2, "failover")
  BY DEF Start
<1>6. ControlPlane(q, 5, "smcp")
  BY DEF ControlPlane
<1>7. LoadBalancers(q, 11)
  BY DEF LoadBalancers
<1>8. Exchange(q, 13)
  BY DEF Exchange
<1>9. FailoverBookinfo(q, 21, "failover")
  BY DEF FailoverBookinfo
<1>10. Connected(q, 28, "failover")
  BY DEF Connected
<1>11. FailoverChecks(q, 32)
  BY DEF FailoverChecks, Imports, Counts, Scaled
<1>12. Len(q) = 46
  OBVIOUS
<1> HIDE DEF q
<1>13. BeforeMeshes("failover") = 5 /\ BeforeExchange("failover", single) = 13 /\ Size("failover", single) = 46
  BY DEF BeforeMeshes, BeforeExchange, Size
<1>14. FailoverRun(q, 13)
  BY <1>4, <1>5, <1>6, <1>7, <1>8, <1>9, <1>10, <1>11, <1>12 DEF FailoverRun
<1>15. IsRun(q, "failover", single)
  BY <1>7, <1>12, <1>13, <1>14 DEF IsRun
<1> QED BY <1>3, <1>15

------------------------------------------------------------------------------
(***************************************************************************)
(* The commands of the tests, and where those are that matter.             *)
(***************************************************************************)

Is(c, side, do, ns, what, loop) ==
  /\ c.side = side /\ c.do = do /\ c.ns = ns /\ c.what = what
  /\ c.loop = loop /\ c.unset = FALSE
\* The fields of a command, ...
LEMMA CommandIs ==
  ASSUME NEW side, NEW do, NEW ns, NEW what
  PROVE  Is(Command(side, do, ns, what), side, do, {ns}, what, 0)
  BY DEF Command, Is

\* ... of one in an attempt, ...
LEMMA UntilIs ==
  ASSUME NEW side, NEW do, NEW ns, NEW what, NEW n
  PROVE  Is(Until(n, Command(side, do, ns, what)), side, do, {ns}, what, n)
  BY DEF Command, Until, Is

\* ... and of one for several namespaces.
LEMMA InAllIs ==
  ASSUME NEW side, NEW do, NEW ns, NEW what, NEW S
  PROVE  Is(InAll(Command(side, do, ns, what), S), side, do, S, what, 0)
  BY DEF Command, InAll, Is

\* Applying a file is a command.
LEMMA ApplyIs ==
  ASSUME NEW side, NEW ns, NEW what
  PROVE  Is(Apply(side, ns, what), side, "apply", {ns}, what, 0)
  BY CommandIs DEF Apply

\* So is that which creates the namespaces of one side.
LEMMA CreateIs ==
  ASSUME NEW t, NEW side
  PROVE  Is(CreateNamespaces(t, side), side, "apply", Namespaces(t, side), "namespace", 0)
  BY InAllIs DEF CreateNamespaces, Apply, Namespaces

\* What holds of each command of a test, ...
Ordinary(c, t) ==
  /\ c.side \in Sides /\ c.unset = FALSE /\ c.loop \in 0..7
  /\ c.do \notin {"deleteNs", "skipIfExists", "exists", "available"}
  /\ c.do \in {"apply", "create", "delete", "scale"} => c.ns \subseteq Namespaces(t, c.side)
  /\ c.do = "delete" => c.what = "cacerts"
  /\ c.do = "create" => c.what = "cacerts"
  /\ c.do = "scale" => c.what \in 0..1
\* ... and where those are that matter, K and L being as above.
Placed(c, i, t, K, L) ==
  /\ c.do = "apply" =>
       /\ c.what = "smcp" => i \in {K + 1, K + 3} /\ ~(t = "certs" /\ i = K + 1)
       /\ c.what = "customSmcp" => i = K + 1 /\ t = "certs"
       /\ c.what = "trust" => i \in {L + 3, L + 6}
       /\ c.what = "peer" => i \in {L + 4, L + 7}
       /\ c.what \notin {"istiod", "operator"}
  /\ c.do = "address" => i \in {K + 7, K + 8}
  /\ c.do = "clusterIP" => i = K + 7
  /\ c.do = "certificate" => i \in {L + 1, L + 2}
  /\ c.do = "connected" => i > L + 8
  /\ c.loop = 1 => i = K + 7
  /\ c.loop = 2 => i = K + 8
  /\ c.loop > 2 => i > L + 8
\* The commands of each part of a test are ordinary, and in their place: the regions, ...
LEMMA RegionsPlaced ==
  ASSUME NEW p, NEW t \in Names, NEW K \in Nat, NEW L \in Nat, NEW k \in Nat, Regions(p, k),
         NEW i \in k + 1..k + 2
  PROVE  Ordinary(p[i], t) /\ Placed(p[i], i, t, K, L)
<1>1. /\ Is(p[k + 1], "west", "region", {"none"}, "none", 0)
      /\ Is(p[k + 2], "east", "region", {"none"}, "none", 0)
  BY CommandIs DEF Regions
<1>2. i \in {k + 1, k + 2}
  OBVIOUS
<1> QED BY <1>1, <1>2 DEF Is, Ordinary, Placed, Sides, Namespaces, Mesh

\* ... the cleanup's registration and the namespaces, ...
LEMMA StartPlaced ==
  ASSUME NEW p, NEW t \in Names, NEW K \in Nat, NEW L \in Nat, NEW k \in Nat, Start(p, k, t),
         NEW i \in k + 1..k + 3
  PROVE  Ordinary(p[i], t) /\ Placed(p[i], i, t, K, L)
<1>1. /\ Is(p[k + 1], "west", "Cleanup", {"none"}, "none", 0)
      /\ Is(p[k + 2], "west", "apply", Namespaces(t, "west"), "namespace", 0)
      /\ Is(p[k + 3], "east", "apply", Namespaces(t, "east"), "namespace", 0)
  BY CommandIs, CreateIs DEF Start
<1>2. i \in {k + 1, k + 2, k + 3}
  OBVIOUS
<1> QED BY <1>1, <1>2 DEF Is, Ordinary, Placed, Sides, Namespaces, Mesh

\* ... the secret with the certificates, ...
LEMMA SecretPlaced ==
  ASSUME NEW p, NEW t \in Names, NEW K \in Nat, NEW L \in Nat, NEW k \in Nat, Secret(p, k),
         NEW i \in k + 1..k + 2
  PROVE  Ordinary(p[i], t) /\ Placed(p[i], i, t, K, L)
<1>1. /\ Is(p[k + 1], "west", "delete", {Mesh("west")}, "cacerts", 0)
      /\ Is(p[k + 2], "west", "create", {Mesh("west")}, "cacerts", 0)
  BY CommandIs DEF Secret
<1>2. i \in {k + 1, k + 2}
  OBVIOUS
<1> QED BY <1>1, <1>2 DEF Is, Ordinary, Placed, Sides, Namespaces, Mesh

\* ... the control planes, ...
LEMMA ControlPlanePlaced ==
  ASSUME NEW p, NEW t \in Names, NEW K \in Nat, NEW L \in Nat, NEW k \in Nat,
         NEW smcp, ControlPlane(p, k, smcp),
         k = K, smcp = IF t = "certs" THEN "customSmcp" ELSE "smcp",
         NEW i \in k + 1..k + 6
  PROVE  Ordinary(p[i], t) /\ Placed(p[i], i, t, K, L)
<1>1. /\ Is(p[k + 1], "west", "apply", {Mesh("west")}, smcp, 0)
      /\ Is(p[k + 2], "west", "apply", {Mesh("west")}, "smmr", 0)
      /\ Is(p[k + 3], "east", "apply", {Mesh("east")}, "smcp", 0)
      /\ Is(p[k + 4], "east", "apply", {Mesh("east")}, "smmr", 0)
      /\ Is(p[k + 5], "west", "smcpReady", {Mesh("west")}, "none", 0)
      /\ Is(p[k + 6], "east", "smcpReady", {Mesh("east")}, "none", 0)
  BY CommandIs, ApplyIs DEF ControlPlane
<1>2. i \in {k + 1, k + 2, k + 3, k + 4, k + 5, k + 6}
  OBVIOUS
<1> QED BY <1>1, <1>2 DEF Is, Ordinary, Placed, Sides, Namespaces, Mesh

\* ... the addresses on one cluster ...
LEMMA ClusterIPsPlaced ==
  ASSUME NEW p, NEW t \in Names, NEW K \in Nat, NEW L \in Nat,
         NEW k \in Nat, ClusterIPs(p, k), k = K + 6,
         NEW i \in k + 1..k + 1
  PROVE  Ordinary(p[i], t) /\ Placed(p[i], i, t, K, L)
<1>1. /\ Is(p[k + 1], "west", "clusterIP", {"none"}, "none", 0)
  BY CommandIs DEF ClusterIPs
<1>2. i \in {k + 1}
  OBVIOUS
<1> QED BY <1>1, <1>2 DEF Is, Ordinary, Placed, Sides, Namespaces, Mesh

\* ... or two, ...
LEMMA LoadBalancersPlaced ==
  ASSUME NEW p, NEW t \in Names, NEW K \in Nat, NEW L \in Nat,
         NEW k \in Nat, LoadBalancers(p, k), k = K + 6,
         NEW i \in k + 1..k + 2
  PROVE  Ordinary(p[i], t) /\ Placed(p[i], i, t, K, L)
<1>1. /\ Is(p[k + 1], "west", "address", {Mesh("west")}, "none", 1)
      /\ Is(p[k + 2], "east", "address", {Mesh("east")}, "none", 2)
  BY UntilIs DEF LoadBalancers
<1>2. i \in {k + 1, k + 2}
  OBVIOUS
<1> QED BY <1>1, <1>2 DEF Is, Ordinary, Placed, Sides, Namespaces, Mesh

\* ... the workloads ...
LEMMA BookinfoPlaced ==
  ASSUME NEW p, NEW t \in Names, NEW K \in Nat, NEW L \in Nat, NEW k \in Nat, Bookinfo(p, k, t),
         NEW i \in k + 1..k + 12
  PROVE  Ordinary(p[i], t) /\ Placed(p[i], i, t, K, L)
<1>1. /\ Is(p[k + 1], "west", "apply", {bookinfoNamespace(t)["west"]}, "ratingsService", 0)
      /\ Is(p[k + 2], "west", "apply", {bookinfoNamespace(t)["west"]}, "ratings", 0)
      /\ Is(p[k + 3], "west", "apply", {bookinfoNamespace(t)["west"]}, "mongodb", 0)
      /\ Is(p[k + 4], "west", "apply", {bookinfoNamespace(t)["west"]}, "rules", 0)
      /\ Is(p[k + 5], "east", "apply", {bookinfoNamespace(t)["east"]}, "bookinfo", 0)
      /\ Is(p[k + 6], "east", "apply", {bookinfoNamespace(t)["east"]}, "ratings", 0)
      /\ Is(p[k + 7], "east", "apply", {bookinfoNamespace(t)["east"]}, "gateway", 0)
      /\ Is(p[k + 8], "east", "apply", {bookinfoNamespace(t)["east"]}, "rules", 0)
      /\ Is(p[k + 9], "east", "apply", {bookinfoNamespace(t)["east"]}, "reviewsV3", 0)
      /\ Is(p[k + 10], "east", "apply", {bookinfoNamespace(t)["east"]}, "mongodbService", 0)
      /\ Is(p[k + 11], "east", "apply", {bookinfoNamespace(t)["east"]}, "remoteMongodb", 0)
      /\ Is(p[k + 12], "east", "apply", {bookinfoNamespace(t)["east"]}, "ratingsSplit", 0)
  BY ApplyIs DEF Bookinfo
<1>2. i \in {k + 1, k + 2, k + 3, k + 4, k + 5, k + 6, k + 7, k + 8, k + 9, k + 10, k + 11, k + 12}
  OBVIOUS
<1> QED BY <1>1, <1>2 DEF Is, Ordinary, Placed, Sides, Namespaces, Mesh

\* ... (those of the failover test), ...
LEMMA FailoverBookinfoPlaced ==
  ASSUME NEW p, NEW t \in Names, NEW K \in Nat, NEW L \in Nat,
         NEW k \in Nat, FailoverBookinfo(p, k, t),
         NEW i \in k + 1..k + 7
  PROVE  Ordinary(p[i], t) /\ Placed(p[i], i, t, K, L)
<1>1. /\ Is(p[k + 1], "west", "apply", {bookinfoNamespace(t)["west"]}, "ratings", 0)
      /\ Is(p[k + 2], "west", "apply", {bookinfoNamespace(t)["west"]}, "rules", 0)
      /\ Is(p[k + 3], "east", "apply", {bookinfoNamespace(t)["east"]}, "ratings", 0)
      /\ Is(p[k + 4], "east", "apply", {bookinfoNamespace(t)["east"]}, "gateway", 0)
      /\ Is(p[k + 5], "east", "apply", {bookinfoNamespace(t)["east"]}, "rules", 0)
      /\ Is(p[k + 6], "east", "apply", {bookinfoNamespace(t)["east"]}, "reviewsV3", 0)
      /\ Is(p[k + 7], "east", "apply", {bookinfoNamespace(t)["east"]}, "failoverRule", 0)
  BY ApplyIs DEF FailoverBookinfo
<1>2. i \in {k + 1, k + 2, k + 3, k + 4, k + 5, k + 6, k + 7}
  OBVIOUS
<1> QED BY <1>1, <1>2 DEF Is, Ordinary, Placed, Sides, Namespaces, Mesh

\* ... the connection, ...
LEMMA ConnectedPlaced ==
  ASSUME NEW p, NEW t \in Names, NEW K \in Nat, NEW L \in Nat,
         NEW k \in Nat, Connected(p, k, t), k > L + 8,
         NEW i \in k + 1..k + 4
  PROVE  Ordinary(p[i], t) /\ Placed(p[i], i, t, K, L)
<1>1. /\ Is(p[k + 1], "west", "podsReady", {bookinfoNamespace(t)["west"]}, "none", 0)
      /\ Is(p[k + 2], "east", "podsReady", {bookinfoNamespace(t)["east"]}, "none", 0)
      /\ Is(p[k + 3], "west", "connected", {Mesh("west")}, "none", 3)
      /\ Is(p[k + 4], "east", "connected", {Mesh("east")}, "none", 3)
  BY CommandIs, UntilIs DEF Connected, connected, Mesh
<1>2. i \in {k + 1, k + 2, k + 3, k + 4}
  OBVIOUS
<1> QED BY <1>1, <1>2 DEF Is, Ordinary, Placed, Sides, Namespaces, Mesh

\* ... the comparison of counts, ...
LEMMA CountsPlaced ==
  ASSUME NEW p, NEW t \in Names, NEW K \in Nat, NEW L \in Nat, NEW k \in Nat, NEW n,
         NEW expect, Counts(p, k, n, expect), k > L + 8, n \in 4..7,
         NEW i \in k + 1..k + 3
  PROVE  Ordinary(p[i], t) /\ Placed(p[i], i, t, K, L)
<1>1. /\ Is(p[k + 1], "east", "count", {"none"}, "none", n)
      /\ Is(p[k + 2], "west", "count", {"none"}, "none", n)
      /\ Is(p[k + 3], "east", "compare", {"none"}, expect, n)
  BY UntilIs DEF Counts, Count, Compare_
<1>2. i \in {k + 1, k + 2, k + 3}
  OBVIOUS
<1> QED BY <1>1, <1>2 DEF Is, Ordinary, Placed, Sides, Namespaces, Mesh

\* ... the imported services, ...
LEMMA ImportsPlaced ==
  ASSUME NEW p, NEW t \in Names, NEW K \in Nat, NEW L \in Nat, NEW k \in Nat,
         NEW n, Imports(p, k, n), k > L + 8, n \in {0, 4},
         NEW i \in k + 1..k + 2
  PROVE  Ordinary(p[i], t) /\ Placed(p[i], i, t, K, L)
<1>1. /\ Is(p[k + 1], "east", "imports", {Mesh("east")}, "none", 4)
      /\ Is(p[k + 2], "east", "ask", {Mesh("east")}, "route", n)
  BY CommandIs, UntilIs DEF Imports, ImportedServices, GetRouteURL, Mesh
<1>2. i \in {k + 1, k + 2}
  OBVIOUS
<1> QED BY <1>1, <1>2 DEF Is, Ordinary, Placed, Sides, Namespaces, Mesh

\* ... the scaling, ...
LEMMA ScaledPlaced ==
  ASSUME NEW p, NEW t \in Names, NEW K \in Nat, NEW L \in Nat, NEW k \in Nat,
         NEW replicas, Scaled(p, k, replicas), t = "failover", replicas \in 0..1,
         NEW i \in k + 1..k + 2
  PROVE  Ordinary(p[i], t) /\ Placed(p[i], i, t, K, L)
<1>1. /\ Is(p[k + 1], "east", "scale", {bookinfoNamespace(t)["east"]}, replicas, 0)
      /\ Is(p[k + 2], "east", "ask", {bookinfoNamespace(t)["east"]}, "rollout", 0)
  BY CommandIs DEF Scaled
<1>2. i \in {k + 1, k + 2}
  OBVIOUS
<1> QED BY <1>1, <1>2 DEF Is, Ordinary, Placed, Sides, Namespaces, Mesh

\* ... and the exchange of certificates and addresses.
LEMMA ExchangePlaced ==
  ASSUME NEW p, NEW t \in Names, NEW K \in Nat, NEW L \in Nat,
         NEW k \in Nat, Exchange(p, k), k = L,
         NEW i \in k + 1..k + 8
  PROVE  Ordinary(p[i], t) /\ Placed(p[i], i, t, K, L)
<1>1. /\ Is(p[k + 1], "west", "certificate", {Mesh("west")}, "none", 0)
      /\ Is(p[k + 2], "east", "certificate", {Mesh("east")}, "none", 0)
      /\ Is(p[k + 3], "west", "apply", {Mesh("west")}, "trust", 0)
      /\ Is(p[k + 4], "west", "apply", {Mesh("west")}, "peer", 0)
      /\ Is(p[k + 5], "west", "apply", {Mesh("west")}, "services", 0)
      /\ Is(p[k + 6], "east", "apply", {Mesh("east")}, "trust", 0)
      /\ Is(p[k + 7], "east", "apply", {Mesh("east")}, "peer", 0)
      /\ Is(p[k + 8], "east", "apply", {Mesh("east")}, "services", 0)
  BY CommandIs, ApplyIs DEF Exchange
<1>2. i \in {k + 1, k + 2, k + 3, k + 4, k + 5, k + 6, k + 7, k + 8}
  OBVIOUS
<1> QED BY <1>1, <1>2 DEF Is, Ordinary, Placed, Sides, Namespaces, Mesh

\* So are all commands of the split and certs tests, ...
LEMMA DefaultPlaced ==
  ASSUME NEW p, NEW t \in Names, NEW single \in BOOLEAN, IsRun(p, t, single), t # "failover",
         NEW i \in 1..Len(p)
  PROVE  Ordinary(p[i], t) /\ Placed(p[i], i, t, BeforeMeshes(t), BeforeExchange(t, single))
<1> DEFINE K == BeforeMeshes(t)
           L == BeforeExchange(t, single)
<1>1. /\ K \in Nat /\ L \in Nat /\ Len(p) = L + 29
      /\ K = IF t = "certs" THEN 5 ELSE 3
      /\ L = IF single THEN K + 7 ELSE K + 8
  BY DEF IsRun, BeforeMeshes, BeforeExchange, Size, Names, Tests
<1>2. /\ single => ClusterIPs(p, K + 6)
      /\ ~single => LoadBalancers(p, K + 6)
      /\ DefaultRun(p, t, K, L)
  BY DEF IsRun
<1> HIDE DEF K, L
<1>3. /\ Start(p, 0, t)
      /\ t = "certs" => Secret(p, 3) /\ ControlPlane(p, K, "customSmcp")
      /\ t # "certs" => ControlPlane(p, K, "smcp")
      /\ Exchange(p, L) /\ Bookinfo(p, L + 8, t) /\ Connected(p, L + 20, t)
      /\ Imports(p, L + 24, 4) /\ Counts(p, L + 26, 4, "both")
  BY <1>1, <1>2 DEF DefaultRun, Checks
<1>4. /\ i \in 1..3 \/ (t = "certs" /\ i \in 4..5) \/ i \in K + 1..K + 6
         \/ (single /\ i = K + 7) \/ (~single /\ i \in K + 7..K + 8)
         \/ i \in L + 1..L + 8 \/ i \in L + 9..L + 20 \/ i \in L + 21..L + 24
         \/ i \in L + 25..L + 26 \/ i \in L + 27..L + 29
  BY <1>1
<1>5. CASE i \in 1..3
  BY <1>1, <1>3, <1>5, StartPlaced DEF K, L
<1>6. CASE t = "certs" /\ i \in 4..5
  BY <1>1, <1>3, <1>6, SecretPlaced DEF K, L
<1>7. CASE i \in K + 1..K + 6
  BY <1>1, <1>3, <1>7, ControlPlanePlaced DEF K, L
<1>8. CASE single /\ i = K + 7
  BY <1>1, <1>2, <1>8, ClusterIPsPlaced DEF K, L
<1>9. CASE ~single /\ i \in K + 7..K + 8
  BY <1>1, <1>2, <1>9, LoadBalancersPlaced DEF K, L
<1>10. CASE i \in L + 1..L + 8
  BY <1>1, <1>3, <1>10, ExchangePlaced DEF K, L
<1>11. CASE i \in L + 9..L + 20
  BY <1>1, <1>3, <1>11, BookinfoPlaced DEF K, L
<1>12. CASE i \in L + 21..L + 24
  BY <1>1, <1>3, <1>12, ConnectedPlaced DEF K, L
<1>13. CASE i \in L + 25..L + 26
  BY <1>1, <1>3, <1>13, ImportsPlaced DEF K, L
<1>14. CASE i \in L + 27..L + 29
  BY <1>1, <1>3, <1>14, CountsPlaced DEF K, L
<1> QED
  BY <1>4, <1>5, <1>6, <1>7, <1>8, <1>9, <1>10, <1>11, <1>12, <1>13, <1>14

\* ... of the failover test, ...
LEMMA FailoverPlaced ==
  ASSUME NEW p, NEW t \in Names, NEW single \in BOOLEAN, IsRun(p, t, single),
         t = "failover", ~single, NEW i \in 1..Len(p)
  PROVE  Ordinary(p[i], t) /\ Placed(p[i], i, t, 5, 13)
<1>1. Len(p) = 46 /\ LoadBalancers(p, 11) /\ FailoverRun(p, 13)
  BY DEF IsRun, BeforeMeshes, BeforeExchange, Size
<1>2. /\ Regions(p, 0) /\ Start(p, 2, t) /\ ControlPlane(p, 5, "smcp")
      /\ Exchange(p, 13) /\ FailoverBookinfo(p, 21, t) /\ Connected(p, 28, t)
      /\ Imports(p, 32, 0) /\ Counts(p, 34, 5, "eastOnly")
      /\ Scaled(p, 37, 0) /\ Scaled(p, 41, 1) /\ Counts(p, 43, 7, "eastOnly")
      /\ p[40] = Count(6, "west") /\ p[41] = Compare_(6, "west")
  BY <1>1 DEF FailoverRun, FailoverChecks
<1>3. /\ Is(p[40], "west", "count", {"none"}, "none", 6)
      /\ Is(p[41], "east", "compare", {"none"}, "west", 6)
  BY <1>2, UntilIs DEF Count, Compare_
<1>4. CASE i \in 0 + 1..0 + 2
  BY <1>2, <1>4, RegionsPlaced
<1>5. CASE i \in 2 + 1..2 + 3
  BY <1>2, <1>5, StartPlaced
<1>6. CASE i \in 5 + 1..5 + 6
  BY <1>2, <1>6, ControlPlanePlaced
<1>7. CASE i \in 11 + 1..11 + 2
  BY <1>1, <1>7, LoadBalancersPlaced
<1>8. CASE i \in 13 + 1..13 + 8
  BY <1>2, <1>8, ExchangePlaced
<1>9. CASE i \in 21 + 1..21 + 7
  BY <1>2, <1>9, FailoverBookinfoPlaced
<1>10. CASE i \in 28 + 1..28 + 4
  BY <1>2, <1>10, ConnectedPlaced
<1>11. CASE i \in 32 + 1..32 + 2
  BY <1>2, <1>11, ImportsPlaced
<1>12. CASE i \in 34 + 1..34 + 3
  BY <1>2, <1>12, CountsPlaced
<1>13. CASE i \in 37 + 1..37 + 2
  BY <1>2, <1>13, ScaledPlaced
<1>14. CASE i \in {40, 41}
  BY <1>3, <1>14 DEF Is, Ordinary, Placed, Sides
<1>15. CASE i \in 41 + 1..41 + 2
  BY <1>2, <1>15, ScaledPlaced
<1>16. CASE i \in 43 + 1..43 + 3
  BY <1>2, <1>16, CountsPlaced
<1> QED
  BY <1>1, <1>4, <1>5, <1>6, <1>7, <1>8, <1>9, <1>10, <1>11, <1>12, <1>13, <1>14, <1>15, <1>16

\* ... and of every test.
LEMMA RunPlaced ==
  ASSUME NEW p, NEW t \in Names, NEW single \in BOOLEAN, IsRun(p, t, single),
         ~(t = "failover" /\ single), NEW i \in 1..Len(p)
  PROVE  Ordinary(p[i], t) /\ Placed(p[i], i, t, BeforeMeshes(t), BeforeExchange(t, single))
<1>1. CASE t = "failover"
  <2>1. BeforeMeshes(t) = 5 /\ BeforeExchange(t, single) = 13
    BY <1>1 DEF BeforeMeshes, BeforeExchange
  <2> QED BY <1>1, <2>1, FailoverPlaced
<1> QED BY <1>1, DefaultPlaced

\* The program of every test is made of these parts.
LEMMA RunIs ==
  ASSUME NEW t \in Names, NEW single \in BOOLEAN, ~(t = "failover" /\ single)
  PROVE  IsRun(runs[t][single], t, single)
<1>1. t \in {"failover", "split", "certs"}
  BY DEF Names, Tests
<1> QED
  BY <1>1, SplitRun, SplitRunSingle, CertsRun, CertsRunSingle, FailoverRunIs

------------------------------------------------------------------------------
(***************************************************************************)
(* What a step does: to the place in the program, to KUBECONFIG, to the    *)
(* clusters and to what the test has read.                                 *)
(***************************************************************************)

\* The steps of the process that run a command, those of the clusters, and those from one
\* program to the next.
CommandStep ==
  \/ Apply_ \/ DeleteSecret \/ DeleteNamespace \/ Ask \/ RegisterCleanup
  \/ getRegionAndZone \/ WaitSMCPReady \/ ClusterIP \/ LoadBalancerAddress \/ GetConfigMapData
  \/ PodsReady \/ CheckConnected \/ Scale \/ RequestCount \/ Compare
  \/ SkipIfExists \/ ResourceExists \/ WaitFor
ClusterStep == Reconcile \/ Connect \/ MetalLBStarts
ProcessStep ==
  SetupDone \/ Skip \/ BodyEnds \/ CleanupEnds \/ NextTest \/ Rerun

\* Where the process may be after a command.
Forward == pc' = pc + 1 /\ UNCHANGED <<phase, result>>
Again == command.loop > 0 /\ pc' = FirstOfLoop /\ UNCHANGED <<phase, result>>
Skipped == command.do = "skipIfExists" /\ pc' = NextPart /\ UNCHANGED <<phase, result>>
Moves == Forward \/ Again \/ Stop(phase) \/ Skipped
\* What may be of KUBECONFIG.
Stays == UNCHANGED <<kubeconfig, leaked>>
Leaks == kubeconfig' = on /\ leaked' = (leaked \/ on # kubeconfig) /\ (Again \/ Stop(phase))
\* What may be of the flags.
Flags ==
  /\ attemptFailed' = attemptFailed \/ attemptFailed' \in BOOLEAN
  /\ \/ misread' = misread
     \/ command.do \in {"skipIfExists", "exists"} /\ misread' \in BOOLEAN /\ (misread => misread')
\* Where a command leads to that works or fails, ...
LEMMA WorksIs == 
  /\ Goes => Forward \/ Again \/ Stop(phase)
  /\ Failed => Again \/ Stop(phase)
<1>1. Failed => Again \/ Stop(phase)
  BY DEF Failed, Again
<1>2. Goes => Forward \/ Again \/ Stop(phase)
  BY <1>1 DEF Goes, Forward
<1> QED BY <1>1, <1>2

\* ... and what of the state each way to end may change.
LEMMA EndingsMove ==
  /\ Works => Moves /\ Kept /\ Ran /\ Stays /\ Flags
  /\ CheckFails => Moves /\ Kept /\ Ran /\ Stays /\ Flags
  /\ Fails => Moves /\ Kept /\ Ran /\ Stays /\ Flags
  /\ Breaks => Moves /\ Kept /\ Ran /\ Leaks /\ Flags
<1>1. Works => Moves /\ Kept /\ Ran /\ Stays /\ Flags
  BY WorksIs DEF Works, Moves, Stays, Flags, Goes, Failed, Stop
<1>2. CheckFails => Moves /\ Kept /\ Ran /\ Stays /\ Flags
  BY WorksIs DEF CheckFails, Moves, Stays, Forward, Flags, Failed, Stop
<1>3. Fails => Moves /\ Kept /\ Ran /\ Stays /\ Flags
  BY WorksIs DEF Fails, Moves, Stays, Flags, Failed, Stop
<1>4. Breaks => Moves /\ Kept /\ Ran /\ Leaks /\ Flags
  BY WorksIs DEF Breaks, Moves, Leaks, Flags, Failed, Stop
<1> QED BY <1>1, <1>2, <1>3, <1>4

\* Every command ends in one of these ways.
LEMMA Does ==
  ASSUME CommandStep
  PROVE  pc <= Len(program) /\ Moves /\ Kept /\ Ran /\ (Stays \/ Leaks) /\ Flags
<1> USE EndingsMove
<1>1. CASE Apply_
  BY <1>1 DEF Apply_, Doing
<1>2. CASE DeleteSecret
  BY <1>2 DEF DeleteSecret, Doing
<1>3. CASE DeleteNamespace
  BY <1>3 DEF DeleteNamespace, Doing
<1>4. CASE Ask
  BY <1>4 DEF Ask, Doing
<1>5. CASE RegisterCleanup
  BY <1>5 DEF RegisterCleanup, Doing
<1>6. CASE getRegionAndZone
  BY <1>6 DEF getRegionAndZone, Doing
<1>7. CASE WaitSMCPReady
  BY <1>7 DEF WaitSMCPReady, Doing
<1>8. CASE ClusterIP
  BY <1>8 DEF ClusterIP, Doing
<1>9. CASE LoadBalancerAddress
  BY <1>9 DEF LoadBalancerAddress, Doing
<1>10. CASE GetConfigMapData
  BY <1>10 DEF GetConfigMapData, Doing
<1>11. CASE PodsReady
  BY <1>11 DEF PodsReady, Doing
<1>12. CASE CheckConnected
  BY <1>12 DEF CheckConnected, Doing
<1>13. CASE Scale
  BY <1>13 DEF Scale, Doing
<1>14. CASE RequestCount
  BY <1>14 DEF RequestCount, Doing
<1>15. CASE Compare
  BY <1>15 DEF Compare, Doing
<1>16. CASE SkipIfExists
  <2>1. Forward \/ Skipped
    BY <1>16 DEF SkipIfExists, Doing, Forward, Skipped
  <2> QED BY <1>16, <2>1 DEF SkipIfExists, Doing, Moves, Stays, Flags
<1>17. CASE ResourceExists
  <2>1. CASE Goes /\ Ran /\ Kept /\ UNCHANGED <<kubeconfig, leaked, cluster, info>>
    BY <1>17, <2>1, WorksIs DEF ResourceExists, Doing, Moves, Stays, Flags, Goes, Failed, Stop
  <2> QED BY <1>17, <2>1 DEF ResourceExists, Doing
<1>18. CASE WaitFor
  BY <1>18 DEF WaitFor, Doing
<1> QED
  BY <1>1, <1>2, <1>3, <1>4, <1>5, <1>6, <1>7, <1>8, <1>9, <1>10, <1>11, <1>12, <1>13, <1>14,
      <1>15,
     <1>16, <1>17, <1>18 DEF CommandStep

\* Each command is run by the action for it.
LEMMA Dispatch ==
  ASSUME CommandStep
  PROVE  /\ command.do = "smcpReady" => WaitSMCPReady
         /\ command.do = "address" => LoadBalancerAddress
         /\ command.do = "clusterIP" => ClusterIP
         /\ command.do = "certificate" => GetConfigMapData
         /\ command.do \in {"apply", "create"} => Apply_
         /\ command.do = "delete" => DeleteSecret
         /\ command.do = "scale" => Scale
         /\ command.do = "deleteNs" => DeleteNamespace
         /\ command.do = "count" => RequestCount
         /\ command.do = "compare" => Compare
         /\ command.do = "region" => getRegionAndZone
         /\ command.do = "skipIfExists" => SkipIfExists
         /\ command.do = "exists" => ResourceExists
<1> DEFINE Dos == {command.do}
<1>1. /\ Apply_ => command.do \in {"apply", "create"}
      /\ DeleteSecret => command.do = "delete"
      /\ DeleteNamespace => command.do = "deleteNs"
      /\ Ask => command.do = "ask"
      /\ RegisterCleanup => command.do = "Cleanup"
      /\ getRegionAndZone => command.do = "region"
      /\ WaitSMCPReady => command.do = "smcpReady"
      /\ ClusterIP => command.do = "clusterIP"
      /\ LoadBalancerAddress => command.do = "address"
      /\ GetConfigMapData => command.do = "certificate"
      /\ PodsReady => command.do = "podsReady"
      /\ CheckConnected => command.do \in {"connected", "imports"}
      /\ Scale => command.do = "scale"
      /\ RequestCount => command.do = "count"
      /\ Compare => command.do = "compare"
      /\ SkipIfExists => command.do = "skipIfExists"
      /\ ResourceExists => command.do = "exists"
      /\ WaitFor => command.do = "available"
  BY DEF Apply_, DeleteSecret, DeleteNamespace, Ask, RegisterCleanup, getRegionAndZone,
      WaitSMCPReady,
         ClusterIP, LoadBalancerAddress, GetConfigMapData, PodsReady, CheckConnected, Scale, RequestCount,
         Compare, SkipIfExists, ResourceExists, WaitFor, Doing
<1> QED
  BY <1>1 DEF CommandStep

\* What a command does to the clusters, ...
Applies == \E objs \in SUBSET Manifest : cluster' = Put(cluster, objs)
DeletesSecret ==
  cluster' = {o \in cluster : ~(o.on = on /\ o.ns \in command.ns /\ o.what = command.what)}
DeletesNamespaces == cluster' = {o \in cluster : ~(o.on = on /\ o.ns \in command.ns)}
Scales ==
  LET ratings == {Object(on, ns, "ratings", <<>>) : ns \in command.ns}
  IN  cluster' = cluster \ ratings \/ cluster' = cluster \cup ratings
ClusterEffect ==
  \/ cluster' = cluster
  \/ command.do \in {"apply", "create"} /\ Applies
  \/ command.do = "delete" /\ DeletesSecret
  \/ command.do = "deleteNs" /\ DeletesNamespaces
  \/ command.do = "scale" /\ Scales
\* A command does no more to the clusters.
LEMMA OnClusters ==
  ASSUME CommandStep
  PROVE  ClusterEffect
<1>1. CASE Apply_
  <2>1. command.do \in {"apply", "create"}
    BY <1>1 DEF Apply_, Doing
  <2>2. ASSUME NEW o \in Manifest PROVE {o} \in SUBSET Manifest
    OBVIOUS
  <2>3. Manifest \in SUBSET Manifest
    OBVIOUS
  <2>4. cluster' = cluster \/ Applies
    BY <1>1, <2>2, <2>3 DEF Apply_, Applies
  <2> QED BY <2>1, <2>4 DEF ClusterEffect
<1>2. CASE DeleteSecret
  BY <1>2 DEF DeleteSecret, Doing, DeletesSecret, ClusterEffect
<1>3. CASE DeleteNamespace
  <2>1. PICK gone \in {command.ns, {}} : cluster' = {o \in cluster : ~(o.on = on /\ o.ns \in gone)}
    BY <1>3 DEF DeleteNamespace
  <2>2. cluster' = cluster \/ DeletesNamespaces
    BY <2>1 DEF DeletesNamespaces
  <2> QED BY <1>3, <2>2 DEF DeleteNamespace, Doing, ClusterEffect
<1>4. CASE Scale
  BY <1>4 DEF Scale, Doing, Scales, ClusterEffect
<1>5. CASE ~(Apply_ \/ DeleteSecret \/ DeleteNamespace \/ Scale)
  <2>1. cluster' = cluster
    BY <1>5 DEF CommandStep, Ask, RegisterCleanup, getRegionAndZone, WaitSMCPReady,
         ClusterIP, LoadBalancerAddress, GetConfigMapData, PodsReady, CheckConnected, RequestCount,
         Compare, SkipIfExists, ResourceExists, WaitFor, CheckFails
  <2> QED BY <2>1 DEF ClusterEffect
<1> QED BY <1>1, <1>2, <1>3, <1>4, <1>5

\* ... and to what the test has read.
InfoEffect ==
  \/ info' = info
  \/ command.do = "region" /\ command.side = "west" /\ info' = [info EXCEPT !.read["west"] = <<on>>]
  \/ command.do = "count" /\ info' = [info EXCEPT !.read[command.side] = <<on>>]
  \/ command.do = "clusterIP"
       /\ info' = [info EXCEPT !.address = [s \in Sides |-> <<on, smcpNamespace[s]>>]]
  \/ command.do = "address" /\ info' = [info EXCEPT !.address[command.side] = <<on, ns1>>]
  \/ command.do = "certificate"
       /\ info' = [info EXCEPT !.certificate[command.side] = The(on, ns1, "istiod").value]
\* It does no more to what was read.
LEMMA OnInfo ==
  ASSUME CommandStep
  PROVE  InfoEffect
<1>1. CASE getRegionAndZone
  BY <1>1 DEF getRegionAndZone, Doing, InfoEffect, Fails, Breaks
<1>2. CASE RequestCount
  BY <1>2 DEF RequestCount, Doing, InfoEffect, Breaks
<1>3. CASE ClusterIP
  BY <1>3 DEF ClusterIP, Doing, InfoEffect
<1>4. CASE LoadBalancerAddress
  BY <1>4 DEF LoadBalancerAddress, Doing, InfoEffect, Fails, Breaks
<1>5. CASE GetConfigMapData
  BY <1>5 DEF GetConfigMapData, Doing, InfoEffect, Breaks
<1>6. CASE ~(getRegionAndZone \/ RequestCount \/ ClusterIP \/ LoadBalancerAddress \/ GetConfigMapData)
  <2>1. info' = info
    BY <1>6 DEF CommandStep, Apply_, DeleteSecret, DeleteNamespace, Ask, RegisterCleanup,
        WaitSMCPReady,
         PodsReady, CheckConnected, Scale, Compare, SkipIfExists, ResourceExists, WaitFor, CheckFails, Breaks
  <2> QED BY <2>1 DEF InfoEffect
<1> QED BY <1>1, <1>2, <1>3, <1>4, <1>5, <1>6

------------------------------------------------------------------------------
(***************************************************************************)
(* The programs that install MetalLB and delete the namespaces.            *)
(***************************************************************************)
Metal == {metallbNamespace}
\* The commands that install MetalLB on one cluster, after the first k.
Installs(p, k, side, n) ==
  /\ p[k + 1] = Command(side, "skipIfExists", metallbNamespace, "operator")
  /\ p[k + 2] = Command(side, "ask", metallbNamespace, "version")
  /\ p[k + 3] = Apply(side, metallbNamespace, "subscription")
  /\ p[k + 4] = Until(n, Command(side, "exists", metallbNamespace, "operator"))
  /\ p[k + 5] = Available(side, "operatorAvailable")
  /\ p[k + 6] = Command(side, "skipIfExists", metallbNamespace, "controller")
  /\ p[k + 7] = Apply(side, metallbNamespace, "metallb")
  /\ p[k + 8] = Until(n + 1, Command(side, "exists", metallbNamespace, "controller"))
  /\ p[k + 9] = Available(side, "controllerAvailable")
  /\ p[k + 10] = Command(side, "skipIfExists", metallbNamespace, "pool")
  /\ p[k + 11] = Until(n + 2, Command(side, "ask", "none", "nodes"))
  /\ p[k + 12] = Apply(side, metallbNamespace, "pool")
\* The installation is that on the west cluster and then that on the east cluster.
LEMMA InstallIs ==
  Len(InstallIfNotExist) = 24 /\ Installs(InstallIfNotExist, 0, "west", 1)
    /\ Installs(InstallIfNotExist, 12, "east", 4)
<1> DEFINE p == InstallIfNotExist
<1> USE DEF InstallIfNotExist, installWithOC, installOperator, deployMetalLB, createAddressPool, Part
<1>1. Len(p) = 24
  OBVIOUS
<1>2. Installs(p, 0, "west", 1)
  BY DEF Installs
<1>3. Installs(p, 12, "east", 4)
  BY DEF Installs
<1> QED BY <1>1, <1>2, <1>3

\* The cleanup deletes all namespaces, with two clusters those of each side on its own.
LEMMA DeleteIs ==
  ASSUME NEW t, NEW single \in BOOLEAN, NEW p, p = DeleteNamespaces(t, single)
  PROVE  /\ single => /\ Len(p) = 1
                      /\ Is(p[1], "west", "deleteNs", Namespaces(t, "west") \cup Namespaces(t, "east"),
                            "none", 0)
         /\ ~single => /\ Len(p) = 2
                       /\ Is(p[1], "west", "deleteNs", Namespaces(t, "west"), "none", 0)
                       /\ Is(p[2], "east", "deleteNs", Namespaces(t, "east"), "none", 0)
<1>1. CASE single
  <2>1. p = <<InAll(Command("west", "deleteNs", "none", "none"),
                    Namespaces(t, "west") \cup Namespaces(t, "east"))>>
    BY <1>1 DEF DeleteNamespaces, Namespaces
  <2>2. Len(p) = 1 /\ p[1] = InAll(Command("west", "deleteNs", "none", "none"),
                                   Namespaces(t, "west") \cup Namespaces(t, "east"))
    BY <2>1
  <2>3. Is(p[1], "west", "deleteNs", Namespaces(t, "west") \cup Namespaces(t, "east"), "none", 0)
    BY <2>2, InAllIs
  <2> QED BY <1>1, <2>2, <2>3
<1>2. CASE ~single
  <2>1. p = <<InAll(Command("west", "deleteNs", "none", "none"), Namespaces(t, "west")),
              InAll(Command("east", "deleteNs", "none", "none"), Namespaces(t, "east"))>>
    BY <1>2 DEF DeleteNamespaces, Namespaces
  <2> QED BY <1>2, <2>1, InAllIs
<1> QED BY <1>1, <1>2

\* What holds of the installation's commands, by their number.
SetupCommand(c, i) ==
  /\ c.side = IF i <= 12 THEN "west" ELSE "east"
  /\ c.loop \in 0..6
  /\ c.do \in {"skipIfExists", "ask", "apply", "exists", "available"}
  /\ c.do = "skipIfExists" => i \in {1, 6, 10, 13, 18, 22}
  /\ i \in {1, 6, 10, 13, 18, 22} => c.do = "skipIfExists"
  /\ c.loop > 0 => c.do = "exists" \/ i \in {11, 23}
  /\ c.do = "apply" => c.what \in {"subscription", "metallb", "pool"}
  /\ i \notin {11, 23} => c.ns = Metal
  /\ c.do # "available" => c.unset = FALSE
  \* what the next part of the installation depends on
  /\ i \in {1, 4, 13, 16} => c.what = "operator"
  /\ i \in {6, 8, 18, 20} => c.what = "controller"
  /\ i \in {10, 12, 22, 24} => c.what = "pool"
  /\ i \in {4, 8, 16, 20} => c.do = "exists" /\ c.loop > 0
  /\ i \in {12, 24} => c.do = "apply" /\ c.loop = 0
  /\ i \in {5, 9, 17, 21} => c.loop = 0
  /\ c.loop = 6 <=> i = 23
  /\ i \in {11, 23} => c.do = "ask"
\* The fields of a WaitFor.
LEMMA AvailableIs ==
  ASSUME NEW side, NEW what
  PROVE  /\ Available(side, what).side = side
         /\ Available(side, what).do = "available"
         /\ Available(side, what).ns = Metal
         /\ Available(side, what).loop = 0
  BY DEF Available, Command, Metal

\* Every command of the installation is as it should be at its number.
LEMMA InstallCommands ==
  ASSUME NEW i \in 1..24
  PROVE  SetupCommand(InstallIfNotExist[i], i)
<1> DEFINE p == InstallIfNotExist
<1>1. ASSUME NEW k \in {0, 12}, NEW n \in {1, 4}, NEW side, Installs(p, k, side, n), NEW j \in 1..12,
             side = (IF k = 0 THEN "west" ELSE "east"), n = IF k = 0 THEN 1 ELSE 4
      PROVE  SetupCommand(p[k + j], k + j)
  <2>1. /\ Is(p[k + 1], side, "skipIfExists", Metal, "operator", 0)
        /\ Is(p[k + 2], side, "ask", Metal, "version", 0)
        /\ Is(p[k + 3], side, "apply", Metal, "subscription", 0)
        /\ Is(p[k + 4], side, "exists", Metal, "operator", n)
        /\ Is(p[k + 6], side, "skipIfExists", Metal, "controller", 0)
        /\ Is(p[k + 7], side, "apply", Metal, "metallb", 0)
        /\ Is(p[k + 8], side, "exists", Metal, "controller", n + 1)
        /\ Is(p[k + 10], side, "skipIfExists", Metal, "pool", 0)
        /\ Is(p[k + 11], side, "ask", {"none"}, "nodes", n + 2)
        /\ Is(p[k + 12], side, "apply", Metal, "pool", 0)
    BY <1>1, CommandIs, UntilIs, ApplyIs DEF Installs, Metal
  <2>2. /\ p[k + 5] = Available(side, "operatorAvailable")
        /\ p[k + 9] = Available(side, "controllerAvailable")
    BY <1>1 DEF Installs
  <2>3. CASE j = 5
    BY <1>1, <2>2, <2>3, AvailableIs DEF SetupCommand
  <2>4. CASE j = 9
    BY <1>1, <2>2, <2>4, AvailableIs DEF SetupCommand
  <2>5. CASE j \in {1, 2, 3, 4}
    BY <1>1, <2>1, <2>5 DEF SetupCommand, Is
  <2>6. CASE j \in {6, 7, 8}
    BY <1>1, <2>1, <2>6 DEF SetupCommand, Is
  <2>7. CASE j \in {10, 11, 12}
    BY <1>1, <2>1, <2>7 DEF SetupCommand, Is
  <2> QED BY <2>3, <2>4, <2>5, <2>6, <2>7
<1>2. CASE i <= 12
  BY <1>1, <1>2, InstallIs
<1>3. CASE i > 12
  <2>1. SetupCommand(p[12 + (i - 12)], 12 + (i - 12))
    BY <1>1, <1>3, InstallIs
  <2> QED BY <2>1
<1> QED BY <1>2, <1>3

------------------------------------------------------------------------------
(***************************************************************************)
(* Types.  The program that runs, and the place in it, depend on little of *)
(* the state.                                                              *)
(***************************************************************************)
\* There are three tests.
LEMMA NamesAre == Names = {"failover", "split", "certs"}
  BY DEF Names, Tests

\* What an environment consists of; a process that has not ended has a test to run.
LEMMA Environments ==
  ASSUME Base
  PROVE  /\ scenario.kubeconfig2 \in BOOLEAN /\ scenario.rosa \in BOOLEAN
         /\ scenario.metallb \in BOOLEAN
         /\ scenario.tests \in Seq(Names) /\ scenario.tests # <<>> /\ scenario.reruns \in Nat
         /\ TwoClusters \in BOOLEAN /\ MustSkip \in BOOLEAN
         /\ phase # "exited" => test \in Names
<1>1. scenario \in EnvironmentType /\ scenario.tests # <<>>
  BY FederationAssumption DEF Base
<1>2. phase # "exited" => test \in Names
  BY DEF Base, test
<1> QED BY <1>1, <1>2 DEF EnvironmentType, TwoClusters, MustSkip, Names

\* The programs of the phases.
LEMMA Programs ==
  ASSUME Base
  PROVE  /\ InTest => /\ IsRun(program, test, ~TwoClusters)
                      /\ ~(test = "failover" /\ ~TwoClusters)
         /\ phase = "test" /\ MustSkip => program = <<>>
         /\ phase = "cleanup" => program = DeleteNamespaces(test, ~TwoClusters)
         /\ phase = "setup" /\ scenario.metallb => program = InstallIfNotExist
         /\ phase = "setup" /\ ~scenario.metallb => program = <<>>
         /\ phase \notin {"setup", "test", "cleanup"} => program = <<>>
<1>1. ASSUME InTest
      PROVE  /\ IsRun(program, test, ~TwoClusters)
             /\ ~(test = "failover" /\ ~TwoClusters)
  <2>1. ~(test = "failover" /\ ~TwoClusters)
    BY <1>1, Environments DEF InTest, MustSkip, TwoClusters
  <2>2. program = runs[test][~TwoClusters]
    BY <1>1 DEF InTest, program
  <2> QED BY <1>1, <2>1, <2>2, RunIs, Environments DEF InTest
<1> QED BY <1>1 DEF program

\* The lengths of the programs.
LEMMA Sizes ==
  ASSUME Base
  PROVE  /\ Len(program) \in Nat
         /\ InTest => Len(program) = Size(test, ~TwoClusters)
         /\ phase = "cleanup" => Len(program) = IF TwoClusters THEN 2 ELSE 1
         /\ phase = "setup" /\ scenario.metallb => Len(program) = 24
<1>1. InTest => Len(program) = Size(test, ~TwoClusters)
  BY Programs DEF IsRun
<1>2. InTest => Size(test, ~TwoClusters) \in Nat
  BY DEF Size, BeforeExchange, BeforeMeshes
<1>3. phase = "cleanup" => Len(program) = IF TwoClusters THEN 2 ELSE 1
  BY Programs, DeleteIs, Environments
<1>4. phase = "setup" /\ scenario.metallb => Len(program) = 24
  BY Programs, InstallIs
<1>5. program = <<>> => Len(program) \in Nat
  OBVIOUS
<1> QED BY <1>1, <1>2, <1>3, <1>4, <1>5, Programs, Environments DEF InTest

\* A set of numbers has a smallest member ...
LEMMA NoneSmaller ==
  ASSUME NEW S, S \subseteq Nat, S # {}
  PROVE  \E x \in S : \A y \in S : ~(y < x)
<1>1. PICK x \in S : \A y \in S : ~(<<y, x>> \in OpToRel(<, Nat))
  BY NatLessThanWellFounded, WFMin, Zenon
<1>2. \A y \in S : ~(y < x)
  BY <1>1, Zenon DEF OpToRel
<1> QED BY <1>2, Zenon

\* ... that is at most each of the others.
LEMMA Smallest ==
  ASSUME NEW S, S \subseteq Nat, S # {}
  PROVE  \E x \in S : \A y \in S : x <= y
<1>1. PICK x \in S : \A y \in S : ~(y < x)
  BY NoneSmaller, Zenon
<1> QED BY <1>1

\* Another attempt begins with the first command of its loop.
LEMMA FirstIs ==
  ASSUME pc \in Nat, pc >= 1
  PROVE  /\ FirstOfLoop \in 1..pc
         /\ program[FirstOfLoop].loop = command.loop
         /\ \A j \in 1..FirstOfLoop - 1 : program[j].loop # command.loop
<1> DEFINE S == {i \in 1..pc : program[i].loop = command.loop}
           First(i) == /\ program[i].loop = command.loop
                       /\ \A j \in 1..i - 1 : program[j].loop # command.loop
<1>1. S \subseteq Nat /\ S # {}
  <2>1. pc \in S
    BY DEF command
  <2> QED BY <2>1
<1>2. PICK i \in S : \A j \in S : i <= j
  BY <1>1, Smallest, Zenon
<1>3. First(i)
  BY <1>2
<1>4. FirstOfLoop = CHOOSE x \in 1..pc : First(x)
  BY DEF FirstOfLoop
<1> HIDE DEF First
<1>5. FirstOfLoop \in 1..pc /\ First(FirstOfLoop)
  BY <1>2, <1>3, <1>4, Zenon
<1> QED BY <1>5 DEF First

\* What is skipped is one part of the installation.
LEMMA NextIs ==
  ASSUME Base, phase = "setup", scenario.metallb, pc \in 1..24, command.do = "skipIfExists"
  PROVE  \/ pc = 1 /\ NextPart = 6
         \/ pc = 6 /\ NextPart = 10
         \/ pc = 10 /\ NextPart = 13
         \/ pc = 13 /\ NextPart = 18
         \/ pc = 18 /\ NextPart = 22
         \/ pc = 22 /\ NextPart = 25
<1> DEFINE Next_(i) == /\ i <= 24 => EndsPart(program[i])
                       /\ \A j \in pc + 1..i - 1 : ~EndsPart(program[j])
<1>1. program = InstallIfNotExist /\ Len(program) = 24
  BY Programs, Sizes
<1>2. \A i \in 1..24 : EndsPart(program[i]) <=> i \in {1, 6, 10, 13, 18, 22}
  BY <1>1, InstallCommands DEF SetupCommand, EndsPart
<1>3. pc \in {1, 6, 10, 13, 18, 22}
  BY <1>2 DEF command, EndsPart
<1>4. NextPart = CHOOSE i \in pc + 1..25 : Next_(i)
  BY <1>1 DEF NextPart
<1>5. ASSUME NEW m \in pc + 1..25, Next_(m)
      PROVE  NextPart \in pc + 1..25 /\ Next_(NextPart)
  <2> HIDE DEF Next_
  <2> QED BY <1>4, <1>5, Zenon
<1>6. CASE pc = 1
  <2>1. Next_(6)
    BY <1>2, <1>6
  <2>2. NextPart \in pc + 1..25 /\ Next_(NextPart)
    BY <1>5, <1>6, <2>1
  <2> QED BY <1>2, <1>6, <2>2
<1>7. CASE pc = 6
  <2>1. Next_(10)
    BY <1>2, <1>7
  <2>2. NextPart \in pc + 1..25 /\ Next_(NextPart)
    BY <1>5, <1>7, <2>1
  <2> QED BY <1>2, <1>7, <2>2
<1>8. CASE pc = 10
  <2>1. Next_(13)
    BY <1>2, <1>8
  <2>2. NextPart \in pc + 1..25 /\ Next_(NextPart)
    BY <1>5, <1>8, <2>1
  <2> QED BY <1>2, <1>8, <2>2
<1>9. CASE pc = 13
  <2>1. Next_(18)
    BY <1>2, <1>9
  <2>2. NextPart \in pc + 1..25 /\ Next_(NextPart)
    BY <1>5, <1>9, <2>1
  <2> QED BY <1>2, <1>9, <2>2
<1>10. CASE pc = 18
  <2>1. Next_(22)
    BY <1>2, <1>10
  <2>2. NextPart \in pc + 1..25 /\ Next_(NextPart)
    BY <1>5, <1>10, <2>1
  <2> QED BY <1>2, <1>10, <2>2
<1>11. CASE pc = 22
  <2>1. Next_(25)
    BY <1>2, <1>11
  <2>2. NextPart \in pc + 1..25 /\ Next_(NextPart)
    BY <1>5, <1>11, <2>1
  <2> QED BY <1>2, <1>11, <2>2
<1> QED BY <1>3, <1>6, <1>7, <1>8, <1>9, <1>10, <1>11

\* The types are more than what the program depends on.
LEMMA BaseSuffices == TypeInv => Base
  BY DEF TypeInv, TypeOK, Base, Phases

\* Programs have a length.
LEMMA LengthIs == Base => Len(program) \in Nat
  BY Sizes

\* Initially the types are right.
LEMMA TypesInitially ==
  ASSUME Init
  PROVE  TypeInv
<1>1. Base
  BY FederationAssumption DEF Init, Base, Phases, EnvironmentType, Names
<1>2. scenario.reruns \in Nat
  BY <1>1, Environments
<1>3. Len(program) \in Nat
  BY <1>1, Sizes
<1>4. Shaped(NoInfo)
  BY DEF Shaped, NoInfo, Nothing
<1>5. result \in [Names -> Results]
  BY DEF Init, Names, Results
<1>6. TypeOK
  <2>1. reruns \in 0..scenario.reruns /\ pc \in 1..Len(program) + 1
    BY <1>2, <1>3 DEF Init
  <2>2. \A t \in DOMAIN result : result[t] \in {"none", "pass", "fail", "skip"}
    BY <1>5 DEF Results
  <2>3. /\ phase \in Phases /\ kubeconfig \in Sides /\ westRanOn \subseteq Sides
        /\ \A o \in cluster : o.on \in Sides
        /\ {attemptFailed, fresh, leaked, misread} \subseteq BOOLEAN
    BY DEF Init, Phases, Sides
  <2> QED BY <1>1, <2>1, <2>2, <2>3 DEF TypeOK, Base, Phases
<1> QED BY <1>1, <1>4, <1>5, <1>6 DEF TypeInv, Init, Base

\* The program depends on the environment, the tests to come and the phase.
LEMMA SameProgram ==
  ASSUME UNCHANGED <<scenario, todo, phase>>
  PROVE  /\ program' = program /\ TwoClusters' = TwoClusters /\ test' = test
         /\ MustSkip' = MustSkip
<1>1. TwoClusters' = TwoClusters /\ test' = test /\ MustSkip' = MustSkip
  BY DEF TwoClusters, test, MustSkip
<1> QED BY <1>1 DEF program

\* Commands run on one of the two clusters.
LEMMA OnSides ==
  ASSUME TypeInv
  PROVE  on \in Sides
  BY DEF on, ClusterOf, TypeInv, TypeOK, Sides

\* Reading a value keeps the record's shape.
LEMMA ShapedStays ==
  ASSUME NEW i, Shaped(i), NEW s \in Sides, NEW v
  PROVE  /\ Shaped([i EXCEPT !.read[s] = v])
         /\ Shaped([i EXCEPT !.certificate[s] = v])
         /\ Shaped([i EXCEPT !.address[s] = v])
<1> DEFINE a == i.address c == i.certificate r == i.read
<1>1. i = [address |-> a, certificate |-> c, read |-> r]
  BY DEF Shaped
<1>2. a = [x \in Sides |-> a[x]] /\ c = [x \in Sides |-> c[x]] /\ r = [x \in Sides |-> r[x]]
  BY DEF Shaped
<1>3. [i EXCEPT !.read[s] = v] = [address |-> a, certificate |-> c, read |-> [r EXCEPT ![s] = v]]
  BY <1>1
<1>4. [i EXCEPT !.certificate[s] = v] = [address |-> a, certificate |-> [c EXCEPT ![s] = v], read |-> r]
  BY <1>1
<1>5. [i EXCEPT !.address[s] = v] = [address |-> [a EXCEPT ![s] = v], certificate |-> c, read |-> r]
  BY <1>1
<1>6. \A f : f = [x \in Sides |-> f[x]] => [f EXCEPT ![s] = v] = [x \in Sides |-> [f EXCEPT ![s] = v][x]]
  OBVIOUS
<1> HIDE DEF a, c, r
<1> QED BY <1>2, <1>3, <1>4, <1>5, <1>6 DEF Shaped

\* A command runs at a place of the program of one of three phases.
LEMMA CommandKeepsBase ==
  ASSUME TypeInv, CommandStep
  PROVE  /\ Base'
         /\ pc \in 1..Len(program) /\ Len(program) \in Nat
         /\ phase \in {"setup", "test", "cleanup"}
         /\ phase = "test" => ~MustSkip
         /\ phase = "setup" => scenario.metallb
         /\ phase' \in {"setup", "test", "cleanup"} => pc' = 1 \/ phase' = phase
         /\ phase' # "exited"
<1>1. Base /\ Len(program) \in Nat
  BY BaseSuffices, Sizes
<1>2. pc \in 1..Len(program)
  BY <1>1, Does DEF TypeInv, TypeOK
<1>3. program # <<>>
  BY <1>2
<1>4. /\ phase \in {"setup", "test", "cleanup"}
      /\ phase = "test" => ~MustSkip
      /\ phase = "setup" => scenario.metallb
  BY <1>1, <1>3, Programs
<1>5. Kept /\ Moves
  BY Does
<1>6. /\ phase' \in Phases /\ phase' # "exited"
      /\ phase' \in {"setup", "test", "cleanup"} => pc' = 1 \/ phase' = phase
  BY <1>4, <1>5 DEF Moves, Forward, Again, Skipped, Stop, Phases
<1>7. Base'
  BY <1>1, <1>4, <1>5, <1>6 DEF Base, Kept
<1> QED BY <1>1, <1>2, <1>4, <1>6, <1>7

\* What holds of the command, in each of the phases.
TestCommand == InTest => Ordinary(command, test) /\ Placed(command, pc, test, MeshesAt, ExchangeAt)
InstallCommand == phase = "setup" => pc \in 1..24 /\ scenario.metallb /\ SetupCommand(command, pc)
CleanupCommand ==
  phase = "cleanup" =>
    /\ ~TwoClusters => /\ pc = 1
                       /\ Is(command, "west", "deleteNs",
                             Namespaces(test, "west") \cup Namespaces(test, "east"), "none", 0)
    /\ TwoClusters => \/ pc = 1 /\ Is(command, "west", "deleteNs", Namespaces(test, "west"), "none", 0)
                      \/ pc = 2 /\ Is(command, "east", "deleteNs", Namespaces(test, "east"), "none", 0)
\* These facts hold of the command that the process has come to, ...
LEMMA CommandFacts ==
  ASSUME Base, pc \in 1..Len(program)
  PROVE  /\ TestCommand /\ InstallCommand /\ CleanupCommand
         /\ InTest \/ phase = "setup" \/ phase = "cleanup"
<1>1. TestCommand
  <2>1. SUFFICES ASSUME InTest
                 PROVE  Ordinary(command, test) /\ Placed(command, pc, test, MeshesAt, ExchangeAt)
    BY DEF TestCommand
  <2>2. test \in Names /\ TwoClusters \in BOOLEAN
    BY <2>1, Environments DEF InTest
  <2>3. IsRun(program, test, ~TwoClusters) /\ ~(test = "failover" /\ ~TwoClusters)
    BY <2>1, Programs
  <2> QED BY <2>2, <2>3, RunPlaced DEF command, MeshesAt, ExchangeAt
<1>2. InstallCommand
  <2>1. SUFFICES ASSUME phase = "setup"
                 PROVE  pc \in 1..24 /\ scenario.metallb /\ SetupCommand(command, pc)
    BY DEF InstallCommand
  <2>2. scenario.metallb
    BY <2>1, Programs
  <2>3. program = InstallIfNotExist /\ Len(program) = 24
    BY <2>1, <2>2, Programs, Sizes
  <2> QED BY <2>2, <2>3, InstallCommands DEF command
<1>3. CleanupCommand
  <2>1. SUFFICES ASSUME phase = "cleanup" PROVE CleanupCommand
    BY DEF CleanupCommand
  <2>2. TwoClusters \in BOOLEAN
    BY Environments
  <2>3. program = DeleteNamespaces(test, ~TwoClusters)
    BY <2>1, Programs
  <2>4. CASE TwoClusters
    <3>1. Len(program) = 2
      BY <2>1, <2>4, Sizes, Zenon
    <3>2. pc \in {1, 2}
      BY <3>1
    <3> QED BY <2>2, <2>3, <2>4, <3>2, DeleteIs DEF command, CleanupCommand
  <2>5. CASE ~TwoClusters
    <3>1. Len(program) = 1
      BY <2>1, <2>5, Sizes, Zenon
    <3>2. pc = 1
      BY <3>1
    <3> QED BY <2>2, <2>3, <2>5, <3>2, DeleteIs DEF command, CleanupCommand
  <2> QED BY <2>4, <2>5
<1>4. program # <<>>
  OBVIOUS
<1>5. InTest \/ phase = "setup" \/ phase = "cleanup"
  BY <1>4, Programs DEF InTest
<1> QED BY <1>1, <1>2, <1>3, <1>5

\* ... and of the command of a step.
LEMMA StepFacts ==
  ASSUME TypeInv, CommandStep
  PROVE  /\ Base /\ TestCommand /\ InstallCommand /\ CleanupCommand
         /\ InTest \/ phase = "setup" \/ phase = "cleanup"
         /\ command.side \in Sides
         /\ command.do \in {"skipIfExists", "exists", "available"} => phase = "setup"
<1>1. Base /\ pc \in 1..Len(program)
  BY CommandKeepsBase, BaseSuffices
<1>2. /\ TestCommand /\ InstallCommand /\ CleanupCommand
      /\ InTest \/ phase = "setup" \/ phase = "cleanup"
  BY <1>1, CommandFacts
<1>3. CASE InTest
  BY <1>1, <1>2, <1>3 DEF TestCommand, Ordinary
<1>4. CASE phase = "setup"
  BY <1>1, <1>2, <1>4 DEF InstallCommand, SetupCommand, Sides
<1>5. CASE phase = "cleanup"
  BY <1>1, <1>2, <1>5, Environments DEF CleanupCommand, Is, Sides
<1> QED BY <1>1, <1>2, <1>3, <1>4, <1>5

\* Only the setup skips parts, and stays in its program.
LEMMA SkippedInSetup ==
  ASSUME TypeInv, CommandStep, command.do = "skipIfExists"
  PROVE  phase = "setup" /\ scenario.metallb /\ NextPart \in pc + 1..25
<1>1. phase = "setup" /\ scenario.metallb /\ pc \in 1..24 /\ Base
  BY StepFacts DEF InstallCommand
<1> QED BY <1>1, NextIs

\* A command leads to a place of the program that comes next.
LEMMA Lengths ==
  ASSUME TypeInv, CommandStep
  PROVE  pc' \in 1..Len(program') + 1
<1>1. /\ Base' /\ pc \in 1..Len(program) /\ Len(program) \in Nat
  BY CommandKeepsBase
<1>2. Len(program') \in Nat
  <2>1. Base' => (Len(program) \in Nat)'
    BY LengthIs, PTL
  <2> QED BY <1>1, <2>1
<1>3. Kept /\ Moves
  BY Does
<1>4. CASE phase' = phase
  <2>1. program' = program
    BY <1>3, <1>4, SameProgram DEF Kept
  <2>2. CASE Forward
    BY <1>1, <2>1, <2>2 DEF Forward
  <2>3. CASE Again
    BY <1>1, <2>1, <2>3, FirstIs DEF Again
  <2>4. CASE Skipped
    <3>1. NextPart \in pc + 1..25 /\ Len(program) = 24
      BY <2>4, SkippedInSetup, BaseSuffices, Sizes DEF Skipped
    <3> QED BY <1>1, <2>1, <2>4, <3>1 DEF Skipped
  <2>5. CASE Stop(phase)
    BY <1>2, <2>5 DEF Stop
  <2> QED BY <1>3, <2>2, <2>3, <2>4, <2>5 DEF Moves
<1>5. CASE phase' # phase
  BY <1>2, <1>3, <1>5 DEF Moves, Forward, Again, Skipped, Stop
<1> QED BY <1>4, <1>5

\* Commands keep the types, ...
LEMMA CommandKeepsTypes ==
  ASSUME TypeInv, CommandStep
  PROVE  TypeInv'
<1>1. Base /\ Base' /\ phase # "exited"
  BY CommandKeepsBase, BaseSuffices
<1>2. Kept /\ Moves /\ Ran /\ (Stays \/ Leaks) /\ Flags
  BY Does
<1>3. on \in Sides /\ test \in Names
  BY <1>1, OnSides, Environments
<1>4. reruns' \in 0..scenario'.reruns
  BY <1>2 DEF Kept, TypeInv, TypeOK
<1>5. result' \in [Names -> Results]
  BY <1>2, <1>3 DEF TypeInv, Moves, Forward, Again, Skipped, Stop, Results
<1>6. kubeconfig' \in Sides
  BY <1>2, <1>3 DEF Stays, Leaks, TypeInv, TypeOK
<1>7. \A o \in cluster' : o.on \in Sides
  <2>1. \A o \in cluster : o.on \in Sides
    BY DEF TypeInv, TypeOK
  <2>2. CASE Applies
    <3>1. PICK objs \in SUBSET Manifest : cluster' = Put(cluster, objs)
      BY <2>2 DEF Applies
    <3>2. \A o \in Manifest : o.on = on
      BY DEF Manifest, Object
    <3> QED BY <1>3, <2>1, <3>1, <3>2 DEF Put
  <2>3. CASE Scales
    BY <1>3, <2>1, <2>3 DEF Scales, Object
  <2>4. CASE cluster' = cluster \/ DeletesSecret \/ DeletesNamespaces
    BY <2>1, <2>4 DEF DeletesSecret, DeletesNamespaces
  <2> QED BY <2>2, <2>3, <2>4, OnClusters DEF ClusterEffect
<1>8. westRanOn' \subseteq Sides
  BY <1>2, <1>3 DEF Ran, TypeInv, TypeOK
<1>9. {attemptFailed', fresh', leaked', misread'} \subseteq BOOLEAN
  BY <1>2 DEF Flags, Kept, Stays, Leaks, TypeInv, TypeOK
<1>10. Shaped(info)'
  <2>1. Shaped(info)
    BY DEF TypeInv
  <2>2. command.side \in Sides /\ "west" \in Sides
    BY StepFacts DEF Sides
  <2>3. CASE info' = [info EXCEPT !.address = [s \in Sides |-> <<on, smcpNamespace[s]>>]]
    BY <2>1, <2>3 DEF Shaped
  <2>4. CASE info' = [info EXCEPT !.read["west"] = <<on>>]
    BY <2>1, <2>2, <2>4, ShapedStays, Zenon
  <2>5. CASE info' = [info EXCEPT !.read[command.side] = <<on>>]
    BY <2>1, <2>2, <2>5, ShapedStays, Zenon
  <2>6. CASE info' = [info EXCEPT !.address[command.side] = <<on, ns1>>]
    BY <2>1, <2>2, <2>6, ShapedStays, Zenon
  <2>7. CASE info' = [info EXCEPT !.certificate[command.side] = The(on, ns1, "istiod").value]
    BY <2>1, <2>2, <2>7, ShapedStays, Zenon
  <2> QED BY <2>1, <2>3, <2>4, <2>5, <2>6, <2>7, OnInfo, Zenon DEF InfoEffect
<1>11. TypeOK'
  <2>1. \A t \in DOMAIN result' : result'[t] \in {"none", "pass", "fail", "skip"}
    BY <1>5 DEF Results
  <2> QED BY <1>1, <1>4, <1>6, <1>7, <1>8, <1>9, <2>1, Lengths DEF TypeOK, Base, Phases
<1> QED BY <1>1, <1>5, <1>10, <1>11 DEF TypeInv, Base

\* ... what the clusters do on their own does, ...
LEMMA ClusterKeepsTypes ==
  ASSUME TypeInv, ClusterStep
  PROVE  TypeInv' /\ ClusterOnly
<1>1. ClusterOnly
  BY DEF ClusterStep, Reconcile, Connect, MetalLBStarts
<1>2. program' = program
  BY <1>1, SameProgram DEF ClusterOnly
<1>3. \A o \in cluster' : o.on \in Sides
  <2>1. \A o \in cluster : o.on \in Sides
    BY DEF TypeInv, TypeOK
  <2>2. CASE Reconcile
    BY <2>1, <2>2 DEF Reconcile, Put, Object
  <2>3. CASE Connect
    <3>1. \A m \in Meshes : m[1] \in Sides
      BY DEF Meshes
    <3> QED BY <2>1, <2>3, <3>1 DEF Connect, Object
  <2>4. CASE MetalLBStarts
    BY <2>1, <2>4 DEF MetalLBStarts, Object
  <2> QED BY <2>2, <2>3, <2>4 DEF ClusterStep
<1> QED BY <1>1, <1>2, <1>3 DEF ClusterOnly, history, TypeInv, TypeOK, Shaped

\* ... and beginning or ending a program does.
LEMMA ProcessKeepsTypes ==
  ASSUME TypeInv, ProcessStep
  PROVE  TypeInv'
<1>1. Base /\ scenario.reruns \in Nat /\ DOMAIN result = Names
  BY BaseSuffices, Environments DEF TypeInv
<1>2. /\ scenario' = scenario /\ todo' \in Seq(Names) /\ pc' = 1
      /\ phase' \in Phases /\ (phase' # "exited" => todo' # <<>>)
  <2>1. todo \in Seq(Names) /\ (phase # "exited" => todo # <<>>)
    BY <1>1 DEF Base
  <2>2. CASE SetupDone
    BY <2>1, <2>2 DEF SetupDone, Begin, Goto, Phases
  <2>3. CASE Skip \/ NextTest
    <3>1. Tail(todo) \in Seq(Names)
      BY <2>1, <2>3 DEF Skip, NextTest
    <3> QED BY <2>3, <3>1 DEF Skip, NextTest, Begin, Goto, Phases
  <2>4. CASE BodyEnds \/ CleanupEnds
    BY <2>1, <2>4 DEF BodyEnds, CleanupEnds, Kept, Phases
  <2>5. CASE Rerun
    <3>1. PICK t \in Names : todo' = <<t>>
      BY <1>1, <2>5 DEF Rerun
    <3> QED BY <2>5, <3>1 DEF Rerun, Goto, Phases
  <2> QED BY <2>2, <2>3, <2>4, <2>5 DEF ProcessStep
<1>3. Base'
  BY <1>1, <1>2 DEF Base
<1>4. Len(program') \in Nat
  <2>1. Base' => (Len(program) \in Nat)'
    BY LengthIs, PTL
  <2> QED BY <1>3, <2>1
<1>5. pc' \in 1..Len(program') + 1
  BY <1>2, <1>4
<1>6. reruns' \in 0..scenario'.reruns
  BY <1>1, <1>2 DEF ProcessStep, SetupDone, Skip, BodyEnds, CleanupEnds, NextTest, Rerun,
      Kept, Goto,
                    TypeInv, TypeOK
<1>7. result' \in [Names -> Results]
  BY DEF ProcessStep, SetupDone, Skip, BodyEnds, CleanupEnds, NextTest, Rerun, Kept, TypeInv,
      Results
<1>8. \A o \in cluster' : o.on \in Sides
  BY DEF ProcessStep, SetupDone, Skip, BodyEnds, CleanupEnds, NextTest, Rerun, TypeInv, TypeOK
<1>9. kubeconfig' \in Sides /\ westRanOn' \subseteq Sides
  BY DEF ProcessStep, SetupDone, Skip, BodyEnds, CleanupEnds, NextTest, Rerun, Begin, Kept,
      TypeInv, TypeOK, Sides
<1>10. Shaped(info')
  <2>1. Shaped(NoInfo)
    BY DEF Shaped, NoInfo, Nothing
  <2>2. info' = info \/ info' = NoInfo
    BY DEF ProcessStep, SetupDone, Skip, BodyEnds, CleanupEnds, NextTest, Rerun, Begin, Goto
  <2> QED BY <2>1, <2>2 DEF TypeInv
<1>11. {attemptFailed', fresh', leaked', misread'} \subseteq BOOLEAN
  <2>1. {attemptFailed, fresh, leaked, misread} \subseteq BOOLEAN
    BY DEF TypeInv, TypeOK
  <2>2. attemptFailed' \in BOOLEAN /\ leaked' \in BOOLEAN /\ misread' \in BOOLEAN
    BY <2>1 DEF ProcessStep, SetupDone, Skip, BodyEnds, CleanupEnds, NextTest, Rerun, Begin,
        Goto, Kept
  <2>3. fresh' \in BOOLEAN
    BY <2>1 DEF ProcessStep, SetupDone, Skip, BodyEnds, CleanupEnds, NextTest, Rerun, Begin,
        Kept
  <2> QED BY <2>2, <2>3
<1>12. TypeOK'
  <2>1. \A t \in DOMAIN result' : result'[t] \in {"none", "pass", "fail", "skip"}
    BY <1>7 DEF Results
  <2> QED BY <1>2, <1>3, <1>5, <1>6, <1>8, <1>9, <1>11, <2>1 DEF TypeOK, Base, Phases
<1> QED BY <1>2, <1>7, <1>10, <1>12 DEF TypeInv, Shaped

\* There are no other steps.
LEMMA Steps ==
  ASSUME [Next]_vars
  PROVE  CommandStep \/ ProcessStep \/ ClusterStep \/ UNCHANGED vars
  BY DEF Next, CommandStep, ProcessStep, ClusterStep, Done

\* Doing nothing keeps the types.
LEMMA TypesStutter ==
  ASSUME TypeInv, UNCHANGED vars
  PROVE  TypeInv'
<1>1. program' = program
  BY SameProgram DEF vars
<1> QED BY <1>1 DEF vars, history, TypeInv, TypeOK, Shaped

(***************************************************************************)
(* The types of the state, with those of the results: the invariant that   *)
(* all other proofs rest on.                                               *)
(***************************************************************************)
THEOREM TypesInvariant == Spec => []TypeInv
<1>1. Init => TypeInv
  BY TypesInitially
<1>2. TypeInv /\ [Next]_vars => TypeInv'
  BY Steps, CommandKeepsTypes, ProcessKeepsTypes, ClusterKeepsTypes, TypesStutter
<1> QED BY <1>1, <1>2, PTL DEF Spec

(***************************************************************************)
(* The types that the run checks.                                          *)
(***************************************************************************)
THEOREM FederationTypes == Spec => []TypeOK
<1>1. TypeInv => TypeOK
  BY DEF TypeInv
<1> QED BY <1>1, TypesInvariant, PTL

------------------------------------------------------------------------------
(***************************************************************************)
(* KUBECONFIG: where it is changed, and where the commands run.            *)
(***************************************************************************)
\* Another phase of the same test has the same clusters.
LEMMA SameTest ==
  ASSUME UNCHANGED <<scenario, todo>>, phase # "setup", phase' # "setup"
  PROVE  TwoClusters' = TwoClusters /\ test' = test /\ MustSkip' = MustSkip
  BY DEF TwoClusters, test, MustSkip

\* Where a command runs.
LEMMA OnIs ==
  ASSUME TypeInv, CommandStep
  PROVE  /\ on \in Sides /\ kubeconfig \in Sides /\ TwoClusters \in BOOLEAN
         /\ command.side = "west" => on = kubeconfig
         /\ ~TwoClusters => on = kubeconfig
         /\ command.side = "east" /\ TwoClusters /\ phase # "setup" => on = "east"
         /\ command.side = "east" /\ TwoClusters /\ command.do # "available" => on = "east"
         /\ on = kubeconfig \/ on = "east"
<1>1. /\ Base /\ TestCommand /\ InstallCommand /\ CleanupCommand
      /\ InTest \/ phase = "setup" \/ phase = "cleanup"
      /\ command.side \in Sides
  BY StepFacts
<1>2. phase # "setup" \/ command.do # "available" => command.unset = FALSE
  BY <1>1, Environments DEF TestCommand, InstallCommand, CleanupCommand, Ordinary,
      SetupCommand, Is
<1>3. kubeconfig \in Sides /\ TwoClusters \in BOOLEAN
  BY <1>1, Environments DEF TypeInv, TypeOK
<1> QED BY <1>1, <1>2, <1>3, OnSides DEF on, ClusterOf, Sides

\* No command leads from one test to another, or back to the setup.
LEMMA TheSameTest ==
  ASSUME TypeInv, CommandStep, phase # "setup"
  PROVE  /\ TwoClusters' = TwoClusters /\ test' = test /\ MustSkip' = MustSkip
         /\ phase' # "setup" /\ phase' # "cleaned" /\ UNCHANGED <<scenario, todo>>
<1>1. UNCHANGED <<scenario, todo>> /\ Moves
  BY Does DEF Kept
<1>2. phase' # "setup" /\ phase' # "cleaned"
  BY <1>1, CommandKeepsBase DEF Moves, Forward, Again, Skipped, Stop
<1> QED BY <1>1, <1>2, SameTest

\* A command of the setup stays in it, or the process crashes.
LEMMA FromSetup ==
  ASSUME TypeInv, CommandStep, phase = "setup"
  PROVE  /\ phase' \in {"setup", "crashed"}
         /\ scenario' = scenario
         /\ pc \in 1..24 /\ scenario.metallb /\ SetupCommand(command, pc)
         /\ phase' = "setup" => /\ program' = program /\ TwoClusters' = TwoClusters /\ Len(program) = 24
                                /\ Forward \/ Again \/ Skipped
<1>1. UNCHANGED <<scenario, todo>> /\ Moves
  BY Does DEF Kept
<1>2. phase' \in {"setup", "crashed"} /\ (phase' = "setup" => Forward \/ Again \/ Skipped)
  BY <1>1 DEF Moves, Forward, Again, Skipped, Stop
<1>3. pc \in 1..24 /\ scenario.metallb /\ SetupCommand(command, pc) /\ Base
  BY StepFacts DEF InstallCommand
<1>4. Len(program) = 24
  BY <1>3, Sizes
<1> QED BY <1>1, <1>2, <1>3, <1>4, SameProgram

\* Commands, ...
LEMMA CommandKeepsKube ==
  ASSUME TypeInv, KubeInv, CommandStep
  PROVE  KubeInv'
<1>1. Kept /\ Moves /\ Ran /\ (Stays \/ Leaks)
  BY Does
<1>2. ~leaked' => kubeconfig' = "west"
  <2>1. leaked \in BOOLEAN
    BY DEF TypeInv, TypeOK
  <2>2. CASE Stays
    BY <2>2 DEF KubeInv, Stays
  <2>3. CASE Leaks
    BY <2>1, <2>3 DEF KubeInv, Leaks
  <2> QED BY <1>1, <2>2, <2>3
<1>3. CASE phase = "setup"
  <2>1. ASSUME phase' = "setup"
        PROVE  kubeconfig' = "west" \/ (pc' >= 23 /\ scenario'.kubeconfig2)
    <3>1. /\ pc \in 1..24 /\ SetupCommand(command, pc)
          /\ Forward \/ Again \/ Skipped
          /\ scenario' = scenario
      BY <1>3, <2>1, FromSetup
    <3>2. Again => pc' \in 1..pc /\ program[pc'].loop = command.loop
      BY <3>1, FirstIs DEF Again
    <3>3. Again /\ pc >= 23 => pc' = 23
      <4>1. SUFFICES ASSUME Again, pc >= 23 PROVE pc' = 23
        OBVIOUS
      <4>2. pc = 23 /\ command.loop = 6 /\ program[pc'].loop = 6
        BY <3>1, <3>2, <4>1 DEF Again, SetupCommand
      <4>3. SetupCommand(program[pc'], pc')
        <5>1. Base /\ scenario.metallb
          BY <1>3, BaseSuffices, FromSetup
        <5>2. program = InstallIfNotExist /\ pc' \in 1..24
          BY <1>3, <3>2, <4>1, <4>2, <5>1, Programs
        <5> QED BY <5>2, InstallCommands
      <4> QED BY <3>2, <4>1, <4>2, <4>3 DEF SetupCommand
    <3>4. Skipped => pc < 23
      BY <3>1 DEF Skipped, SetupCommand
    <3>5. CASE Stays
      BY <1>3, <3>1, <3>3, <3>4, <3>5 DEF KubeInv, Stays, Forward
    <3>6. CASE Leaks /\ kubeconfig' # "west"
      <4>1. on = "east" /\ Again /\ command.loop > 0
        BY <1>3, <2>1, <3>6, OnIs DEF Leaks, Sides, Stop, Again
      <4>2. command.do # "exists"
        <5>1. SUFFICES ASSUME command.do = "exists" PROVE FALSE
          OBVIOUS
        <5>2. kubeconfig' = kubeconfig
          BY <5>1, Dispatch DEF ResourceExists, Works, CheckFails
        <5>3. kubeconfig = "east" /\ pc >= 23
          BY <1>3, <3>6, <4>1, <5>2 DEF KubeInv, Leaks
        <5> QED BY <3>1, <4>1, <5>1, <5>3 DEF SetupCommand
      <4>3. pc = 23
        <5>1. pc # 11
          BY <1>3, <3>1, <4>1, OnIs DEF SetupCommand, KubeInv
        <5> QED BY <3>1, <4>1, <4>2, <5>1 DEF SetupCommand
      <4>4. scenario.kubeconfig2
        BY <1>3, <4>1, OnIs, StepFacts, Environments DEF KubeInv, TwoClusters
      <4> QED BY <3>1, <3>3, <4>1, <4>3, <4>4
    <3> QED BY <1>1, <3>5, <3>6
  <2> QED BY <1>2, <1>3, <2>1, FromSetup DEF KubeInv, Testing
<1>4. CASE phase # "setup"
  <2>1. TwoClusters' = TwoClusters /\ phase' # "setup" /\ phase' # "cleaned" /\ Testing
    BY <1>4, TheSameTest, CommandKeepsBase DEF Testing
  <2>2. Testing' /\ kubeconfig' = "west" => westRanOn' \subseteq {"west"}
    BY <1>1, <1>4, <2>1, OnIs, StepFacts DEF KubeInv, Ran, Stays, Leaks, Sides
  <2>3. Testing' /\ ~TwoClusters' => westRanOn' \subseteq {kubeconfig'}
    BY <1>1, <1>4, <2>1, OnIs DEF KubeInv, Ran, Stays, Leaks
  <2>4. phase' = "cleanup" /\ pc' > 1 => westRanOn' # {}
    <3>1. SUFFICES ASSUME phase' = "cleanup", pc' > 1 PROVE westRanOn' # {}
      OBVIOUS
    <3>2. phase = "cleanup" /\ (Forward \/ Again)
      BY <1>1, <1>4, <3>1, StepFacts DEF Moves, Stop, Forward, Again, Skipped
    <3>3. pc \in Nat /\ pc >= 1
      BY CommandKeepsBase
    <3>4. CASE pc = 1
      <4>1. command.side = "west"
        <5>1. Base /\ CleanupCommand
          BY StepFacts
        <5> QED BY <3>2, <3>4, <5>1, Environments DEF CleanupCommand, Is
      <4> QED BY <1>1, <3>2, <4>1 DEF Ran
    <3>5. CASE pc > 1
      BY <1>1, <3>2, <3>5 DEF KubeInv, Ran
    <3> QED BY <3>3, <3>4, <3>5
  <2> QED BY <1>2, <2>1, <2>2, <2>3, <2>4 DEF KubeInv
<1> QED BY <1>3, <1>4

\* ... clusters ...
LEMMA ClusterKeepsKube ==
  ASSUME TypeInv, KubeInv, ClusterOnly
  PROVE  KubeInv'
<1>1. TwoClusters' = TwoClusters
  BY SameProgram DEF ClusterOnly
<1> QED BY <1>1 DEF ClusterOnly, history, KubeInv, Testing

\* ... and processes keep what is known of KUBECONFIG.
LEMMA ProcessKeepsKube ==
  ASSUME TypeInv, KubeInv, ProcessStep
  PROVE  KubeInv'
<1>1. CASE SetupDone \/ Skip \/ NextTest
  BY <1>1 DEF SetupDone, Skip, NextTest, Begin, Goto, KubeInv, Testing
<1>2. CASE BodyEnds
  BY <1>2, SameTest DEF BodyEnds, Kept, KubeInv, Testing
<1>3. CASE CleanupEnds
  <2>1. pc > 1
    <3>1. Base /\ phase = "cleanup" /\ pc > Len(program)
      BY <1>3, BaseSuffices DEF CleanupEnds
    <3>2. Len(program) = 1 \/ Len(program) = 2
      BY <3>1, Sizes, Environments, Zenon
    <3>3. pc \in Nat
      <4>1. pc \in 1..Len(program) + 1 /\ Len(program) \in Nat
        BY <3>1, LengthIs DEF TypeInv, TypeOK
      <4> QED BY <4>1
    <3> QED BY <3>1, <3>2, <3>3
  <2> QED BY <1>3, <2>1, SameTest DEF CleanupEnds, Kept, KubeInv, Testing
<1>4. CASE Rerun
  BY <1>4 DEF Rerun, Goto, KubeInv, Testing
<1> QED BY <1>1, <1>2, <1>3, <1>4 DEF ProcessStep

------------------------------------------------------------------------------
(***************************************************************************)
(* MetalLB: a part is left behind only when it is there, and none of it is *)
(* ever removed.                                                           *)
(***************************************************************************)
\* Applying removes nothing without replacing it.
LEMMA PutHas ==
  ASSUME NEW S, NEW objs, NEW o \in S
  PROVE  \E p \in Put(S, objs) : p.on = o.on /\ p.ns = o.ns /\ p.what = o.what
<1>1. CASE o \in Put(S, objs)
  BY <1>1
<1>2. CASE o \notin Put(S, objs)
  <2>1. PICK p \in objs : <<o.on, o.ns, o.what>> = <<p.on, p.ns, p.what>>
    BY <1>2 DEF Put
  <2>2. p \in Put(S, objs) /\ p.on = o.on /\ p.ns = o.ns /\ p.what = o.what
    BY <2>1 DEF Put
  <2> QED BY <2>2
<1> QED BY <1>1, <1>2

\* Nothing that MetalLB consists of is ever removed.
LEMMA MetalStays ==
  ASSUME TypeInv, CommandStep \/ ClusterStep \/ ProcessStep, NEW c,
         NEW what \in Parts, There(c, what)
  PROVE  There(c, what)'
<1> DEFINE Same(o) == o.on = c /\ o.ns = metallbNamespace /\ o.what = what
<1>1. PICK o \in cluster : Same(o)
  BY DEF There, Has
<1>2. SUFFICES \E p \in cluster' : Same(p)
  BY DEF There, Has
<1>3. CASE CommandStep
  <2>1. /\ Base /\ TestCommand /\ InstallCommand /\ CleanupCommand
        /\ InTest \/ phase = "setup" \/ phase = "cleanup"
        /\ TwoClusters \in BOOLEAN
    BY <1>3, StepFacts, Environments
  <2>2. CASE Applies
    <3>1. PICK objs : cluster' = Put(cluster, objs)
      BY <2>2 DEF Applies
    <3>2. \E p \in Put(cluster, objs) : p.on = o.on /\ p.ns = o.ns /\ p.what = o.what
      BY <1>1, PutHas
    <3> QED BY <1>1, <3>1, <3>2
  <2>3. CASE command.do = "delete" /\ DeletesSecret
    <3>1. command.what = "cacerts"
      BY <2>1, <2>3 DEF TestCommand, InstallCommand, CleanupCommand, Ordinary, SetupCommand, Is
    <3>2. o \in cluster'
      BY <1>1, <2>3, <3>1 DEF DeletesSecret, Parts
    <3> QED BY <1>1, <3>2
  <2>4. CASE command.do = "deleteNs" /\ DeletesNamespaces
    <3>1. phase = "cleanup"
      BY <2>1, <2>4 DEF TestCommand, InstallCommand, Ordinary, SetupCommand
    <3>2. command.ns \subseteq Namespaces(test, "west") \cup Namespaces(test, "east")
      BY <2>1, <3>1 DEF CleanupCommand, Is
    <3>3. metallbNamespace \notin Namespaces(test, "west") \cup Namespaces(test, "east")
      BY DEF metallbNamespace, Namespaces, smcpNamespace, bookinfoNamespace
    <3>4. o \in cluster'
      BY <1>1, <2>4, <3>2, <3>3 DEF DeletesNamespaces
    <3> QED BY <1>1, <3>4
  <2>5. CASE Scales
    <3>1. o \in cluster'
      BY <1>1, <2>5 DEF Scales, Object, Parts
    <3> QED BY <1>1, <3>1
  <2>6. CASE cluster' = cluster
    BY <1>1, <2>6
  <2> QED BY <1>3, <2>2, <2>3, <2>4, <2>5, <2>6, OnClusters DEF ClusterEffect
<1>4. CASE Reconcile
  <2>1. PICK objs : cluster' = Put(cluster, objs)
    BY <1>4 DEF Reconcile
  <2>2. \E p \in Put(cluster, objs) : p.on = o.on /\ p.ns = o.ns /\ p.what = o.what
    BY <1>1, PutHas
  <2> QED BY <1>1, <2>1, <2>2
<1>5. CASE Connect \/ MetalLBStarts
  <2>1. cluster \subseteq cluster'
    BY <1>5 DEF Connect, MetalLBStarts
  <2> QED BY <1>1, <2>1
<1>6. CASE ProcessStep
  <2>1. cluster' = cluster
    BY <1>6 DEF ProcessStep, SetupDone, Skip, BodyEnds, CleanupEnds, NextTest, Rerun
  <2> QED BY <1>1, <2>1
<1> QED BY <1>3, <1>4, <1>5, <1>6 DEF ClusterStep

\* The installation runs where it should, but for WaitFor.
LEMMA OnInSetup ==
  ASSUME TypeInv, KubeInv, CommandStep, phase = "setup", command.do # "available"
  PROVE  on = IF pc <= 12 THEN "west" ELSE SecondCluster
<1>1. pc \in 1..24 /\ SetupCommand(command, pc)
  BY FromSetup
<1>2. scenario.kubeconfig2 \in BOOLEAN /\ TwoClusters = scenario.kubeconfig2
  BY StepFacts, Environments DEF TwoClusters
<1>3. CASE pc <= 12
  BY <1>1, <1>3, OnIs DEF SetupCommand, KubeInv
<1>4. CASE pc > 12
  BY <1>1, <1>2, <1>4, OnIs DEF SetupCommand, KubeInv, SecondCluster
<1> QED BY <1>1, <1>3, <1>4

\* Another attempt does not go forward.
LEMMA NeverBack ==
  ASSUME TypeInv, CommandStep, Failed, phase = "setup", phase' = "setup"
  PROVE  pc' \in 1..pc
<1>1. pc' = FirstOfLoop /\ pc \in 1..24
  BY FromSetup DEF Failed, Stop
<1> QED BY <1>1, FirstIs

\* What is applied is there.
LEMMA ManifestHas ==
  ASSUME command.what \in Kinds, command.what # "customSmcp", NEW ns \in command.ns,
         cluster' = Put(cluster, Manifest)
  PROVE  \E o \in cluster' : o.on = on /\ o.ns = ns /\ o.what = command.what
<1> DEFINE o == Object(on, ns, command.what, Value)
<1>1. o \in Manifest
  BY DEF Manifest
<1>2. o \in cluster'
  BY <1>1 DEF Put
<1>3. o.on = on /\ o.ns = ns /\ o.what = command.what
  BY DEF Object
<1> HIDE DEF o
<1> QED BY <1>2, <1>3

\* A part is left behind only when it is there.
LEMMA PartIsThere ==
  ASSUME TypeInv, KubeInv, CommandStep, phase = "setup", phase' = "setup", ~misread', pc' > pc,
         pc \in {4, 8, 12, 16, 20, 24} \/ pc' > pc + 1
  PROVE  \E o \in cluster' : o.on = on /\ o.ns = metallbNamespace /\ o.what = command.what
<1>1. /\ pc \in 1..24 /\ SetupCommand(command, pc) /\ scenario.metallb /\ Len(program) = 24
      /\ Base /\ program = InstallIfNotExist
  BY FromSetup, StepFacts, Programs
<1>2. ~Failed
  BY <1>1, NeverBack
<1>3. misread \in BOOLEAN /\ misread' \in BOOLEAN
  BY CommandKeepsTypes DEF TypeInv, TypeOK
<1>4. (metallbNamespace \in command.ns /\ command.ns = Metal) \/ pc \in {11, 23}
  BY <1>1 DEF SetupCommand, Metal
<1>5. CASE command.do = "exists"
  <2>1. pc \in {4, 8, 16, 20}
    <3>1. pc' = pc + 1
      BY <1>1, <1>5, <1>2, Dispatch DEF ResourceExists, Works, CheckFails, Goes, Stop
    <3> QED BY <1>1, <1>5, <3>1 DEF SetupCommand
  <2>2. LastOfLoop
    <3>1. SetupCommand(program[pc + 1], pc + 1) /\ pc + 1 \in {5, 9, 17, 21}
      BY <1>1, <2>1, InstallCommands
    <3>2. program[pc + 1].loop = 0 /\ command.loop > 0
      BY <1>1, <2>1, <3>1 DEF SetupCommand
    <3> QED BY <3>2 DEF LastOfLoop
  <2>3. ~CheckFails
    BY <1>2, <2>2 DEF CheckFails
  <2>4. HasAll(command.what) /\ cluster' = cluster
    BY <1>5, <2>3, Dispatch DEF ResourceExists
  <2> QED BY <1>4, <2>1, <2>4 DEF HasAll, Has
<1>6. CASE command.do = "apply"
  <2>1. pc \in {12, 24}
    <3>1. pc' = pc + 1
      BY <1>1, <1>6, <1>2, Dispatch DEF Apply_, Works, Breaks, Goes, Stop
    <3> QED BY <1>1, <1>6, <3>1 DEF SetupCommand
  <2>2. cluster' = Put(cluster, Manifest)
    BY <1>2, <1>6, Dispatch DEF Apply_, Breaks
  <2>3. command.what \in Kinds /\ command.what # "customSmcp"
    BY <1>1, <2>1 DEF SetupCommand, Kinds
  <2> QED BY <1>4, <2>1, <2>2, <2>3, ManifestHas
<1>7. CASE command.do = "skipIfExists"
  <2>1. PICK exists \in {HasAll(command.what), TRUE} :
          /\ pc' = IF exists THEN NextPart ELSE pc + 1
          /\ misread' = (misread \/ exists # HasAll(command.what))
    BY <1>7, Dispatch DEF SkipIfExists
  <2>2. cluster' = cluster
    BY <1>7, Dispatch DEF SkipIfExists
  <2>3. pc \notin {4, 8, 12, 16, 20, 24, 11, 23}
    BY <1>1, <1>7 DEF SetupCommand
  <2>4. exists
    BY <1>1, <2>1, <2>3
  <2>5. HasAll(command.what)
    BY <1>3, <2>1, <2>4, Zenon
  <2> QED BY <1>4, <2>2, <2>3, <2>5 DEF HasAll, Has
<1>8. CASE command.do \in {"ask", "available"}
  <2>1. pc \notin {4, 8, 12, 16, 20, 24}
    BY <1>1, <1>8 DEF SetupCommand
  <2>2. Forward \/ Again
    BY <1>8, FromSetup DEF Skipped
  <2>3. Again => pc' \in 1..pc
    BY <1>1, FirstIs DEF Again
  <2> QED BY <1>1, <2>1, <2>2, <2>3 DEF Forward
<1> QED BY <1>1, <1>5, <1>6, <1>7, <1>8 DEF SetupCommand

\* So the installation is complete as far as it has come.
LEMMA CommandInstalls ==
  ASSUME TypeInv, KubeInv, MetalInv, CommandStep, phase = "setup", phase' = "setup", ~misread'
  PROVE  InstalledSoFar'
<1>1. /\ pc \in 1..24 /\ SetupCommand(command, pc) /\ scenario.metallb
      /\ scenario' = scenario /\ Base
      /\ Forward \/ Again \/ Skipped
  BY FromSetup, StepFacts
<1>2. ~misread
  <2>1. misread => misread'
    BY Does DEF Flags
  <2> QED BY <2>1
<1>3. InstalledSoFar
  BY <1>1, <1>2 DEF MetalInv
<1>4. SecondCluster' = SecondCluster /\ SecondCluster \in Sides
  BY <1>1 DEF SecondCluster, Sides
<1>5. \A c \in Sides, what \in Parts : There(c, what) => There(c, what)'
  BY MetalStays
<1>6. pc' \in Nat /\ (pc' <= pc \/ pc' = pc + 1 \/ (pc = 1 /\ pc' = 6) \/ (pc = 6 /\ pc' = 10)
         \/ (pc = 10 /\ pc' = 13) \/ (pc = 13 /\ pc' = 18) \/ (pc = 18 /\ pc' = 22)
         \/ (pc = 22 /\ pc' = 25))
  <2>1. CASE Forward
    BY <1>1, <2>1 DEF Forward
  <2>2. CASE Again
    BY <1>1, <2>2, FirstIs DEF Again
  <2>3. CASE Skipped
    BY <1>1, <2>3, NextIs DEF Skipped
  <2> QED BY <1>1, <2>1, <2>2, <2>3
<1> DEFINE Crosses(x) == pc <= x /\ pc' > x
<1>7. ASSUME NEW x \in {4, 8, 12, 16, 20, 24}, Crosses(x), NEW c, NEW what,
             c = IF x <= 12 THEN "west" ELSE SecondCluster,
             what = IF x \in {4, 16} THEN "operator" ELSE IF x \in {8, 20} THEN "controller" ELSE "pool"
      PROVE  There(c, what)'
  <2>1. pc \in {4, 8, 12, 16, 20, 24} \/ pc' > pc + 1
    BY <1>1, <1>6, <1>7
  <2>2. pc' > pc
    BY <1>1, <1>6, <1>7
  <2>3. \E o \in cluster' : o.on = on /\ o.ns = metallbNamespace /\ o.what = command.what
    BY <2>1, <2>2, PartIsThere
  <2>4. pc \in {x, 1, 6, 10, 13, 18, 22} /\ (pc = x \/ (pc = 1 /\ x = 4) \/ (pc = 6 /\ x = 8)
          \/ (pc = 10 /\ x = 12) \/ (pc = 13 /\ x = 16) \/ (pc = 18 /\ x = 20) \/ (pc = 22 /\ x = 24))
    BY <1>1, <1>6, <1>7
  <2>5. command.do # "available"
    BY <1>1, <2>4 DEF SetupCommand
  <2>6. on = c
    BY <1>1, <1>7, <2>4, <2>5, OnInSetup
  <2>7. command.what = what
    BY <1>1, <1>7, <2>4 DEF SetupCommand
  <2> QED BY <2>3, <2>6, <2>7 DEF There, Has
<1>8. pc' > 4 => There("west", "operator")'
  <2>1. CASE pc > 4
    BY <1>3, <1>4, <1>5, <2>1 DEF InstalledSoFar, Sides, Parts
  <2>2. CASE ~(pc > 4) /\ pc' > 4
    <3>1. pc <= 4 /\ pc' > 4
      BY <1>1, <1>6, <2>2
    <3> QED BY <1>4, <1>7, <3>1
  <2> QED BY <2>1, <2>2
<1>9. pc' > 8 => There("west", "controller")'
  <2>1. CASE pc > 8
    BY <1>3, <1>4, <1>5, <2>1 DEF InstalledSoFar, Sides, Parts
  <2>2. CASE ~(pc > 8) /\ pc' > 8
    <3>1. pc <= 8 /\ pc' > 8
      BY <1>1, <1>6, <2>2
    <3> QED BY <1>4, <1>7, <3>1
  <2> QED BY <2>1, <2>2
<1>10. pc' > 12 => There("west", "pool")'
  <2>1. CASE pc > 12
    BY <1>3, <1>4, <1>5, <2>1 DEF InstalledSoFar, Sides, Parts
  <2>2. CASE ~(pc > 12) /\ pc' > 12
    <3>1. pc <= 12 /\ pc' > 12
      BY <1>1, <1>6, <2>2
    <3> QED BY <1>4, <1>7, <3>1
  <2> QED BY <2>1, <2>2
<1>11. pc' > 16 => There(SecondCluster, "operator")'
  <2>1. CASE pc > 16
    BY <1>3, <1>4, <1>5, <2>1 DEF InstalledSoFar, Sides, Parts
  <2>2. CASE ~(pc > 16) /\ pc' > 16
    <3>1. pc <= 16 /\ pc' > 16
      BY <1>1, <1>6, <2>2
    <3> QED BY <1>4, <1>7, <3>1
  <2> QED BY <2>1, <2>2
<1>12. pc' > 20 => There(SecondCluster, "controller")'
  <2>1. CASE pc > 20
    BY <1>3, <1>4, <1>5, <2>1 DEF InstalledSoFar, Sides, Parts
  <2>2. CASE ~(pc > 20) /\ pc' > 20
    <3>1. pc <= 20 /\ pc' > 20
      BY <1>1, <1>6, <2>2
    <3> QED BY <1>4, <1>7, <3>1
  <2> QED BY <2>1, <2>2
<1>13. pc' > 24 => There(SecondCluster, "pool")'
  <2>1. CASE pc > 24
    BY <1>3, <1>4, <1>5, <2>1 DEF InstalledSoFar, Sides, Parts
  <2>2. CASE ~(pc > 24) /\ pc' > 24
    <3>1. pc <= 24 /\ pc' > 24
      BY <1>1, <1>6, <2>2
    <3> QED BY <1>4, <1>7, <3>1
  <2> QED BY <2>1, <2>2
<1> QED BY <1>8, <1>9, <1>10, <1>11, <1>12, <1>13 DEF InstalledSoFar

\* Commands, ...
LEMMA CommandKeepsMetal ==
  ASSUME TypeInv, KubeInv, MetalInv, CommandStep
  PROVE  MetalInv'
<1>1. UNCHANGED <<scenario, todo>> /\ (misread => misread') /\ SecondCluster' = SecondCluster
  BY Does DEF Kept, Flags, SecondCluster
<1>2. CASE phase = "setup"
  BY <1>1, <1>2, CommandInstalls, FromSetup DEF MetalInv
<1>3. CASE phase # "setup"
  <2>1. phase \in {"test", "cleanup", "cleaned", "over"} /\ phase' # "setup"
    BY <1>3, TheSameTest, CommandKeepsBase
  <2>2. SecondCluster \in Sides
    BY DEF SecondCluster, Sides
  <2>3. ASSUME scenario.metallb, ~misread, NEW c \in {"west", SecondCluster}, NEW what \in Parts
        PROVE  There(c, what)'
    BY <2>1, <2>3, MetalStays DEF MetalInv
  <2> QED BY <1>1, <2>1, <2>3 DEF MetalInv
<1> QED BY <1>2, <1>3

\* ... clusters ...
LEMMA ClusterKeepsMetal ==
  ASSUME TypeInv, MetalInv, ClusterStep
  PROVE  MetalInv'
<1>1. UNCHANGED <<scenario, phase, pc, misread>> /\ SecondCluster' = SecondCluster
  BY ClusterKeepsTypes DEF ClusterOnly, history, SecondCluster
<1>2. ASSUME NEW c, NEW what \in Parts, There(c, what)
      PROVE  There(c, what)'
  BY <1>2, MetalStays
<1> QED BY <1>1, <1>2 DEF MetalInv, InstalledSoFar, Parts

\* ... and processes keep what is known of MetalLB.
LEMMA ProcessKeepsMetal ==
  ASSUME TypeInv, MetalInv, ProcessStep
  PROVE  MetalInv'
<1>1. SecondCluster' = SecondCluster /\ scenario' = scenario
  BY DEF ProcessStep, SetupDone, Skip, BodyEnds, CleanupEnds, NextTest, Rerun, Kept,
      SecondCluster
<1>2. ASSUME NEW c, NEW what \in Parts, There(c, what)
      PROVE  There(c, what)'
  BY <1>2, MetalStays
<1>3. CASE SetupDone
  <2>1. ASSUME scenario.metallb, ~misread
        PROVE  \A c \in {"west", SecondCluster}, what \in Parts : There(c, what)
    <3>1. Len(program) = 24 /\ pc > Len(program) /\ pc \in 1..Len(program) + 1 /\ InstalledSoFar
      BY <1>3, <2>1, BaseSuffices, Sizes DEF SetupDone, MetalInv, TypeInv, TypeOK
    <3>2. pc = 25
      BY <3>1
    <3> QED BY <3>1, <3>2 DEF InstalledSoFar, Parts
  <2>2. misread' = misread /\ phase' # "setup"
    BY <1>3 DEF SetupDone, Begin, Goto
  <2> QED BY <1>1, <1>2, <2>1, <2>2 DEF MetalInv
<1>4. CASE Skip \/ BodyEnds \/ CleanupEnds \/ NextTest
  <2>1. misread' = misread /\ phase' # "setup" /\ phase \in {"test", "cleanup", "cleaned", "over"}
    BY <1>4 DEF Skip, BodyEnds, CleanupEnds, NextTest, Begin, Goto
  <2> QED BY <1>1, <1>2, <2>1 DEF MetalInv
<1>5. CASE Rerun
  BY <1>5 DEF Rerun, Goto, MetalInv, InstalledSoFar
<1> QED BY <1>3, <1>4, <1>5 DEF ProcessStep

\* Doing nothing is changing the clusters to what they are.
LEMMA Stutter ==
  ASSUME UNCHANGED vars
  PROVE  ClusterOnly /\ cluster' = cluster
  BY DEF vars, ClusterOnly

(***************************************************************************)
(* What is known of KUBECONFIG: a process begins with that of the west     *)
(* cluster (TestMain, setKubeconfig), and it changes only when a command   *)
(* for the other cluster fails (OC.withKubeconfig).                        *)
(***************************************************************************)
THEOREM KubeconfigInvariant == Spec => []KubeInv
<1>1. Init => KubeInv
  BY DEF Init, KubeInv, Testing
<1>2. TypeInv /\ KubeInv /\ [Next]_vars => KubeInv'
  BY Steps, CommandKeepsKube, ProcessKeepsKube, ClusterKeepsKube, ClusterKeepsTypes, Stutter
<1> QED BY <1>1, <1>2, TypesInvariant, PTL DEF Spec

(***************************************************************************)
(* When tests run, InstallIfNotExist has left all parts of MetalLB on the  *)
(* clusters, unless ResourceExists took an error for a resource that       *)
(* exists, though WaitFor may have waited on the wrong cluster.            *)
(***************************************************************************)
THEOREM MetalLBIsInstalled == Spec => []MetalLBInstalled
<1>1. Init => MetalInv
  BY DEF Init, MetalInv, InstalledSoFar
<1>2. TypeInv /\ KubeInv /\ MetalInv /\ [Next]_vars => MetalInv'
  <2>1. ASSUME MetalInv, UNCHANGED vars
        PROVE  MetalInv'
    BY <2>1 DEF vars, history, MetalInv, InstalledSoFar, SecondCluster, There, Has
  <2> QED BY <2>1, Steps, CommandKeepsMetal, ProcessKeepsMetal, ClusterKeepsMetal
<1>3. TypeInv /\ MetalInv => MetalLBInstalled
  BY DEF MetalInv, MetalLBInstalled, SecondCluster, There, Parts
<1> QED BY <1>1, <1>2, <1>3, TypesInvariant, KubeconfigInvariant, PTL DEF Spec

------------------------------------------------------------------------------
(***************************************************************************)
(* The steps of a test.                                                    *)
(***************************************************************************)
\* Where the commands for the control planes are in a test's program, ...
LEMMA AtControlPlane ==
  ASSUME Base, InTest
  PROVE  ControlPlane(program, MeshesAt, IF test = "certs" THEN "customSmcp" ELSE "smcp")
<1>1. IsRun(program, test, ~TwoClusters)
  BY Programs
<1>2. test \in {"failover", "split", "certs"}
  BY NamesAre, Environments DEF InTest
<1>3. CASE test = "failover"
  BY <1>1, <1>3 DEF IsRun, FailoverRun, MeshesAt, BeforeMeshes
<1>4. CASE test = "split"
  BY <1>1, <1>4 DEF IsRun, DefaultRun, MeshesAt, BeforeMeshes
<1>5. CASE test = "certs"
  BY <1>1, <1>5 DEF IsRun, DefaultRun, MeshesAt, BeforeMeshes
<1> QED BY <1>2, <1>3, <1>4, <1>5

\* ... those that wait for them and read their addresses, ...
LEMMA AtMeshes ==
  ASSUME Base, InTest
  PROVE  /\ TwoClusters =>
              /\ Is(program[MeshesAt + 7], "west", "address", {Mesh("west")}, "none", 1)
              /\ Is(program[MeshesAt + 8], "east", "address", {Mesh("east")}, "none", 2)
         /\ ~TwoClusters => Is(program[MeshesAt + 7], "west", "clusterIP", {"none"}, "none", 0)
         /\ Is(program[MeshesAt + 5], "west", "smcpReady", {Mesh("west")}, "none", 0)
         /\ Is(program[MeshesAt + 6], "east", "smcpReady", {Mesh("east")}, "none", 0)
<1>1. IsRun(program, test, ~TwoClusters) /\ ~(test = "failover" /\ ~TwoClusters)
  BY Programs
<1>2. ControlPlane(program, MeshesAt, IF test = "certs" THEN "customSmcp" ELSE "smcp")
  BY AtControlPlane
<1>3. TwoClusters => LoadBalancers(program, MeshesAt + 6)
  BY <1>1 DEF IsRun, MeshesAt
<1>4. ~TwoClusters => ClusterIPs(program, MeshesAt + 6)
  BY <1>1 DEF IsRun, MeshesAt
<1>5. MeshesAt \in Nat
  BY DEF MeshesAt, BeforeMeshes
<1>6. (MeshesAt + 6) + 1 = MeshesAt + 7 /\ (MeshesAt + 6) + 2 = MeshesAt + 8
  BY <1>5
<1>7. TwoClusters =>
              /\ Is(program[MeshesAt + 7], "west", "address", {Mesh("west")}, "none", 1)
              /\ Is(program[MeshesAt + 8], "east", "address", {Mesh("east")}, "none", 2)
  BY <1>3, <1>6, UntilIs DEF LoadBalancers
<1>8. ~TwoClusters => Is(program[MeshesAt + 7], "west", "clusterIP", {"none"}, "none", 0)
  BY <1>4, <1>6, CommandIs DEF ClusterIPs
<1>9. /\ Is(program[MeshesAt + 5], "west", "smcpReady", {Mesh("west")}, "none", 0)
      /\ Is(program[MeshesAt + 6], "east", "smcpReady", {Mesh("east")}, "none", 0)
  BY <1>2, CommandIs DEF ControlPlane
<1> QED BY <1>7, <1>8, <1>9

\* ... those that apply the SMCPs, ...
LEMMA AtSmcps ==
  ASSUME Base, InTest
  PROVE  /\ Is(program[MeshesAt + 1], "west", "apply", {Mesh("west")},
               IF test = "certs" THEN "customSmcp" ELSE "smcp", 0)
         /\ Is(program[MeshesAt + 3], "east", "apply", {Mesh("east")}, "smcp", 0)
<1> DEFINE smcp == IF test = "certs" THEN "customSmcp" ELSE "smcp"
<1>1. ControlPlane(program, MeshesAt, smcp)
  BY AtControlPlane
<1> HIDE DEF smcp
<1>2. /\ Is(program[MeshesAt + 1], "west", "apply", {Mesh("west")}, smcp, 0)
      /\ Is(program[MeshesAt + 3], "east", "apply", {Mesh("east")}, "smcp", 0)
  BY <1>1, ApplyIs DEF ControlPlane
<1> QED BY <1>2 DEF smcp

\* ... and those that read and give the certificates.
LEMMA AtExchange ==
  ASSUME Base, InTest
  PROVE  /\ Is(program[ExchangeAt + 1], "west", "certificate", {Mesh("west")}, "none", 0)
         /\ Is(program[ExchangeAt + 2], "east", "certificate", {Mesh("east")}, "none", 0)
         /\ Is(program[ExchangeAt + 3], "west", "apply", {Mesh("west")}, "trust", 0)
         /\ Is(program[ExchangeAt + 4], "west", "apply", {Mesh("west")}, "peer", 0)
         /\ Is(program[ExchangeAt + 6], "east", "apply", {Mesh("east")}, "trust", 0)
         /\ Is(program[ExchangeAt + 7], "east", "apply", {Mesh("east")}, "peer", 0)
<1>1. Exchange(program, ExchangeAt)
  BY Programs DEF IsRun, FailoverRun, DefaultRun, ExchangeAt
<1> QED BY <1>1, CommandIs, ApplyIs DEF Exchange

\* What the last attempt compares.
Expected == IF test = "failover" THEN "eastOnly" ELSE "both"
\* Every test ends with an attempt that compares the counts of both sides.
LEMMA AtEnd ==
  ASSUME Base, InTest
  PROVE  \E n \in 4..7 :
           /\ Is(program[Len(program) - 2], "east", "count", {"none"}, "none", n)
           /\ Is(program[Len(program) - 1], "west", "count", {"none"}, "none", n)
           /\ Is(program[Len(program)], "east", "compare", {"none"}, Expected, n)
<1>1. IsRun(program, test, ~TwoClusters) /\ ExchangeAt \in Nat
  BY Programs DEF ExchangeAt, BeforeExchange, BeforeMeshes
<1>2. CASE test = "failover"
  <2>1. Len(program) = ExchangeAt + 33 /\ FailoverChecks(program, ExchangeAt + 19)
    BY <1>1, <1>2 DEF IsRun, FailoverRun, Size, ExchangeAt
  <2>2. Counts(program, (ExchangeAt + 19) + 11, 7, "eastOnly")
    BY <2>1 DEF FailoverChecks
  <2>3. /\ program[((ExchangeAt + 19) + 11) + 1] = Count(7, "east")
        /\ program[((ExchangeAt + 19) + 11) + 2] = Count(7, "west")
        /\ program[((ExchangeAt + 19) + 11) + 3] = Compare_(7, "eastOnly")
    BY <2>2 DEF Counts
  <2>4. /\ Len(program) - 2 = ((ExchangeAt + 19) + 11) + 1
        /\ Len(program) - 1 = ((ExchangeAt + 19) + 11) + 2
        /\ Len(program) = ((ExchangeAt + 19) + 11) + 3
    BY <1>1, <2>1
  <2>5. /\ Is(program[Len(program) - 2], "east", "count", {"none"}, "none", 7)
        /\ Is(program[Len(program) - 1], "west", "count", {"none"}, "none", 7)
        /\ Is(program[Len(program)], "east", "compare", {"none"}, Expected, 7)
    BY <1>2, <2>3, <2>4, UntilIs DEF Count, Compare_, Expected
  <2> QED BY <2>5
<1>3. CASE test # "failover"
  <2>1. Len(program) = ExchangeAt + 29 /\ Checks(program, ExchangeAt + 24)
    BY <1>1, <1>3 DEF IsRun, DefaultRun, Size, ExchangeAt
  <2>2. Counts(program, (ExchangeAt + 24) + 2, 4, "both")
    BY <2>1 DEF Checks
  <2>3. /\ program[((ExchangeAt + 24) + 2) + 1] = Count(4, "east")
        /\ program[((ExchangeAt + 24) + 2) + 2] = Count(4, "west")
        /\ program[((ExchangeAt + 24) + 2) + 3] = Compare_(4, "both")
    BY <2>2 DEF Counts
  <2>4. /\ Len(program) - 2 = ((ExchangeAt + 24) + 2) + 1
        /\ Len(program) - 1 = ((ExchangeAt + 24) + 2) + 2
        /\ Len(program) = ((ExchangeAt + 24) + 2) + 3
    BY <1>1, <2>1
  <2>5. /\ Is(program[Len(program) - 2], "east", "count", {"none"}, "none", 4)
        /\ Is(program[Len(program) - 1], "west", "count", {"none"}, "none", 4)
        /\ Is(program[Len(program)], "east", "compare", {"none"}, Expected, 4)
    BY <1>3, <2>3, <2>4, UntilIs DEF Count, Compare_, Expected
  <2> QED BY <2>5
<1> QED BY <1>2, <1>3

\* Another attempt does not come before the loop it is in.
LEMMA AgainInTest ==
  ASSUME Base, InTest, pc \in 1..Len(program), command.loop > 0
  PROVE  /\ FirstOfLoop \in 1..pc
         /\ \/ pc = MeshesAt + 7 /\ FirstOfLoop = MeshesAt + 7
            \/ pc = MeshesAt + 8 /\ FirstOfLoop = MeshesAt + 8
            \/ pc > ExchangeAt + 8 /\ FirstOfLoop > ExchangeAt + 8
<1>1. /\ test \in Names /\ TwoClusters \in BOOLEAN /\ IsRun(program, test, ~TwoClusters)
      /\ ~(test = "failover" /\ ~TwoClusters) /\ Len(program) \in Nat
  BY Environments, Programs, Sizes DEF InTest
<1>2. /\ FirstOfLoop \in 1..pc
      /\ program[FirstOfLoop].loop = command.loop
  BY <1>1, FirstIs
<1>3. /\ Ordinary(program[pc], test) /\ Placed(program[pc], pc, test, MeshesAt, ExchangeAt)
  BY <1>1, RunPlaced DEF MeshesAt, ExchangeAt
<1>4. /\ Placed(program[FirstOfLoop], FirstOfLoop, test, MeshesAt, ExchangeAt)
  <2>1. FirstOfLoop \in 1..Len(program)
    BY <1>1, <1>2
  <2> QED BY <1>1, <2>1, RunPlaced DEF MeshesAt, ExchangeAt
<1>5. command.loop = 1 \/ command.loop = 2 \/ command.loop > 2
  BY <1>3 DEF command, Ordinary
<1> QED BY <1>2, <1>3, <1>4, <1>5 DEF Placed, command

\* A step in a test that does not end it.
LEMMA InTestStep ==
  ASSUME TypeInv, CommandStep, phase' = "test"
  PROVE  /\ InTest /\ InTest' /\ Base
         /\ program' = program /\ test' = test /\ TwoClusters' = TwoClusters
         /\ MeshesAt' = MeshesAt /\ ExchangeAt' = ExchangeAt /\ MeshesAt \in Nat
         /\ ExchangeAt = MeshesAt + (IF TwoClusters THEN 8 ELSE 7)
         /\ test \in Names /\ TwoClusters \in BOOLEAN
         /\ Len(program) \in Nat /\ pc \in 1..Len(program)
         /\ Ordinary(command, test) /\ Placed(command, pc, test, MeshesAt, ExchangeAt)
         /\ UNCHANGED <<scenario, todo, phase, fresh, result>>
         /\ \/ pc' = pc + 1
            \/ /\ command.loop > 0 /\ pc' = FirstOfLoop /\ pc' \in 1..pc
               /\ \/ pc = MeshesAt + 7 /\ pc' = MeshesAt + 7
                  \/ pc = MeshesAt + 8 /\ pc' = MeshesAt + 8
                  \/ pc > ExchangeAt + 8 /\ pc' > ExchangeAt + 8
<1>1. Kept /\ Moves
  BY Does
<1>2. phase = "test" /\ (Forward \/ Again \/ Skipped)
  <2>1. phase # "setup"
    BY FromSetup
  <2>2. ~Stop(phase)
    BY <2>1 DEF Stop
  <2> QED BY <1>1, <2>2 DEF Moves, Forward, Again, Skipped
<1>3. InTest /\ Base /\ pc \in 1..Len(program) /\ Len(program) \in Nat
  BY <1>2, CommandKeepsBase, StepFacts DEF InTest
<1>4. /\ UNCHANGED <<scenario, todo, phase, fresh>>
  BY <1>1, <1>2 DEF Kept
<1>5. program' = program /\ test' = test /\ TwoClusters' = TwoClusters /\ MustSkip' = MustSkip
  BY <1>4, SameProgram
<1>6. MeshesAt' = MeshesAt /\ ExchangeAt' = ExchangeAt
  BY <1>5 DEF MeshesAt, ExchangeAt
<1>7. MeshesAt \in Nat /\ ExchangeAt = MeshesAt + (IF TwoClusters THEN 8 ELSE 7)
  BY DEF MeshesAt, ExchangeAt, BeforeMeshes, BeforeExchange
<1>8. Ordinary(command, test) /\ Placed(command, pc, test, MeshesAt, ExchangeAt)
  BY <1>3, StepFacts DEF TestCommand
<1>9. Forward \/ Again
  BY <1>2, <1>8 DEF Skipped, Ordinary
<1>10. \/ pc' = pc + 1
       \/ /\ command.loop > 0 /\ pc' = FirstOfLoop /\ pc' \in 1..pc
          /\ \/ pc = MeshesAt + 7 /\ pc' = MeshesAt + 7
             \/ pc = MeshesAt + 8 /\ pc' = MeshesAt + 8
             \/ pc > ExchangeAt + 8 /\ pc' > ExchangeAt + 8
  BY <1>3, <1>9, AgainInTest DEF Forward, Again
<1>11. test \in Names /\ TwoClusters \in BOOLEAN /\ InTest' /\ result' = result
  BY <1>3, <1>4, <1>5, <1>9, Environments DEF InTest, Forward, Again
<1> QED BY <1>3, <1>4, <1>5, <1>6, <1>7, <1>8, <1>10, <1>11

\* What a command may add to a cluster, ...
LEMMA NewObjects ==
  ASSUME CommandStep, NEW o \in cluster', o \notin cluster
  PROVE  /\ o.on = on /\ o.ns \in command.ns
         /\ \/ /\ command.do \in {"apply", "create"} /\ command.what \in Kinds
               /\ o.what = IF command.what = "customSmcp" THEN "smcp" ELSE command.what
               /\ o.value = Value
            \/ command.do = "scale" /\ o.what = "ratings"
<1>1. CASE command.do \in {"apply", "create"} /\ Applies
  <2>1. o \in Manifest
    BY <1>1 DEF Applies, Put
  <2> QED BY <1>1, <2>1 DEF Manifest, Object
<1>2. CASE command.do = "scale" /\ Scales
  BY <1>2 DEF Scales, Object
<1>3. CASE DeletesSecret \/ DeletesNamespaces \/ cluster' = cluster
  BY <1>3 DEF DeletesSecret, DeletesNamespaces
<1> QED BY <1>1, <1>2, <1>3, OnClusters DEF ClusterEffect

\* ... and the clusters themselves.
LEMMA NewOnCluster ==
  ASSUME ClusterStep, NEW o \in cluster', o \notin cluster
  PROVE  /\ o.what \in {"istiod", "connected", "operator", "operatorAvailable", "controller",
                        "controllerAvailable"}
         /\ o.what = "istiod" => \E p \in cluster : /\ p.on = o.on /\ p.ns = o.ns /\ p.what = "smcp"
                                                   /\ o.value = Certificate(p)
         /\ o.what = "connected" => \E p \in cluster : p.on = o.on /\ p.ns = o.ns
         /\ o.what \notin {"istiod", "connected"} => o.ns = metallbNamespace
<1>1. CASE Reconcile
  <2>1. PICK p \in cluster : /\ p.what = "smcp"
                             /\ cluster' = Put(cluster, {Object(p.on, p.ns, "istiod", Certificate(p))})
    BY <1>1 DEF Reconcile
  <2>2. o = Object(p.on, p.ns, "istiod", Certificate(p))
    BY <2>1 DEF Put
  <2> QED BY <2>1, <2>2 DEF Object
<1>2. CASE Connect
  <2>1. PICK a, b \in Meshes : /\ a # b /\ PeerIs(a, b) /\ PeerIs(b, a)
                               /\ cluster' = cluster \cup {Object(m[1], m[2], "connected", <<>>) : m \in {a, b}}
    BY <1>2 DEF Connect
  <2>2. PICK m \in {a, b} : o = Object(m[1], m[2], "connected", <<>>)
    BY <2>1
  <2>3. Has(m[1], m[2], "istiod")
    BY <2>1, <2>2 DEF PeerIs
  <2> QED BY <2>2, <2>3 DEF Object, Has
<1>3. CASE MetalLBStarts
  BY <1>3 DEF MetalLBStarts, Object
<1> QED BY <1>1, <1>2, <1>3 DEF ClusterStep

\* What is read of one side does not change what was read of the other, nor other fields.
LEMMA AddressField ==
  ASSUME NEW i, Shaped(i), NEW s \in Sides, NEW v, NEW j, j = [i EXCEPT !.address[s] = v]
  PROVE  /\ j.address[s] = v
         /\ \A x \in Sides : x # s => j.address[x] = i.address[x]
         /\ j.certificate = i.certificate /\ j.read = i.read
<1> DEFINE a == i.address c == i.certificate r == i.read
<1>1. i = [address |-> a, certificate |-> c, read |-> r]
  BY DEF Shaped
<1>2. a = [x \in Sides |-> a[x]]
  BY DEF Shaped
<1>3. j = [address |-> [a EXCEPT ![s] = v], certificate |-> c, read |-> r]
  BY <1>1
<1>4. [a EXCEPT ![s] = v][s] = v /\ \A x \in Sides : x # s => [a EXCEPT ![s] = v][x] = a[x]
  BY <1>2
<1> QED BY <1>3, <1>4

\* An address that is read is there.
LEMMA AddressRead ==
  ASSUME NEW i, Shaped(i), NEW s \in Sides, NEW v, NEW j, j = [i EXCEPT !.address[s] = v]
  PROVE  j.address[s] = v
<1> DEFINE a == i.address
<1>1. j.address = [a EXCEPT ![s] = v] /\ a = [x \in Sides |-> a[x]]
  BY DEF Shaped
<1> HIDE DEF a
<1> QED BY <1>1

\* The same for certificates, ...
LEMMA CertificateField ==
  ASSUME NEW i, Shaped(i), NEW s \in Sides, NEW v, NEW j, j = [i EXCEPT !.certificate[s] = v]
  PROVE  /\ j.certificate[s] = v
         /\ \A x \in Sides : x # s => j.certificate[x] = i.certificate[x]
         /\ j.address = i.address /\ j.read = i.read
<1> DEFINE a == i.address c == i.certificate r == i.read
<1>1. i = [address |-> a, certificate |-> c, read |-> r]
  BY DEF Shaped
<1>2. c = [x \in Sides |-> c[x]]
  BY DEF Shaped
<1>3. j = [address |-> a, certificate |-> [c EXCEPT ![s] = v], read |-> r]
  BY <1>1
<1>4. [c EXCEPT ![s] = v][s] = v /\ \A x \in Sides : x # s => [c EXCEPT ![s] = v][x] = c[x]
  BY <1>2
<1> QED BY <1>3, <1>4

\* A certificate that is read is there.
LEMMA CertificateRead ==
  ASSUME NEW i, Shaped(i), NEW s \in Sides, NEW v, NEW j, j = [i EXCEPT !.certificate[s] = v]
  PROVE  j.certificate[s] = v
<1> DEFINE c == i.certificate
<1>1. j.certificate = [c EXCEPT ![s] = v] /\ c = [x \in Sides |-> c[x]]
  BY DEF Shaped
<1> HIDE DEF c
<1> QED BY <1>1

\* ... and for what else is read.
LEMMA ReadField ==
  ASSUME NEW i, Shaped(i), NEW s \in Sides, NEW v, NEW j, j = [i EXCEPT !.read[s] = v]
  PROVE  /\ j.read[s] = v
         /\ \A x \in Sides : x # s => j.read[x] = i.read[x]
         /\ j.address = i.address /\ j.certificate = i.certificate
<1> DEFINE a == i.address c == i.certificate r == i.read
<1>1. i = [address |-> a, certificate |-> c, read |-> r]
  BY DEF Shaped
<1>2. r = [x \in Sides |-> r[x]]
  BY DEF Shaped
<1>3. j = [address |-> a, certificate |-> c, read |-> [r EXCEPT ![s] = v]]
  BY <1>1
<1>4. [r EXCEPT ![s] = v][s] = v /\ \A x \in Sides : x # s => [r EXCEPT ![s] = v][x] = r[x]
  BY <1>2
<1> QED BY <1>3, <1>4

\* The commands that read the addresses and the certificates.
AddressReads ==
  \/ info'.address = info.address
  \/ command.do = "address" /\ info'.address[command.side] = <<on, ns1>>
       /\ \A s \in Sides : s # command.side => info'.address[s] = info.address[s]
  \/ command.do = "clusterIP" /\ \A s \in Sides : info'.address[s] = <<on, smcpNamespace[s]>>
CertificateReads ==
  \/ info'.certificate = info.certificate
  \/ command.do = "certificate" /\ info'.certificate[command.side] = The(on, ns1, "istiod").value
       /\ \A s \in Sides : s # command.side => info'.certificate[s] = info.certificate[s]
\* No other command does.
LEMMA Reads ==
  ASSUME TypeInv, CommandStep
  PROVE  AddressReads /\ CertificateReads
<1>1. Shaped(info) /\ command.side \in Sides /\ "west" \in Sides
  BY StepFacts DEF TypeInv, Sides
<1>2. CASE info' = info
  BY <1>2 DEF AddressReads, CertificateReads
<1>3. CASE info' = [info EXCEPT !.read["west"] = <<on>>]
  <2>1. info'.address = info.address /\ info'.certificate = info.certificate
    BY <1>1, <1>3, ReadField
  <2> QED BY <2>1 DEF AddressReads, CertificateReads
<1>4. CASE info' = [info EXCEPT !.read[command.side] = <<on>>]
  <2>1. info'.address = info.address /\ info'.certificate = info.certificate
    BY <1>1, <1>4, ReadField
  <2> QED BY <2>1 DEF AddressReads, CertificateReads
<1>5. CASE /\ command.do = "clusterIP"
           /\ info' = [info EXCEPT !.address = [s \in Sides |-> <<on, smcpNamespace[s]>>]]
  BY <1>1, <1>5 DEF AddressReads, CertificateReads, Shaped
<1>6. CASE command.do = "address" /\ info' = [info EXCEPT !.address[command.side] = <<on, ns1>>]
  <2> DEFINE side == command.side
             v == <<on, ns1>>
  <2>1. side \in Sides /\ info' = [info EXCEPT !.address[side] = v]
    BY <1>1, <1>6
  <2> HIDE DEF side, v
  <2>2. info'.certificate = info.certificate
    BY <1>1, <2>1, AddressField
  <2>3. info'.address[side] = v
    <3> DEFINE a == info.address
    <3>1. info'.address = [a EXCEPT ![side] = v] /\ a = [x \in Sides |-> a[x]]
      BY <1>1, <2>1 DEF Shaped
    <3> HIDE DEF a
    <3> QED BY <2>1, <3>1
  <2>4. ASSUME NEW s \in Sides, s # side
        PROVE  info'.address[s] = info.address[s]
    BY <1>1, <2>1, <2>4, AddressField
  <2> QED BY <1>6, <2>2, <2>3, <2>4, Zenon DEF side, v, AddressReads, CertificateReads
<1>7. CASE /\ command.do = "certificate"
           /\ info' = [info EXCEPT !.certificate[command.side] = The(on, ns1, "istiod").value]
  <2> DEFINE side == command.side
             v == The(on, ns1, "istiod").value
  <2>1. side \in Sides /\ info' = [info EXCEPT !.certificate[side] = v]
    BY <1>1, <1>7
  <2> HIDE DEF side, v
  <2>2. info'.address = info.address
    BY <1>1, <2>1, CertificateField
  <2>3. info'.certificate[side] = v
    BY <1>1, <2>1, CertificateField
  <2>4. ASSUME NEW s \in Sides, s # side
        PROVE  info'.certificate[s] = info.certificate[s]
    BY <1>1, <2>1, <2>4, CertificateField
  <2> QED BY <1>7, <2>2, <2>3, <2>4, Zenon DEF side, v, AddressReads, CertificateReads
<1> QED BY <1>2, <1>3, <1>4, <1>5, <1>6, <1>7, OnInfo, Zenon DEF InfoEffect

------------------------------------------------------------------------------
(***************************************************************************)
(* The west mesh's address, by which the checks find out where it was      *)
(* installed if KUBECONFIG was changed.                                    *)
(***************************************************************************)
\* Outside of a loop, a command that fails ends the test.
LEMMA GoesOn ==
  ASSUME TypeInv, CommandStep, phase' = "test", pc' = pc + 1
  PROVE  /\ ~Failed /\ ~Breaks /\ ~Fails
         /\ Stays
<1>1. ~Failed
  <2>1. SUFFICES ASSUME Failed PROVE FALSE
    OBVIOUS
  <2>2. pc' = FirstOfLoop /\ FirstOfLoop \in 1..pc
    BY <2>1, InTestStep, FirstIs DEF Failed, Stop, InTest
  <2> QED BY <2>2, InTestStep
<1>2. ~Again /\ ~Stop(phase)
  <2>1. ~Stop(phase)
    BY InTestStep DEF Stop, InTest
  <2>2. ~Again
    BY InTestStep, FirstIs DEF Again
  <2> QED BY <2>1, <2>2
<1>3. Stays
  BY <1>2, Does DEF Leaks
<1> QED BY <1>1, <1>3 DEF Breaks, Fails

\* Where KUBECONFIG may be changed in a test that goes on.
LEMMA KubeMoves ==
  ASSUME TypeInv, CommandStep, phase' = "test"
  PROVE  \/ kubeconfig' = kubeconfig
         \/ /\ kubeconfig' = "east" /\ command.side = "east" /\ command.loop > 0
            /\ pc # MeshesAt + 7 /\ TwoClusters
<1>1. CASE Stays
  BY <1>1 DEF Stays
<1>2. CASE Leaks /\ on # kubeconfig
  <2>1. command.side = "east" /\ TwoClusters /\ on = "east"
    BY <1>2, OnIs, InTestStep DEF Ordinary, Sides
  <2>2. Again
    BY <1>2, InTestStep DEF Leaks, Stop, InTest
  <2>3. pc # MeshesAt + 7
    BY <2>1, InTestStep, AtMeshes DEF command, Is
  <2> QED BY <1>2, <2>1, <2>2, <2>3 DEF Again, Leaks
<1> QED BY <1>1, <1>2, Does DEF Leaks

\* The west mesh's address is read once.
LEMMA ReadsWestAddress ==
  ASSUME TypeInv, CommandStep, phase' = "test", TwoClusters, pc # MeshesAt + 7
  PROVE  info'.address["west"] = info.address["west"]
<1>1. command.do # "clusterIP"
  BY InTestStep DEF Placed
<1>2. command.do = "address" => command.side = "east"
  <2>1. command.do = "address" => pc = MeshesAt + 8
    BY InTestStep DEF Placed
  <2> QED BY <2>1, InTestStep, AtMeshes DEF command, Is
<1> QED BY <1>1, <1>2, Reads DEF AddressReads, Sides

\* Commands, ...
LEMMA CommandKeepsAddresses ==
  ASSUME TypeInv, KubeInv, AddressInv, CommandStep
  PROVE  AddressInv'
<1>1. SUFFICES ASSUME InTest', TwoClusters', test' # "failover"
               PROVE  EarlyWest' /\ AddressWest' /\ GivenToEast'
  BY DEF AddressInv
<1>2. phase' = "test" /\ TwoClusters /\ test # "failover"
  BY <1>1, InTestStep DEF InTest
<1>3. EarlyWest /\ AddressWest /\ GivenToEast
  BY <1>2, InTestStep DEF AddressInv
<1>4. /\ Base /\ InTest /\ MeshesAt' = MeshesAt /\ ExchangeAt' = ExchangeAt /\ MeshesAt \in Nat
      /\ ExchangeAt = MeshesAt + 8 /\ pc \in Nat
      /\ command.side \in Sides /\ kubeconfig \in Sides /\ pc' \in Nat
  <2>1. pc \in 1..Len(program) /\ Len(program) \in Nat
    BY <1>2, InTestStep
  <2>2. pc' \in Nat
    BY <1>2, <2>1, InTestStep
  <2> QED BY <1>2, <2>1, <2>2, InTestStep, OnIs DEF Ordinary
<1>5. \/ pc' = pc + 1
      \/ pc = MeshesAt + 7 /\ pc' = MeshesAt + 7
      \/ pc = MeshesAt + 8 /\ pc' = MeshesAt + 8
      \/ pc > ExchangeAt + 8 /\ pc' > ExchangeAt + 8
  BY <1>2, InTestStep
<1>6. westRanOn' = IF command.side = "west" THEN westRanOn \cup {kubeconfig} ELSE westRanOn
  BY <1>2, <1>4, Does, OnIs DEF Ran, InTest
<1>7. EarlyWest'
  <2>1. SUFFICES ASSUME MeshesAt + 7 >= pc' PROVE westRanOn' \subseteq {kubeconfig'}
    BY <1>4 DEF EarlyWest
  <2>2. MeshesAt + 7 >= pc
    BY <1>4, <1>5, <2>1
  <2>3. westRanOn \subseteq {kubeconfig}
    BY <1>3, <2>2 DEF EarlyWest
  <2>4. kubeconfig' = kubeconfig
    <3>1. CASE pc' = pc + 1
      BY <1>2, <3>1, GoesOn DEF Stays
    <3>2. CASE pc = MeshesAt + 7
      BY <1>2, <3>2, KubeMoves
    <3> QED BY <1>4, <1>5, <2>2, <3>1, <3>2
  <2> QED BY <1>6, <2>3, <2>4
<1>8. AddressWest'
  <2>1. SUFFICES ASSUME pc' > MeshesAt + 7
                 PROVE  (\/ info.address["west"][1] = "west"
                         \/ info.address["west"][1] = "east" /\ kubeconfig = "east" /\ westRanOn \subseteq {"east"})'
    BY <1>4 DEF AddressWest
  <2>2. CASE pc > MeshesAt + 7
    <3>1. info'.address["west"] = info.address["west"]
      BY <1>2, <1>4, <2>2, ReadsWestAddress
    <3>2. kubeconfig' = kubeconfig \/ kubeconfig' = "east"
      BY <1>2, KubeMoves
    <3> QED BY <1>3, <1>6, <2>2, <3>1, <3>2 DEF AddressWest
  <2>3. CASE ~(pc > MeshesAt + 7)
    <3>1. pc = MeshesAt + 7 /\ pc' = pc + 1
      BY <1>4, <1>5, <2>1, <2>3
    <3>2. Is(command, "west", "address", {Mesh("west")}, "none", 1)
      BY <1>2, <1>4, <3>1, AtMeshes DEF command
    <3>3. ~Breaks /\ ~Fails /\ kubeconfig' = kubeconfig
      BY <1>2, <3>1, GoesOn DEF Stays
    <3>4. info' = [info EXCEPT !.address[command.side] = <<on, ns1>>]
      BY <3>2, <3>3, Dispatch DEF LoadBalancerAddress, Is
    <3>5. command.side = "west" /\ on = kubeconfig
      BY <3>2, OnIs DEF Is
    <3>6. info'.address["west"] = <<kubeconfig, ns1>>
      <4> DEFINE v == <<on, ns1>>
      <4>1. info' = [info EXCEPT !.address["west"] = v] /\ Shaped(info) /\ "west" \in Sides
        BY <3>4, <3>5 DEF TypeInv, Sides
      <4> HIDE DEF v
      <4>2. info'.address["west"] = v
        BY <4>1, AddressRead
      <4> QED BY <3>5, <4>2 DEF v
    <3>7. westRanOn \subseteq {kubeconfig}
      BY <1>3, <1>4, <3>1 DEF EarlyWest
    <3> QED BY <1>4, <1>6, <3>3, <3>6, <3>7 DEF Sides
  <2> QED BY <2>2, <2>3
<1>9. GivenToEast'
  <2>1. SUFFICES ASSUME pc' > ExchangeAt + 7, NEW o \in cluster', PeerOfEast(o)
                 PROVE  o.value = info'.address["west"]
    BY <1>4 DEF GivenToEast, PeerOfEast
  <2>2. pc > ExchangeAt + 7 \/ (pc = ExchangeAt + 7 /\ pc' = pc + 1)
    BY <1>4, <1>5, <2>1
  <2>3. info'.address["west"] = info.address["west"]
    BY <1>2, <1>4, <2>2, ReadsWestAddress
  <2>4. CASE pc > ExchangeAt + 7
    <3>1. o \in cluster
      <4>1. SUFFICES ASSUME o \notin cluster PROVE FALSE
        OBVIOUS
      <4>2. command.do \in {"apply", "create"} /\ command.what = "peer"
        BY <2>1, <4>1, NewObjects DEF PeerOfEast
      <4>3. command.do = "apply"
        BY <1>2, <4>2, InTestStep DEF Ordinary
      <4> QED BY <1>2, <1>4, <2>4, <4>2, <4>3, InTestStep DEF Placed
    <3> QED BY <1>3, <2>1, <2>3, <2>4, <3>1 DEF GivenToEast
  <2>5. CASE pc = ExchangeAt + 7 /\ pc' = pc + 1
    <3>1. Is(command, "east", "apply", {Mesh("east")}, "peer", 0)
      BY <1>4, <2>5, AtExchange DEF command
    <3>2. cluster' = Put(cluster, Manifest)
      BY <1>2, <2>5, <3>1, GoesOn, Dispatch DEF Apply_, Is
    <3>3. on = "east"
      BY <1>2, <1>4, <3>1, OnIs DEF Is, InTest
    <3>4. Manifest = {Object("east", Mesh("east"), "peer", Value)}
      BY <3>1, <3>3 DEF Manifest, Is, Kinds
    <3>5. o \in Manifest
      BY <2>1, <3>2, <3>4 DEF Put, PeerOfEast, Object
    <3>6. Value = info.address["west"]
      BY <3>1 DEF Value, AddressFor, Other, Is
    <3> QED BY <2>3, <3>4, <3>5, <3>6 DEF Object
  <2> QED BY <2>2, <2>4, <2>5
<1> QED BY <1>7, <1>8, <1>9

\* ... clusters ...
LEMMA ClusterKeepsAddresses ==
  ASSUME TypeInv, AddressInv, ClusterStep
  PROVE  AddressInv'
<1>1. UNCHANGED <<scenario, todo, phase, pc, info, westRanOn, kubeconfig>>
  BY ClusterKeepsTypes DEF ClusterOnly, history
<1>2. TwoClusters' = TwoClusters /\ test' = test /\ MustSkip' = MustSkip
  BY <1>1, SameProgram
<1>3. ASSUME NEW o \in cluster', PeerOfEast(o)
      PROVE  o \in cluster
  BY <1>3, NewOnCluster DEF PeerOfEast
<1> QED BY <1>1, <1>2, <1>3 DEF AddressInv, InTest, EarlyWest, AddressWest, GivenToEast,
    MeshesAt, ExchangeAt, PeerOfEast

\* A test begins with its first command, on no cluster.
LEMMA Begins ==
  ASSUME TypeInv, ProcessStep, phase' = "test"
  PROVE  /\ pc' = 1 /\ westRanOn' = {} /\ MeshesAt' \in Nat /\ ExchangeAt' \in Nat
         /\ SetupDone \/ Skip \/ NextTest
<1>1. SetupDone \/ Skip \/ NextTest
  BY DEF ProcessStep, BodyEnds, CleanupEnds, Rerun, Goto
<1>2. pc' = 1 /\ westRanOn' = {}
  BY <1>1 DEF SetupDone, Skip, NextTest, Begin, Goto
<1>3. MeshesAt' \in Nat /\ ExchangeAt' \in Nat
  BY DEF MeshesAt, ExchangeAt, BeforeMeshes, BeforeExchange
<1> QED BY <1>1, <1>2, <1>3

\* ... and processes keep what is known of the west mesh's address.
LEMMA ProcessKeepsAddresses ==
  ASSUME TypeInv, AddressInv, ProcessStep
  PROVE  AddressInv'
<1>1. CASE phase' = "test"
  BY <1>1, Begins DEF AddressInv, EarlyWest, AddressWest, GivenToEast
<1>2. CASE phase' # "test"
  BY <1>2 DEF AddressInv, InTest
<1> QED BY <1>1, <1>2

------------------------------------------------------------------------------
(***************************************************************************)
(* The end of a test: what its last attempt compares was counted in the    *)
(* same place where everything else of the west mesh ran.                  *)
(***************************************************************************)
\* Tests are long enough for their end to be after the exchange.
LEMMA LongRun ==
  Base /\ InTest =>
    Len(program) \in Nat /\ Len(program) > 30 /\ Len(program) > ExchangeAt + 20
<1> SUFFICES ASSUME Base, InTest
             PROVE  Len(program) \in Nat /\ Len(program) > 30 /\ Len(program) > ExchangeAt + 20
  OBVIOUS
<1>1. Len(program) = Size(test, ~TwoClusters)
  BY Sizes
<1> QED BY <1>1 DEF Size, ExchangeAt, BeforeExchange, BeforeMeshes

\* The last attempt of a test has only begun with its first command.
LEMMA ComesToEnd ==
  ASSUME TypeInv, CommandStep, phase' = "test",
         pc' \in {Len(program) - 1, Len(program), Len(program) + 1}
  PROVE  pc' = pc + 1
<1>1. Base /\ InTest /\ pc \in 1..Len(program) /\ Len(program) \in Nat /\ Len(program) > 30
  BY InTestStep, LongRun
<1>2. SUFFICES ASSUME command.loop > 0, pc' = FirstOfLoop PROVE FALSE
  BY InTestStep
<1>3. PICK n \in 4..7 :
           /\ Is(program[Len(program) - 2], "east", "count", {"none"}, "none", n)
           /\ Is(program[Len(program) - 1], "west", "count", {"none"}, "none", n)
           /\ Is(program[Len(program)], "east", "compare", {"none"}, Expected, n)
  BY <1>1, AtEnd
<1>4. /\ FirstOfLoop \in 1..pc
      /\ \A j \in 1..FirstOfLoop - 1 : program[j].loop # command.loop
  BY <1>1, FirstIs
<1>5. pc \in {Len(program) - 1, Len(program)}
  BY <1>1, <1>2, <1>4
<1>6. command.loop = program[Len(program) - 2].loop
  BY <1>3, <1>5 DEF command, Is
<1>7. Len(program) - 2 \in 1..FirstOfLoop - 1
  BY <1>1, <1>2, <1>4
<1> QED BY <1>4, <1>6, <1>7

\* The last three commands count and compare.
LEMMA EndCommands ==
  ASSUME Base, InTest
  PROVE  /\ pc = Len(program) - 2 => command.do = "count" /\ command.side = "east"
         /\ pc = Len(program) - 1 => command.do = "count" /\ command.side = "west"
         /\ pc = Len(program) => /\ command.do = "compare" /\ command.side = "east"
                                 /\ command.what = Expected /\ command.loop > 0
<1>1. PICK n \in 4..7 :
           /\ Is(program[Len(program) - 2], "east", "count", {"none"}, "none", n)
           /\ Is(program[Len(program) - 1], "west", "count", {"none"}, "none", n)
           /\ Is(program[Len(program)], "east", "compare", {"none"}, Expected, n)
  BY AtEnd
<1> QED BY <1>1 DEF command, Is

\* A comparison in which everything was as expected shows that the west mesh was in one
\* place: otherwise the counts of the west ratings were read where nothing of them was
\* reached.
LEMMA ComparedInPlace ==
  ASSUME TypeInv, KubeInv, AddressInv, EndInv, CommandStep, InTest, phase' = "test",
         pc = Len(program), pc' = pc + 1
  PROVE  SamePlace
<1>1. /\ Base /\ test \in Names /\ TwoClusters \in BOOLEAN
      /\ kubeconfig \in Sides /\ on \in Sides
      /\ info.read["east"] = <<East>> /\ info.read["west"] = <<kubeconfig>>
  BY InTestStep, OnIs DEF EndInv
<1>2. command.do = "compare" /\ command.side = "east" /\ command.what = Expected /\ command.loop > 0
  BY <1>1, EndCommands
<1>3. AsExpected
  <2>1. LastOfLoop
    BY <1>2 DEF LastOfLoop
  <2>2. ~CheckFails
    BY <2>1, GoesOn DEF CheckFails
  <2> QED BY <1>2, <2>2, Dispatch DEF Compare
<1>4. CASE ~TwoClusters
  <2>1. test # "failover"
    BY <1>1, <1>4, Programs
  <2> QED BY <1>4, <2>1 DEF SamePlace, KubeInv, InTest, Testing
<1>5. CASE TwoClusters /\ kubeconfig = "west"
  BY <1>5 DEF SamePlace, KubeInv, InTest, Testing
<1>6. CASE TwoClusters /\ kubeconfig = "east" /\ test = "failover"
  <2>1. Counted("east") \in Serving /\ Counted("west") \notin Serving
    BY <1>2, <1>3, <1>6 DEF AsExpected, Expected
  <2>2. Counted("east") = Counted("west")
    BY <1>1, <1>6 DEF Counted, East, bookinfoNamespace
  <2> QED BY <2>1, <2>2
<1>7. CASE TwoClusters /\ kubeconfig = "east" /\ test # "failover"
  <2>1. Counted("west") \in Serving
    BY <1>2, <1>3, <1>7 DEF AsExpected, Expected
  <2>2. Counted("west") = <<"east", "west-mesh-bookinfo">>
    BY <1>1, <1>7 DEF Counted, bookinfoNamespace
  <2>3. on = "east"
    BY <1>2, <1>7, OnIs DEF InTest
  <2>4. PICK p \in cluster : /\ p.on = on /\ p.ns = smcpNamespace["east"] /\ p.what = "peer"
                             /\ <<p.value[1], bookinfoNamespace(test)["west"]>> = <<"east", "west-mesh-bookinfo">>
    <3>1. bookinfoNamespace(test)["east"] = "east-mesh-bookinfo"
      BY <1>7 DEF bookinfoNamespace
    <3> QED BY <2>1, <2>2, <3>1 DEF Serving
  <2>5. p.value[1] = "east"
    BY <2>4
  <2>6. /\ EarlyWest /\ AddressWest /\ GivenToEast
        /\ pc > ExchangeAt + 7 /\ pc > MeshesAt + 7
    <3>1. Len(program) \in Nat /\ Len(program) > ExchangeAt + 20 /\ ExchangeAt = MeshesAt + 8 /\ MeshesAt \in Nat
      BY <1>1, <1>7, LongRun, InTestStep
    <3> QED BY <1>7, <3>1 DEF AddressInv
  <2>7. p.value = info.address["west"]
    BY <2>3, <2>4, <2>6 DEF GivenToEast, PeerOfEast, Mesh
  <2> QED BY <1>7, <2>5, <2>6, <2>7 DEF AddressWest, SamePlace
<1> QED BY <1>1, <1>4, <1>5, <1>6, <1>7 DEF Sides

\* Commands, ...
LEMMA CommandKeepsEnd ==
  ASSUME TypeInv, KubeInv, AddressInv, EndInv, CommandStep
  PROVE  EndInv'
<1>1. CASE phase' = "test"
  <2> DEFINE N == Len(program)
  <2>1. /\ Base /\ InTest /\ program' = program /\ TwoClusters' = TwoClusters /\ test' = test
        /\ pc \in 1..N /\ N \in Nat /\ N > 30
    BY <1>1, InTestStep, LongRun
  <2>2. ASSUME pc' \in {N - 1, N, N + 1}
        PROVE  pc' = pc + 1 /\ kubeconfig' = kubeconfig /\ ~Breaks
    BY <1>1, <2>2, ComesToEnd, GoesOn DEF Stays
  <2>3. ASSUME pc' \in {N - 1, N}
        PROVE  info' = [info EXCEPT !.read[command.side] = <<on>>]
    <3>1. pc \in {N - 2, N - 1} /\ ~Breaks
      BY <2>1, <2>2, <2>3
    <3>2. command.do = "count"
      BY <2>1, <3>1, EndCommands
    <3> QED BY <3>1, <3>2, Dispatch DEF RequestCount
  <2>4. Shaped(info) /\ Sides = {"west", "east"}
    BY DEF TypeInv, Sides
  <2>5. ASSUME pc' = N - 1
        PROVE  info'.read["east"] = <<East>>'
    <3>1. pc = N - 2
      BY <2>1, <2>2, <2>5
    <3>2. command.side = "east"
      BY <2>1, <3>1, EndCommands
    <3>3. on = East /\ East' = East
      BY <2>1, <2>2, <2>5, <3>2, OnIs DEF East, InTest
    <3>4. info'.read["east"] = <<on>>
      <4> DEFINE v == <<on>>
      <4>1. info' = [info EXCEPT !.read["east"] = v] /\ "east" \in Sides /\ "east" \in Sides
        BY <2>3, <2>4, <2>5, <3>2
      <4> HIDE DEF v
      <4>2. info'.read["east"] = v
        BY <2>4, <4>1, ReadField
      <4> QED BY <4>2 DEF v
    <3> QED BY <3>3, <3>4
  <2>6. ASSUME pc' = N
        PROVE  info'.read["east"] = <<East>>' /\ info'.read["west"] = <<kubeconfig>>'
    <3>1. pc = N - 1
      BY <2>1, <2>2, <2>6
    <3>2. command.side = "west"
      BY <2>1, <3>1, EndCommands
    <3>3. on = kubeconfig /\ East' = East
      BY <2>1, <2>2, <2>6, <3>2, OnIs DEF East
    <3>4. info'.read["west"] = <<on>>
      <4> DEFINE v == <<on>>
      <4>1. info' = [info EXCEPT !.read["west"] = v] /\ "west" \in Sides /\ "east" \in Sides
        BY <2>3, <2>4, <2>6, <3>2
      <4> HIDE DEF v
      <4>2. info'.read["west"] = v
        BY <2>4, <4>1, ReadField
      <4> QED BY <4>2 DEF v
    <3>5. info'.read["east"] = info.read["east"]
      <4> DEFINE v == <<on>>
      <4>1. info' = [info EXCEPT !.read["west"] = v] /\ "west" \in Sides /\ "east" \in Sides
        BY <2>3, <2>4, <2>6, <3>2
      <4> HIDE DEF v
      <4>2. info'.read["east"] = info.read["east"]
        BY <2>4, <4>1, ReadField
      <4> QED BY <4>2 DEF v
    <3>6. info.read["east"] = <<East>>
      BY <2>1, <3>1 DEF EndInv
    <3> QED BY <2>2, <2>6, <3>3, <3>4, <3>5, <3>6
  <2>7. ASSUME pc' = N + 1
        PROVE  SamePlace'
    <3>1. pc = N /\ pc' = pc + 1 /\ kubeconfig' = kubeconfig
      BY <2>1, <2>2, <2>7
    <3>2. westRanOn' = westRanOn
      BY <2>1, <3>1, EndCommands, Does DEF Ran
    <3>3. SamePlace
      BY <1>1, <2>1, <3>1, ComparedInPlace
    <3> QED BY <2>1, <3>1, <3>2, <3>3 DEF SamePlace
  <2>8. N - 1 # N /\ N # N + 1 /\ N - 1 # N + 1
    BY <2>1
  <2> QED BY <1>1, <2>1, <2>5, <2>6, <2>7, <2>8 DEF EndInv
<1>2. CASE phase' = "cleanup" /\ result'[test'] = "pass"
  <2>1. Base /\ test \in Names /\ Kept /\ Moves /\ Ran
    BY StepFacts, CommandKeepsBase, Environments, Does
  <2>2. phase # "setup" /\ test' = test
    BY <1>2, FromSetup, TheSameTest
  <2>3. result'[test] = "pass"
    BY <1>2, <2>2
  <2>4. phase = "cleanup" /\ (Forward \/ Again)
    <3>1. ~Stop(phase)
      BY <2>1, <2>2, <2>3 DEF Stop, TypeInv
    <3> QED BY <1>2, <2>1, <3>1, StepFacts DEF Moves, Forward, Again, Skipped
  <2>5. command.loop = 0
    BY <2>1, <2>4, StepFacts, Environments DEF CleanupCommand, Is
  <2>6. Forward
    BY <2>4, <2>5 DEF Again
  <2>7. kubeconfig' = kubeconfig
    <3>1. ~Stop(phase) /\ ~Again
      BY <2>4, <1>2, <2>5 DEF Stop, Again
    <3> QED BY <3>1, Does DEF Stays, Leaks
  <2>8. SamePlace
    BY <2>3, <2>4, <2>6 DEF EndInv, Forward
  <2> QED BY <1>2, <2>1, <2>2, <2>7, <2>8, OnIs DEF EndInv, SamePlace, InTest, Ran
<1>3. phase' # "cleaned"
  BY CommandKeepsBase, FromSetup, TheSameTest
<1> QED BY <1>1, <1>2, <1>3 DEF EndInv, InTest

\* ... clusters ...
LEMMA ClusterKeepsEnd ==
  ASSUME EndInv, ClusterOnly
  PROVE  EndInv'
<1>1. TwoClusters' = TwoClusters /\ test' = test /\ MustSkip' = MustSkip /\ program' = program
  BY SameProgram DEF ClusterOnly
<1> QED BY <1>1 DEF ClusterOnly, history, EndInv, InTest, SamePlace, East

\* ... and processes keep what is known of the end of a test.
LEMMA ProcessKeepsEnd ==
  ASSUME TypeInv, EndInv, ProcessStep
  PROVE  EndInv'
<1>1. CASE phase' = "test"
  <2>1. pc' = 1 /\ Base'
    BY <1>1, Begins, ProcessKeepsTypes, BaseSuffices DEF Base, TypeInv, TypeOK, Phases
  <2>2. InTest' => Len(program') \in Nat /\ Len(program') > 30
    <3>1. (Base /\ InTest => Len(program) \in Nat /\ Len(program) > 30 /\ Len(program) > ExchangeAt + 20)'
      BY LongRun, PTL
    <3> QED BY <2>1, <3>1
  <2>3. InTest' => pc' \notin {Len(program') - 1, Len(program'), Len(program') + 1}
    BY <2>1, <2>2
  <2> QED BY <1>1, <2>3 DEF EndInv
<1>2. CASE BodyEnds
  <2>1. pc = Len(program) + 1 /\ InTest
    <3>1. pc \in 1..Len(program) + 1 /\ Len(program) \in Nat
      BY BaseSuffices, LengthIs DEF TypeInv, TypeOK
    <3> QED BY <1>2, <3>1 DEF BodyEnds, InTest
  <2>2. test' = test
    BY <1>2 DEF BodyEnds, Kept, test
  <2> QED BY <1>2, <2>1, <2>2 DEF BodyEnds, EndInv, InTest, SamePlace
<1>3. CASE CleanupEnds
  <2>1. test' = test
    BY <1>3 DEF CleanupEnds, Kept, test
  <2> QED BY <1>3, <2>1 DEF CleanupEnds, EndInv, InTest, SamePlace
<1>4. CASE phase' \notin {"test", "cleanup", "cleaned"}
  BY <1>4 DEF EndInv, InTest
<1>5. BodyEnds \/ CleanupEnds \/ phase' \notin {"cleanup", "cleaned"}
  BY DEF ProcessStep, SetupDone, Skip, NextTest, Rerun, Begin, Goto
<1> QED BY <1>1, <1>2, <1>3, <1>4, <1>5

(***************************************************************************)
(* Until its address is read, the west mesh of a federation test is in one *)
(* place, and its address tells which.                                     *)
(***************************************************************************)
THEOREM AddressInvariant == Spec => []AddressInv
<1>1. Init => AddressInv
  BY DEF Init, AddressInv, InTest
<1>2. TypeInv /\ KubeInv /\ AddressInv /\ [Next]_vars => AddressInv'
  <2>1. ASSUME AddressInv, UNCHANGED vars
        PROVE  AddressInv'
    <3>1. TwoClusters' = TwoClusters /\ test' = test /\ MustSkip' = MustSkip
      BY <2>1, SameProgram DEF vars
    <3> QED BY <2>1, <3>1 DEF vars, history, AddressInv, InTest, EarlyWest, AddressWest,
        GivenToEast, MeshesAt, ExchangeAt,
                    PeerOfEast
  <2> QED BY <2>1, Steps, CommandKeepsAddresses, ProcessKeepsAddresses, ClusterKeepsAddresses
<1> QED BY <1>1, <1>2, TypesInvariant, KubeconfigInvariant, PTL DEF Spec

(***************************************************************************)
(* A test that passes its last comparison has run its west mesh on one     *)
(* cluster.                                                                *)
(***************************************************************************)
THEOREM EndInvariant == Spec => []EndInv
<1>1. Init => EndInv
  BY DEF Init, EndInv, InTest
<1>2. TypeInv /\ KubeInv /\ AddressInv /\ EndInv /\ [Next]_vars => EndInv'
  BY Steps, CommandKeepsEnd, ProcessKeepsEnd, ClusterKeepsEnd, ClusterKeepsTypes, Stutter
<1> QED BY <1>1, <1>2, TypesInvariant, KubeconfigInvariant, AddressInvariant, PTL DEF Spec

(***************************************************************************)
(* The failover test passes only if its west mesh was on the west cluster, *)
(* because it compares the clusters' regions first.                        *)
(***************************************************************************)
THEOREM FailoverIsAcrossClusters == Spec => []FailoverPassesAcrossClusters
<1>1. KubeInv /\ EndInv => FailoverPassesAcrossClusters
  BY DEF KubeInv, EndInv, SamePlace, FailoverPassesAcrossClusters, Passed
<1> QED BY <1>1, KubeconfigInvariant, EndInvariant, PTL

(***************************************************************************)
(* A federation test that passes has run all commands for its west mesh on *)
(* one cluster, though KUBECONFIG may change in any attempt that fails.    *)
(***************************************************************************)
THEOREM WestStaysPut == Spec => []PassedWestStaysPut
<1>1. KubeInv /\ EndInv => PassedWestStaysPut
  <2>1. SUFFICES ASSUME KubeInv, EndInv, Passed PROVE Cardinality(westRanOn) = 1
    BY DEF PassedWestStaysPut
  <2>2. westRanOn = {kubeconfig}
    BY <2>1 DEF KubeInv, EndInv, SamePlace, Passed
  <2> QED BY <2>2, FS_Singleton
<1> QED BY <1>1, KubeconfigInvariant, EndInvariant, PTL

------------------------------------------------------------------------------
(***************************************************************************)
(* The namespaces: what is in them came from this test if there was        *)
(* nothing before, and the cleanup removes it.                             *)
(***************************************************************************)
\* The cleanup goes on only when its deletions have worked.
LEMMA CleanupStep ==
  ASSUME TypeInv, CommandStep, phase' = "cleanup", phase = "cleanup"
  PROVE  \/ Forward /\ Stays /\ DeletesNamespaces
         \/ pc' = 1
<1>1. CleanupCommand /\ Base
  BY StepFacts
<1>2. command.loop = 0 /\ command.do = "deleteNs"
  BY <1>1, Environments DEF CleanupCommand, Is
<1>3. SUFFICES ASSUME pc' # 1 PROVE Forward /\ Stays /\ DeletesNamespaces
  OBVIOUS
<1>4. ~Again /\ ~Stop(phase) /\ ~Failed
  BY <1>2, <1>3 DEF Again, Stop, Failed
<1>5. Forward /\ Stays
  BY <1>2, <1>4, Does DEF Moves, Skipped, Leaks
<1>6. DeletesNamespaces
  BY <1>2, <1>4, Dispatch DEF DeleteNamespace, Breaks, DeletesNamespaces
<1> QED BY <1>5, <1>6

\* The cleanup has one command, or one for each side.
LEMMA CleanupIsShort == Base /\ phase = "cleanup" => Len(program) \in {1, 2}
  BY Sizes, Zenon

\* Where the east mesh is does not change in a test.
LEMMA EastStays ==
  ASSUME TypeInv, CommandStep, phase # "setup"
  PROVE  East' = East
<1>1. TwoClusters' = TwoClusters
  BY TheSameTest
<1>2. ~TwoClusters => kubeconfig' = kubeconfig
  BY Does, OnIs DEF Stays, Leaks
<1> QED BY <1>1, <1>2 DEF East

\* A command of a test that began without leftovers creates its objects in their places.
LEMMA CommandKeepsOwn ==
  ASSUME TypeInv, OwnInv, CommandStep
  PROVE  OwnInv'
<1>1. SUFFICES ASSUME Testing', fresh', NEW o \in cluster', o.ns \in OwnNamespaces'
               PROVE  Place(o)'
  BY DEF OwnInv, Place
<1>2. phase # "setup"
  BY <1>1, FromSetup DEF Testing
<1>3. test' = test /\ East' = East /\ fresh /\ Testing /\ Ran
  BY <1>1, <1>2, TheSameTest, EastStays, CommandKeepsBase, Does DEF Kept, Testing
<1>4. westRanOn \subseteq westRanOn' /\ (command.side = "west" => on \in westRanOn')
  BY <1>2, <1>3 DEF Ran
<1>5. CASE o \in cluster
  <2>1. Place(o)
    BY <1>1, <1>3, <1>5 DEF OwnInv, OwnNamespaces, Namespaces
  <2> QED BY <1>3, <1>4, <2>1 DEF Place, Namespaces
<1>6. CASE o \notin cluster
  <2>1. /\ o.on = on /\ o.ns \in command.ns
        /\ command.do \in {"apply", "create", "scale"}
    BY <1>6, NewObjects
  <2>2. /\ TestCommand /\ CleanupCommand
        /\ InTest \/ phase = "cleanup"
        /\ command.side \in Sides /\ Base
    BY <1>2, StepFacts
  <2>3. InTest
    BY <2>1, <2>2, Environments DEF CleanupCommand, Is
  <2>4. o.ns \in Namespaces(test, command.side)
    BY <2>1, <2>2, <2>3 DEF TestCommand, Ordinary
  <2>5. command.side = "east" => on = East
    BY <1>2, OnIs DEF East
  <2> QED BY <1>3, <1>4, <2>1, <2>2, <2>4, <2>5 DEF Place, Namespaces, Sides
<1> QED BY <1>5, <1>6

\* The clusters make objects only where there are some.
LEMMA WhereOthersAre ==
  ASSUME ClusterStep, NEW o \in cluster'
  PROVE  o.ns = metallbNamespace \/ \E p \in cluster : p.on = o.on /\ p.ns = o.ns
<1>1. CASE o \in cluster
  BY <1>1
<1>2. CASE o \notin cluster
  BY <1>2, NewOnCluster
<1> QED BY <1>1, <1>2

\* MetalLB has a namespace of its own.
LEMMA MetalApart ==
  ASSUME NEW t, NEW s \in Sides
  PROVE  metallbNamespace \notin Namespaces(t, s)
  BY DEF metallbNamespace, Namespaces, smcpNamespace, bookinfoNamespace, Sides

\* The clusters change neither that nor what is gone.
LEMMA ClusterKeepsOwn ==
  ASSUME TypeInv, OwnInv, GoneInv, ClusterStep
  PROVE  OwnInv' /\ GoneInv'
<1>1. UNCHANGED <<scenario, todo, phase, pc, kubeconfig, westRanOn, fresh>>
  BY ClusterKeepsTypes DEF ClusterOnly, history
<1>2. TwoClusters' = TwoClusters /\ test' = test /\ program' = program
  BY <1>1, SameProgram
<1>3. East' = East
  BY <1>1, <1>2 DEF East
<1>4. "west" \in Sides /\ "east" \in Sides
  BY DEF Sides
<1>5. ASSUME NEW o \in cluster', NEW s \in Sides, o.ns \in Namespaces(test, s)
      PROVE  \E p \in cluster : p.on = o.on /\ p.ns = o.ns
  BY <1>5, WhereOthersAre, MetalApart
<1>6. OwnInv'
  <2>1. SUFFICES ASSUME Testing, fresh, NEW o \in cluster', o.ns \in OwnNamespaces
                 PROVE  Place(o)
    BY <1>1, <1>2, <1>3 DEF OwnInv, Place, OwnNamespaces, Testing, Namespaces
  <2>2. PICK p \in cluster : p.on = o.on /\ p.ns = o.ns
    BY <1>4, <1>5, <2>1 DEF OwnNamespaces
  <2> QED BY <2>1, <2>2 DEF OwnInv, Place
<1>7. ASSUME NEW c, NEW s \in Sides, ~Exists(c, Namespaces(test, s))
      PROVE  \A o \in cluster' : ~(o.on = c /\ o.ns \in Namespaces(test, s))
  BY <1>5, <1>7 DEF Exists
<1>8. ASSUME ~Exists(kubeconfig, Namespaces(test, "west"))
      PROVE  ~Exists(kubeconfig, Namespaces(test, "west"))'
  BY <1>1, <1>2, <1>4, <1>7, <1>8 DEF Exists, Namespaces
<1>9. ASSUME ~Exists(East, Namespaces(test, "east"))
      PROVE  ~Exists(East, Namespaces(test, "east"))'
  BY <1>2, <1>3, <1>4, <1>7, <1>9 DEF Exists, Namespaces
<1> QED BY <1>1, <1>2, <1>6, <1>8, <1>9 DEF GoneInv

\* Commands do not restore what the cleanup deleted.
LEMMA CommandKeepsGone ==
  ASSUME TypeInv, GoneInv, CommandStep
  PROVE  GoneInv'
<1>1. phase' # "cleaned"
  BY CommandKeepsBase, FromSetup, TheSameTest
<1>2. SUFFICES ASSUME phase' = "cleanup", pc' # 1
               PROVE  /\ ~Exists(kubeconfig, Namespaces(test, "west"))'
                      /\ pc' > Len(program') => ~Exists(East, Namespaces(test, "east"))'
  <2>1. Len(program') \in Nat /\ pc' \in 1..Len(program') + 1
    <3>1. Base' => (Len(program) \in Nat)'
      BY LengthIs, PTL
    <3> QED BY <3>1, Lengths, CommandKeepsBase
  <2>2. phase' = "cleanup" => Len(program') \in {1, 2}
    <3>1. (Base /\ phase = "cleanup" => Len(program) \in {1, 2})'
      BY CleanupIsShort, PTL
    <3> QED BY <3>1, CommandKeepsBase
  <2> QED BY <1>1, <2>1, <2>2 DEF GoneInv
<1>3. phase = "cleanup" /\ Base
  BY <1>2, StepFacts, Does DEF Moves, Forward, Again, Skipped, Stop
<1>4. Forward /\ Stays /\ DeletesNamespaces
  BY <1>2, <1>3, CleanupStep
<1>5. TwoClusters' = TwoClusters /\ test' = test /\ program' = program /\ TwoClusters \in BOOLEAN
  BY <1>3, <1>4, TheSameTest, SameProgram, Environments DEF Forward
<1>6. cluster' \subseteq cluster /\ kubeconfig' = kubeconfig /\ East' = East /\ pc' = pc + 1
  BY <1>4, <1>5 DEF DeletesNamespaces, Stays, East, Forward
<1>7. CleanupCommand /\ pc \in 1..Len(program) /\ Len(program) \in Nat
  BY StepFacts, CommandKeepsBase
<1>8. \A o \in cluster' : ~(o.on = on /\ o.ns \in command.ns)
  BY <1>4 DEF DeletesNamespaces
<1>9. CASE pc = 1
  <2>1. command.side = "west" /\ Namespaces(test, "west") \subseteq command.ns /\ on = kubeconfig
    BY <1>3, <1>5, <1>7, <1>9, OnIs DEF CleanupCommand, Is
  <2>2. ~Exists(kubeconfig, Namespaces(test, "west"))'
    BY <1>5, <1>6, <1>8, <2>1 DEF Exists, Namespaces
  <2>3. ASSUME pc' > Len(program') PROVE ~Exists(East, Namespaces(test, "east"))'
    <3>1. Len(program) # 2
      BY <1>5, <1>6, <1>9, <2>3
    <3>2. ~TwoClusters
      BY <1>3, <3>1, Sizes, Zenon
    <3>3. Namespaces(test, "east") \subseteq command.ns /\ East = on
      BY <1>3, <1>7, <2>1, <3>2 DEF CleanupCommand, Is, East
    <3> QED BY <1>5, <1>6, <1>8, <3>3 DEF Exists, Namespaces
  <2> QED BY <2>2, <2>3
<1>10. CASE pc # 1
  <2>1. pc = 2 /\ TwoClusters /\ command.side = "east" /\ command.ns = Namespaces(test, "east")
    BY <1>3, <1>5, <1>7, <1>10 DEF CleanupCommand, Is
  <2>2. on = East
    BY <1>3, <2>1, OnIs DEF East
  <2>3. ~Exists(kubeconfig, Namespaces(test, "west"))
    BY <1>3, <2>1 DEF GoneInv
  <2>4. ~Exists(kubeconfig, Namespaces(test, "west"))'
    BY <1>5, <1>6, <2>3 DEF Exists, Namespaces
  <2>5. ~Exists(East, Namespaces(test, "east"))'
    BY <1>5, <1>6, <1>8, <2>1, <2>2 DEF Exists, Namespaces
  <2> QED BY <2>4, <2>5
<1> QED BY <1>9, <1>10

\* A test begins without objects, or not fresh.
LEMMA ProcessKeepsOwn ==
  ASSUME TypeInv, OwnInv, GoneInv, ProcessStep
  PROVE  OwnInv' /\ GoneInv'
<1>1. cluster' = cluster /\ \A o \in cluster : o.on \in Sides
  BY DEF ProcessStep, SetupDone, Skip, BodyEnds, CleanupEnds, NextTest, Rerun, TypeInv, TypeOK
<1>2. CASE SetupDone \/ Skip \/ NextTest
  <2>1. phase' \notin {"cleanup", "cleaned"}
    BY <1>2 DEF SetupDone, Skip, NextTest, Begin, Goto
  <2>2. ASSUME Testing', fresh', NEW o \in cluster, o.ns \in OwnNamespaces' PROVE FALSE
    <3>1. phase' = "test"
      BY <2>1, <2>2 DEF Testing
    <3>2. \A s, c \in Sides : ~Exists(c, Namespaces(test', s))
      BY <1>2, <2>2, <3>1 DEF SetupDone, Skip, NextTest, Begin, Goto, test
    <3>3. o.on \in Sides /\ "west" \in Sides /\ "east" \in Sides
      BY <1>1 DEF Sides
    <3> QED BY <2>2, <3>2, <3>3 DEF OwnNamespaces, Exists, Namespaces
  <2> QED BY <1>1, <2>1, <2>2 DEF OwnInv, GoneInv
<1>3. CASE BodyEnds \/ CleanupEnds
  <2>1. /\ UNCHANGED <<scenario, todo, kubeconfig, cluster, westRanOn, fresh>> /\ pc' = 1
        /\ phase # "setup" /\ phase' # "setup" /\ Testing
    BY <1>3 DEF BodyEnds, CleanupEnds, Kept, Testing
  <2>2. TwoClusters' = TwoClusters /\ test' = test
    BY <2>1, SameTest
  <2>3. East' = East
    BY <2>1, <2>2 DEF East
  <2>4. OwnInv'
    BY <2>1, <2>2, <2>3 DEF OwnInv, OwnNamespaces, Place, Namespaces
  <2>5. CASE BodyEnds
    <3>1. Base' /\ phase' = "cleanup"
      BY <2>5, ProcessKeepsTypes, BaseSuffices DEF BodyEnds, Base, TypeInv, TypeOK, Phases
    <3>2. Len(program') \in {1, 2}
      <4>1. (Base /\ phase = "cleanup" => Len(program) \in {1, 2})'
        BY CleanupIsShort, PTL
      <4> QED BY <3>1, <4>1
    <3> QED BY <2>1, <2>4, <3>1, <3>2 DEF GoneInv
  <2>6. CASE CleanupEnds
    <3>1. phase = "cleanup" /\ pc > Len(program) /\ phase' = "cleaned"
      BY <2>6 DEF CleanupEnds
    <3>2. pc > 1
      <4>1. Base /\ pc \in 1..Len(program) + 1 /\ Len(program) \in Nat
        BY BaseSuffices, LengthIs DEF TypeInv, TypeOK
      <4>2. Len(program) = 1 \/ Len(program) = 2
        BY <3>1, <4>1, Sizes, Zenon
      <4> QED BY <3>1, <4>1, <4>2
    <3> QED BY <2>1, <2>2, <2>3, <2>4, <3>1, <3>2 DEF GoneInv, Exists, Namespaces
  <2> QED BY <1>3, <2>5, <2>6
<1>4. CASE Rerun
  BY <1>4 DEF Rerun, Goto, OwnInv, GoneInv, Testing
<1> QED BY <1>2, <1>3, <1>4 DEF ProcessStep

(***************************************************************************)
(* The namespaces of a test that began without leftovers have objects only *)
(* where its commands ran, and the cleanup deletes them there.             *)
(***************************************************************************)
THEOREM NamespacesInvariant == Spec => [](OwnInv /\ GoneInv)
<1>1. Init => OwnInv /\ GoneInv
  BY DEF Init, OwnInv, GoneInv, Testing
<1>2. TypeInv /\ OwnInv /\ GoneInv /\ [Next]_vars => (OwnInv /\ GoneInv)'
  <2>1. ASSUME OwnInv, GoneInv, UNCHANGED vars
        PROVE  OwnInv' /\ GoneInv'
    <3>1. TwoClusters' = TwoClusters /\ test' = test /\ program' = program
      BY <2>1, SameProgram DEF vars
    <3> QED BY <2>1, <3>1 DEF vars, history, OwnInv, GoneInv, Testing, OwnNamespaces, Place,
        Namespaces, East, Exists
  <2> QED BY <2>1, Steps, CommandKeepsOwn, CommandKeepsGone, ProcessKeepsOwn, ClusterKeepsOwn
<1> QED BY <1>1, <1>2, TypesInvariant, PTL DEF Spec

(***************************************************************************)
(* After a cleanup that ends (DeleteNamespaces), the east namespaces are   *)
(* gone from their cluster, those of the west unless KUBECONFIG was        *)
(* changed; after a test that passed, and began without leftovers, nothing *)
(* is left.                                                                *)
(***************************************************************************)
THEOREM CleanupRemoves == Spec => []CleanupRemovesNamespaces
<1>1. TypeInv /\ KubeInv /\ EndInv /\ OwnInv /\ GoneInv => CleanupRemovesNamespaces
  <2>1. SUFFICES ASSUME TypeInv, KubeInv, EndInv, OwnInv, GoneInv, phase = "cleaned"
                 PROVE  /\ ~Exists(East, Namespaces(test, "east"))
                        /\ ~leaked => ~Exists("west", Namespaces(test, "west"))
                        /\ Passed /\ fresh => \A c, s \in Sides : ~Exists(c, Namespaces(test, s))
    BY DEF CleanupRemovesNamespaces, East
  <2>2. /\ ~Exists(East, Namespaces(test, "east"))
        /\ ~Exists(kubeconfig, Namespaces(test, "west"))
    BY <2>1 DEF GoneInv
  <2>3. ASSUME Passed, fresh, NEW c \in Sides, NEW s \in Sides, NEW o \in cluster,
               o.on = c, o.ns \in Namespaces(test, s)
        PROVE  FALSE
    <3>1. Place(o)
      BY <2>1, <2>3 DEF OwnInv, OwnNamespaces, Testing, Sides
    <3>2. westRanOn \subseteq {kubeconfig}
      BY <2>1, <2>3 DEF EndInv, SamePlace, Passed
    <3> QED BY <2>2, <2>3, <3>1, <3>2 DEF Place, Exists
  <2>4. ~leaked => kubeconfig = "west"
    BY <2>1 DEF KubeInv
  <2> QED BY <2>2, <2>3, <2>4 DEF Exists
<1> QED BY <1>1, TypesInvariant, KubeconfigInvariant, EndInvariant, NamespacesInvariant, PTL

------------------------------------------------------------------------------
(***************************************************************************)
(* What each mesh is told of the other one.                                *)
(***************************************************************************)
\* No step of a test removes an object without replacing it, but for secrets and ratings.
LEMMA HasStays ==
  ASSUME TypeInv, NEW c, NEW ns, NEW what, Has(c, ns, what),
         (CommandStep /\ phase' = "test" /\ what \notin {"cacerts", "ratings"}) \/ ClusterStep
  PROVE  Has(c, ns, what)'
<1>1. PICK o \in cluster : o.on = c /\ o.ns = ns /\ o.what = what
  BY DEF Has
<1>2. SUFFICES \E p \in cluster' : p.on = o.on /\ p.ns = o.ns /\ p.what = o.what
  BY <1>1 DEF Has
<1>3. ASSUME NEW objs, cluster' = Put(cluster, objs)
      PROVE  \E p \in cluster' : p.on = o.on /\ p.ns = o.ns /\ p.what = o.what
  <2>1. \E p \in Put(cluster, objs) : p.on = o.on /\ p.ns = o.ns /\ p.what = o.what
    BY <1>1, PutHas
  <2> QED BY <1>3, <2>1
<1>4. CASE CommandStep /\ phase' = "test" /\ what \notin {"cacerts", "ratings"}
  <2>1. Ordinary(command, test)
    BY <1>4, InTestStep
  <2>2. CASE Applies
    BY <1>3, <2>2 DEF Applies
  <2>3. CASE command.do = "delete" /\ DeletesSecret
    <3>1. o \in cluster'
      BY <1>1, <1>4, <2>1, <2>3 DEF DeletesSecret, Ordinary
    <3> QED BY <3>1
  <2>4. CASE Scales
    <3>1. o \in cluster'
      BY <1>1, <1>4, <2>4 DEF Scales, Object
    <3> QED BY <3>1
  <2>5. CASE cluster' = cluster
    BY <1>1, <2>5
  <2> QED BY <1>4, <2>1, <2>2, <2>3, <2>4, <2>5, OnClusters DEF ClusterEffect, Ordinary
<1>5. CASE Reconcile
  BY <1>3, <1>5 DEF Reconcile
<1>6. CASE Connect \/ MetalLBStarts
  <2>1. cluster \subseteq cluster'
    BY <1>6 DEF Connect, MetalLBStarts
  <2> QED BY <1>1, <2>1
<1> QED BY <1>4, <1>5, <1>6 DEF ClusterStep

\* The cluster of each side, if KUBECONFIG has not been changed.
OwnCluster(side) == IF side = "west" THEN "west" ELSE EastMesh[1]
\* A step of a test whose KUBECONFIG has not been changed runs where it should.
LEMMA UnleakedStep ==
  ASSUME TypeInv, KubeInv, CommandStep, InTest', fresh', ~leaked'
  PROVE  /\ phase' = "test" /\ fresh /\ ~leaked
         /\ on = OwnCluster(command.side)
         /\ WestMesh' = WestMesh /\ EastMesh' = EastMesh
         /\ \A m : Cert(m)' = Cert(m)
         /\ WestMesh = <<"west", Mesh("west")>>
         /\ EastMesh = <<OwnCluster("east"), Mesh("east")>>
         /\ Mesh("west") # Mesh("east")
<1>1. phase' = "test"
  BY DEF InTest
<1>2. fresh /\ ~leaked
  <2>1. leaked \in BOOLEAN
    BY DEF TypeInv, TypeOK
  <2>2. ~leaked
    BY <2>1, Does DEF Stays, Leaks
  <2> QED BY <2>2, Does DEF Kept
<1>3. kubeconfig = "west" /\ test' = test /\ TwoClusters' = TwoClusters
  BY <1>1, <1>2, InTestStep DEF KubeInv
<1>4. on = OwnCluster(command.side)
  BY <1>1, <1>3, OnIs, InTestStep DEF OwnCluster, EastMesh, Ordinary, Sides, InTest
<1> QED BY <1>1, <1>2, <1>3, <1>4 DEF WestMesh, EastMesh, Cert, Custom, Mesh, smcpNamespace,
    OwnCluster

\* The root certificate that is read of a control plane is the one that it should have.
LEMMA TheCertificate ==
  ASSUME ControlPlanes, NEW m, m[2] \in {Mesh("west"), Mesh("east")}, m = <<m[1], m[2]>>,
         HasAt(m, "istiod")
  PROVE  The(m[1], m[2], "istiod").value = Cert(m)
<1>1. The(m[1], m[2], "istiod") \in cluster /\ The(m[1], m[2], "istiod").on = m[1]
        /\ The(m[1], m[2], "istiod").ns = m[2] /\ The(m[1], m[2], "istiod").what = "istiod"
  <2>1. \E o \in cluster : o.on = m[1] /\ o.ns = m[2] /\ o.what = "istiod"
    BY DEF HasAt, Has
  <2> QED BY <2>1 DEF The
<1> QED BY <1>1 DEF ControlPlanes

\* If all have a value, the one that is chosen has it.
LEMMA AllAreThe ==
  ASSUME NEW m, NEW what, NEW v, AllAre(m, what, v)
  PROVE  The(m[1], m[2], what).value = v
<1>1. \E o \in cluster : o.on = m[1] /\ o.ns = m[2] /\ o.what = what
  BY DEF AllAre, HasAt, Has
<1>2. The(m[1], m[2], what) \in cluster /\ The(m[1], m[2], what).on = m[1]
        /\ The(m[1], m[2], what).ns = m[2] /\ The(m[1], m[2], what).what = what
  BY <1>1 DEF The
<1> QED BY <1>2 DEF AllAre

\* The steps of the following lemmas: those of a test that began without leftovers, in a
\* process that has not left KUBECONFIG changed.
Quietly == TypeInv /\ KubeInv /\ CommandStep /\ InTest' /\ fresh' /\ ~leaked'
\* What these steps leave as it is.
LEMMA QuietFacts ==
  ASSUME Quietly
  PROVE  /\ TypeInv /\ CommandStep /\ Base /\ InTest /\ phase' = "test" /\ fresh /\ ~leaked
         /\ MeshesAt' = MeshesAt /\ ExchangeAt' = ExchangeAt /\ MeshesAt \in Nat
         /\ ExchangeAt \in Nat /\ ExchangeAt = MeshesAt + (IF TwoClusters THEN 8 ELSE 7)
         /\ test' = test /\ TwoClusters \in BOOLEAN
         /\ Ordinary(command, test) /\ Placed(command, pc, test, MeshesAt, ExchangeAt)
         /\ on = OwnCluster(command.side)
         /\ WestMesh' = WestMesh /\ EastMesh' = EastMesh
         /\ WestMesh = <<"west", Mesh("west")>>
         /\ EastMesh = <<OwnCluster("east"), Mesh("east")>>
         /\ OwnCluster("west") = "west" /\ Mesh("west") # Mesh("east")
         /\ (pc' = pc + 1 => ~Breaks /\ ~Failed /\ ~Fails)
  BY UnleakedStep, InTestStep, GoesOn DEF Quietly, OwnCluster

\* A place is left behind by the command at that place.
LEMMA Crossing ==
  ASSUME Quietly, NEW x \in Nat, x <= ExchangeAt + 8, pc' > x
  PROVE  pc > x \/ (pc = x /\ pc' = pc + 1)
<1>1. pc \in 1..Len(program) /\ Len(program) \in Nat /\ ExchangeAt \in Nat
  BY QuietFacts, UnleakedStep, InTestStep DEF Quietly
<1>2. \/ pc' = pc + 1
      \/ /\ pc' \in 1..pc
         /\ \/ pc' = pc
            \/ pc > ExchangeAt + 8 /\ pc' > ExchangeAt + 8
  BY UnleakedStep, InTestStep DEF Quietly
<1> QED BY <1>1, <1>2

\* Only this test's SMCPs are applied.
LEMMA ControlPlanesStay ==
  ASSUME Quietly, ControlPlanes
  PROVE  ControlPlanes'
<1>1. /\ Base /\ InTest /\ MeshesAt' = MeshesAt /\ MeshesAt \in Nat /\ test' = test
      /\ Ordinary(command, test) /\ Placed(command, pc, test, MeshesAt, ExchangeAt)
      /\ Mesh("west") # Mesh("east")
  BY QuietFacts
<1>2. \A ns : Custom(ns)' <=> Custom(ns)
  BY <1>1 DEF Custom
<1>3. SUFFICES ASSUME NEW o \in cluster', o.ns \in {Mesh("west"), Mesh("east")}
               PROVE  /\ o.what = "smcp" => o.value = IF Custom(o.ns) THEN <<"custom">> ELSE <<>>
                      /\ o.what = "istiod" => o.value = Cert(<<o.on, o.ns>>)
  BY <1>1 DEF ControlPlanes, Cert, Custom
<1>4. CASE o \in cluster
  BY <1>3, <1>4 DEF ControlPlanes
<1>5. CASE o \notin cluster
  <2>1. /\ o.on = on /\ o.ns \in command.ns
        /\ \/ /\ command.do \in {"apply", "create"} /\ command.what \in Kinds
              /\ o.what = IF command.what = "customSmcp" THEN "smcp" ELSE command.what
              /\ o.value = Value
           \/ command.do = "scale" /\ o.what = "ratings"
    BY <1>5, NewObjects DEF Quietly
  <2>2. o.what # "istiod"
    BY <2>1 DEF Kinds
  <2>3. CASE o.what = "smcp"
    <3>1. command.do = "apply" /\ command.what \in {"smcp", "customSmcp"} /\ o.value = Value
      BY <1>1, <2>1, <2>3 DEF Ordinary
    <3>2. CASE command.what = "smcp"
      <4>1. o.value = <<>>
        BY <3>1, <3>2 DEF Value
      <4>2. pc \in {MeshesAt + 1, MeshesAt + 3} /\ ~(test = "certs" /\ pc = MeshesAt + 1)
        BY <1>1, <3>1, <3>2 DEF Placed
      <4>3. ~Custom(o.ns)
        BY <1>1, <2>1, <4>2, AtSmcps DEF Custom, command, Is
      <4> QED BY <2>2, <2>3, <4>1, <4>3
    <3>3. CASE command.what = "customSmcp"
      <4>1. o.value = <<"custom">>
        BY <3>1, <3>3 DEF Value
      <4>2. pc = MeshesAt + 1 /\ test = "certs"
        BY <1>1, <3>1, <3>3 DEF Placed
      <4>3. Custom(o.ns)
        BY <1>1, <2>1, <4>2, AtSmcps DEF Custom, command, Is
      <4> QED BY <2>2, <2>3, <4>1, <4>3
    <3> QED BY <3>1, <3>2, <3>3
  <2> QED BY <2>2, <2>3
<1> QED BY <1>4, <1>5

\* When the test has come by the wait for a control plane, it runs.
LEMMA RunningStays ==
  ASSUME Quietly, Running
  PROVE  Running'
<1>1. /\ TypeInv /\ CommandStep /\ Base /\ InTest /\ phase' = "test"
      /\ MeshesAt' = MeshesAt /\ MeshesAt \in Nat
      /\ ExchangeAt = MeshesAt + (IF TwoClusters THEN 8 ELSE 7)
      /\ on = OwnCluster(command.side)
      /\ WestMesh' = WestMesh /\ EastMesh' = EastMesh
      /\ WestMesh = <<OwnCluster("west"), Mesh("west")>>
      /\ EastMesh = <<OwnCluster("east"), Mesh("east")>>
      /\ (pc' = pc + 1 => ~Breaks)
  BY QuietFacts
<1>2. \A m : HasAt(m, "istiod") => HasAt(m, "istiod")'
  BY <1>1, HasStays DEF HasAt
<1>3. pc' > MeshesAt + 5 => HasAt(WestMesh, "istiod")'
  <2>1. SUFFICES ASSUME pc' > MeshesAt + 5 PROVE HasAt(WestMesh, "istiod")'
    OBVIOUS
  <2>2. CASE pc > MeshesAt + 5
    BY <1>1, <1>2, <2>2 DEF Running, HasAt
  <2>3. CASE pc = MeshesAt + 5 /\ pc' = pc + 1
    <3>1. Is(command, "west", "smcpReady", {Mesh("west")}, "none", 0)
      BY <1>1, <2>3, AtMeshes DEF command
    <3>2. HasAll("istiod")
      BY <1>1, <2>3, <3>1, Dispatch DEF WaitSMCPReady, Is
    <3>3. Has(OwnCluster("west"), Mesh("west"), "istiod")
      BY <1>1, <3>1, <3>2 DEF HasAll, Is
    <3> QED BY <1>1, <1>2, <3>3 DEF HasAt
  <2>4. MeshesAt + 5 \in Nat /\ MeshesAt + 5 <= ExchangeAt + 8
    BY <1>1
  <2> QED BY <2>1, <2>2, <2>3, <2>4, Crossing
<1>4. pc' > MeshesAt + 6 => HasAt(EastMesh, "istiod")'
  <2>1. SUFFICES ASSUME pc' > MeshesAt + 6 PROVE HasAt(EastMesh, "istiod")'
    OBVIOUS
  <2>2. CASE pc > MeshesAt + 6
    BY <1>1, <1>2, <2>2 DEF Running, HasAt
  <2>3. CASE pc = MeshesAt + 6 /\ pc' = pc + 1
    <3>1. Is(command, "east", "smcpReady", {Mesh("east")}, "none", 0)
      BY <1>1, <2>3, AtMeshes DEF command
    <3>2. HasAll("istiod")
      BY <1>1, <2>3, <3>1, Dispatch DEF WaitSMCPReady, Is
    <3>3. Has(OwnCluster("east"), Mesh("east"), "istiod")
      BY <1>1, <3>1, <3>2 DEF HasAll, Is
    <3> QED BY <1>1, <1>2, <3>3 DEF HasAt
  <2>4. MeshesAt + 6 \in Nat /\ MeshesAt + 6 <= ExchangeAt + 8
    BY <1>1
  <2> QED BY <2>1, <2>2, <2>3, <2>4, Crossing
<1> QED BY <1>1, <1>3, <1>4 DEF Running

\* The namespace of a command for one namespace.
LEMMA OneNamespace ==
  ASSUME NEW x, command.ns = {x}
  PROVE  ns1 = x
  BY DEF ns1

\* The addresses are read on the right clusters, and stay, ...
LEMMA AddressesReadStay ==
  ASSUME Quietly, AddressesRead
  PROVE  AddressesRead'
<1>1. /\ TypeInv /\ CommandStep /\ Base /\ InTest
      /\ MeshesAt' = MeshesAt /\ ExchangeAt' = ExchangeAt /\ MeshesAt \in Nat
      /\ ExchangeAt = MeshesAt + (IF TwoClusters THEN 8 ELSE 7)
      /\ TwoClusters \in BOOLEAN /\ Placed(command, pc, test, MeshesAt, ExchangeAt)
      /\ on = OwnCluster(command.side)
      /\ WestMesh' = WestMesh /\ EastMesh' = EastMesh
      /\ WestMesh = <<OwnCluster("west"), Mesh("west")>>
      /\ EastMesh = <<OwnCluster("east"), Mesh("east")>>
  BY QuietFacts
<1>2. pc' = pc + 1 => ~Breaks /\ ~Fails
  BY QuietFacts
<1>3. Shaped(info) /\ "west" \in Sides /\ "east" \in Sides
  BY <1>1 DEF TypeInv, Sides
\* Where the addresses are read.
<1>4. command.do = "clusterIP" => pc = MeshesAt + 7
  BY <1>1 DEF Placed
<1>5. command.do = "address" => pc = MeshesAt + 7 \/ (TwoClusters /\ pc = MeshesAt + 8 /\ command.side = "east")
  <2>1. SUFFICES ASSUME command.do = "address", pc = MeshesAt + 8
                 PROVE  TwoClusters /\ command.side = "east"
    BY <1>1 DEF Placed
  <2>2. TwoClusters
    <3>1. ~TwoClusters => pc = ExchangeAt + 1
      BY <1>1, <2>1
    <3> QED BY <1>1, <2>1, <3>1, AtExchange DEF command, Is
  <2> QED BY <1>1, <2>1, <2>2, AtMeshes DEF command, Is
<1>6. pc > MeshesAt + 7 => info'.address["west"] = info.address["west"]
  BY <1>1, <1>3, <1>4, <1>5, Reads DEF AddressReads
<1>7. pc > ExchangeAt => info'.address["east"] = info.address["east"]
  BY <1>1, <1>3, <1>4, <1>5, Reads DEF AddressReads
\* The last of them.
<1>8. ASSUME TwoClusters, NEW s \in Sides, pc' = pc + 1,
             Is(command, s, "address", {Mesh(s)}, "none", IF s = "west" THEN 1 ELSE 2)
      PROVE  info'.address[s] = <<OwnCluster(s), Mesh(s)>>
  <2> DEFINE v == <<on, ns1>>
  <2>1. info' = [info EXCEPT !.address[s] = v]
    BY <1>1, <1>2, <1>8, Dispatch DEF LoadBalancerAddress, Is
  <2>2. v = <<OwnCluster(s), Mesh(s)>>
    BY <1>1, <1>8, OneNamespace DEF Is
  <2> HIDE DEF v
  <2>3. info'.address[s] = v
    BY <1>3, <1>8, <2>1, AddressRead
  <2> QED BY <2>2, <2>3
<1>9. ASSUME ~TwoClusters, pc = MeshesAt + 7, pc' = pc + 1
      PROVE  info'.address["west"] = WestMesh /\ info'.address["east"] = EastMesh
  <2>1. command.do = "clusterIP" /\ command.side = "west"
    BY <1>1, <1>9, AtMeshes DEF command, Is
  <2>2. info' = [info EXCEPT !.address = [s \in Sides |-> <<on, smcpNamespace[s]>>]]
    BY <1>1, <2>1, Dispatch DEF ClusterIP
  <2>3. info'.address = [s \in Sides |-> <<on, smcpNamespace[s]>>]
    BY <1>3, <2>2 DEF Shaped
  <2>4. OwnCluster("east") = on /\ OwnCluster("west") = on
    BY <1>1, <1>9, <2>1 DEF OwnCluster, EastMesh
  <2> QED BY <1>1, <1>3, <2>3, <2>4 DEF Mesh
<1>10. pc' > MeshesAt + 7 => info'.address["west"] = WestMesh
  <2>1. SUFFICES ASSUME pc' > MeshesAt + 7 PROVE info'.address["west"] = WestMesh
    OBVIOUS
  <2>2. MeshesAt + 7 \in Nat /\ MeshesAt + 7 <= ExchangeAt + 8
    BY <1>1
  <2>3. CASE pc > MeshesAt + 7
    BY <1>6, <2>3 DEF AddressesRead
  <2>4. CASE pc = MeshesAt + 7 /\ pc' = pc + 1
    <3>1. TwoClusters => Is(command, "west", "address", {Mesh("west")}, "none", 1)
      BY <1>1, <2>4, AtMeshes DEF command
    <3> QED BY <1>1, <1>3, <1>8, <1>9, <2>4, <3>1
  <2> QED BY <2>1, <2>2, <2>3, <2>4, Crossing
<1>11. pc' > ExchangeAt => info'.address["east"] = EastMesh
  <2>1. SUFFICES ASSUME pc' > ExchangeAt PROVE info'.address["east"] = EastMesh
    OBVIOUS
  <2>2. ExchangeAt \in Nat /\ ExchangeAt <= ExchangeAt + 8
    BY <1>1
  <2>3. CASE pc > ExchangeAt
    BY <1>7, <2>3 DEF AddressesRead
  <2>4. CASE pc = ExchangeAt /\ pc' = pc + 1
    <3>1. TwoClusters => pc = MeshesAt + 8 /\ Is(command, "east", "address", {Mesh("east")}, "none", 2)
      BY <1>1, <2>4, AtMeshes DEF command
    <3>2. ~TwoClusters => pc = MeshesAt + 7
      BY <1>1, <2>4
    <3> QED BY <1>1, <1>3, <1>8, <1>9, <2>4, <3>1, <3>2
  <2> QED BY <2>1, <2>2, <2>3, <2>4, Crossing
<1> QED BY <1>1, <1>10, <1>11 DEF AddressesRead

\* ... and so are the certificates.
LEMMA CertificatesReadStay ==
  ASSUME Quietly, ControlPlanes, CertificatesRead
  PROVE  CertificatesRead'
<1>1. /\ TypeInv /\ CommandStep /\ Base /\ InTest
      /\ ExchangeAt' = ExchangeAt /\ ExchangeAt \in Nat
      /\ Placed(command, pc, test, MeshesAt, ExchangeAt)
      /\ on = OwnCluster(command.side)
      /\ WestMesh' = WestMesh /\ EastMesh' = EastMesh
      /\ WestMesh = <<OwnCluster("west"), Mesh("west")>>
      /\ EastMesh = <<OwnCluster("east"), Mesh("east")>>
  BY QuietFacts
<1>2. pc' = pc + 1 => ~Breaks
  BY QuietFacts
<1>3. Shaped(info) /\ "west" \in Sides /\ "east" \in Sides
  BY <1>1 DEF TypeInv, Sides
<1>4. command.do = "certificate" =>
        (pc = ExchangeAt + 1 /\ command.side = "west") \/ (pc = ExchangeAt + 2 /\ command.side = "east")
  <2>1. command.do = "certificate" => pc = ExchangeAt + 1 \/ pc = ExchangeAt + 2
    BY <1>1 DEF Placed
  <2> QED BY <1>1, <2>1, AtExchange DEF command, Is
<1>5. ASSUME NEW s \in Sides, Is(command, s, "certificate", {Mesh(s)}, "none", 0), pc' = pc + 1
      PROVE  info'.certificate[s] = Cert(<<OwnCluster(s), Mesh(s)>>)
  <2> DEFINE v == The(on, ns1, "istiod").value
             m == <<OwnCluster(s), Mesh(s)>>
  <2>1. HasAll("istiod") /\ info' = [info EXCEPT !.certificate[s] = v]
    BY <1>1, <1>2, <1>5, Dispatch DEF GetConfigMapData, Is
  <2>2. on = m[1] /\ ns1 = m[2]
    BY <1>1, <1>5, OneNamespace DEF Is
  <2>3. HasAt(m, "istiod")
    BY <1>5, <2>1, <2>2 DEF HasAt, HasAll, Is
  <2>4. m[2] \in {Mesh("west"), Mesh("east")} /\ m = <<m[1], m[2]>>
    BY DEF Sides
  <2> HIDE DEF m
  <2>5. v = Cert(m)
    BY <2>2, <2>3, <2>4, TheCertificate
  <2> HIDE DEF v
  <2>6. info'.certificate[s] = v
    BY <1>3, <2>1, CertificateRead
  <2> QED BY <2>5, <2>6 DEF m
<1>6. pc' > ExchangeAt + 1 => info'.certificate["west"] = Cert(WestMesh)
  <2>1. SUFFICES ASSUME pc' > ExchangeAt + 1 PROVE info'.certificate["west"] = Cert(WestMesh)
    OBVIOUS
  <2>2. ExchangeAt + 1 \in Nat /\ ExchangeAt + 1 <= ExchangeAt + 8
    BY <1>1
  <2>3. CASE pc > ExchangeAt + 1
    <3>1. command.do = "certificate" => command.side # "west"
      BY <1>1, <1>4, <2>3
    <3>2. info'.certificate["west"] = info.certificate["west"]
      BY <1>1, <1>3, <3>1, Reads DEF CertificateReads
    <3> QED BY <2>3, <3>2 DEF CertificatesRead
  <2>4. CASE pc = ExchangeAt + 1 /\ pc' = pc + 1
    <3>1. Is(command, "west", "certificate", {Mesh("west")}, "none", 0)
      BY <1>1, <2>4, AtExchange DEF command
    <3>2. info'.certificate["west"] = Cert(<<OwnCluster("west"), Mesh("west")>>)
      BY <1>3, <1>5, <2>4, <3>1
    <3> QED BY <1>1, <3>2
  <2> QED BY <2>1, <2>2, <2>3, <2>4, Crossing
<1>7. pc' > ExchangeAt + 2 => info'.certificate["east"] = Cert(EastMesh)
  <2>1. SUFFICES ASSUME pc' > ExchangeAt + 2 PROVE info'.certificate["east"] = Cert(EastMesh)
    OBVIOUS
  <2>2. ExchangeAt + 2 \in Nat /\ ExchangeAt + 2 <= ExchangeAt + 8
    BY <1>1
  <2>3. CASE pc > ExchangeAt + 2
    <3>1. command.do = "certificate" => command.side # "east"
      BY <1>1, <1>4, <2>3
    <3>2. info'.certificate["east"] = info.certificate["east"]
      BY <1>1, <1>3, <3>1, Reads DEF CertificateReads
    <3> QED BY <2>3, <3>2 DEF CertificatesRead
  <2>4. CASE pc = ExchangeAt + 2 /\ pc' = pc + 1
    <3>1. Is(command, "east", "certificate", {Mesh("east")}, "none", 0)
      BY <1>1, <2>4, AtExchange DEF command
    <3>2. info'.certificate["east"] = Cert(<<OwnCluster("east"), Mesh("east")>>)
      BY <1>3, <1>5, <2>4, <3>1
    <3> QED BY <1>1, <3>2
  <2> QED BY <2>1, <2>2, <2>3, <2>4, Crossing
<1>8. Cert(WestMesh)' = Cert(WestMesh) /\ Cert(EastMesh)' = Cert(EastMesh)
  BY UnleakedStep DEF Quietly
<1> QED BY <1>1, <1>6, <1>7, <1>8 DEF CertificatesRead

\* What a mesh has been given is all there is, ...
LEMMA AllAreNow ==
  ASSUME NEW m, NEW what \in {"trust", "peer"}, NEW v, CommandStep, ~Breaks, on = m[1],
         command.do = "apply", command.ns = {m[2]}, command.what = what, v = Value
  PROVE  AllAre(m, what, v)'
<1>1. cluster' = Put(cluster, Manifest)
  BY Dispatch DEF Apply_
<1>2. Manifest = {Object(m[1], m[2], what, v)}
  BY DEF Manifest, Kinds
<1>3. ASSUME NEW o \in cluster', o.on = m[1], o.ns = m[2], o.what = what
      PROVE  o.value = v
  BY <1>1, <1>2, <1>3 DEF Put, Object
<1>4. \E o \in cluster' : o.on = m[1] /\ o.ns = m[2] /\ o.what = what
  <2>1. Object(m[1], m[2], what, v) \in cluster'
    BY <1>1, <1>2 DEF Put
  <2> QED BY <2>1 DEF Object
<1> QED BY <1>3, <1>4 DEF AllAre, HasAt, Has

\* ... as long as nothing else is applied there.
LEMMA AllAreStays ==
  ASSUME NEW m, NEW what \in {"trust", "peer"}, NEW v, AllAre(m, what, v), TypeInv,
         \/ ClusterStep
         \/ /\ CommandStep /\ phase' = "test"
            /\ ~(command.do = "apply" /\ command.what = what /\ m[2] \in command.ns)
  PROVE  AllAre(m, what, v)'
<1>1. HasAt(m, what)'
  BY HasStays DEF AllAre, HasAt
<1>2. ASSUME NEW o \in cluster', o.on = m[1], o.ns = m[2], o.what = what, o \notin cluster
      PROVE  FALSE
  <2>1. CASE ClusterStep
    BY <1>2, <2>1, NewOnCluster
  <2>2. CASE /\ CommandStep /\ phase' = "test"
             /\ ~(command.do = "apply" /\ command.what = what /\ m[2] \in command.ns)
    <3>1. Ordinary(command, test)
      BY <2>2, InTestStep
    <3>2. command.do \in {"apply", "create"} /\ command.what = what /\ m[2] \in command.ns
      BY <1>2, <2>2, NewObjects
    <3> QED BY <2>2, <3>1, <3>2 DEF Ordinary
  <2> QED BY <2>1, <2>2
<1> QED BY <1>1, <1>2 DEF AllAre

\* So what is given at one place of the program is kept after it.
LEMMA GivenOne ==
  ASSUME Quietly, NEW s \in Sides, NEW what \in {"trust", "peer"}, NEW m, NEW v, NEW x \in 3..7,
         m = <<OwnCluster(s), Mesh(s)>>,
         Is(program[ExchangeAt + x], s, "apply", {Mesh(s)}, what, 0),
         pc = ExchangeAt + x => Value = v,
         \A y \in 3..7 :
           pc = ExchangeAt + y /\ command.do = "apply" /\ command.what = what
             /\ Mesh(s) \in command.ns => y = x,
         pc > ExchangeAt + x => AllAre(m, what, v),
         pc' > ExchangeAt + x
  PROVE  AllAre(m, what, v)'
<1>1. /\ TypeInv /\ CommandStep /\ phase' = "test" /\ ExchangeAt \in Nat
      /\ Placed(command, pc, test, MeshesAt, ExchangeAt)
      /\ on = OwnCluster(command.side)
      /\ pc' = pc + 1 => ~Breaks
  BY QuietFacts
<1>2. ExchangeAt + x \in Nat /\ ExchangeAt + x <= ExchangeAt + 8
  BY <1>1
<1>3. m[1] = OwnCluster(s) /\ m[2] = Mesh(s)
  OBVIOUS
<1>4. CASE pc > ExchangeAt + x
  <2>1. command.do = "apply" /\ command.what = what =>
          pc \in {ExchangeAt + 3, ExchangeAt + 4, ExchangeAt + 6, ExchangeAt + 7}
    BY <1>1 DEF Placed
  <2>2. ~(command.do = "apply" /\ command.what = what /\ m[2] \in command.ns)
    BY <1>1, <1>3, <1>4, <2>1
  <2> QED BY <1>1, <1>4, <2>2, AllAreStays
<1>5. CASE pc = ExchangeAt + x /\ pc' = pc + 1
  <2>1. Is(command, s, "apply", {Mesh(s)}, what, 0)
    BY <1>5 DEF command
  <2>2. command.side = s /\ command.do = "apply" /\ command.ns = {m[2]} /\ command.what = what
    BY <1>3, <2>1 DEF Is
  <2>3. on = m[1] /\ v = Value /\ ~Breaks
    BY <1>1, <1>3, <1>5, <2>2
  <2> QED BY <1>1, <2>2, <2>3, AllAreNow
<1> QED BY <1>2, <1>4, <1>5, Crossing

\* The certificates and addresses that are given are those of the other mesh.
LEMMA GivenStays ==
  ASSUME Quietly, AddressesRead, CertificatesRead, Given
  PROVE  Given'
<1>1. /\ Base /\ InTest /\ MeshesAt \in Nat /\ ExchangeAt \in Nat
      /\ ExchangeAt = MeshesAt + (IF TwoClusters THEN 8 ELSE 7)
      /\ ExchangeAt' = ExchangeAt /\ WestMesh' = WestMesh /\ EastMesh' = EastMesh
      /\ WestMesh = <<OwnCluster("west"), Mesh("west")>>
      /\ EastMesh = <<OwnCluster("east"), Mesh("east")>>
      /\ Mesh("west") # Mesh("east") /\ pc \in Nat
  BY QuietFacts, UnleakedStep, InTestStep DEF Quietly
<1>2. (Cert(WestMesh))' = Cert(WestMesh) /\ (Cert(EastMesh))' = Cert(EastMesh)
  BY UnleakedStep DEF Quietly
<1>3. /\ Is(program[ExchangeAt + 3], "west", "apply", {Mesh("west")}, "trust", 0)
      /\ Is(program[ExchangeAt + 4], "west", "apply", {Mesh("west")}, "peer", 0)
      /\ Is(program[ExchangeAt + 6], "east", "apply", {Mesh("east")}, "trust", 0)
      /\ Is(program[ExchangeAt + 7], "east", "apply", {Mesh("east")}, "peer", 0)
  BY <1>1, AtExchange
<1>4. /\ pc = ExchangeAt + 3 => command.what = "trust" /\ command.ns = {Mesh("west")} /\ command.side = "west"
      /\ pc = ExchangeAt + 4 => command.what = "peer" /\ command.ns = {Mesh("west")} /\ command.side = "west"
      /\ pc = ExchangeAt + 6 => command.what = "trust" /\ command.ns = {Mesh("east")} /\ command.side = "east"
      /\ pc = ExchangeAt + 7 => command.what = "peer" /\ command.ns = {Mesh("east")} /\ command.side = "east"
  BY <1>3 DEF command, Is
<1>5. /\ "west" \in Sides /\ "east" \in Sides /\ Other("west") = "east"
      /\ Other("east") = "west"
  BY DEF Sides, Other
<1>6. \A y \in 3..7 :
        pc = ExchangeAt + y /\ command.do = "apply" /\ command.what \in {"trust", "peer"} =>
          y \in {3, 4, 6, 7}
  <2>1. Placed(command, pc, test, MeshesAt, ExchangeAt)
    BY QuietFacts
  <2> QED BY <1>1, <2>1 DEF Placed
<1>7. pc' > ExchangeAt + 3 => AllAre(WestMesh, "trust", Cert(EastMesh))'
  <2>1. PICK m, v : m = WestMesh /\ v = Cert(EastMesh)
    OBVIOUS
  <2>2. pc = ExchangeAt + 3 => Value = v
    BY <1>1, <1>4, <1>5, <2>1 DEF Value, CertificatesRead
  <2>3. \A y \in 3..7 :
          pc = ExchangeAt + y /\ command.do = "apply" /\ command.what = "trust"
            /\ Mesh("west") \in command.ns => y = 3
    BY <1>1, <1>4, <1>6
  <2>4. pc > ExchangeAt + 3 => AllAre(m, "trust", v)
    BY <2>1 DEF Given
  <2>5. ASSUME pc' > ExchangeAt + 3 PROVE AllAre(m, "trust", v)'
    <3>1. m = <<OwnCluster("west"), Mesh("west")>> /\ "trust" \in {"trust", "peer"} /\ 3 \in 3..7
      BY <1>1, <2>1
    <3>2. Is(program[ExchangeAt + 3], "west", "apply", {Mesh("west")}, "trust", 0)
      BY <1>3
    <3> QED BY <1>5, <2>2, <2>3, <2>4, <2>5, <3>1, <3>2, GivenOne
  <2>6. m = WestMesh' /\ v = (Cert(EastMesh))'
    BY <1>1, <1>2, <2>1
  <2> QED BY <2>5, <2>6
<1>8. pc' > ExchangeAt + 4 => AllAre(WestMesh, "peer", EastMesh)'
  <2>1. PICK m, v : m = WestMesh /\ v = EastMesh
    OBVIOUS
  <2>2. pc = ExchangeAt + 4 => Value = v
    BY <1>1, <1>4, <1>5, <2>1 DEF Value, AddressFor, AddressesRead
  <2>3. \A y \in 3..7 :
          pc = ExchangeAt + y /\ command.do = "apply" /\ command.what = "peer"
            /\ Mesh("west") \in command.ns => y = 4
    BY <1>1, <1>4, <1>6
  <2>4. pc > ExchangeAt + 4 => AllAre(m, "peer", v)
    BY <2>1 DEF Given
  <2>5. ASSUME pc' > ExchangeAt + 4 PROVE AllAre(m, "peer", v)'
    <3>1. m = <<OwnCluster("west"), Mesh("west")>> /\ "peer" \in {"trust", "peer"} /\ 4 \in 3..7
      BY <1>1, <2>1
    <3>2. Is(program[ExchangeAt + 4], "west", "apply", {Mesh("west")}, "peer", 0)
      BY <1>3
    <3> QED BY <1>5, <2>2, <2>3, <2>4, <2>5, <3>1, <3>2, GivenOne
  <2>6. m = WestMesh' /\ v = EastMesh'
    BY <1>1, <1>2, <2>1
  <2> QED BY <2>5, <2>6
<1>9. pc' > ExchangeAt + 6 => AllAre(EastMesh, "trust", Cert(WestMesh))'
  <2>1. PICK m, v : m = EastMesh /\ v = Cert(WestMesh)
    OBVIOUS
  <2>2. pc = ExchangeAt + 6 => Value = v
    BY <1>1, <1>4, <1>5, <2>1 DEF Value, CertificatesRead
  <2>3. \A y \in 3..7 :
          pc = ExchangeAt + y /\ command.do = "apply" /\ command.what = "trust"
            /\ Mesh("east") \in command.ns => y = 6
    BY <1>1, <1>4, <1>6
  <2>4. pc > ExchangeAt + 6 => AllAre(m, "trust", v)
    BY <2>1 DEF Given
  <2>5. ASSUME pc' > ExchangeAt + 6 PROVE AllAre(m, "trust", v)'
    <3>1. m = <<OwnCluster("east"), Mesh("east")>> /\ "trust" \in {"trust", "peer"} /\ 6 \in 3..7
      BY <1>1, <2>1
    <3>2. Is(program[ExchangeAt + 6], "east", "apply", {Mesh("east")}, "trust", 0)
      BY <1>3
    <3> QED BY <1>5, <2>2, <2>3, <2>4, <2>5, <3>1, <3>2, GivenOne
  <2>6. m = EastMesh' /\ v = (Cert(WestMesh))'
    BY <1>1, <1>2, <2>1
  <2> QED BY <2>5, <2>6
<1>10. pc' > ExchangeAt + 7 => AllAre(EastMesh, "peer", WestMesh)'
  <2>1. PICK m, v : m = EastMesh /\ v = WestMesh
    OBVIOUS
  <2>2. pc = ExchangeAt + 7 => Value = v
    BY <1>1, <1>4, <1>5, <2>1 DEF Value, AddressFor, AddressesRead
  <2>3. \A y \in 3..7 :
          pc = ExchangeAt + y /\ command.do = "apply" /\ command.what = "peer"
            /\ Mesh("east") \in command.ns => y = 7
    BY <1>1, <1>4, <1>6
  <2>4. pc > ExchangeAt + 7 => AllAre(m, "peer", v)
    BY <2>1 DEF Given
  <2>5. ASSUME pc' > ExchangeAt + 7 PROVE AllAre(m, "peer", v)'
    <3>1. m = <<OwnCluster("east"), Mesh("east")>> /\ "peer" \in {"trust", "peer"} /\ 7 \in 3..7
      BY <1>1, <2>1
    <3>2. Is(program[ExchangeAt + 7], "east", "apply", {Mesh("east")}, "peer", 0)
      BY <1>3
    <3> QED BY <1>5, <2>2, <2>3, <2>4, <2>5, <3>1, <3>2, GivenOne
  <2>6. m = EastMesh' /\ v = WestMesh'
    BY <1>1, <1>2, <2>1
  <2> QED BY <2>5, <2>6
<1> QED BY <1>1, <1>7, <1>8, <1>9, <1>10 DEF Given

\* Commands, ...
LEMMA CommandKeepsPeers ==
  ASSUME TypeInv, KubeInv, PeersInv, CommandStep
  PROVE  PeersInv'
<1>1. SUFFICES ASSUME InTest', fresh', ~leaked'
               PROVE  (ControlPlanes /\ Running /\ AddressesRead /\ CertificatesRead /\ Given)'
  BY DEF PeersInv
<1>2. Quietly
  BY <1>1 DEF Quietly
<1>3. ControlPlanes /\ Running /\ AddressesRead /\ CertificatesRead /\ Given
  BY <1>2, QuietFacts DEF PeersInv
<1>4. ControlPlanes'
  BY <1>2, <1>3, ControlPlanesStay
<1>5. Running'
  BY <1>2, <1>3, RunningStays
<1>6. AddressesRead'
  BY <1>2, <1>3, AddressesReadStay
<1>7. CertificatesRead'
  BY <1>2, <1>3, CertificatesReadStay
<1>8. Given'
  BY <1>2, <1>3, GivenStays
<1> QED BY <1>4, <1>5, <1>6, <1>7, <1>8

\* ... clusters ...
LEMMA ClusterKeepsPeers ==
  ASSUME TypeInv, PeersInv, ClusterStep
  PROVE  PeersInv'
<1>1. UNCHANGED <<scenario, todo, phase, pc, info, fresh, leaked>>
  BY ClusterKeepsTypes DEF ClusterOnly, history
<1>2. TwoClusters' = TwoClusters /\ test' = test /\ MustSkip' = MustSkip
  BY <1>1, SameProgram
<1>3. /\ MeshesAt' = MeshesAt /\ ExchangeAt' = ExchangeAt /\ WestMesh' = WestMesh
      /\ EastMesh' = EastMesh
      /\ InTest' = InTest
  BY <1>1, <1>2 DEF MeshesAt, ExchangeAt, WestMesh, EastMesh, InTest
<1>4. \A ns : Custom(ns)' <=> Custom(ns)
  BY <1>2 DEF Custom
<1>5. SUFFICES ASSUME InTest, fresh, ~leaked
               PROVE  (ControlPlanes /\ Running /\ AddressesRead /\ CertificatesRead /\ Given)'
  BY <1>1, <1>3 DEF PeersInv
<1>6. ControlPlanes /\ Running /\ AddressesRead /\ CertificatesRead /\ Given
  BY <1>5 DEF PeersInv
<1>7. ControlPlanes'
  <2>1. SUFFICES ASSUME NEW o \in cluster', o.ns \in {Mesh("west"), Mesh("east")}
                 PROVE  /\ o.what = "smcp" => o.value = IF Custom(o.ns) THEN <<"custom">> ELSE <<>>
                        /\ o.what = "istiod" => o.value = Cert(<<o.on, o.ns>>)
    BY <1>2 DEF ControlPlanes, Cert, Custom
  <2>2. CASE o \in cluster
    BY <1>6, <2>1, <2>2 DEF ControlPlanes
  <2>3. CASE o \notin cluster
    <3>1. o.what # "smcp"
      BY <2>3, NewOnCluster
    <3>2. ASSUME o.what = "istiod" PROVE o.value = Cert(<<o.on, o.ns>>)
      <4>1. PICK p \in cluster : /\ p.on = o.on /\ p.ns = o.ns /\ p.what = "smcp"
                                 /\ o.value = Certificate(p)
        BY <2>3, <3>2, NewOnCluster
      <4>2. p.value = IF Custom(o.ns) THEN <<"custom">> ELSE <<>>
        BY <1>6, <2>1, <4>1 DEF ControlPlanes
      <4>3. CASE Custom(o.ns)
        BY <4>1, <4>2, <4>3 DEF Certificate, Cert
      <4>4. CASE ~Custom(o.ns)
        <5>1. p.value # <<"custom">>
          BY <4>2, <4>4
        <5> QED BY <4>1, <4>4, <5>1 DEF Certificate, Cert
      <4> QED BY <4>3, <4>4
    <3> QED BY <3>1, <3>2
  <2> QED BY <2>2, <2>3
<1>8. Running'
  <2>1. \A m : HasAt(m, "istiod") => HasAt(m, "istiod")'
    BY HasStays DEF HasAt
  <2>2. PICK w, e : w = WestMesh /\ e = EastMesh
    OBVIOUS
  <2>3. /\ pc > MeshesAt + 5 => HasAt(w, "istiod")'
        /\ pc > MeshesAt + 6 => HasAt(e, "istiod")'
    BY <1>6, <2>1, <2>2 DEF Running
  <2>4. w = WestMesh' /\ e = EastMesh'
    BY <1>3, <2>2
  <2> QED BY <1>1, <1>3, <2>3, <2>4 DEF Running
<1>9. (Cert(WestMesh))' = Cert(WestMesh) /\ (Cert(EastMesh))' = Cert(EastMesh)
  BY <1>2, <1>3 DEF Cert, Custom
<1>10. AddressesRead' /\ CertificatesRead'
  BY <1>1, <1>3, <1>6, <1>9 DEF AddressesRead, CertificatesRead
<1>11. Given'
  <2>1. PICK w, e, cw, ce : w = WestMesh /\ e = EastMesh /\ cw = Cert(WestMesh) /\ ce = Cert(EastMesh)
    OBVIOUS
  <2>2. \A m, v : /\ AllAre(m, "trust", v) => AllAre(m, "trust", v)'
                  /\ AllAre(m, "peer", v) => AllAre(m, "peer", v)'
    BY AllAreStays
  <2>3. /\ pc > ExchangeAt + 3 => AllAre(w, "trust", ce)'
        /\ pc > ExchangeAt + 4 => AllAre(w, "peer", e)'
        /\ pc > ExchangeAt + 6 => AllAre(e, "trust", cw)'
        /\ pc > ExchangeAt + 7 => AllAre(e, "peer", w)'
    BY <1>6, <2>1, <2>2 DEF Given
  <2>4. w = WestMesh' /\ e = EastMesh' /\ cw = (Cert(WestMesh))' /\ ce = (Cert(EastMesh))'
    BY <1>3, <1>9, <2>1
  <2> QED BY <1>1, <1>3, <2>3, <2>4 DEF Given
<1> QED BY <1>7, <1>8, <1>10, <1>11

\* ... and processes keep what is known of the exchange.
LEMMA ProcessKeepsPeers ==
  ASSUME TypeInv, PeersInv, ProcessStep
  PROVE  PeersInv'
<1>1. SUFFICES ASSUME InTest', fresh'
               PROVE  (ControlPlanes /\ Running /\ AddressesRead /\ CertificatesRead /\ Given)'
  BY DEF PeersInv
<1>2. phase' = "test"
  BY <1>1 DEF InTest
<1>3. pc' = 1 /\ MeshesAt' \in Nat /\ ExchangeAt' \in Nat /\ (SetupDone \/ Skip \/ NextTest)
  BY <1>2, Begins
<1>4. ASSUME NEW tests, Begin(tests), cluster' = cluster
      PROVE  \A o \in cluster' : o.ns \notin {Mesh("west"), Mesh("east")}
  <2>1. test' = tests[1] /\ fresh' = \A s, c \in Sides : ~Exists(c, Namespaces(tests[1], s))
    BY <1>2, <1>4 DEF Begin, Goto, test
  <2>2. \A s, c \in Sides : ~Exists(c, Namespaces(tests[1], s))
    BY <1>1, <2>1
  <2>3. \A o \in cluster : o.on \in Sides
    BY DEF TypeInv, TypeOK
  <2> QED BY <1>4, <2>2, <2>3 DEF Exists, Namespaces, Mesh, Sides
<1>5. \A o \in cluster' : o.ns \notin {Mesh("west"), Mesh("east")}
  BY <1>3, <1>4 DEF SetupDone, Skip, NextTest
<1>6. ControlPlanes'
  BY <1>5 DEF ControlPlanes
<1>7. /\ ~(pc' > MeshesAt' + 5) /\ ~(pc' > MeshesAt' + 6) /\ ~(pc' > MeshesAt' + 7)
      /\ ~(pc' > ExchangeAt')
      /\ ~(pc' > ExchangeAt' + 1) /\ ~(pc' > ExchangeAt' + 2) /\ ~(pc' > ExchangeAt' + 3)
      /\ ~(pc' > ExchangeAt' + 4)
      /\ ~(pc' > ExchangeAt' + 6) /\ ~(pc' > ExchangeAt' + 7)
  <2> DEFINE c == MeshesAt' l == ExchangeAt' p == pc'
  <2>1. c \in Nat /\ l \in Nat /\ l # 0 /\ p = 1
    BY <1>3 DEF MeshesAt, ExchangeAt, BeforeExchange, BeforeMeshes
  <2> HIDE DEF c, l, p
  <2>2. /\ ~(p > c + 5) /\ ~(p > c + 6) /\ ~(p > c + 7) /\ ~(p > l)
        /\ ~(p > l + 1) /\ ~(p > l + 2) /\ ~(p > l + 3) /\ ~(p > l + 4)
        /\ ~(p > l + 6) /\ ~(p > l + 7)
    BY <2>1
  <2> QED BY <2>2 DEF c, l, p
<1>8. Running' /\ AddressesRead'
  BY <1>7 DEF Running, AddressesRead
<1>9. CertificatesRead'
  BY <1>7 DEF CertificatesRead
<1>10. Given'
  BY <1>7 DEF Given
<1> QED BY <1>6, <1>8, <1>9, <1>10

(***************************************************************************)
(* What a test has read of each mesh, and given to the other one, as far   *)
(* as it has come.                                                         *)
(***************************************************************************)
THEOREM PeersInvariant == Spec => []PeersInv
<1>1. Init => PeersInv
  BY DEF Init, PeersInv, InTest
<1>2. TypeInv /\ KubeInv /\ PeersInv /\ [Next]_vars => PeersInv'
  <2>1. ASSUME PeersInv, UNCHANGED vars
        PROVE  PeersInv'
    <3>1. TwoClusters' = TwoClusters /\ test' = test /\ MustSkip' = MustSkip
      BY <2>1, SameProgram DEF vars
    <3>2. UNCHANGED <<scenario, todo, phase, pc, info, fresh, leaked, cluster>>
      BY <2>1 DEF vars, history
    <3>3. /\ MeshesAt' = MeshesAt /\ ExchangeAt' = ExchangeAt /\ WestMesh' = WestMesh
          /\ EastMesh' = EastMesh /\ InTest' = InTest
          /\ ControlPlanes' = ControlPlanes
      BY <3>1, <3>2 DEF MeshesAt, ExchangeAt, WestMesh, EastMesh, InTest, ControlPlanes,
          Cert, Custom
    <3>4. (Cert(WestMesh))' = Cert(WestMesh) /\ (Cert(EastMesh))' = Cert(EastMesh)
      BY <3>1, <3>3 DEF Cert, Custom
    <3>5. Running' = Running /\ AddressesRead' = AddressesRead /\ CertificatesRead' = CertificatesRead
            /\ Given' = Given
      BY <3>2, <3>3, <3>4 DEF Running, AddressesRead, CertificatesRead, Given, AllAre, HasAt,
          Has
    <3> QED BY <2>1, <3>2, <3>3, <3>5 DEF PeersInv
  <2> QED BY <2>1, Steps, CommandKeepsPeers, ProcessKeepsPeers, ClusterKeepsPeers
<1> QED BY <1>1, <1>2, TypesInvariant, KubeconfigInvariant, PTL DEF Spec

(***************************************************************************)
(* When a test waits for the connection of the meshes, both have the       *)
(* address and the root certificate of the other one, if it began without  *)
(* leftovers and KUBECONFIG is as it was.                                  *)
(***************************************************************************)
THEOREM PeersKnow == Spec => []PeersKnowEachOther
<1>1. TypeInv /\ PeersInv => PeersKnowEachOther
  <2>1. SUFFICES ASSUME TypeInv, PeersInv, phase = "test", Doing("connected"), fresh, ~leaked
                 PROVE  PeerIs(WestMesh, EastMesh) /\ PeerIs(EastMesh, WestMesh)
    BY DEF PeersKnowEachOther
  <2>2. Base /\ InTest /\ pc \in 1..Len(program) /\ Len(program) \in Nat
    <3>1. Base /\ pc \in 1..Len(program) + 1 /\ Len(program) \in Nat
      BY BaseSuffices, LengthIs, <2>1 DEF TypeInv, TypeOK
    <3>2. pc <= Len(program)
      BY <2>1 DEF Doing
    <3>3. ~MustSkip
      <4>1. SUFFICES ASSUME MustSkip PROVE FALSE
        OBVIOUS
      <4>2. program = <<>>
        BY <2>1, <4>1 DEF program
      <4>3. Len(program) = 0
        BY <4>2
      <4> QED BY <3>1, <3>2, <4>3
    <3> QED BY <2>1, <3>1, <3>2, <3>3 DEF InTest
  <2>3. pc > ExchangeAt + 8 /\ MeshesAt \in Nat /\ ExchangeAt = MeshesAt + (IF TwoClusters THEN 8 ELSE 7)
    <3>1. Placed(command, pc, test, MeshesAt, ExchangeAt)
      BY <2>1, <2>2, CommandFacts DEF TestCommand
    <3>2. pc > ExchangeAt + 8
      BY <2>1, <3>1 DEF Doing, Placed
    <3> QED BY <3>2 DEF MeshesAt, ExchangeAt, BeforeMeshes, BeforeExchange
  <2>4. ControlPlanes /\ Running /\ Given
    BY <2>1, <2>2 DEF PeersInv
  <2>5. HasAt(WestMesh, "istiod") /\ HasAt(EastMesh, "istiod")
    BY <2>2, <2>3, <2>4 DEF Running
  <2>6. /\ AllAre(WestMesh, "trust", Cert(EastMesh)) /\ AllAre(WestMesh, "peer", EastMesh)
        /\ AllAre(EastMesh, "trust", Cert(WestMesh)) /\ AllAre(EastMesh, "peer", WestMesh)
    BY <2>2, <2>3, <2>4 DEF Given
  <2>7. /\ The(WestMesh[1], WestMesh[2], "istiod").value = Cert(WestMesh)
        /\ The(EastMesh[1], EastMesh[2], "istiod").value = Cert(EastMesh)
    <3>1. /\ WestMesh[2] = Mesh("west") /\ EastMesh[2] = Mesh("east")
          /\ WestMesh = <<WestMesh[1], WestMesh[2]>> /\ EastMesh = <<EastMesh[1], EastMesh[2]>>
      BY DEF WestMesh, EastMesh, Mesh
    <3> QED BY <2>4, <2>5, <3>1, TheCertificate
  <2>8. /\ The(WestMesh[1], WestMesh[2], "trust").value = Cert(EastMesh)
        /\ The(WestMesh[1], WestMesh[2], "peer").value = EastMesh
        /\ The(EastMesh[1], EastMesh[2], "trust").value = Cert(WestMesh)
        /\ The(EastMesh[1], EastMesh[2], "peer").value = WestMesh
    BY <2>6, AllAreThe
  <2> QED BY <2>5, <2>6, <2>7, <2>8 DEF PeerIs, AllAre, HasAt
<1> QED BY <1>1, TypesInvariant, PeersInvariant, PTL

================================================================================
