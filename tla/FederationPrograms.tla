-------------------------- MODULE FederationPrograms ---------------------------
(***************************************************************************)
(* The commands that the federation tests, and the installer of MetalLB    *)
(* that their TestMain may call, run on the clusters.  Each is run by an   *)
(* OC: that of the west mesh or that of the east mesh.                     *)
(***************************************************************************)
EXTENDS Naturals, Sequences

Sides == {"west", "east"}
Other(side) == IF side = "west" THEN "east" ELSE "west"
Tests == <<"failover", "split", "certs">>   \* in the order of their files
smcpNamespace == [west |-> "west-mesh-system", east |-> "east-mesh-system"]
bookinfoNamespace(test) ==
  IF test = "failover" THEN [west |-> "bookinfo-ha", east |-> "bookinfo-ha"]
  ELSE [west |-> "west-mesh-bookinfo", east |-> "east-mesh-bookinfo"]
metallbNamespace == "metallb-system"

\* A command of the OC of "side": what it does, in which namespaces, to what; the
\* commands of one UntilSuccess have its number as their loop, from 1.  "unset"
\* are those that the code runs without the kubeconfig of the OC.
Command(side, do, ns, what) ==
  [side |-> side, do |-> do, ns |-> {ns}, what |-> what, loop |-> 0, unset |-> FALSE]
InAll(command, S) == [command EXCEPT !.ns = S]
Until(n, command) == [command EXCEPT !.loop = n]
\* ApplyString, ApplyFile, ApplyTemplateString, ApplyTemplateFile.
Apply(side, ns, what) == Command(side, "apply", ns, what)

------------------------------------------------------------------------------
\* Mutant: all namespaces at the same time, also if there are two clusters.
DeleteAllAtOnce(test, single) ==
  <<InAll(Command("west", "deleteNs", "none", "none"),
          {smcpNamespace[s] : s \in Sides} \cup {bookinfoNamespace(test)[s] : s \in Sides})>>

\* Tests with one cluster run every command with DefaultOC.
DeleteNamespaces(test, single) ==
  LET both(s) == {smcpNamespace[s], bookinfoNamespace(test)[s]}
  IN  IF single
      THEN <<InAll(Command("west", "deleteNs", "none", "none"), both("west") \cup both("east"))>>
      ELSE <<InAll(Command("west", "deleteNs", "none", "none"), both("west")),
             InAll(Command("east", "deleteNs", "none", "none"), both("east"))>>

CreateNamespaces(test, side) ==
  InAll(Apply(side, "none", "namespace"), {smcpNamespace[side], bookinfoNamespace(test)[side]})

installSMCPandSMMR(side, smcp) ==
  <<Apply(side, smcpNamespace[side], smcp), Apply(side, smcpNamespace[side], "smmr")>>

\* CreateGenericSecretFromFiles deletes the secret first.
CacertsSecret ==
  <<Command("west", "delete", smcpNamespace["west"], "cacerts"),
    Command("west", "create", smcpNamespace["west"], "cacerts")>>

controlPlaneInstaller(test) ==
  (IF test = "certs" THEN CacertsSecret ELSE <<>>)
    \o installSMCPandSMMR("west", IF test = "certs" THEN "customSmcp" ELSE "smcp")
    \o installSMCPandSMMR("east", "smcp")

getLoadBalancerIngressAddress(n, side) ==
  <<Until(n, Command(side, "address", smcpNamespace[side], "none"))>>
getRootCertificate(side) == <<Command(side, "certificate", smcpNamespace[side], "none")>>

Peers(side) ==
  <<Apply(side, smcpNamespace[side], "trust"), Apply(side, smcpNamespace[side], "peer"),
    Apply(side, smcpNamespace[side], "services")>>

\* The workloads that the checks ask for the requests they received: the ratings.
\* The names of the other files stand for what is in them.
defaultBookinfoInstaller(test) ==
  LET west(file) == Apply("west", bookinfoNamespace(test)["west"], file)
      east(file) == Apply("east", bookinfoNamespace(test)["east"], file)
  IN  <<west("ratingsService"), west("ratings"), west("mongodb"), west("rules")>>
        \o <<east("bookinfo"), east("ratings"), east("gateway"), east("rules"), east("reviewsV3"),
             east("mongodbService"), east("remoteMongodb"), east("ratingsSplit")>>
failoverBookinfoInstaller(test) ==
  LET west(file) == Apply("west", bookinfoNamespace(test)["west"], file)
      east(file) == Apply("east", bookinfoNamespace(test)["east"], file)
  IN  <<west("ratings"), west("rules")>>
        \o <<east("ratings"), east("gateway"), east("rules"), east("reviewsV3"),
             east("failoverRule")>>
WaitAllPodsReady(test, side) ==
  <<Command(side, "podsReady", bookinfoNamespace(test)[side], "none")>>
connected(side) == Command(side, "connected", smcpNamespace[side], "none")
ImportedServices == Command("east", "imports", smcpNamespace["east"], "none")
GetRouteURL == Command("east", "ask", smcpNamespace["east"], "route")

\* One attempt reads the counts of requests of the ratings of both meshes, or of
\* the west mesh, sends ten requests to the east mesh and reads them again.
Count(n, side) == Until(n, Command(side, "count", "none", "none"))
Compare_(n, expect) == Until(n, Command("east", "compare", "none", expect))
RequestCounts(n, expect) == <<Count(n, "east"), Count(n, "west"), Compare_(n, expect)>>
\* Mutant: only what was imported.
CheckOfImports == <<Until(4, ImportedServices), Until(4, GetRouteURL)>>

\* Here the check is one attempt from the imported services to the counts.
defaultChecker ==
  <<Until(4, ImportedServices), Until(4, GetRouteURL)>> \o RequestCounts(4, "both")

ScaleDeploymentAndWait(replicas) ==
  <<Command("east", "scale", bookinfoNamespace("failover")["east"], replicas),
    Command("east", "ask", bookinfoNamespace("failover")["east"], "rollout")>>
failoverChecker ==
  <<Until(4, ImportedServices), GetRouteURL>>
    \o RequestCounts(5, "eastOnly")
    \o ScaleDeploymentAndWait(0)
    \o <<Count(6, "west"), Compare_(6, "west")>>
    \o ScaleDeploymentAndWait(1)
    \o RequestCounts(7, "eastOnly")

\* federationTest.run: its cleanup is registered first.
federationTest_run(test, controlPlane, addresses, bookinfo, checks) ==
  <<Command("west", "Cleanup", "none", "none"),
    CreateNamespaces(test, "west"), CreateNamespaces(test, "east")>>
  \o controlPlane
  \o <<Command("west", "smcpReady", smcpNamespace["west"], "none"),
       Command("east", "smcpReady", smcpNamespace["east"], "none")>>
  \o addresses
  \o getRootCertificate("west") \o getRootCertificate("east")
  \o Peers("west") \o Peers("east")
  \o bookinfo
  \o WaitAllPodsReady(test, "west") \o WaitAllPodsReady(test, "east")
  \o <<Until(3, connected("west")), Until(3, connected("east"))>>
  \o checks
getAddresses(single) ==
  IF single THEN <<Command("west", "clusterIP", "none", "none")>>
  ELSE getLoadBalancerIngressAddress(1, "west") \o getLoadBalancerIngressAddress(2, "east")
getRegions ==
  <<Command("west", "region", "none", "none"), Command("east", "region", "none", "none")>>

\* The failover test asks for the regions before it runs.
run(test, single) ==
  IF test = "failover"
  THEN getRegions \o federationTest_run(test, controlPlaneInstaller(test), getAddresses(single),
                                        failoverBookinfoInstaller(test), failoverChecker)
  ELSE federationTest_run(test, controlPlaneInstaller(test), getAddresses(single),
                          defaultBookinfoInstaller(test), defaultChecker)

runs == [test \in {Tests[i] : i \in DOMAIN Tests} |-> [single \in BOOLEAN |-> run(test, single)]]

------------------------------------------------------------------------------
(***************************************************************************)
(* metallb.InstallIfNotExist.  Each part is skipped if what it installs is *)
(* there; WaitFor does not use the kubeconfig of its OC.                   *)
(***************************************************************************)
Part(side, what, commands) ==
  <<Command(side, "skipIfExists", metallbNamespace, what)>> \o commands
Available(side, what) ==
  [Command(side, "available", metallbNamespace, what) EXCEPT !.unset = TRUE]
installOperator(side, n) ==
  Part(side, "operator",
       <<Command(side, "ask", metallbNamespace, "version"),
         Apply(side, metallbNamespace, "subscription"),
         Until(n, Command(side, "exists", metallbNamespace, "operator")),
         Available(side, "operatorAvailable")>>)
deployMetalLB(side, n) ==
  Part(side, "controller",
       <<Apply(side, metallbNamespace, "metallb"),
         Until(n, Command(side, "exists", metallbNamespace, "controller")),
         Available(side, "controllerAvailable")>>)
createAddressPool(side, n) ==
  Part(side, "pool",
       <<Until(n, Command(side, "ask", "none", "nodes")), Apply(side, metallbNamespace, "pool")>>)
\* Where the commands of a part go on if it is skipped: the next part.
EndsPart(command) == command.do = "skipIfExists"

installWithOC(side, n) ==
  installOperator(side, n) \o deployMetalLB(side, n + 1) \o createAddressPool(side, n + 2)
InstallIfNotExist == installWithOC("west", 1) \o installWithOC("east", 4)

================================================================================
