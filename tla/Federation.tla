------------------------------- MODULE Federation -------------------------------
(***************************************************************************)
(* The test binary of the federation tests: TestMain's setup, the tests    *)
(* one after the other with their cleanups, and the reruns of those that   *)
(* failed, each in a new process; on the clusters "west", the one the      *)
(* process inherits in KUBECONFIG, and "east", that of KUBECONFIG2.        *)
(*                                                                         *)
(* An OC with a kubeconfig sets KUBECONFIG around its command, and leaves  *)
(* it set when the command fails (Goexit and panic do not come by the      *)
(* second setEnv; see Harness).  DefaultOC uses KUBECONFIG as it is.       *)
(* Outside of UntilSuccess, a command that fails ends the test; in it, it  *)
(* ends the attempt, and there may be another one.                         *)
(***************************************************************************)
EXTENDS FederationPrograms, FiniteSets

CONSTANTS
  Scenarios   \* environments the binary may run in

\* The environment: are there KUBECONFIG2, ROSA, and MetalLB to install; the tests
\* to run; and (a bound, gotestsum's is two for each test) how many reruns.
Environment(kubeconfig2, rosa, metallb, tests, reruns_) ==
  [kubeconfig2 |-> kubeconfig2, rosa |-> rosa, metallb |-> metallb, tests |-> tests,
   reruns |-> reruns_]

EnvironmentType == [kubeconfig2 : BOOLEAN, rosa : BOOLEAN, metallb : BOOLEAN,
                    tests : Seq({Tests[i] : i \in DOMAIN Tests}), reruns : Nat]

ASSUME FederationAssumption ==
  /\ Scenarios \subseteq EnvironmentType
  /\ \A s \in Scenarios : s.tests # <<>>

VARIABLES
  scenario,
  reruns,        \* processes still to come
  todo,          \* the tests of this process, the running one first
  phase, pc,
  kubeconfig,    \* the cluster that KUBECONFIG is for
  cluster,       \* the objects of both clusters
  info,          \* what the test has read so far
  attemptFailed, \* a check of this attempt failed, which went on
  result,        \* of every test, the last
  westRanOn,     \* history: clusters that the test's west commands ran on
  fresh,         \* history: none of its namespaces existed when it began
  leaked,        \* history: KUBECONFIG was left changed in this process
  misread        \* history: an error was taken for "exists"

history == <<westRanOn, fresh, leaked, misread>>
vars == <<scenario, reruns, todo, phase, pc, kubeconfig, cluster, info, attemptFailed,
          result, history>>

test == todo[1]
\* setKubeconfig, and its equivalents in the failover test and in TestMain.
TwoClusters == scenario.kubeconfig2 /\ (phase = "setup" \/ test = "failover" \/ ~scenario.rosa)
\* The failover test needs KUBECONFIG2.
MustSkip == test = "failover" /\ ~scenario.kubeconfig2
program ==
  CASE phase = "setup"   -> IF scenario.metallb THEN InstallIfNotExist ELSE <<>>
    [] phase = "test"    -> IF MustSkip THEN <<>> ELSE runs[test][~TwoClusters]
    [] phase = "cleanup" -> DeleteNamespaces(test, ~TwoClusters)
    [] OTHER             -> <<>>
command == program[pc]
Doing(what) == pc <= Len(program) /\ command.do = what

\* withKubeconfig; the cluster that the command runs on.
ClusterOf(c) == IF c.side = "east" /\ TwoClusters /\ ~c.unset THEN "east" ELSE kubeconfig
on == ClusterOf(command)

Has(c, ns, what) == \E o \in cluster : o.on = c /\ o.ns = ns /\ o.what = what
The(c, ns, what) == CHOOSE o \in cluster : o.on = c /\ o.ns = ns /\ o.what = what
HasAll(what) == \A ns \in command.ns : Has(on, ns, what)
HasOne(what) == \E ns \in command.ns : Has(on, ns, what)
Object(c, ns, what, value) == [on |-> c, ns |-> ns, what |-> what, value |-> value]
Put(S, objs) == {o \in S : \A p \in objs : <<o.on, o.ns, o.what>> # <<p.on, p.ns, p.what>>} \cup objs
ns1 == CHOOSE ns \in command.ns : TRUE
Namespaces(t, side) == {smcpNamespace[side], bookinfoNamespace(t)[side]}
Exists(c, S) == \E o \in cluster : o.on = c /\ o.ns \in S

Nothing == [s \in Sides |-> <<>>]
NoInfo == [address |-> Nothing, certificate |-> Nothing, read |-> Nothing]

Init ==
  /\ scenario \in Scenarios
  /\ reruns = scenario.reruns
  /\ todo = scenario.tests
  /\ phase = "setup" /\ pc = 1
  /\ kubeconfig = "west"
  /\ cluster = {}
  /\ info = NoInfo
  /\ attemptFailed = FALSE
  /\ result = [t \in {Tests[i] : i \in DOMAIN Tests} |-> "none"]
  /\ westRanOn = {} /\ fresh = TRUE /\ leaked = FALSE /\ misread = FALSE

------------------------------------------------------------------------------
(***************************************************************************)
(* How commands end.                                                       *)
(***************************************************************************)
Kept == UNCHANGED <<scenario, reruns, todo, fresh>>
Ran == westRanOn' = IF command.side = "west" /\ phase # "setup" THEN westRanOn \cup {on} ELSE westRanOn

FirstOfLoop == CHOOSE i \in 1..pc : /\ program[i].loop = command.loop
                                   /\ \A j \in 1..i - 1 : program[j].loop # command.loop
LastOfLoop == command.loop > 0 /\ (pc = Len(program) \/ program[pc + 1].loop # command.loop)

\* The test goes on to its cleanup, if it is registered; setup panics.
Stop(p) ==
  /\ attemptFailed' = FALSE
  /\ pc' = 1
  /\ CASE p = "setup" -> phase' = "crashed" /\ UNCHANGED result
       [] p = "test" ->
            /\ result' = [result EXCEPT ![test] = "fail"]
            /\ phase' = IF \E i \in 1..pc - 1 : program[i].do = "Cleanup" THEN "cleanup" ELSE "over"
       [] OTHER -> result' = [result EXCEPT ![test] = "fail"] /\ phase' = "over"

\* t.Fatal and t.FailNow: another attempt, or (when it was the last) the end.
Failed ==
  \/ /\ command.loop > 0
     /\ pc' = FirstOfLoop /\ attemptFailed' = FALSE
     /\ UNCHANGED <<phase, result>>
  \/ Stop(phase)

\* In setup, the last attempt panics even if it succeeds ("not applicable").
Goes ==
  IF attemptFailed /\ LastOfLoop THEN Failed
  ELSE \/ pc' = pc + 1 /\ UNCHANGED <<phase, result, attemptFailed>>
       \/ phase = "setup" /\ LastOfLoop /\ Stop(phase)

Works == Goes /\ Ran /\ Kept /\ UNCHANGED <<kubeconfig, leaked, misread>>

\* t.Error in an attempt: the code goes on, and the attempt has failed.
CheckFails ==
  /\ IF LastOfLoop THEN Failed
     ELSE pc' = pc + 1 /\ attemptFailed' = TRUE /\ UNCHANGED <<phase, result>>
  /\ Ran /\ Kept /\ UNCHANGED <<kubeconfig, leaked, misread, cluster, info>>

\* Failing where no withKubeconfig is left.
Fails == Failed /\ Ran /\ Kept /\ UNCHANGED <<kubeconfig, leaked, misread, info>>

\* The command fails: withKubeconfig does not restore KUBECONFIG.
Breaks ==
  /\ Failed /\ Ran /\ Kept /\ UNCHANGED <<misread, info>>
  /\ kubeconfig' = on
  /\ leaked' = (leaked \/ on # kubeconfig)

------------------------------------------------------------------------------
(***************************************************************************)
(* The commands.                                                           *)
(***************************************************************************)
\* Mutant: each mesh is told about itself.
OfItself(side) == info.address[side]

\* The address that a mesh's peer is given is that of the other mesh.
AddressFor(side) == info.address[Other(side)]
Value ==
  CASE command.what = "peer"        -> AddressFor(command.side)
    [] command.what = "trust"       -> info.certificate[Other(command.side)]
    [] command.what = "customSmcp" -> <<"custom">>
    [] OTHER -> <<>>
\* The other files are applied, but what they define makes no difference here.
Kinds == {"namespace", "smcp", "customSmcp", "cacerts", "peer", "trust", "ratings",
          "subscription", "metallb", "pool"}
Manifest == IF command.what \notin Kinds THEN {} ELSE {Object(on, ns, IF command.what = "customSmcp" THEN "smcp" ELSE command.what, Value) :
               ns \in command.ns}
CanApply ==
  \/ command.what \in {"namespace", "subscription"}
  \/ command.what \in {"metallb", "pool"} /\ HasAll("operator")
  \/ phase # "setup" /\ HasAll("namespace")

\* A failing apply may have applied one of the objects.
Apply_ ==
  /\ Doing("apply") \/ Doing("create")
  /\ \/ /\ CanApply /\ (command.do = "create" => ~HasOne(command.what))
        /\ cluster' = Put(cluster, Manifest)
        /\ Works /\ UNCHANGED info
     \/ /\ \/ UNCHANGED cluster
           \/ command.what = "namespace" /\ \E o \in Manifest : cluster' = Put(cluster, {o})
        /\ Breaks

DeleteSecret ==
  /\ Doing("delete")
  /\ \/ /\ cluster' = {o \in cluster : ~(o.on = on /\ o.ns \in command.ns /\ o.what = command.what)}
        /\ Works /\ UNCHANGED info
     \/ UNCHANGED cluster /\ Breaks

\* It waits until the namespaces are gone; failing, none (a bound) or all may be.
DeleteNamespace ==
  /\ Doing("deleteNs")
  /\ \E gone \in {command.ns, {}} :
       /\ cluster' = {o \in cluster : ~(o.on = on /\ o.ns \in gone)}
       /\ \/ gone = command.ns /\ Works /\ UNCHANGED info
          \/ Breaks

\* Commands that read what does not matter here.
Ask ==
  /\ Doing("ask")
  /\ (Works /\ UNCHANGED info) \/ Breaks
  /\ UNCHANGED cluster

\* t.Cleanup.
RegisterCleanup == Doing("Cleanup") /\ Works /\ UNCHANGED <<cluster, info>>

\* The failover test, whose clusters must be in different regions.
getRegionAndZone ==
  /\ Doing("region")
  /\ UNCHANGED cluster
  /\ \/ command.side = "west" /\ info' = [info EXCEPT !.read["west"] = <<on>>] /\ Works
     \/ command.side = "east" /\ info.read["west"] # <<on>> /\ Works /\ UNCHANGED info
     \/ command.side = "east" /\ info.read["west"] = <<on>> /\ Fails
     \/ Breaks

WaitSMCPReady ==
  /\ Doing("smcpReady")
  /\ (HasAll("istiod") /\ Works /\ UNCHANGED info) \/ Breaks
  /\ UNCHANGED cluster

ClusterIP ==
  /\ Doing("clusterIP")
  /\ info' = [info EXCEPT !.address = [s \in Sides |-> <<on, smcpNamespace[s]>>]]
  /\ Works /\ UNCHANGED cluster

\* The load balancer may not have its address yet.
LoadBalancerAddress ==
  /\ Doing("address")
  /\ \/ /\ HasAll("istiod")
        /\ info' = [info EXCEPT !.address[command.side] = <<on, ns1>>]
        /\ Works
     \/ HasAll("istiod") /\ Fails
     \/ Breaks
  /\ UNCHANGED cluster

GetConfigMapData ==
  /\ Doing("certificate")
  /\ \/ /\ HasAll("istiod")
        /\ info' = [info EXCEPT !.certificate[command.side] = The(on, ns1, "istiod").value]
        /\ Works
     \/ Breaks
  /\ UNCHANGED cluster

PodsReady ==
  /\ Doing("podsReady")
  /\ (HasAll("ratings") /\ Works /\ UNCHANGED info) \/ Breaks
  /\ UNCHANGED cluster

\* The status of the peer, and (which needs it) of the imported services.
CheckConnected ==
  /\ Doing("connected") \/ Doing("imports")
  /\ UNCHANGED cluster
  /\ \/ HasAll("connected") /\ Works /\ UNCHANGED info
     \/ HasAll("peer") /\ CheckFails
     \/ Breaks

Scale ==
  /\ Doing("scale")
  /\ \/ /\ HasAll("namespace")
        /\ LET ratings == {Object(on, ns, "ratings", <<>>) : ns \in command.ns}
           IN  cluster' = IF command.what = 0 THEN cluster \ ratings ELSE cluster \cup ratings
        /\ Works /\ UNCHANGED info
     \/ UNCHANGED cluster /\ Breaks

\* There must be one pod of the ratings to ask.
RequestCount ==
  /\ Doing("count")
  /\ \/ /\ Has(on, bookinfoNamespace(test)[command.side], "ratings")
        /\ info' = [info EXCEPT !.read[command.side] = <<on>>]
        /\ Works
     \/ Breaks
  /\ UNCHANGED cluster

\* The ratings that serve requests sent to the east mesh: its own, and those of
\* the mesh its peer leads to; in the failover test, in want of its own.
Serving ==
  LET own == {<<on, bookinfoNamespace(test)["east"]>>}
      peer == {<<o.value[1], bookinfoNamespace(test)["west"]>> :
                 o \in {p \in cluster : /\ p.on = on /\ p.ns = smcpNamespace["east"]
                                        /\ p.what = "peer" /\ p.value # <<>>
                                        /\ Has(on, p.ns, "connected")}}
      Up(pods) == {p \in pods : Has(p[1], p[2], "ratings")}
  IN  IF test = "failover" /\ Up(own) # {} THEN Up(own) ELSE Up(own) \cup Up(peer)
Counted(side) == <<info.read[side][1], bookinfoNamespace(test)[side]>>

\* Mutant: the requests of the west mesh are not looked at.
AsExpectedInEast ==
  CASE command.what = "both"      -> {Counted("east"), Counted("west")} \subseteq Serving
    [] command.what = "eastOnly" -> Counted("east") \in Serving
    [] command.what = "west"      -> Counted("west") \in Serving

AsExpected ==
  CASE command.what = "both"      -> {Counted("east"), Counted("west")} \subseteq Serving
    [] command.what = "eastOnly" -> Counted("east") \in Serving /\ Counted("west") \notin Serving
    [] command.what = "west"      -> Counted("west") \in Serving

\* Ten requests need not reach everyone that serves them.
Compare ==
  /\ Doing("compare")
  /\ UNCHANGED cluster
  /\ (AsExpected /\ Works /\ UNCHANGED info) \/ CheckFails

\* Mutant: the rest of the installation is skipped, too.
NextPartIsLast == Len(program) + 1

\* Mutant: one command too far.
InNextPart == 1 + CHOOSE i \in pc + 1..Len(program) + 1 :
                    /\ i <= Len(program) => EndsPart(program[i])
                    /\ \A j \in pc + 1..i - 1 : ~EndsPart(program[j])

\* ResourceExists: what is neither "NotFound" nor "No resources" exists.
NextPart == CHOOSE i \in pc + 1..Len(program) + 1 :
              /\ i <= Len(program) => EndsPart(program[i])
              /\ \A j \in pc + 1..i - 1 : ~EndsPart(program[j])
SkipIfExists ==
  /\ Doing("skipIfExists")
  /\ \E exists \in {HasAll(command.what), TRUE} :
       /\ pc' = IF exists THEN NextPart ELSE pc + 1
       /\ misread' = (misread \/ exists # HasAll(command.what))
  /\ Kept /\ Ran
  /\ UNCHANGED <<phase, result, attemptFailed, kubeconfig, leaked, cluster, info>>

ResourceExists ==
  /\ Doing("exists")
  /\ \/ HasAll(command.what) /\ Works /\ UNCHANGED <<cluster, info>>
     \/ ~HasAll(command.what) /\ CheckFails
     \/ /\ ~HasAll(command.what) /\ misread' = TRUE
        /\ Goes /\ Ran /\ Kept /\ UNCHANGED <<kubeconfig, leaked, cluster, info>>

\* WaitFor.
WaitFor ==
  /\ Doing("available")
  /\ (HasAll(command.what) /\ Works /\ UNCHANGED info) \/ Breaks
  /\ UNCHANGED cluster

------------------------------------------------------------------------------
(***************************************************************************)
(* From one test, and one process, to the next.                            *)
(***************************************************************************)
Goto(p) == phase' = p /\ pc' = 1 /\ info' = NoInfo /\ attemptFailed' = FALSE

Begin(tests) ==
  /\ todo' = tests
  /\ IF tests = <<>> THEN Goto("exited") /\ UNCHANGED <<westRanOn, fresh>>
     ELSE /\ Goto("test")
          /\ westRanOn' = {}
          /\ fresh' = \A s, c \in Sides : ~Exists(c, Namespaces(tests[1], s))

\* m.Run
SetupDone ==
  /\ phase = "setup" /\ pc > Len(program)
  /\ Begin(todo)
  /\ UNCHANGED <<scenario, reruns, kubeconfig, cluster, result, leaked, misread>>

Skip ==
  /\ phase = "test" /\ MustSkip
  /\ result' = [result EXCEPT ![test] = "skip"]
  /\ Begin(Tail(todo))
  /\ UNCHANGED <<scenario, reruns, kubeconfig, cluster, leaked, misread>>

BodyEnds ==
  /\ phase = "test" /\ ~MustSkip /\ pc > Len(program)
  /\ phase' = "cleanup" /\ pc' = 1
  /\ result' = [result EXCEPT ![test] = "pass"]
  /\ Kept /\ UNCHANGED <<kubeconfig, cluster, info, attemptFailed, westRanOn, leaked, misread>>

CleanupEnds ==
  /\ phase = "cleanup" /\ pc > Len(program)
  /\ phase' = "cleaned" /\ pc' = 1
  /\ Kept /\ UNCHANGED <<kubeconfig, cluster, info, attemptFailed, result, westRanOn, leaked, misread>>

NextTest ==
  /\ phase \in {"over", "cleaned"}
  /\ Begin(Tail(todo))
  /\ UNCHANGED <<scenario, reruns, kubeconfig, cluster, result, leaked, misread>>

\* --rerun-fails: one of the failed tests, in a new process.
Rerun ==
  /\ phase = "exited" /\ reruns > 0
  /\ \E t \in DOMAIN result : result[t] = "fail" /\ todo' = <<t>>
  /\ reruns' = reruns - 1
  /\ Goto("setup")
  /\ kubeconfig' = "west" /\ leaked' = FALSE /\ misread' = FALSE
  /\ UNCHANGED <<scenario, cluster, result, westRanOn, fresh>>

Done == phase \in {"exited", "crashed"} /\ UNCHANGED vars

------------------------------------------------------------------------------
(***************************************************************************)
(* The clusters.                                                           *)
(***************************************************************************)
ClusterOnly == UNCHANGED <<scenario, reruns, todo, phase, pc, kubeconfig, info, attemptFailed,
                           result, history>>
Certificate(smcp) ==
  IF smcp.value = <<"custom">> THEN smcp.value ELSE <<"self", smcp.on, smcp.ns>>

\* The control plane is installed, or adapted to a changed SMCP.
Reconcile ==
  /\ \E o \in cluster :
       /\ o.what = "smcp"
       /\ cluster' = Put(cluster, {Object(o.on, o.ns, "istiod", Certificate(o))})
  /\ cluster' # cluster
  /\ ClusterOnly

\* The peer of mesh a is mesh b, as far as it is known and trusted there.
PeerIs(a, b) ==
  /\ Has(a[1], a[2], "istiod") /\ Has(b[1], b[2], "istiod")
  /\ Has(a[1], a[2], "peer") /\ The(a[1], a[2], "peer").value = b
  /\ Has(a[1], a[2], "trust")
  /\ The(a[1], a[2], "trust").value = The(b[1], b[2], "istiod").value

Meshes == {<<c, smcpNamespace[s]>> : c \in Sides, s \in Sides}
\* The status is never taken back: it may be a stale one.
Connect ==
  /\ \E a, b \in Meshes :
       /\ a # b /\ PeerIs(a, b) /\ PeerIs(b, a)
       /\ cluster' = cluster \cup {Object(m[1], m[2], "connected", <<>>) : m \in {a, b}}
  /\ cluster' # cluster
  /\ ClusterOnly

\* OLM and the operator of MetalLB.
MetalLBStarts ==
  /\ \E c \in Sides, pair \in {<<"subscription", "operator">>, <<"operator", "operatorAvailable">>,
                               <<"metallb", "controller">>, <<"controller", "controllerAvailable">>} :
       /\ Has(c, metallbNamespace, pair[1])
       /\ cluster' = cluster \cup {Object(c, metallbNamespace, pair[2], <<>>)}
  /\ cluster' # cluster
  /\ ClusterOnly

Next ==
  \/ Apply_ \/ DeleteSecret \/ DeleteNamespace \/ Ask \/ RegisterCleanup
  \/ getRegionAndZone \/ WaitSMCPReady \/ ClusterIP \/ LoadBalancerAddress \/ GetConfigMapData
  \/ PodsReady \/ CheckConnected \/ Scale \/ RequestCount \/ Compare
  \/ SkipIfExists \/ ResourceExists \/ WaitFor
  \/ SetupDone \/ Skip \/ BodyEnds \/ CleanupEnds \/ NextTest \/ Rerun \/ Done
  \/ Reconcile \/ Connect \/ MetalLBStarts

Spec == Init /\ [][Next]_vars

------------------------------------------------------------------------------
\* Types of the state.
TypeOK ==
  /\ scenario \in Scenarios
  /\ reruns \in 0..scenario.reruns
  /\ phase \in {"setup", "test", "cleanup", "cleaned", "over", "exited", "crashed"}
  /\ phase \notin {"exited"} => todo # <<>>
  /\ pc \in 1..Len(program) + 1
  /\ kubeconfig \in Sides
  /\ \A o \in cluster : o.on \in Sides
  /\ \A t \in DOMAIN result : result[t] \in {"none", "pass", "fail", "skip"}
  /\ westRanOn \subseteq Sides
  /\ {attemptFailed, fresh, leaked, misread} \subseteq BOOLEAN

Passed == phase = "cleaned" /\ result[test] = "pass"

(***************************************************************************)
(* A test that passes has run all of its west mesh, to the cleanup, on one *)
(* cluster, though KUBECONFIG may change at any attempt that fails.        *)
(***************************************************************************)
PassedWestStaysPut == Passed => Cardinality(westRanOn) = 1

(***************************************************************************)
(* The failover test only passes across two clusters, whatever happened    *)
(* before it in this process or is left of an earlier one.                 *)
(***************************************************************************)
FailoverPassesAcrossClusters == Passed /\ test = "failover" => westRanOn = {"west"}

(***************************************************************************)
(* After a cleanup that worked, the namespaces of the east mesh are gone   *)
(* from its cluster even if KUBECONFIG was changed, and those of the west  *)
(* mesh unless it was; if the test passed, and nothing was there before,   *)
(* nothing is left anywhere.                                               *)
(***************************************************************************)
CleanupRemovesNamespaces ==
  phase = "cleaned" =>
    /\ ~Exists(IF TwoClusters THEN "east" ELSE kubeconfig, Namespaces(test, "east"))
    /\ ~leaked => ~Exists("west", Namespaces(test, "west"))
    /\ Passed /\ fresh => \A c, s \in Sides : ~Exists(c, Namespaces(test, s))

(***************************************************************************)
(* When the test begins to wait for the connection, both meshes have the   *)
(* address and the root certificate of the other one: a test that began    *)
(* without leftovers has not read them too early or on the wrong cluster,  *)
(* unless a command for the east failed.                                   *)
(***************************************************************************)
WestMesh == <<"west", smcpNamespace["west"]>>
EastMesh == <<IF TwoClusters THEN "east" ELSE "west", smcpNamespace["east"]>>
PeersKnowEachOther ==
  phase = "test" /\ Doing("connected") /\ fresh /\ ~leaked =>
    PeerIs(WestMesh, EastMesh) /\ PeerIs(EastMesh, WestMesh)

(***************************************************************************)
(* No test runs before all of MetalLB is on the clusters, unless an error  *)
(* was taken for a resource that exists.                                   *)
(***************************************************************************)
MetalLBInstalled ==
  phase = "test" /\ scenario.metallb /\ ~misread =>
    \A c \in {"west"} \cup (IF scenario.kubeconfig2 THEN {"east"} ELSE {}) :
      \A what \in {"operator", "controller", "pool"} : Has(c, metallbNamespace, what)

------------------------------------------------------------------------------
\* What the repository's own messages and comments say.

\* "Both OC clusters are set respectively to cluster west and east if they are
\* provided with two kubeconfig files" (TestFederation): when that test passes,
\* its west mesh was on the west cluster.
WestIsOnWest == Passed /\ TwoClusters => westRanOn = {"west"}

================================================================================
