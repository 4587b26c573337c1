---------------------------------- MODULE Apps ----------------------------------
(***************************************************************************)
(* A test and its subtests install applications (InstallAndWaitReady) and  *)
(* uninstall them in their cleanups (Uninstall), on one cluster.           *)
(*                                                                         *)
(* Every command may fail and leave its work half done; that ends the test *)
(* and runs its cleanup, if it is registered by then.  Workloads are       *)
(* rolled out by the cluster meanwhile: their pods mount secrets and       *)
(* config maps once, when they start.  kubectl rollout status waits for at *)
(* most what is left of the time limit of its call.                        *)
(***************************************************************************)
EXTENDS AppPrograms

CONSTANTS
  Scenarios,   \* sets of tests that run one after the other
  Initially,   \* the objects of the cluster before
  Second,      \* a second, in ticks of the clock
  Budget       \* the time limit of a call, 4 minutes, in ticks

\* A test installs apps and waits for them, and its cleanup uninstalls, in
\* order, what cleanup lists; "early" if it is registered before the install.
Test(apps, cleanup, early) == [apps |-> apps, cleanup |-> cleanup, early |-> early]

\* What a cleanup does to namespaces rather than applications.
Recreate(ns) == App(<<>>, <<>>, RecreateNamespace(ns))
Drop(ns)     == App(<<>>, <<>>, DeleteNamespace(ns))

Sequence(s) == s \in Seq({s[i] : i \in DOMAIN s})
TestsOf(s) == {s.outer} \cup {s.subs[i] : i \in DOMAIN s.subs}
CommandsOf(a, method) == {a[method][i] : i \in DOMAIN a[method]}

\* What the methods of an application create, other than what its Uninstall
\* means to leave: Redis its namespace, Minio its secret.
Installs(c) == IF c.do \in {"apply", "create"} THEN c.objs ELSE {}
Creates(a) == UNION {Installs(c) : c \in CommandsOf(a, "install")}
LeftByDesign(o) == o.kind = "Namespace" \/ o.name = "my-storage-secret"

\* The command names the object, or deletes its namespace.
Removes(c, o) ==
  \/ c.do = "delete" /\ Key(o) \in Keys(c.objs)
  \/ c.do = "deleteNamespace" /\ \A n \in c.objs : o.ns = n.name

\* No Uninstall waits for a rollout, or applies more than a namespace; a test with
\* a cleanup names there what it installs.
AllTests == UNION {TestsOf(s) : s \in Scenarios}
ASSUME AppsAssumption == Budget \in Nat \ {0} /\ Second \in Nat \ {0, 1}
ASSUME TestsAssumption ==
  /\ \A s \in Scenarios : Sequence(s.subs)
  /\ \A t \in AllTests :
       /\ Sequence(t.cleanup)
       /\ \A i \in DOMAIN t.cleanup :
            /\ Sequence(t.cleanup[i].uninstall)
            /\ \A c \in CommandsOf(t.cleanup[i], "uninstall") :
                 /\ c.do # "rollout"
                 /\ c.do \in {"apply", "create"} => \A o \in c.objs : LeftByDesign(o)
       /\ t.cleanup # <<>> =>
            \A i \in DOMAIN t.apps : \A o \in Creates(t.apps[i]) :
              LeftByDesign(o) \/ \E j \in DOMAIN t.cleanup :
                \E c \in CommandsOf(t.cleanup[j], "uninstall") : Removes(c, o)

\* A command deletes the object, or applies another manifest of it.
Disturbs(c, o) ==
  \/ c.do \in {"delete", "deleteNamespace"} /\ Key(o) \in Keys(c.objs)
  \/ c.do = "deleteNamespace" /\ \E n \in c.objs : o.ns = n.name
  \/ \E p \in Installs(c) : Key(p) = Key(o) /\ p # o
Mounts(w, m) == m.kind \in {"Secret", "ConfigMap"} /\ m.ns = w.ns /\ m.name \in w.mounts

\* A command that comes after b leaves alone what b installs and its pods mount.
Spares(c, b) == \A o \in Installs(b) : ~Disturbs(c, o) /\ \A d \in c.objs : ~Mounts(o, d)
DistinctKeys(S) == \A o, p \in S : Key(o) = Key(p) => o = p

\* An application installs each workload after all that it mounts, and waits for it.
InOrder(a) ==
  /\ Sequence(a.install) /\ Sequence(a.wait)
  /\ \A i \in DOMAIN a.install :
       DistinctKeys(Installs(a.install[i])) /\ \A j \in 1..(i - 1) : Spares(a.install[i], a.install[j])
  /\ \A c \in CommandsOf(a, "wait") : c.do \in {"rollout", "waitFor"}
  /\ \A o \in Creates(a) : o.kind \in {"Deployment", "Job"} =>
       \E c \in CommandsOf(a, "wait") : Key(o) \in Keys(c.objs)

\* No application that a test installs takes from one installed before, and no subtest
\* from those of the test it is part of.
ASSUME ApplicationsAssumption ==
  /\ DistinctKeys(Initially)
  /\ \A t \in AllTests :
       /\ Sequence(t.apps) /\ \A i \in DOMAIN t.apps : InOrder(t.apps[i])
       /\ \A k \in DOMAIN t.apps : \A i \in 1..(k - 1) :
            \A b \in CommandsOf(t.apps[i], "install"), c \in CommandsOf(t.apps[k], "install") :
              Spares(c, b)
       /\ \A i \in DOMAIN t.cleanup : \A c \in CommandsOf(t.cleanup[i], "uninstall") :
            DistinctKeys(Installs(c))
  /\ \A s \in Scenarios : \A i \in DOMAIN s.outer.apps, k \in DOMAIN s.subs :
       \A o \in Creates(s.outer.apps[i]) :
         /\ \A j \in DOMAIN s.subs[k].apps :
              \A c \in CommandsOf(s.subs[k].apps[j], "install") : ~Disturbs(c, o)
         /\ \A j \in DOMAIN s.subs[k].cleanup :
              \A c \in CommandsOf(s.subs[k].cleanup[j], "uninstall") : ~Disturbs(c, o)

VARIABLES
  scenario,   \* the test [outer] and its subtests [subs]
  at,         \* the subtest that runs; 0: the test itself
  phase,      \* what it is doing
  app, pc,    \* the application it is at, and the command
  cluster,    \* the objects that exist
  pods,       \* of every workload rolled out: what it was then, and its mounts
  used,       \* ticks used up by the current call (capped)
  gaveUp,     \* history: rollout status has timed out in this test
  before,     \* history: the workloads that existed when the test began
  dirty       \* history: its cleanup did not run, or not to its end

position == <<at, phase, app, pc>>
history  == <<gaveUp, before, dirty>>
vars == <<scenario, position, cluster, pods, used, history>>

Phases == {"install", "wait", "body", "uninstall", "over"}
test == IF at = 0 THEN scenario.outer ELSE scenario.subs[at]
apps == IF phase = "uninstall" THEN test.cleanup ELSE test.apps
Running == phase \in {"install", "wait", "uninstall"} /\ app <= Len(apps) /\ pc <= Len(apps[app][phase])
command == apps[app][phase][pc]

Workloads(S) == {o \in S : o.kind \in {"Deployment", "Job"}}
Without(S, T) == {o \in S : Key(o) \notin Keys(T)}
PodsWithout(T) == {p \in pods : Key(p.of) \notin Keys(T)}
NamespaceExists(ns) == ns = "" \/ Key(Namespace(ns)) \in Keys(cluster)

Init ==
  /\ scenario \in Scenarios
  /\ at = 0 /\ phase = "install" /\ app = 1 /\ pc = 1
  /\ cluster = Initially
  /\ pods = {}
  /\ used = 0
  /\ gaveUp = FALSE
  /\ before = Keys(Workloads(Initially))
  /\ dirty = FALSE

\* The work of a command that fails: nothing, one object, all but one, or all
\* (a bound: in general any of them).
Partial(S) == {{}, S} \cup {{o} : o \in S} \cup {S \ {o} : o \in S}

------------------------------------------------------------------------------
(***************************************************************************)
(* From one command to the next.                                           *)
(***************************************************************************)
Advance ==
  /\ pc' = pc + 1
  /\ UNCHANGED <<scenario, at, phase, app, history>>

\* t.Fatalf: the rest of the method is not run, nor the other applications';
\* the cleanup is next, unless it has failed or is not registered yet.
Fail ==
  LET cleansUp == phase # "uninstall" /\ test.early
  IN  /\ phase' = IF cleansUp THEN "uninstall" ELSE "over"
      /\ app' = 1 /\ pc' = 1
      /\ dirty' = ~cleansUp
      /\ UNCHANGED <<scenario, at, before>>

Works == Advance /\ UNCHANGED used
Breaks == Fail /\ UNCHANGED <<used, gaveUp>>

\* oc apply.  An object in a namespace that does not exist is an error.
Apply ==
  /\ Running /\ command.do = "apply"
  /\ \/ /\ \A o \in command.objs : NamespaceExists(o.ns)
        /\ cluster' = Without(cluster, command.objs) \cup command.objs
        /\ Works
     \/ /\ \E done \in Partial({o \in command.objs : NamespaceExists(o.ns)}) :
             cluster' = Without(cluster, done) \cup done
        /\ Breaks
  /\ UNCHANGED pods

\* oc create.
Create ==
  /\ Running /\ command.do = "create"
  /\ \/ /\ \A o \in command.objs : NamespaceExists(o.ns) /\ Key(o) \notin Keys(cluster)
        /\ cluster' = cluster \cup command.objs
        /\ Works
     \/ UNCHANGED cluster /\ Breaks
  /\ UNCHANGED pods

\* Mutant: oc delete without the names.
DeleteAllOfKind ==
  /\ Running /\ command.do = "delete"
  /\ cluster' = {o \in cluster : \A d \in command.objs : o.kind # d.kind \/ o.ns # d.ns}
  /\ pods' = {p \in pods : p.of \in cluster'}
  /\ Works

\* Mutant: oc delete --cascade=orphan.
DeleteOrphans ==
  /\ Running /\ command.do = "delete"
  /\ cluster' = Without(cluster, command.objs)
  /\ UNCHANGED pods
  /\ Works

\* Mutant: an error of oc delete is ignored.
DeleteGoesOn ==
  /\ Running /\ command.do = "delete"
  /\ \E done \in Partial(command.objs) :
       cluster' = Without(cluster, done) /\ pods' = PodsWithout(done)
  /\ Works

\* oc delete --ignore-not-found.
Delete ==
  /\ Running /\ command.do = "delete"
  /\ \/ /\ cluster' = Without(cluster, command.objs)
        /\ pods' = PodsWithout(command.objs)
        /\ Works
     \/ /\ \E done \in Partial(command.objs) :
             cluster' = Without(cluster, done) /\ pods' = PodsWithout(done)
        /\ Breaks

\* kubectl delete ns waits until everything in it is gone.
DeleteNs ==
  /\ Running /\ command.do = "deleteNamespace"
  /\ \E n \in command.objs :
       LET doomed == {o \in cluster : o.ns = n.name \/ o = n}
       IN  \/ cluster' = cluster \ doomed /\ pods' = PodsWithout(doomed) /\ Works
           \/ /\ \E done \in Partial(doomed \ {n}) :
                   cluster' = cluster \ done /\ pods' = PodsWithout(done)
              /\ Breaks

\* A read.
AskCluster ==
  /\ Running /\ command.do = "ask"
  /\ Works \/ Breaks
  /\ UNCHANGED <<cluster, pods>>

RolledOut(key) == \E p \in pods : Key(p.of) = key /\ p.of \in cluster

\* oc wait for the condition, up to 30 times.
WaitFor ==
  /\ Running /\ command.do = "waitFor"
  /\ \/ (\A o \in command.objs : RolledOut(Key(o))) /\ Works
     \/ Breaks
  /\ UNCHANGED <<cluster, pods>>

------------------------------------------------------------------------------
(***************************************************************************)
(* WaitDeploymentRolloutComplete.                                          *)
(***************************************************************************)
\* Time is not told apart from a second after the limit on.
Cap == Budget + Second
Capped(t) == IF t > Cap THEN Cap ELSE t
usedUpTime == IF command.first THEN 0 ELSE used

\* Mutant: whole seconds only.
Truncated(t) == IF t < 0 THEN 0 ELSE t \div Second

\* Duration.Round(time.Second): to the nearest second, from half a second on up.
\* Negative time is no time limit to kubectl, as 0 is.
Rounded(t) == IF t < 0 THEN 0 ELSE (t + Second \div 2) \div Second

\* --timeout, in seconds; 0 is no time limit.
remainingTime == Rounded(Budget - usedUpTime)

\* Another tick for kubectl to start and to end.
Took(t) ==
  /\ remainingTime > 0 => t <= Second * remainingTime + 1
  /\ used' = Capped(usedUpTime + t)

RolloutComplete ==
  /\ Running /\ command.do = "rollout"
  /\ \A o \in command.objs : RolledOut(Key(o))
  /\ \E t \in 0..Cap : Took(t)
  /\ Advance
  /\ UNCHANGED <<cluster, pods>>

RolloutTimesOut ==
  /\ Running /\ command.do = "rollout"
  /\ remainingTime > 0
  /\ used' = Capped(usedUpTime + Second * remainingTime)
  /\ gaveUp' = TRUE
  /\ Fail
  /\ UNCHANGED <<cluster, pods>>

\* kubectl fails for another reason.
RolloutFails ==
  /\ Running /\ command.do = "rollout"
  /\ Breaks
  /\ UNCHANGED <<cluster, pods>>

------------------------------------------------------------------------------
(***************************************************************************)
(* From one method to the next, and from one test to the next.             *)
(***************************************************************************)
Goto(t, p) == at' = t /\ phase' = p /\ app' = 1 /\ pc' = 1
Same == UNCHANGED <<scenario, cluster, pods, used>>

NextApp ==
  /\ phase \in {"install", "wait", "uninstall"}
  /\ app <= Len(apps) /\ pc > Len(apps[app][phase])
  /\ app' = app + 1 /\ pc' = 1
  /\ Same /\ UNCHANGED <<at, phase, history>>

\* InstallAndWaitReady: every application is installed, then waited for.
InstallAndWaitReady ==
  /\ phase \in {"install", "wait"} /\ app > Len(apps)
  /\ Goto(at, IF phase = "install" THEN "wait" ELSE "body")
  /\ Same /\ UNCHANGED history

Uninstalled ==
  /\ phase = "uninstall" /\ app > Len(apps)
  /\ Goto(at, "over")
  /\ dirty' = FALSE
  /\ Same /\ UNCHANGED <<gaveUp, before>>

Begin(t) ==
  /\ Goto(t, "install")
  /\ gaveUp' = FALSE /\ dirty' = FALSE
  /\ before' = Keys(Workloads(cluster))
  /\ Same

\* The test goes on to its subtests.  Without any, its cleanup is next, as it is
\* when a subtest fails or ends.
BodyEnds ==
  /\ phase = "body"
  /\ IF at = 0 /\ scenario.subs # <<>>
     THEN Begin(1)
     ELSE Goto(at, "uninstall") /\ Same /\ UNCHANGED history

\* Mutant: one subtest too many.
NextTestAfterLast ==
  /\ phase = "over" /\ at > 0
  /\ IF at <= Len(scenario.subs)
     THEN Begin(at + 1)
     ELSE Goto(0, "uninstall") /\ Same /\ UNCHANGED history

NextTest ==
  /\ phase = "over" /\ at > 0
  /\ IF at < Len(scenario.subs)
     THEN Begin(at + 1)
     ELSE Goto(0, "uninstall") /\ Same /\ UNCHANGED history

\* The cluster rolls a workload out, once all that it mounts is there.
RollOut ==
  /\ \E o \in Workloads(cluster) \ {p.of : p \in pods} :
       LET mounted == {m \in cluster : Mounts(o, m)}
       IN  /\ o.mounts = {m.name : m \in mounted}
           /\ pods' = PodsWithout({o}) \cup {[of |-> o, mounted |-> mounted]}
  /\ UNCHANGED <<scenario, position, cluster, used, history>>

Done == phase = "over" /\ at = 0 /\ UNCHANGED vars

Next ==
  \/ Apply \/ Create \/ Delete \/ DeleteNs \/ AskCluster \/ WaitFor
  \/ RolloutComplete \/ RolloutTimesOut \/ RolloutFails
  \/ NextApp \/ InstallAndWaitReady \/ Uninstalled \/ BodyEnds \/ NextTest
  \/ RollOut
  \/ Done

Spec == Init /\ [][Next]_vars

------------------------------------------------------------------------------
\* Types of the state.
TypeOK ==
  /\ scenario \in Scenarios
  /\ at \in 0..Len(scenario.subs)
  /\ phase \in Phases
  /\ app \in Nat \ {0} /\ pc \in Nat \ {0}
  /\ \A p \in pods : p.of \in Workloads({p.of})
  /\ used \in 0..Cap
  /\ gaveUp \in BOOLEAN /\ dirty \in BOOLEAN

(***************************************************************************)
(* A cleanup that runs to its end removes all that the test's applications *)
(* may have created, wherever their installation stopped and however       *)
(* little its last command got done.                                       *)
(***************************************************************************)
CleanupLeavesNothing ==
  phase = "over" /\ ~dirty /\ test.cleanup # <<>> =>
    \A i \in DOMAIN test.apps : \A o \in Creates(test.apps[i]) :
      LeftByDesign(o) \/ Key(o) \notin Keys(cluster)

(***************************************************************************)
(* When InstallAndWaitReady has returned, every object of every            *)
(* application, the outer test's too, is there as it was installed,        *)
(* whatever earlier tests left, and the workloads run as installed: no     *)
(* application overwrites or removes what another one needs.               *)
(***************************************************************************)
Alive == {test} \cup {scenario.outer}
ReadyAppsRun ==
  phase = "body" =>
    \A t \in Alive : \A i \in DOMAIN t.apps :
      LET objs == Creates(t.apps[i])
      IN  objs \subseteq cluster /\ Workloads(objs) \subseteq {p.of : p \in pods}

(***************************************************************************)
(* A workload that the test installed anew runs with the secrets and the   *)
(* configuration that the test installed.                                  *)
(***************************************************************************)
FreshPodsMountTheirConfig ==
  phase = "body" =>
    \A i \in DOMAIN test.apps : \A p \in pods :
      p.of \in Creates(test.apps[i]) /\ Key(p.of) \notin before =>
        p.mounted \subseteq cluster

(***************************************************************************)
(* However many deployments share the time limit of a call, and whatever   *)
(* each of them took, a rollout is given up at most half a second before   *)
(* or after that limit: what rounding adds and takes away for one          *)
(* deployment does not add up over all of them.                            *)
(***************************************************************************)
GivesUpOnTime ==
  gaveUp => /\ 2 * used >= 2 * Budget - Second
            /\ 2 * used <= 2 * Budget + Second

------------------------------------------------------------------------------
\* What the repository's own messages say.

\* "Deploy nginx mTLS server" (egress_gateways_tls_file_mount_test.go): when
\* InstallAndWaitReady has returned, the server runs with that configuration.
ServerRunsItsConfig ==
  phase = "body" =>
    \A i \in DOMAIN test.apps : \A p \in pods :
      p.of \in Creates(test.apps[i]) => p.mounted \subseteq cluster

================================================================================
