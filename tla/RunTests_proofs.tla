----------------------------- MODULE RunTests_proofs -----------------------------
(***************************************************************************)
(* Proofs about RunTests: for every release of the operator, every version *)
(* that is asked for and every environment of the tests, the versions are  *)
(* all reported, in order, and none starts on the mesh of an earlier one.  *)
(***************************************************************************)
EXTENDS RunTests, CertManagerTests_proofs

\* The versions that are documented, and then those to come, are those wanted.
Split ==
  /\ single \in Nat
  /\ versions \in Seq(Nat) /\ documented \in Seq(Nat) /\ reported \in Seq(Nat)
  /\ Len(documented) + Len(versions) = Len(Wanted)
  /\ \A i \in 1..Len(documented) : documented[i] = Wanted[i]
  /\ \A i \in 1..Len(versions) : versions[i] = Wanted[Len(documented) + i]

\* The version in progress has a report once gotestsum and sed are done with it.
ReportedSoFar ==
  /\ at \in {"reset", "document"} => reported = Append(documented, Head(versions))
  /\ at \in {"resetFirst", "run", "running", "report", "done"} => reported = documented
  /\ at = "failed" => reported \in {documented, Append(documented, Head(versions))}
  /\ Len(reported) <= Len(Wanted)

Places ==
  /\ at \in {"resetFirst", "run", "running", "report", "reset", "document", "done", "failed"}
  /\ (at = "done") = (versions = <<>>)
  /\ dirty \in BOOLEAN

\* Tests run only while the script waits for them.
NoTests == at # "running" => phase \notin {"test", "cleanup"}

\* There is no mesh whenever another version may be next.
NoMesh ==
  ~persistent =>
    /\ ~dirty
    /\ at = "run" => "smcp" \notin objects
    /\ at = "document" /\ Tail(versions) # <<>> => "smcp" \notin objects

EnvironmentInv == scenario \in EnvironmentType

IInv == EnvironmentInv /\ Split /\ ReportedSoFar /\ Places /\ NoMesh

------------------------------------------------------------------------------
(* What is wanted is one to three versions. *)
LEMMA WantedIs ==
  ASSUME single \in Nat
  PROVE  /\ Wanted \in Seq(Nat)
         /\ Len(Wanted) \in Nat /\ 1 <= Len(Wanted) /\ Len(Wanted) <= 3
         /\ single > 0 => Len(Wanted) = 1
<1>1. OperatorMinor \in 3..6
  BY RunTestsAssumption
<1>2. CASE single > 0
  BY <1>2 DEF Wanted
<1>3. CASE ~(single > 0)
  <2>1. Wanted = [i \in 1..3 |-> OperatorMinor - 3 + i]
    BY <1>3 DEF Wanted, SUPPORTED_VERSIONS
  <2>2. \A i \in 1..3 : OperatorMinor - 3 + i \in Nat
    BY <1>1
  <2> QED
    BY <1>3, <2>1, <2>2
<1> QED
  BY <1>2, <1>3

(* Deleting the namespaces takes the mesh with them, unless it is to stay. *)
LEMMA ResetRemovesMesh ==
  ASSUME ~persistent, Vanish(Emptied)
  PROVE  "smcp" \notin objects'
<1>1. "smcp" \in Contents(meshNamespace)
  <2>1. /\ meshNamespace # operatorNs /\ meshNamespace # certManagerNs /\ meshNamespace # Foo
    BY DEF meshNamespace, certManagerNs, operatorNs, Foo
  <2> QED
    BY <2>1, Zenon DEF Contents
<1>2. meshNamespace \in ResetNamespaces
  BY DEF ResetNamespaces
<1>3. "smcp" \in Emptied
  BY <1>1, <1>2 DEF Emptied
<1> QED
  BY <1>3 DEF Vanish

(* The cluster does not make a mesh of its own accord. *)
LEMMA ClusterMakesNoMesh ==
  ASSUME ClusterActs, "smcp" \notin objects
  PROVE  "smcp" \notin objects'
<1> USE DEF Appear, Vanish
<1>1. CASE OLM
  BY <1>1 DEF OLM, Comes
<1>2. CASE OperatorActs
  BY <1>2 DEF OperatorActs, Comes, certManagerNs
<1>3. CASE CertManagerIssues
  <2>1. CASE Issue("istio-ca", "istio-ca-secret", RootCA)
    BY <2>1 DEF Issue, Comes
  <2>2. CASE Issue("istio-csr", "istiod-tls-secret", {"istio-ca-secret"})
    BY <2>2 DEF Issue, Comes
  <2>3. CASE objects' = objects \cup {"cacerts-secret"}
    BY <2>3
  <2> QED
    BY <1>3, <2>1, <2>2, <2>3 DEF CertManagerIssues
<1>4. CASE MeshIsInstalled \/ MeshIsReady
  BY <1>4 DEF MeshIsInstalled, MeshIsReady, Comes
<1>5. CASE IstiodRestarts \/ IstiodReloads
  BY <1>5 DEF IstiodRestarts, IstiodReloads
<1> QED
  BY <1>1, <1>2, <1>3, <1>4, <1>5 DEF ClusterActs

(* writeDocumentation takes the version in progress from one list to the other. *)
LEMMA TakesNextVersion ==
  ASSUME Split, versions # <<>>,
         documented' = Append(documented, Head(versions)), versions' = Tail(versions),
         UNCHANGED <<single, reported>>
  PROVE  Split'
<1>1. Wanted' = Wanted
  BY DEF Wanted, SUPPORTED_VERSIONS
<1>2. Len(Wanted) \in Nat
  BY WantedIs DEF Split
<1>3. /\ documented' \in Seq(Nat) /\ Len(documented') = Len(documented) + 1
      /\ \A i \in 1..Len(documented) : documented'[i] = documented[i]
      /\ documented'[Len(documented) + 1] = versions[1]
  BY DEF Split
<1>4. /\ versions' \in Seq(Nat) /\ Len(versions') = Len(versions) - 1
      /\ \A i \in 1..Len(versions') : versions'[i] = versions[i + 1]
      /\ Len(versions) \in Nat \ {0}
  BY DEF Split
<1>5. versions[1] = Wanted[Len(documented) + 1]
  BY <1>4 DEF Split
<1>6. \A i \in 1..Len(documented') : documented'[i] = Wanted'[i]
  BY <1>1, <1>3, <1>5 DEF Split
<1>7. \A i \in 1..Len(versions') : versions'[i] = Wanted'[Len(documented') + i]
  <2> SUFFICES ASSUME NEW i \in 1..Len(versions')
               PROVE  versions'[i] = Wanted'[Len(documented') + i]
    OBVIOUS
  <2>1. i + 1 \in 1..Len(versions) /\ versions'[i] = versions[i + 1]
    BY <1>4
  <2>2. versions[i + 1] = Wanted[Len(documented) + (i + 1)]
    BY <2>1 DEF Split
  <2>3. Len(documented) + (i + 1) = Len(documented') + i
    BY <1>3 DEF Split
  <2> QED
    BY <1>1, <2>1, <2>2, <2>3
<1> QED
  BY <1>1, <1>3, <1>4, <1>6, <1>7 DEF Split

------------------------------------------------------------------------------
(* The invariant holds in the initial states. *)
LEMMA Initially ==
  ASSUME InitScript
  PROVE  IInv
<1>1. single \in Nat
  BY RunTestsAssumption DEF InitScript
<1>2. Wanted \in Seq(Nat) /\ Len(Wanted) \in Nat /\ 1 <= Len(Wanted)
  BY <1>1, WantedIs
<1>3. EnvironmentInv
  BY CertManagerAssumption DEF InitScript, Init, EnvironmentInv
<1>4. Split
  <2>1. versions = Wanted /\ documented = <<>> /\ reported = <<>>
    BY DEF InitScript
  <2>2. <<>> \in Seq(Nat) /\ Len(<<>>) = 0
    OBVIOUS
  <2>3. \A i \in 1..Len(versions) : versions[i] = Wanted[Len(documented) + i]
    BY <1>2, <2>1, <2>2
  <2>4. \A i \in 1..Len(documented) : documented[i] = Wanted[i]
    BY <2>1, <2>2
  <2> QED
    BY <1>1, <1>2, <2>1, <2>2, <2>3, <2>4 DEF Split
<1>5. ReportedSoFar /\ Places /\ NoMesh
  <2> Len(<<>>) = 0
    OBVIOUS
  <2>1. versions # <<>>
    <3>1. Wanted # <<>>
      BY <1>2
    <3> QED
      BY <3>1 DEF InitScript
  <2>2. at = "resetFirst" /\ reported = <<>> /\ documented = <<>> /\ dirty = FALSE
    BY DEF InitScript
  <2>3. Len(reported) = 0
    BY <2>2
  <2>4. Len(reported) <= Len(Wanted)
    BY <1>2, <2>3
  <2>5. ReportedSoFar
    BY <2>2, <2>4 DEF ReportedSoFar
  <2>6. Places /\ NoMesh
    BY <2>1, <2>2 DEF Places, NoMesh
  <2> QED
    BY <2>5, <2>6
<1> QED
  BY <1>3, <1>4, <1>5 DEF IInv

(* Steps that leave the lists of versions alone. *)
LEMMA ListsStay ==
  ASSUME Split, UNCHANGED <<versions, single, documented, reported>>
  PROVE  Split' /\ Wanted' = Wanted
<1>1. Wanted' = Wanted
  BY DEF Wanted, SUPPORTED_VERSIONS
<1> QED
  BY <1>1 DEF Split

(* Resetting the cluster. *)
LEMMA ResetKeeps ==
  ASSUME IInv, ResetFirst \/ ResetAfterwards
  PROVE  IInv'
<1>1. /\ UNCHANGED <<versions, single, documented, reported, dirty, scenario>>
      /\ \/ at = "resetFirst" /\ at' \in {"run", "failed"}
         \/ at = "reset" /\ at' \in {"document", "failed"}
  BY DEF ResetFirst, ResetAfterwards, resetCluster, ScriptKept, NoProcess, process
<1>2. Split' /\ Wanted' = Wanted
  BY <1>1, ListsStay DEF IInv
<1>3. EnvironmentInv' /\ persistent' = persistent
  BY <1>1 DEF IInv, EnvironmentInv, persistent
<1>4. ReportedSoFar' /\ Places'
  BY <1>1, <1>2 DEF IInv, ReportedSoFar, Places
<1>5. at' = "failed" \/ Vanish(Emptied)
  BY DEF ResetFirst, ResetAfterwards, resetCluster, ScriptKept
<1>6. NoMesh'
  BY <1>1, <1>3, <1>5, ResetRemovesMesh DEF IInv, NoMesh
<1> QED
  BY <1>2, <1>3, <1>4, <1>6 DEF IInv

(* gotestsum starts: a mesh that is there would be an earlier version's. *)
LEMMA RunKeeps ==
  ASSUME IInv, RunTestsAgainstVersion
  PROVE  IInv'
<1>1. /\ UNCHANGED <<versions, single, documented, reported>>
      /\ at = "run" /\ at' = "running"
      /\ dirty' = (dirty \/ "smcp" \in objects)
      /\ scenario' = [scenario EXCEPT !.version = Version(2, Head(versions))]
  BY DEF RunTestsAgainstVersion
<1>2. Split' /\ Wanted' = Wanted
  BY <1>1, ListsStay DEF IInv
<1>3. Head(versions) \in Nat
  BY <1>1 DEF IInv, Split, Places
<1>4. EnvironmentInv' /\ persistent' = persistent
  BY <1>1, <1>3 DEF IInv, EnvironmentInv, EnvironmentType, Versions, Version, persistent
<1>5. ReportedSoFar' /\ Places'
  BY <1>1, <1>2 DEF IInv, ReportedSoFar, Places
<1>6. NoMesh'
  BY <1>1, <1>4 DEF IInv, NoMesh
<1> QED
  BY <1>2, <1>4, <1>5, <1>6 DEF IInv

(* gotestsum ends, with a report or without. *)
LEMMA TestsEndKeeps ==
  ASSUME IInv, TestsEnd
  PROVE  IInv'
<1>1. /\ UNCHANGED <<versions, single, documented, reported, dirty, scenario>>
      /\ at = "running" /\ at' \in {"report", "failed"}
  BY DEF TestsEnd, ScriptKept, NoProcess, process
<1>2. Split' /\ Wanted' = Wanted
  BY <1>1, ListsStay DEF IInv
<1>3. EnvironmentInv' /\ persistent' = persistent
  BY <1>1 DEF IInv, EnvironmentInv, persistent
<1>4. ReportedSoFar' /\ Places' /\ NoMesh'
  BY <1>1, <1>2, <1>3 DEF IInv, ReportedSoFar, Places, NoMesh
<1> QED
  BY <1>2, <1>3, <1>4 DEF IInv

(* A report is made of the version in progress; one that was asked for is the last. *)
LEMMA ReportKeeps ==
  ASSUME IInv, Report
  PROVE  IInv'
<1>1. /\ UNCHANGED <<versions, single, documented, dirty, scenario>>
      /\ at = "report" /\ at' = IF single > 0 THEN "document" ELSE "reset"
      /\ reported' = Append(reported, Head(versions))
  BY DEF Report, ScriptKept, NoProcess, process
<1>2. Wanted' = Wanted
  BY <1>1 DEF Wanted, SUPPORTED_VERSIONS
<1>3. versions # <<>> /\ reported = documented
  BY <1>1 DEF IInv, Places, ReportedSoFar
<1>4. /\ Len(versions) \in Nat /\ Len(versions) >= 1 /\ Head(versions) \in Nat
      /\ Len(documented) \in Nat /\ Len(documented) + Len(versions) = Len(Wanted)
  BY <1>3 DEF IInv, Split
<1>5. reported' \in Seq(Nat) /\ Len(reported') = Len(documented) + 1
  BY <1>1, <1>3, <1>4 DEF IInv, Split
<1>6. Split'
  BY <1>1, <1>2, <1>5 DEF IInv, Split
<1>7. EnvironmentInv' /\ persistent' = persistent
  BY <1>1 DEF IInv, EnvironmentInv, persistent
<1>8. ReportedSoFar' /\ Places'
  BY <1>1, <1>2, <1>3, <1>4, <1>5 DEF IInv, ReportedSoFar, Places
<1>9. at' = "document" => Len(versions) = 1
  <2>1. single \in Nat
    BY DEF IInv, Split
  <2>2. at' = "document" => single > 0
    BY <1>1
  <2>3. at' = "document" => Len(Wanted) = 1
    BY <2>1, <2>2, WantedIs
  <2>4. Len(Wanted) = 1 => Len(documented) + Len(versions) = 1
    BY <1>4
  <2>5. Len(documented) + Len(versions) = 1 => Len(versions) = 1
    BY <1>4
  <2> QED
    BY <2>3, <2>4, <2>5
<1>10. NoMesh'
  <2>1. versions' = versions /\ dirty' = dirty /\ at' # "run"
    BY <1>1
  <2>2. at' = "document" => Tail(versions') = <<>>
    <3>1. versions \in Seq(Nat) /\ versions # <<>>
      BY <1>3 DEF IInv, Split
    <3>2. Tail(versions) \in Seq(Nat) /\ Len(Tail(versions)) = Len(versions) - 1
      BY <3>1, HeadTailProperties
    <3>3. at' = "document" => Len(Tail(versions)) = 0
      BY <1>9, <3>2
    <3> QED
      BY <2>1, <3>2, <3>3, EmptySeq
  <2>3. ~persistent' => ~dirty'
    BY <1>7, <2>1 DEF IInv, NoMesh
  <2> QED
    BY <2>1, <2>2, <2>3 DEF NoMesh
<1> QED
  BY <1>6, <1>7, <1>8, <1>10 DEF IInv

(* The documentation is written, and the next version is in progress. *)
LEMMA DocumentationKeeps ==
  ASSUME IInv, writeDocumentation
  PROVE  IInv'
<1>1. /\ UNCHANGED <<single, reported, dirty, scenario, objects>>
      /\ at = "document" /\ at' = IF versions' = <<>> THEN "done" ELSE "run"
      /\ documented' = Append(documented, Head(versions)) /\ versions' = Tail(versions)
  BY DEF writeDocumentation, ScriptKept, NoProcess, process, cluster
<1>2. Wanted' = Wanted
  BY <1>1 DEF Wanted, SUPPORTED_VERSIONS
<1>3. versions # <<>> /\ reported = documented'
  BY <1>1 DEF IInv, Places, ReportedSoFar
<1>4. Split'
  BY <1>1, <1>3, TakesNextVersion DEF IInv
<1>5. EnvironmentInv' /\ persistent' = persistent
  BY <1>1 DEF IInv, EnvironmentInv, persistent
<1>6. ReportedSoFar' /\ Places'
  BY <1>1, <1>2, <1>3 DEF IInv, ReportedSoFar, Places
<1>7. at' = "run" => Tail(versions) # <<>>
  BY <1>1
<1>8. NoMesh'
  BY <1>1, <1>5, <1>7 DEF IInv, NoMesh
<1> QED
  BY <1>4, <1>5, <1>6, <1>8 DEF IInv

(* The tests run while the script waits for them, and the cluster at any time. *)
LEMMA TestsAndClusterKeep ==
  ASSUME IInv, TestsRun \/ ClusterRuns
  PROVE  IInv'
<1>1. UNCHANGED script /\ (ClusterActs \/ (at = "running" /\ ProcessActs))
  BY DEF TestsRun, ClusterRuns
<1>2. UNCHANGED <<versions, single, at, documented, reported, dirty>>
  BY <1>1 DEF script
<1>3. Split' /\ Wanted' = Wanted
  BY <1>2, ListsStay DEF IInv
<1>4. EnvironmentInv' /\ persistent' = persistent
  BY <1>1, EnvironmentStays DEF IInv, EnvironmentInv, persistent
<1>5. ReportedSoFar' /\ Places'
  BY <1>2, <1>3 DEF IInv, ReportedSoFar, Places
<1>6. NoMesh'
  BY <1>1, <1>2, <1>4, ClusterMakesNoMesh DEF IInv, NoMesh
<1> QED
  BY <1>3, <1>4, <1>5, <1>6 DEF IInv

(* Nothing changes when nothing is done. *)
LEMMA StutteringKeeps ==
  ASSUME IInv, UNCHANGED allVars
  PROVE  IInv'
<1>1. UNCHANGED <<versions, single, at, documented, reported, dirty, scenario, objects>>
  BY DEF allVars, vars, script, process, cluster
<1>2. Split' /\ Wanted' = Wanted
  BY <1>1, ListsStay DEF IInv
<1> QED
  BY <1>1, <1>2 DEF IInv, EnvironmentInv, ReportedSoFar, Places, NoMesh, persistent

(* The invariant holds throughout every run of the script. *)
THEOREM Invariant == SpecScript => []IInv
<1>1. InitScript => IInv
  BY Initially
<1>2. IInv /\ [NextScript]_allVars => IInv'
  BY ResetKeeps, RunKeeps, TestsEndKeeps, ReportKeeps, DocumentationKeeps,
     TestsAndClusterKeep, StutteringKeeps DEF NextScript, ScriptActs, Ended
<1> QED
  BY <1>1, <1>2, PTL DEF SpecScript

------------------------------------------------------------------------------
(* The places of runtests.sh, and at most as many reports and documentations as
   there are versions. *)
THEOREM ScriptTypes == SpecScript => []TypeOKScript
<1>1. IInv => TypeOKScript
  <2> SUFFICES ASSUME IInv PROVE TypeOKScript
    OBVIOUS
  <2>1. Len(Wanted) \in Nat /\ Len(Wanted) <= 3 /\ Len(documented) \in Nat /\ Len(reported) \in Nat
        /\ Len(versions) \in Nat /\ Len(documented) + Len(versions) = Len(Wanted)
    BY WantedIs DEF IInv, Split
  <2>2. Len(reported) <= 3
    <3>1. Len(reported) <= Len(Wanted)
      BY DEF IInv, ReportedSoFar
    <3> QED
      BY <2>1, <3>1
  <2>3. Len(documented) <= 3
    BY <2>1
  <2>4. \A n \in Nat : n <= 3 => n \in 0..3
    OBVIOUS
  <2>5. Len(reported) \in 0..3 /\ Len(documented) \in 0..3
    BY <2>1, <2>2, <2>3, <2>4
  <2> QED
    BY <2>5 DEF IInv, Places, TypeOKScript, Stopped
<1> QED
  BY <1>1, Invariant, PTL

(* A sequence is a prefix of a longer one that has the same elements. *)
LEMMA PrefixByElements ==
  ASSUME NEW some \in Seq(Nat), NEW all \in Seq(Nat), Len(some) <= Len(all),
         \A i \in 1..Len(some) : some[i] = all[i]
  PROVE  IsPrefix(some, all)
<1>1. Len(some) \in Nat /\ Len(all) \in Nat
  OBVIOUS
<1>2. /\ SubSeq(some, 1, Len(some)) \in Seq(Nat) /\ SubSeq(all, 1, Len(some)) \in Seq(Nat)
      /\ Len(SubSeq(some, 1, Len(some))) = Len(some) /\ Len(SubSeq(all, 1, Len(some))) = Len(some)
      /\ \A i \in 1..Len(some) : SubSeq(some, 1, Len(some))[i] = SubSeq(all, 1, Len(some))[i]
  BY <1>1
<1>3. SubSeq(some, 1, Len(some)) = SubSeq(all, 1, Len(some))
  BY <1>2, SeqEqual
<1> QED
  BY <1>3 DEF IsPrefix

(* When nothing is left to do, what is documented is what was wanted. *)
LEMMA DoneWithAll ==
  ASSUME IInv, at = "done"
  PROVE  documented = Wanted
<1>1. versions = <<>>
  BY DEF IInv, Places
<1>2. /\ Wanted \in Seq(Nat) /\ documented \in Seq(Nat)
      /\ Len(documented) = Len(Wanted)
      /\ \A i \in 1..Len(documented) : documented[i] = Wanted[i]
  BY <1>1, WantedIs DEF IInv, Split
<1> QED
  BY <1>2, SeqEqual

(* Wherever the script is, or has ended, the reports it has made are those of the
   first of the wanted versions, in their order, and only these are documented; when
   main ends without an error, all are, however gotestsum ended each time. *)
THEOREM AllVersionsReported == SpecScript => []EveryVersionReported
<1>1. IInv => EveryVersionReported
  <2> SUFFICES ASSUME IInv
               PROVE  EveryVersionReported
    OBVIOUS
  <2>1. /\ Wanted \in Seq(Nat) /\ documented \in Seq(Nat) /\ versions \in Seq(Nat)
        /\ Len(documented) <= Len(Wanted)
        /\ \A i \in 1..Len(documented) : documented[i] = Wanted[i]
    BY WantedIs DEF IInv, Split
  <2>2. IsPrefix(documented, documented) /\ IsPrefix(documented, Wanted)
    BY <2>1, PrefixByElements
  <2>3. CASE reported = documented
    BY <2>2, <2>3, DoneWithAll DEF EveryVersionReported
  <2>4. CASE reported # documented
    <3>1. reported = Append(documented, Head(versions)) /\ versions # <<>> /\ at # "done"
      BY <2>4 DEF IInv, ReportedSoFar, Places
    <3>2. Head(versions) \in Nat /\ Head(versions) = Wanted[Len(documented) + 1]
      BY <2>1, <3>1 DEF IInv, Split
    <3>3. /\ reported \in Seq(Nat) /\ Len(reported) = Len(documented) + 1
          /\ \A i \in 1..Len(documented) : reported[i] = documented[i]
          /\ reported[Len(documented) + 1] = Head(versions)
      BY <2>1, <3>1, <3>2
    <3>4. Len(reported) <= Len(Wanted)
      BY DEF IInv, ReportedSoFar
    <3>5. \A i \in 1..Len(reported) : reported[i] = Wanted[i]
      <4>1. Len(documented) \in Nat
        BY <2>1
      <4>2. \A i \in 1..Len(reported) : i \in 1..Len(documented) \/ i = Len(documented) + 1
        BY <3>3, <4>1
      <4> QED
        BY <2>1, <3>2, <3>3, <4>2
    <3>6. IsPrefix(documented, reported)
      BY <2>1, <3>3, PrefixByElements
    <3>7. IsPrefix(reported, Wanted)
      BY <2>1, <3>3, <3>4, <3>5, PrefixByElements
    <3> QED
      BY <3>1, <3>6, <3>7 DEF EveryVersionReported
  <2> QED
    BY <2>3, <2>4
<1> QED
  BY <1>1, Invariant, PTL

(* resetCluster and the order in which main calls it leave no mesh of one version
   for the next, though the cluster is at work all the time. *)
THEOREM NoOldMesh == SpecScript => []NoMeshOfEarlierVersion
<1>1. IInv => NoMeshOfEarlierVersion
  BY DEF IInv, NoMesh, NoMeshOfEarlierVersion
<1> QED
  BY <1>1, Invariant, PTL

(***************************************************************************)
(* A cleanup of the cert-manager tests that comes to its end has removed   *)
(* the operator, the mesh and the secrets of its test: for every version   *)
(* that runtests.sh tests, in every attempt of gotestsum, and whatever the *)
(* cluster does meanwhile.                                                 *)
(***************************************************************************)
THEOREM CleanupRemovesInScript == SpecScript => []CleanupRemovesOperator
<1>1. InitScript => CleanupInv
  BY DEF InitScript, Init, CleanupInv
<1>2. CleanupInv /\ [NextScript]_allVars => CleanupInv'
  <2> SUFFICES ASSUME CleanupInv, [NextScript]_allVars
               PROVE  CleanupInv'
    OBVIOUS
  <2>1. CASE ResetFirst \/ ResetAfterwards
    <3>1. UNCHANGED process /\ objects' \subseteq objects
      BY <2>1 DEF ResetFirst, ResetAfterwards, resetCluster, NoProcess, Vanish, cluster
    <3> QED
      BY <3>1, RemovalKeeps
  <2>2. CASE RunTestsAgainstVersion
    <3>1. phase' = "setup"
      BY <2>2 DEF RunTestsAgainstVersion, Goto
    <3> QED
      BY <3>1 DEF CleanupInv
  <2>3. CASE TestsEnd \/ Report \/ writeDocumentation
    <3>1. UNCHANGED process /\ objects' \subseteq objects
      BY <2>3 DEF TestsEnd, Report, writeDocumentation, NoProcess, cluster
    <3> QED
      BY <3>1, RemovalKeeps
  <2>4. CASE TestsRun
    BY <2>4, ProcessKeeps DEF TestsRun
  <2>5. CASE ClusterRuns
    BY <2>5, ClusterKeeps DEF ClusterRuns
  <2>6. CASE Ended \/ UNCHANGED allVars
    <3>1. UNCHANGED process /\ objects' \subseteq objects
      BY <2>6 DEF Ended, allVars, vars, cluster
    <3> QED
      BY <3>1, RemovalKeeps
  <2> QED
    BY <2>1, <2>2, <2>3, <2>4, <2>5, <2>6 DEF NextScript, ScriptActs
<1>3. CleanupInv => CleanupRemovesOperator
  BY CleanupSuffices
<1> QED
  BY <1>1, <1>2, <1>3, PTL DEF SpecScript

------------------------------------------------------------------------------
(* A new version of the mesh, in a new process; other packages may leave a mesh of it. *)
LEMMA RunKeepsTests ==
  ASSUME IInv, TestInv, RunTestsAgainstVersion
  PROVE  TestInv'
<1>1. /\ scenario' = [scenario EXCEPT !.version = Version(2, Head(versions))]
      /\ todo' = scenario.tests
      /\ phase' = "setup" /\ pc' = 1 /\ csvName' = FALSE
      /\ reruns' = [t \in DOMAIN reruns |-> 0]
      /\ result' = [t \in DOMAIN result |-> "none"]
      /\ OtherPackages
  BY DEF RunTestsAgainstVersion, Goto
<1>2. Version(2, Head(versions)) \in Versions
  <2>1. Head(versions) \in Nat
    BY DEF IInv, Split, Places, RunTestsAgainstVersion
  <2> QED
    BY <2>1 DEF Version, Versions
<1>3. scenario' \in EnvironmentType /\ scenario'.tests = scenario.tests
      /\ scenario'.version = Version(2, Head(versions))
  BY <1>1, <1>2 DEF TestInv, ScenarioInv, EnvironmentType
<1>4. ScenarioInv'
  <2>1. PICK s \in Scenarios : s.tests # <<>> /\ scenario = [s EXCEPT !.version = scenario.version]
    BY DEF TestInv, ScenarioInv
  <2>2. s \in EnvironmentType
    BY CertManagerAssumption
  <2>3. scenario' = [s EXCEPT !.version = scenario'.version]
    BY <1>1, <1>3, <2>1, <2>2 DEF EnvironmentType
  <2> QED
    BY <1>3, <2>1, <2>3 DEF ScenarioInv
<1>5. scenario.tests # <<>>
  BY DEF TestInv, ScenarioInv, EnvironmentType
<1>6. TestsInv'
  <2>1. scenario.tests \in Seq(Range(scenario.tests))
    <3>1. scenario.tests \in Seq({"TestIstioCsr", "TestPluginCaCert"})
      BY DEF TestInv, ScenarioInv, EnvironmentType
    <3>2. \A i \in 1..Len(scenario.tests) : scenario.tests[i] \in Range(scenario.tests)
      BY <3>1 DEF Range
    <3> QED
      BY <3>1, <3>2
  <2>2. 0 \in 0..MaxReruns
    BY CertManagerAssumption
  <2>3. /\ result' \in [Range(scenario.tests) -> Results]
        /\ reruns' \in [Range(scenario.tests) -> 0..MaxReruns]
    BY <1>1, <2>2 DEF TestInv, TestsInv, Results
  <2>4. phase' \in Phases /\ pc' \in Nat /\ 1 <= pc'
    BY <1>1 DEF Phases
  <2>5. pc' <= Len(program)' + 1
    BY <1>1, ProgramLengths DEF program
  <2> QED
    BY <1>1, <1>3, <1>5, <2>1, <2>3, <2>4, <2>5 DEF TestsInv
<1>7. ObjectsInv'
  <2>1. CASE UNCHANGED cluster
    BY <2>1 DEF cluster, TestInv, ObjectsInv
  <2>2. CASE /\ objects' = objects \cup OldMesh
             /\ istiod' = [OldIstiod EXCEPT !.version = scenario'.version]
             /\ UNCHANGED <<certificate, inherited>>
    <3>1. OldMesh \subseteq Objects /\ "istiod" \in OldMesh
          /\ "cacerts" \notin OldMesh /\ "cacerts-secret" \notin OldMesh
      BY ObjectsAre DEF OldMesh, Namespaces, meshNamespace
    <3>2. istiod' = [version |-> scenario'.version, plugged |-> FALSE, loaded |-> 0, log |-> 0,
                     generation |-> 1]
      BY <2>2 DEF OldIstiod, NoIstiod
    <3>3. istiod' \in Istiods /\ istiod'.generation = 1
      BY <1>2, <1>3, <3>2 DEF Istiods
    <3> QED
      BY <2>2, <3>1, <3>3 DEF TestInv, ObjectsInv
  <2> QED
    BY <1>1, <2>1, <2>2 DEF OtherPackages
<1>8. NewNamespace' /\ OwnInv'
  BY <1>1 DEF NewNamespace, OwnInv
<1> QED
  BY <1>4, <1>6, <1>7, <1>8 DEF TestInv

(* gotestsum only ends with no test in progress, and none starts before it does. *)
LEMMA NoTestsKeeps ==
  ASSUME NoTests, [NextScript]_allVars
  PROVE  NoTests'
<1>1. CASE ResetFirst \/ ResetAfterwards \/ Report \/ writeDocumentation
  BY <1>1 DEF ResetFirst, ResetAfterwards, resetCluster, Report, writeDocumentation, NoProcess,
              ScriptKept, process, NoTests
<1>2. CASE RunTestsAgainstVersion
  BY <1>2 DEF RunTestsAgainstVersion, NoTests
<1>3. CASE TestsEnd
  BY <1>3 DEF TestsEnd, GotestsumEnds, NoProcess, process, NoTests
<1>4. CASE TestsRun
  BY <1>4 DEF TestsRun, script, NoTests
<1>5. CASE ClusterRuns
  BY <1>5 DEF ClusterRuns, ClusterActs, script, process, NoTests
<1>6. CASE UNCHANGED allVars
  BY <1>6 DEF allVars, vars, process, script, NoTests
<1> QED
  BY <1>1, <1>2, <1>3, <1>4, <1>5, <1>6 DEF NextScript, ScriptActs, Ended

(* The invariant of the tests, for every version that the script has them run for. *)
THEOREM TestsInvariantInScript == SpecScript => [](IInv /\ NoTests /\ TestInv)
<1>1. InitScript => NoTests /\ TestInv
  BY TestsInitially DEF InitScript, Init, NoTests
<1>2. IInv /\ NoTests /\ TestInv /\ [NextScript]_allVars => TestInv'
  <2> SUFFICES ASSUME IInv, NoTests, TestInv, [NextScript]_allVars
               PROVE  TestInv'
    OBVIOUS
  <2>1. CASE ResetFirst \/ ResetAfterwards
    <3>1. /\ UNCHANGED process /\ ((\E what : Vanish(what)) \/ UNCHANGED cluster)
          /\ phase \notin {"test", "cleanup"}
      BY <2>1 DEF ResetFirst, ResetAfterwards, resetCluster, NoProcess, NoTests
    <3> QED
      BY <3>1, VanishKeepsTests
  <2>2. CASE RunTestsAgainstVersion
    BY <2>2, RunKeepsTests
  <2>3. CASE TestsEnd \/ Report \/ writeDocumentation
    BY <2>3, VanishKeepsTests DEF TestsEnd, Report, writeDocumentation, NoProcess
  <2>4. CASE TestsRun
    BY <2>4, ProcessKeepsTests DEF TestsRun
  <2>5. CASE ClusterRuns
    BY <2>5, ClusterKeepsTests DEF ClusterRuns
  <2>6. CASE Ended \/ UNCHANGED allVars
    BY <2>6, VanishKeepsTests DEF Ended, allVars, vars
  <2> QED
    BY <2>1, <2>2, <2>3, <2>4, <2>5, <2>6 DEF NextScript, ScriptActs
<1>3. NoTests /\ [NextScript]_allVars => NoTests'
  BY NoTestsKeeps
<1> QED
  BY <1>1, <1>2, <1>3, Invariant, PTL DEF SpecScript

(* The types of the state of the tests, under the script that starts them anew for
   every version and deletes namespaces between two of them. *)
THEOREM TestTypesInScript == SpecScript => []TypeOK
BY TestInvSuffices, TestsInvariantInScript, PTL

(***************************************************************************)
(* A test that passes has tried its own mesh, whose CA the root CA signed, *)
(* whichever mesh of an earlier version, of another package or of an       *)
(* earlier attempt it had found: runtests.sh only deletes the namespaces   *)
(* while no test runs.                                                     *)
(***************************************************************************)
THEOREM PassedTestsHadOwnMeshInScript == SpecScript => []PassedOnOwnMesh
BY TestInvSuffices, TestsInvariantInScript, PTL

================================================================================
