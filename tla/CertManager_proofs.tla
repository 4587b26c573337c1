--------------------------- MODULE CertManager_proofs ---------------------------
(***************************************************************************)
(* What the cleanups of the cert-manager tests remove for good, in the     *)
(* order in which they remove it, while OLM, the operator, cert-manager    *)
(* and the mesh go on working: proofs for every environment.               *)
(***************************************************************************)
EXTENDS CertManager, SequenceTheorems, TLAPS

\* The cleanup of TestIstioCsr: what is gone before its command number p.
CsrGone(p) ==
  /\ p > 1 => "istio-csr" \notin objects
  /\ p > 2 => "smcp" \notin objects /\ "istiod" \notin objects
  /\ p > 3 => "istio-ca" \notin objects
  /\ p > 4 => "istiod-tls-secret" \notin objects
  /\ p > 5 => "istio-ca-secret" \notin objects
  /\ p > 8 => "root-issuer" \notin objects
  /\ p > 10 => "subscription" \notin objects
  /\ p > 12 => operatorNs \notin objects /\ "csv" \notin objects /\ "operator" \notin objects
  /\ p > 13 => /\ certManagerNs \notin objects /\ "controllers" \notin objects
               /\ "root-certificate" \notin objects

\* The cleanup of TestPluginCaCert.
PluginCaGone(p) ==
  /\ p > 1 => "smcp" \notin objects /\ "istiod" \notin objects
  /\ p > 2 => "cacerts" \notin objects
  /\ p > 3 => "cacerts-secret" \notin objects
  /\ p > 6 => "root-issuer" \notin objects
  /\ p > 8 => "subscription" \notin objects
  /\ p > 10 => operatorNs \notin objects /\ "csv" \notin objects /\ "operator" \notin objects
  /\ p > 11 => /\ certManagerNs \notin objects /\ "controllers" \notin objects
               /\ "root-certificate" \notin objects

Csr == test = "TestIstioCsr"

CleanupInv ==
  /\ phase \notin {"setup", "test", "cleanup"} => pc = 1
  /\ phase = "cleanup" => /\ pc \in Nat /\ 1 <= pc
                          /\ Csr => CsrGone(pc)
                          /\ ~Csr => PluginCaGone(pc)
  /\ phase = "cleaned" => /\ Csr => CsrGone(14)
                          /\ ~Csr => PluginCaGone(12)

------------------------------------------------------------------------------
(* Commands have what they do, and to what. *)
LEMMA CommandParts ==
  \A do, what : Command(do, what).do = do /\ Command(do, what).what = what
BY DEF Command

(* The program of TestIstioCsr's cleanup, and the command that it is at. *)
LEMMA CsrProgram ==
  /\ Len(CleanupIstioCsr) = 13
  /\ CleanupIstioCsr[1] = Command("helmUninstall", {"istio-csr"})
  /\ CleanupIstioCsr[2] = Command("delete", {"smcp"})
  /\ CleanupIstioCsr[3] = Command("delete", {"istio-ca"})
  /\ CleanupIstioCsr[4] = Command("delete", {"istiod-tls-secret"})
  /\ CleanupIstioCsr[5] = Command("delete", {"istio-ca-secret"})
  /\ CleanupIstioCsr[6] = Command("deleteNs", {Foo})
  /\ CleanupIstioCsr[7] = Command("apply", {Foo})
  /\ CleanupIstioCsr[8] = Command("delete", RootCA)
  /\ CleanupIstioCsr[9] = Command("readCsv", {})
  /\ CleanupIstioCsr[10] = Command("delete", {"subscription"})
  /\ CleanupIstioCsr[11] = Command("deleteCsv", {"csv"})
  /\ CleanupIstioCsr[12] = Command("deleteNs", {operatorNs})
  /\ CleanupIstioCsr[13] = Command("deleteNs", {certManagerNs})
BY DEF CleanupIstioCsr, RecreateNamespace, Uninstall, DeleteOperatorViaOlm, GetFullCsvName,
       Delete, DeleteNamespace, CreateNamespace

(* The commands of the cleanup of TestIstioCsr, one by one. *)
LEMMA CsrCommand ==
  ASSUME phase = "cleanup", Csr, pc \in Nat, 1 <= pc, pc <= Len(program)
  PROVE  \/ pc = 1 /\ command.do = "helmUninstall" /\ command.what = {"istio-csr"}
         \/ pc = 2 /\ command.do = "delete" /\ command.what = {"smcp"}
         \/ pc = 3 /\ command.do = "delete" /\ command.what = {"istio-ca"}
         \/ pc = 4 /\ command.do = "delete" /\ command.what = {"istiod-tls-secret"}
         \/ pc = 5 /\ command.do = "delete" /\ command.what = {"istio-ca-secret"}
         \/ pc = 6 /\ command.do = "deleteNs" /\ command.what = {Foo}
         \/ pc = 7 /\ command.do = "apply" /\ command.what = {Foo}
         \/ pc = 8 /\ command.do = "delete" /\ command.what = RootCA
         \/ pc = 9 /\ command.do = "readCsv" /\ command.what = {}
         \/ pc = 10 /\ command.do = "delete" /\ command.what = {"subscription"}
         \/ pc = 11 /\ command.do = "deleteCsv" /\ command.what = {"csv"}
         \/ pc = 12 /\ command.do = "deleteNs" /\ command.what = {operatorNs}
         \/ pc = 13 /\ command.do = "deleteNs" /\ command.what = {certManagerNs}
<1>1. program = CleanupIstioCsr
  BY DEF program, Csr
<1>2. pc <= 13
  BY <1>1, CsrProgram
<1>3. command = CleanupIstioCsr[pc]
  BY <1>1 DEF command
<1>4. \/ pc = 1 /\ command = Command("helmUninstall", {"istio-csr"})
      \/ pc = 2 /\ command = Command("delete", {"smcp"})
      \/ pc = 3 /\ command = Command("delete", {"istio-ca"})
      \/ pc = 4 /\ command = Command("delete", {"istiod-tls-secret"})
      \/ pc = 5 /\ command = Command("delete", {"istio-ca-secret"})
      \/ pc = 6 /\ command = Command("deleteNs", {Foo})
      \/ pc = 7 /\ command = Command("apply", {Foo})
      \/ pc = 8 /\ command = Command("delete", RootCA)
      \/ pc = 9 /\ command = Command("readCsv", {})
      \/ pc = 10 /\ command = Command("delete", {"subscription"})
      \/ pc = 11 /\ command = Command("deleteCsv", {"csv"})
      \/ pc = 12 /\ command = Command("deleteNs", {operatorNs})
      \/ pc = 13 /\ command = Command("deleteNs", {certManagerNs})
  BY <1>2, <1>3, CsrProgram
<1> QED
  BY <1>4, CommandParts

(* The program of TestPluginCaCert's cleanup, and the command that it is at. *)
LEMMA PluginCaProgram ==
  /\ Len(CleanupPluginCaCert) = 11
  /\ CleanupPluginCaCert[1] = Command("delete", {"smcp"})
  /\ CleanupPluginCaCert[2] = Command("delete", {"cacerts"})
  /\ CleanupPluginCaCert[3] = Command("delete", {"cacerts-secret"})
  /\ CleanupPluginCaCert[4] = Command("deleteNs", {Foo})
  /\ CleanupPluginCaCert[5] = Command("apply", {Foo})
  /\ CleanupPluginCaCert[6] = Command("delete", RootCA)
  /\ CleanupPluginCaCert[7] = Command("readCsv", {})
  /\ CleanupPluginCaCert[8] = Command("delete", {"subscription"})
  /\ CleanupPluginCaCert[9] = Command("deleteCsv", {"csv"})
  /\ CleanupPluginCaCert[10] = Command("deleteNs", {operatorNs})
  /\ CleanupPluginCaCert[11] = Command("deleteNs", {certManagerNs})
BY DEF CleanupPluginCaCert, RecreateNamespace, Uninstall, DeleteOperatorViaOlm, GetFullCsvName,
       Delete, DeleteNamespace, CreateNamespace

(* The commands of the cleanup of TestPluginCaCert, one by one. *)
LEMMA PluginCaCommand ==
  ASSUME phase = "cleanup", ~Csr, pc \in Nat, 1 <= pc, pc <= Len(program)
  PROVE  \/ pc = 1 /\ command.do = "delete" /\ command.what = {"smcp"}
         \/ pc = 2 /\ command.do = "delete" /\ command.what = {"cacerts"}
         \/ pc = 3 /\ command.do = "delete" /\ command.what = {"cacerts-secret"}
         \/ pc = 4 /\ command.do = "deleteNs" /\ command.what = {Foo}
         \/ pc = 5 /\ command.do = "apply" /\ command.what = {Foo}
         \/ pc = 6 /\ command.do = "delete" /\ command.what = RootCA
         \/ pc = 7 /\ command.do = "readCsv" /\ command.what = {}
         \/ pc = 8 /\ command.do = "delete" /\ command.what = {"subscription"}
         \/ pc = 9 /\ command.do = "deleteCsv" /\ command.what = {"csv"}
         \/ pc = 10 /\ command.do = "deleteNs" /\ command.what = {operatorNs}
         \/ pc = 11 /\ command.do = "deleteNs" /\ command.what = {certManagerNs}
<1>1. program = CleanupPluginCaCert
  BY DEF program, Csr
<1>2. pc <= 11
  BY <1>1, PluginCaProgram
<1>3. command = CleanupPluginCaCert[pc]
  BY <1>1 DEF command
<1>4. \/ pc = 1 /\ command = Command("delete", {"smcp"})
      \/ pc = 2 /\ command = Command("delete", {"cacerts"})
      \/ pc = 3 /\ command = Command("delete", {"cacerts-secret"})
      \/ pc = 4 /\ command = Command("deleteNs", {Foo})
      \/ pc = 5 /\ command = Command("apply", {Foo})
      \/ pc = 6 /\ command = Command("delete", RootCA)
      \/ pc = 7 /\ command = Command("readCsv", {})
      \/ pc = 8 /\ command = Command("delete", {"subscription"})
      \/ pc = 9 /\ command = Command("deleteCsv", {"csv"})
      \/ pc = 10 /\ command = Command("deleteNs", {operatorNs})
      \/ pc = 11 /\ command = Command("deleteNs", {certManagerNs})
  BY <1>2, <1>3, PluginCaProgram
<1> QED
  BY <1>4, CommandParts

(* What a namespace takes with it. *)
LEMMA NamespacesHold ==
  /\ Contents(operatorNs) = {"subscription", "csv", "operator"}
  /\ Contents(certManagerNs) = {"controllers", "root-certificate"}
<1>1. /\ operatorNs # certManagerNs /\ operatorNs # meshNamespace /\ operatorNs # Foo
      /\ certManagerNs # meshNamespace /\ certManagerNs # Foo
  BY DEF certManagerNs, operatorNs, meshNamespace, Foo
<1>2. Contents(operatorNs) = {"subscription", "csv", "operator"}
  BY <1>1, Zenon DEF Contents
<1>3. Contents(certManagerNs) = {"controllers", "root-certificate"}
  BY <1>1, Zenon DEF Contents
<1> QED
  BY <1>2, <1>3

\* What a command of a cleanup does to the cluster, when the cleanup goes on.
Effect ==
  LET removes == command.do \in {"delete", "helmUninstall", "deleteCsv", "deleteNs"}
  IN  /\ removes => command.what \cap objects' = {}
      /\ command.do = "deleteNs" => \A ns \in command.what : Contents(ns) \cap objects' = {}
      /\ command.do = "delete" /\ "smcp" \in command.what => "istiod" \notin objects'
      /\ objects' \subseteq objects \cup (IF command.do = "apply" THEN command.what ELSE {})

(* Every step of a cleanup that goes on is the work of the command it is at. *)
LEMMA CleanupStep ==
  ASSUME ProcessActs, phase = "cleanup", phase' = "cleanup",
         command.do # "skipIfExists", command.do # "helmInstall"
  PROVE  pc' = pc + 1 /\ test' = test /\ pc <= Len(program) /\ Effect
<1>1. ~ \/ SetupDone \/ Skip \/ BodyEnds \/ CleanupEnds \/ NextTest \/ Rerun \/ Timeout
  BY DEF SetupDone, Skip, BodyEnds, CleanupEnds, NextTest, Rerun, Timeout, Goto
<1>2. ~Fails
  BY DEF Fails
<1>3. \A what : Vanish(what) => objects' \subseteq objects \ what
                               /\ ("smcp" \in what => "istiod" \notin objects')
  BY DEF Vanish
<1>4. ~SkipIfExists /\ ~NoVersion
  BY <1>2 DEF SkipIfExists, NoVersion, Doing
<1>5. CASE Apply_
  <2>1. Doing("apply") /\ Appear(command.what) /\ Works
    BY <1>2, <1>5 DEF Apply_, Doing
  <2> QED
    BY <2>1 DEF Doing, Appear, Works, Kept, Effect, test
<1>6. CASE Delete_
  <2>1. (Doing("delete") \/ Doing("helmUninstall")) /\ Vanish(command.what) /\ Works
    BY <1>2, <1>6 DEF Delete_
  <2> QED
    BY <1>3, <2>1 DEF Doing, Works, Kept, Effect, test
<1>7. CASE DeleteNamespace_
  <2> DEFINE all == command.what \cup UNION {Contents(ns) : ns \in command.what}
  <2>1. Doing("deleteNs") /\ Vanish(all) /\ Works
    BY <1>2, <1>7 DEF DeleteNamespace_
  <2>2. objects' \subseteq objects \ all
    BY <1>3, <2>1
  <2>3. \A ns \in command.what : Contents(ns) \subseteq all
    OBVIOUS
  <2> QED
    BY <2>1, <2>2, <2>3 DEF Doing, Works, Kept, Effect, test
<1>8. CASE DeleteCsv
  <2>1. Doing("deleteCsv") /\ Vanish(command.what) /\ Works
    BY <1>2, <1>8 DEF DeleteCsv
  <2> QED
    BY <1>3, <2>1 DEF Doing, Works, Kept, Effect, test
<1>9. ASSUME Works, UNCHANGED objects, pc <= Len(program),
             command.do \notin {"delete", "helmUninstall", "deleteCsv", "deleteNs"}
      PROVE  pc' = pc + 1 /\ test' = test /\ pc <= Len(program) /\ Effect
  BY <1>9 DEF Works, Kept, Effect, test
<1>10. CASE CsvAnywhere \/ ReadCsvName \/ WaitForPhase \/ Wait_ \/ RegisterCleanup \/ Ask_
  BY <1>2, <1>9, <1>10 DEF CsvAnywhere, ReadCsvName, WaitForPhase, Wait_, RegisterCleanup, Ask_,
                            Doing, ClusterKept, cluster
<1>11. CASE PluggedIn \/ Reloaded \/ Patch \/ ReadGeneration \/ SameGeneration
  BY <1>2, <1>9, <1>11 DEF PluggedIn, Reloaded, Patch, ReadGeneration, SameGeneration,
                            Doing, ClusterKept, cluster
<1> QED
  BY <1>1, <1>4, <1>5, <1>6, <1>7, <1>8, <1>10, <1>11 DEF ProcessActs

(* No command of a cleanup installs a release or skips an installation. *)
LEMMA CleanupCommands ==
  ASSUME phase = "cleanup", pc \in Nat, 1 <= pc, pc <= Len(program)
  PROVE  command.do # "skipIfExists" /\ command.do # "helmInstall"
<1>1. CASE Csr
  BY <1>1, CsrCommand
<1>2. CASE ~Csr
  BY <1>2, PluginCaCommand
<1> QED
  BY <1>1, <1>2

(* What a step of TestIstioCsr's cleanup takes away, and what was taken away before stays away. *)
LEMMA CsrStep ==
  ASSUME phase = "cleanup", Csr, pc \in Nat, 1 <= pc, pc <= Len(program),
         CsrGone(pc), Effect, pc' = pc + 1
  PROVE  CsrGone(pc)'
<1>1. command.do = "apply" => command.what = {Foo}
  BY CsrCommand
<1>2. \A o : o \notin objects /\ o # Foo => o \notin objects'
  BY <1>1 DEF Effect
<1>3. /\ pc = 1 => "istio-csr" \notin objects'
      /\ pc = 2 => "smcp" \notin objects' /\ "istiod" \notin objects'
      /\ pc = 3 => "istio-ca" \notin objects'
      /\ pc = 4 => "istiod-tls-secret" \notin objects'
      /\ pc = 5 => "istio-ca-secret" \notin objects'
      /\ pc = 8 => "root-issuer" \notin objects'
      /\ pc = 10 => "subscription" \notin objects'
  <2>1. CASE pc = 1
    <3>1. command.do = "helmUninstall" /\ command.what = {"istio-csr"}
      BY <2>1, CsrCommand
    <3> QED
      BY <2>1, <3>1 DEF Effect
  <2>2. CASE pc = 2
    <3>1. command.do = "delete" /\ command.what = {"smcp"}
      BY <2>2, CsrCommand
    <3> QED
      BY <2>2, <3>1 DEF Effect
  <2>3. CASE pc = 3
    <3>1. command.do = "delete" /\ command.what = {"istio-ca"}
      BY <2>3, CsrCommand
    <3> QED
      BY <2>3, <3>1 DEF Effect
  <2>4. CASE pc = 4
    <3>1. command.do = "delete" /\ command.what = {"istiod-tls-secret"}
      BY <2>4, CsrCommand
    <3> QED
      BY <2>4, <3>1 DEF Effect
  <2>5. CASE pc = 5
    <3>1. command.do = "delete" /\ command.what = {"istio-ca-secret"}
      BY <2>5, CsrCommand
    <3> QED
      BY <2>5, <3>1 DEF Effect
  <2>6. CASE pc = 8
    <3>1. command.do = "delete" /\ command.what = RootCA
      BY <2>6, CsrCommand
    <3> QED
      BY <2>6, <3>1 DEF Effect, RootCA
  <2>7. CASE pc = 10
    <3>1. command.do = "delete" /\ command.what = {"subscription"}
      BY <2>7, CsrCommand
    <3> QED
      BY <2>7, <3>1 DEF Effect
  <2> QED
    BY <2>1, <2>2, <2>3, <2>4, <2>5, <2>6, <2>7
<1>4. pc = 12 => operatorNs \notin objects' /\ "csv" \notin objects' /\ "operator" \notin objects'
  <2> SUFFICES ASSUME pc = 12
               PROVE  operatorNs \notin objects' /\ "csv" \notin objects' /\ "operator" \notin objects'
    OBVIOUS
  <2>1. command.do = "deleteNs" /\ command.what = {operatorNs}
    BY CsrCommand
  <2> QED
    BY <2>1, NamespacesHold DEF Effect
<1>5. pc = 13 => /\ certManagerNs \notin objects' /\ "controllers" \notin objects'
                 /\ "root-certificate" \notin objects'
  <2> SUFFICES ASSUME pc = 13
               PROVE  /\ certManagerNs \notin objects' /\ "controllers" \notin objects'
                      /\ "root-certificate" \notin objects'
    OBVIOUS
  <2>1. command.do = "deleteNs" /\ command.what = {certManagerNs}
    BY CsrCommand
  <2> QED
    BY <2>1, NamespacesHold DEF Effect
<1>6. \A n \in Nat : pc' > n => pc > n \/ pc = n
  OBVIOUS
<1>7. Foo \notin {operatorNs, certManagerNs}
  BY DEF Foo, operatorNs, certManagerNs
<1> QED
  BY <1>2, <1>3, <1>4, <1>5, <1>6, <1>7, SMTT(60) DEF CsrGone, Foo

(* What a step of TestPluginCaCert's cleanup takes away, and what was taken away before stays away. *)
LEMMA PluginCaStep ==
  ASSUME phase = "cleanup", ~Csr, pc \in Nat, 1 <= pc, pc <= Len(program),
         PluginCaGone(pc), Effect, pc' = pc + 1
  PROVE  PluginCaGone(pc)'
<1>1. command.do = "apply" => command.what = {Foo}
  BY PluginCaCommand
<1>2. \A o : o \notin objects /\ o # Foo => o \notin objects'
  BY <1>1 DEF Effect
<1>3. /\ pc = 1 => "smcp" \notin objects' /\ "istiod" \notin objects'
      /\ pc = 2 => "cacerts" \notin objects'
      /\ pc = 3 => "cacerts-secret" \notin objects'
      /\ pc = 6 => "root-issuer" \notin objects'
      /\ pc = 8 => "subscription" \notin objects'
  <2>1. CASE pc = 1
    <3>1. command.do = "delete" /\ command.what = {"smcp"}
      BY <2>1, PluginCaCommand
    <3> QED
      BY <2>1, <3>1 DEF Effect
  <2>2. CASE pc = 2
    <3>1. command.do = "delete" /\ command.what = {"cacerts"}
      BY <2>2, PluginCaCommand
    <3> QED
      BY <2>2, <3>1 DEF Effect
  <2>3. CASE pc = 3
    <3>1. command.do = "delete" /\ command.what = {"cacerts-secret"}
      BY <2>3, PluginCaCommand
    <3> QED
      BY <2>3, <3>1 DEF Effect
  <2>4. CASE pc = 6
    <3>1. command.do = "delete" /\ command.what = RootCA
      BY <2>4, PluginCaCommand
    <3> QED
      BY <2>4, <3>1 DEF Effect, RootCA
  <2>5. CASE pc = 8
    <3>1. command.do = "delete" /\ command.what = {"subscription"}
      BY <2>5, PluginCaCommand
    <3> QED
      BY <2>5, <3>1 DEF Effect
  <2> QED
    BY <2>1, <2>2, <2>3, <2>4, <2>5
<1>4. pc = 10 => operatorNs \notin objects' /\ "csv" \notin objects' /\ "operator" \notin objects'
  <2> SUFFICES ASSUME pc = 10
               PROVE  operatorNs \notin objects' /\ "csv" \notin objects' /\ "operator" \notin objects'
    OBVIOUS
  <2>1. command.do = "deleteNs" /\ command.what = {operatorNs}
    BY PluginCaCommand
  <2> QED
    BY <2>1, NamespacesHold DEF Effect
<1>5. pc = 11 => /\ certManagerNs \notin objects' /\ "controllers" \notin objects'
                 /\ "root-certificate" \notin objects'
  <2> SUFFICES ASSUME pc = 11
               PROVE  /\ certManagerNs \notin objects' /\ "controllers" \notin objects'
                      /\ "root-certificate" \notin objects'
    OBVIOUS
  <2>1. command.do = "deleteNs" /\ command.what = {certManagerNs}
    BY PluginCaCommand
  <2> QED
    BY <2>1, NamespacesHold DEF Effect
<1>6. \A n \in Nat : pc' > n => pc > n \/ pc = n
  OBVIOUS
<1>7. Foo \notin {operatorNs, certManagerNs}
  BY DEF Foo, operatorNs, certManagerNs
<1> QED
  BY <1>2, <1>3, <1>4, <1>5, <1>6, <1>7, SMTT(60) DEF PluginCaGone, Foo

------------------------------------------------------------------------------
(* Where a command works, the process stays in its phase; where one fails, it begins another. *)
LEMMA HowCommandsEnd ==
  ASSUME ProcessActs, ~Skip, ~SetupDone, ~NextTest, ~Rerun, ~Timeout, ~BodyEnds, ~CleanupEnds
  PROVE  /\ pc <= Len(program)
         /\ phase' = phase \/ Fails
<1> USE DEF Doing, Works
<1>1. CASE Apply_ \/ Delete_ \/ DeleteNamespace_
  BY <1>1 DEF Apply_, Delete_, DeleteNamespace_
<1>2. CASE SkipIfExists \/ CsvAnywhere \/ ReadCsvName \/ WaitForPhase
  BY <1>2 DEF SkipIfExists, CsvAnywhere, ReadCsvName, WaitForPhase
<1>3. CASE DeleteCsv \/ Wait_ \/ RegisterCleanup \/ Ask_ \/ PluggedIn
  BY <1>3 DEF DeleteCsv, Wait_, RegisterCleanup, Ask_, PluggedIn
<1>4. CASE Reloaded \/ Patch \/ ReadGeneration \/ SameGeneration \/ NoVersion
  BY <1>4 DEF Reloaded, Patch, ReadGeneration, SameGeneration, NoVersion
<1> QED
  BY <1>1, <1>2, <1>3, <1>4 DEF ProcessActs

(* A cleanup starts with its first command. *)
LEMMA CleanupBegins ==
  ASSUME ProcessActs, phase # "cleanup", phase' = "cleanup"
  PROVE  pc' = 1
<1>1. ~ \/ SetupDone \/ Skip \/ CleanupEnds \/ NextTest \/ Rerun \/ Timeout
  BY DEF SetupDone, Skip, CleanupEnds, NextTest, Rerun, Timeout, Begin, Goto
<1>2. CASE BodyEnds
  BY <1>2 DEF BodyEnds
<1>3. CASE ~BodyEnds
  BY <1>1, <1>3, HowCommandsEnd DEF Fails
<1> QED
  BY <1>2, <1>3

(* There are commands for the setup, a test and its cleanup only. *)
LEMMA NothingToDo ==
  ASSUME CleanupInv, phase \notin {"setup", "test", "cleanup"}
  PROVE  ~(pc <= Len(program))
<1>1. program = <<>>
  BY DEF program
<1> QED
  BY <1>1 DEF CleanupInv

(* What is not the setup, a test or its cleanup begins, and stays, at its first command. *)
LEMMA BeginsAtFirst ==
  ASSUME ProcessActs, CleanupInv, phase' \notin {"setup", "test", "cleanup"}
  PROVE  pc' = 1
<1>1. CASE SetupDone \/ Skip \/ NextTest \/ Rerun \/ Timeout \/ BodyEnds \/ CleanupEnds
  BY <1>1 DEF SetupDone, Skip, NextTest, Rerun, Timeout, BodyEnds, CleanupEnds, Begin, Goto
<1>2. CASE ~ \/ SetupDone \/ Skip \/ NextTest \/ Rerun \/ Timeout \/ BodyEnds \/ CleanupEnds
  BY <1>2, HowCommandsEnd, NothingToDo DEF Fails
<1> QED
  BY <1>1, <1>2

(* After a cleanup no command is left to do: it is over only by CleanupEnds. *)
LEMMA CleanupIsOver ==
  ASSUME ProcessActs, CleanupInv, phase' = "cleaned"
  PROVE  CleanupEnds
<1>1. ~ \/ SetupDone \/ Skip \/ NextTest \/ Rerun \/ Timeout \/ BodyEnds
  BY DEF SetupDone, Skip, NextTest, Rerun, Timeout, BodyEnds, Begin, Goto
<1>2. ASSUME ~CleanupEnds
      PROVE  FALSE
  <2>1. pc <= Len(program) /\ (phase' = phase \/ Fails)
    BY <1>1, <1>2, HowCommandsEnd
  <2>2. phase \in {"setup", "test", "cleanup"}
    BY <2>1, NothingToDo
  <2> QED
    BY <2>1, <2>2 DEF Fails
<1> QED
  BY <1>2

(* The tests keep what their cleanups need. *)
LEMMA ProcessKeeps ==
  ASSUME ProcessActs, CleanupInv
  PROVE  CleanupInv'
<1>0. phase' \notin {"setup", "test", "cleanup"} => pc' = 1
  BY BeginsAtFirst
<1>1. ASSUME phase' = "cleanup", phase # "cleanup"
      PROVE  CleanupInv'
  <2>1. pc' = 1
    BY <1>1, CleanupBegins
  <2> QED
    BY <1>1, <2>1 DEF CleanupInv, CsrGone, PluginCaGone
<1>2. ASSUME phase' = "cleanup", phase = "cleanup"
      PROVE  CleanupInv'
  <2>1. ~ \/ SetupDone \/ Skip \/ NextTest \/ Rerun \/ Timeout \/ BodyEnds \/ CleanupEnds
    BY <1>2 DEF SetupDone, Skip, NextTest, Rerun, Timeout, BodyEnds, CleanupEnds, Goto
  <2>2. pc <= Len(program) /\ pc \in Nat /\ 1 <= pc
    BY <1>2, <2>1, HowCommandsEnd DEF CleanupInv
  <2>3. pc' = pc + 1 /\ test' = test /\ Effect
    BY <1>2, <2>2, CleanupCommands, CleanupStep
  <2>4. Csr => CsrGone(pc)'
    BY <1>2, <2>2, <2>3, CsrStep DEF CleanupInv
  <2>5. ~Csr => PluginCaGone(pc)'
    BY <1>2, <2>2, <2>3, PluginCaStep DEF CleanupInv
  <2>6. Csr' <=> Csr
    BY <2>3 DEF Csr
  <2>7. pc' \in Nat /\ 1 <= pc'
    BY <2>2, <2>3
  <2> QED
    BY <1>2, <2>4, <2>5, <2>6, <2>7 DEF CleanupInv
<1>3. ASSUME phase' = "cleaned"
      PROVE  CleanupInv'
  <2>1. CleanupEnds
    BY <1>3, CleanupIsOver
  <2>2. /\ phase = "cleanup" /\ ~(pc <= Len(program)) /\ pc' = 1
        /\ objects' = objects /\ test' = test /\ pc \in Nat /\ 1 <= pc
    BY <2>1 DEF CleanupEnds, Kept, ClusterKept, cluster, test, CleanupInv
  <2>3. Csr' <=> Csr
    BY <2>2 DEF Csr
  <2>4. CASE Csr
    <3>1. program = CleanupIstioCsr
      BY <2>2, <2>4 DEF program, Csr
    <3>2. 14 <= pc
      BY <2>2, <3>1, CsrProgram
    <3>3. CsrGone(pc)
      BY <2>2, <2>4 DEF CleanupInv
    <3>4. CsrGone(14)
      BY <2>2, <3>2, <3>3 DEF CsrGone
    <3>5. CsrGone(14)'
      BY <2>2, <3>4 DEF CsrGone
    <3> QED
      BY <1>0, <1>3, <2>2, <2>3, <2>4, <3>5 DEF CleanupInv
  <2>5. CASE ~Csr
    <3>1. program = CleanupPluginCaCert
      BY <2>2, <2>5 DEF program, Csr
    <3>2. 12 <= pc
      BY <2>2, <3>1, PluginCaProgram
    <3>3. PluginCaGone(pc)
      BY <2>2, <2>5 DEF CleanupInv
    <3>4. PluginCaGone(12)
      BY <2>2, <3>2, <3>3 DEF PluginCaGone
    <3>5. PluginCaGone(12)'
      BY <2>2, <3>4 DEF PluginCaGone
    <3> QED
      BY <1>0, <1>3, <2>2, <2>3, <2>5, <3>5 DEF CleanupInv
  <2> QED
    BY <2>4, <2>5
<1>4. ASSUME phase' # "cleanup", phase' # "cleaned"
      PROVE  CleanupInv'
  BY <1>0, <1>4 DEF CleanupInv
<1> QED
  BY <1>1, <1>2, <1>3, <1>4

------------------------------------------------------------------------------
(* What the cluster makes, it makes from what is there. *)
LEMMA ClusterAdds ==
  ASSUME ClusterActs, NEW o, o \in objects', o \notin objects
  PROVE  \/ o = "csv" /\ "subscription" \in objects
         \/ o = "operator" /\ "csv" \in objects
         \/ o \in {certManagerNs, "crds", "controllers"} /\ "operator" \in objects
         \/ o = "istio-ca-secret" /\ "istio-ca" \in objects
         \/ o = "istiod-tls-secret" /\ "istio-csr" \in objects
         \/ o = "cacerts-secret" /\ "cacerts" \in objects
         \/ o \in {"istiod", "ready"} /\ "smcp" \in objects
<1> USE DEF Comes, Has, Appear
<1>1. CASE OLM
  BY <1>1 DEF OLM, Vanish
<1>2. CASE OperatorActs
  BY <1>2 DEF OperatorActs
<1>3. CASE CertManagerIssues
  <2>1. CASE Issue("istio-ca", "istio-ca-secret", RootCA)
    BY <2>1 DEF Issue
  <2>2. CASE Issue("istio-csr", "istiod-tls-secret", {"istio-ca-secret"})
    BY <2>2 DEF Issue
  <2>3. CASE Has({"cacerts", "controllers"} \cup RootCA) /\ objects' = objects \cup {"cacerts-secret"}
    BY <2>3
  <2> QED
    BY <1>3, <2>1, <2>2, <2>3 DEF CertManagerIssues
<1>4. CASE MeshIsInstalled \/ MeshIsReady
  BY <1>4 DEF MeshIsInstalled, MeshIsReady
<1>5. CASE IstiodRestarts \/ IstiodReloads
  BY <1>5 DEF IstiodRestarts, IstiodReloads
<1> QED
  BY <1>1, <1>2, <1>3, <1>4, <1>5 DEF ClusterActs

(* The cluster does not bring back what a cleanup has removed. *)
LEMMA ClusterKeeps ==
  ASSUME ClusterActs, CleanupInv
  PROVE  CleanupInv'
<1>1. phase' = phase /\ pc' = pc /\ test' = test
  BY DEF ClusterActs, process, test
<1>2. ASSUME NEW p \in Nat, CsrGone(p)
      PROVE  /\ p > 1 => "istio-csr" \notin objects'
             /\ p > 2 => "smcp" \notin objects' /\ "istiod" \notin objects'
             /\ p > 3 => "istio-ca" \notin objects'
             /\ p > 4 => "istiod-tls-secret" \notin objects'
             /\ p > 5 => "istio-ca-secret" \notin objects'
             /\ p > 8 => "root-issuer" \notin objects'
             /\ p > 10 => "subscription" \notin objects'
             /\ p > 12 => operatorNs \notin objects' /\ "csv" \notin objects' /\ "operator" \notin objects'
             /\ p > 13 => /\ certManagerNs \notin objects' /\ "controllers" \notin objects'
                          /\ "root-certificate" \notin objects'
  BY <1>2, ClusterAdds, SMTT(60) DEF CsrGone, operatorNs, certManagerNs
<1>3. ASSUME NEW p \in Nat, PluginCaGone(p)
      PROVE  /\ p > 1 => "smcp" \notin objects' /\ "istiod" \notin objects'
             /\ p > 2 => "cacerts" \notin objects'
             /\ p > 3 => "cacerts-secret" \notin objects'
             /\ p > 6 => "root-issuer" \notin objects'
             /\ p > 8 => "subscription" \notin objects'
             /\ p > 10 => operatorNs \notin objects' /\ "csv" \notin objects' /\ "operator" \notin objects'
             /\ p > 11 => /\ certManagerNs \notin objects' /\ "controllers" \notin objects'
                          /\ "root-certificate" \notin objects'
  BY <1>3, ClusterAdds, SMTT(60) DEF PluginCaGone, operatorNs, certManagerNs
<1>4. Csr' <=> Csr
  BY <1>1 DEF Csr
<1>5. CASE phase = "cleanup"
  <2>1. pc \in Nat /\ 1 <= pc
    BY <1>5 DEF CleanupInv
  <2>2. Csr => CsrGone(pc)'
    BY <1>1, <1>2, <1>5, <2>1 DEF CleanupInv, CsrGone
  <2>3. ~Csr => PluginCaGone(pc)'
    BY <1>1, <1>3, <1>5, <2>1 DEF CleanupInv, PluginCaGone
  <2> QED
    BY <1>1, <1>4, <1>5, <2>1, <2>2, <2>3 DEF CleanupInv
<1>6. CASE phase = "cleaned"
  <2>1. Csr => CsrGone(14)'
    BY <1>2, <1>6 DEF CleanupInv, CsrGone
  <2>2. ~Csr => PluginCaGone(12)'
    BY <1>3, <1>6 DEF CleanupInv, PluginCaGone
  <2> QED
    BY <1>1, <1>4, <1>6, <2>1, <2>2 DEF CleanupInv
<1>7. CASE phase # "cleanup" /\ phase # "cleaned"
  BY <1>1, <1>7 DEF CleanupInv
<1> QED
  BY <1>5, <1>6, <1>7

(* Nor does it come back where only something else is removed. *)
LEMMA RemovalKeeps ==
  ASSUME CleanupInv, UNCHANGED process, objects' \subseteq objects
  PROVE  CleanupInv'
<1>1. phase' = phase /\ pc' = pc /\ test' = test
  BY DEF process, test
<1>2. Csr' <=> Csr
  BY <1>1 DEF Csr
<1>3. /\ CsrGone(pc) => CsrGone(pc)'
      /\ CsrGone(14) => CsrGone(14)'
  BY <1>1 DEF CsrGone
<1>4. /\ PluginCaGone(pc) => PluginCaGone(pc)'
      /\ PluginCaGone(12) => PluginCaGone(12)'
  BY <1>1 DEF PluginCaGone
<1> QED
  BY <1>1, <1>2, <1>3, <1>4 DEF CleanupInv

(* A cleanup at its end has removed the operator, the mesh and the secrets of its test. *)
LEMMA CleanupSuffices ==
  ASSUME CleanupInv
  PROVE  CleanupRemovesOperator
<1> SUFFICES ASSUME phase = "cleaned"
             PROVE  objects \cap (Operator \cup {"smcp", "istiod"} \cup Secrets(test)) = {}
  BY DEF CleanupRemovesOperator
<1>1. Operator = {operatorNs, certManagerNs, "root-issuer", "subscription", "csv", "operator",
                  "controllers", "root-certificate"}
  BY NamespacesHold DEF Operator
<1>2. CASE Csr
  <2>1. CsrGone(14)
    BY <1>2 DEF CleanupInv
  <2>2. Secrets(test) = {"istio-ca-secret", "istiod-tls-secret"}
    BY <1>2 DEF Secrets, Csr
  <2> QED
    BY <1>1, <2>1, <2>2 DEF CsrGone
<1>3. CASE ~Csr
  <2>1. PluginCaGone(12)
    BY <1>3 DEF CleanupInv
  <2>2. Secrets(test) = {"cacerts-secret"}
    BY <1>3 DEF Secrets, Csr
  <2> QED
    BY <1>1, <2>1, <2>2 DEF PluginCaGone
<1> QED
  BY <1>2, <1>3

(***************************************************************************)
(* Whatever the cluster does while a cleanup of the cert-manager tests     *)
(* runs, one that comes to its end has removed the operator, the mesh and  *)
(* the secrets: in the tests alone, outside of the script.                 *)
(***************************************************************************)
THEOREM CleanupRemoves == Spec => []CleanupRemovesOperator
<1>1. Init => CleanupInv
  BY DEF Init, CleanupInv
<1>2. CleanupInv /\ [Next]_vars => CleanupInv'
  <2> SUFFICES ASSUME CleanupInv, [Next]_vars
               PROVE  CleanupInv'
    OBVIOUS
  <2>1. CASE ProcessActs
    BY <2>1, ProcessKeeps
  <2>2. CASE ClusterActs
    BY <2>2, ClusterKeeps
  <2>3. CASE Done \/ UNCHANGED vars
    BY <2>3, RemovalKeeps DEF Done, vars, cluster
  <2> QED
    BY <2>1, <2>2, <2>3 DEF Next
<1>3. CleanupInv => CleanupRemovesOperator
  BY CleanupSuffices
<1> QED
  BY <1>1, <1>2, <1>3, PTL DEF Spec

================================================================================
