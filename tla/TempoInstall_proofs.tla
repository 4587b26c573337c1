-------------------------- MODULE TempoInstall_proofs --------------------------
(***************************************************************************)
(* Proofs about TempoInstall, for any number of processes: the invariant   *)
(* IInv and the four invariants that follow from it.                       *)
(***************************************************************************)
EXTENDS TempoInstall, TLAPS

\* Steps that the proofs take together: those of the cluster's controllers, of
\* installTempoStack, and of Uninstall on tracing-system.
ClusterStep == \/ \E o \in Operators : OlmInstall(o) \/ OlmRemove(o)
               \/ ReconcileStack

InstallStackStep == \/ RecreateTracing \/ InstallMinio \/ ApplyStack
                    \/ StackReady \/ ApplyRoute
UninstallStackStep == DropRoute \/ DropStack \/ DropMinio \/ DropTracing

\* The initial state: nothing has run yet.
LEMMA InitIInv == Init => IInv
  <1> SUFFICES ASSUME Init PROVE IInv
    OBVIOUS
  <1>1. \A o \in Operators : Initially(o) \in SUBSET OlmParts
    BY DEF Initially, OlmParts
  <1>2. TypeOK
    <2>1. own \in [Operators -> SUBSET OlmParts]
      BY <1>1 DEF Init
    <2>2. runs \in 0..MaxRuns
      BY TempoInstallAssumption DEF Init
    <2> QED BY <2>1, <2>2 DEF Init, TypeOK, Steps, Operators, StackParts
  <1>3. FlagInv /\ TempoInv
    BY DEF Init, FlagInv, TempoInv, ForOperator, Operators, Initially
  <1>4. CleanInv
    BY DEF Init, CleanInv, StackInv, OperatorInv, Past, Removed, ForOperator,
           InstallSteps, Initially, Operators
  <1> QED BY <1>2, <1>3, <1>4 DEF IInv

\* The answer of an existence check is TRUE or FALSE.
LEMMA AnswersBoolean == \A fact \in BOOLEAN : Answers(fact) \subseteq BOOLEAN
  BY DEF Answers

\* Every step keeps the types.
LEMMA TypeStep == TypeOK /\ [Next]_vars => TypeOK'
  <1> SUFFICES ASSUME TypeOK, [Next]_vars PROVE TypeOK'
    OBVIOUS
  <1> USE DEF TypeOK, Steps, InstallSteps, UninstallSteps, Operators, Goto, Tempo1st, cluster
  <1>1. CASE Start
    <2>1. runs' \in 0..MaxRuns
      BY <1>1, TempoInstallAssumption DEF Start
    <2> QED BY <1>1, <2>1 DEF Start
  <1>2. CASE Check \/ Wait \/ CheckStack \/ Lookup
    <2>1. CASE Check
      <3>1. PICK found \in BOOLEAN :
              /\ existedBefore' = [existedBefore EXCEPT ![op] = @ \/ found]
              /\ misread' = (misread \/ found # Exists(op))
        BY <2>1, AnswersBoolean DEF Check, Exists
      <3> QED BY <2>1, <3>1 DEF Check
    <2>2. CASE Wait \/ CheckStack
      BY <2>2 DEF Wait, CheckStack, Answers
    <2>3. CASE Lookup
      <3>1. csvName' \in BOOLEAN
        <4> HIDE DEF TypeOK, Steps, InstallSteps, UninstallSteps, Operators, Goto, Tempo1st, cluster
        <4>1. csvName \in BOOLEAN
          BY DEF TypeOK
        <4>2. \/ csvName' = csvName
              \/ csvName' = ("csv" \in own[op])
          BY <2>3, Zenon DEF Lookup
        <4>3. CASE csvName' = ("csv" \in own[op])
          <5>1. CASE "csv" \in own[op]
            BY <4>3, <5>1
          <5>2. CASE "csv" \notin own[op]
            BY <4>3, <5>2
          <5> QED BY <5>1, <5>2
        <4> QED BY <4>1, <4>2, <4>3
      <3> QED BY <2>3, <3>1 DEF Lookup
    <2> QED BY <1>2, <2>1, <2>2, <2>3
  <1>3. CASE Subscribe
    BY <1>3 DEF Subscribe, OlmParts
  <1>4. CASE InstallStackStep
    BY <1>4 DEF InstallStackStep, RecreateTracing, InstallMinio, ApplyStack, StackReady,
                ApplyRoute, InstallStack, StackParts
  <1>5. CASE Cleanup \/ Abort
    BY <1>5 DEF Cleanup, Abort
  <1>6. CASE UninstallStackStep
    BY <1>6 DEF UninstallStackStep, DropRoute, DropStack, DropMinio, DropTracing, UninstallStack
  <1>7. CASE Unsubscribe \/ DropCsv \/ DropNamespace
    BY <1>7 DEF Unsubscribe, DropCsv, DropNamespace, UninstallOperator
  <1>8. CASE ClusterStep
    <2>1. own' \in [Operators -> SUBSET OlmParts]
      BY <1>8 DEF ClusterStep, OlmInstall, OlmRemove, ReconcileStack, OlmParts
    <2>2. stack' \subseteq StackParts
      BY <1>8 DEF ClusterStep, OlmInstall, OlmRemove, ReconcileStack, StackParts
    <2>3. kindKnown' \in BOOLEAN
      BY <1>8 DEF ClusterStep, OlmInstall, OlmRemove, ReconcileStack
    <2>4. UNCHANGED <<step, op, existedBefore, csvName, preexisting, runs, misread, troubled>>
      BY <1>8 DEF ClusterStep, OlmInstall, OlmRemove, ReconcileStack, process
    <2> QED BY <2>1, <2>2, <2>3, <2>4
  <1>9. CASE UNCHANGED vars
    BY <1>9 DEF vars
  <1> QED
    BY <1>1, <1>2, <1>3, <1>4, <1>5, <1>6, <1>7, <1>8, <1>9
    DEF Next, InstallStackStep, UninstallStackStep, ClusterStep, Done

\* Every step keeps what the flags say of where the process is.
LEMMA FlagStep == TypeOK /\ FlagInv /\ [Next]_vars => FlagInv'
  <1> SUFFICES ASSUME TypeOK, FlagInv, [Next]_vars PROVE FlagInv'
    OBVIOUS
  <1> USE DEF TypeOK, FlagInv, ForOperator, Operators, Goto, Tempo1st, cluster
  <1>1. CASE Start
    BY <1>1 DEF Start
  <1>2. CASE Check
    BY <1>2 DEF Check
  <1>3. CASE Subscribe \/ Wait \/ CheckStack \/ Lookup
    BY <1>3 DEF Subscribe, Wait, CheckStack, Lookup
  <1>4. CASE InstallStackStep
    BY <1>4 DEF InstallStackStep, RecreateTracing, InstallMinio, ApplyStack, StackReady,
                ApplyRoute, InstallStack
  <1>5. CASE Cleanup \/ Abort
    BY <1>5 DEF Cleanup, Abort
  <1>6. CASE UninstallStackStep
    BY <1>6 DEF UninstallStackStep, DropRoute, DropStack, DropMinio, DropTracing, UninstallStack
  <1>7. CASE Unsubscribe \/ DropCsv \/ DropNamespace
    BY <1>7 DEF Unsubscribe, DropCsv, DropNamespace, UninstallOperator
  <1>8. CASE ClusterStep
    BY <1>8 DEF ClusterStep, OlmInstall, OlmRemove, ReconcileStack, process
  <1>9. CASE UNCHANGED vars
    BY <1>9 DEF vars
  <1> QED
    BY <1>1, <1>2, <1>3, <1>4, <1>5, <1>6, <1>7, <1>8, <1>9
    DEF Next, InstallStackStep, UninstallStackStep, ClusterStep, Done

\* Every step keeps the administrator's Tempo operator whole, and it found.
LEMMA TempoStep == TypeOK /\ FlagInv /\ TempoInv /\ [Next]_vars => TempoInv'
  <1> SUFFICES ASSUME TypeOK, FlagInv, TempoInv, [Next]_vars, preexisting["tempo"] = "own"
               PROVE  TempoInv'
    BY DEF Next, vars, Start, Check, Subscribe, Wait, CheckStack, RecreateTracing,
           InstallMinio, ApplyStack, StackReady, ApplyRoute, InstallStack, Cleanup,
           DropRoute, DropStack, DropMinio, DropTracing, UninstallStack, Lookup,
           Unsubscribe, DropCsv, DropNamespace, UninstallOperator, Abort, OlmInstall,
           OlmRemove, ReconcileStack, Done, TempoInv
  <1> USE DEF TypeOK, FlagInv, TempoInv, ForOperator, Operators, Goto, Tempo1st, cluster
  <1>1. CASE Start
    BY <1>1 DEF Start
  <1>2. CASE Check
    BY <1>2 DEF Check, Answers, Exists, OlmParts
  <1>3. CASE Subscribe \/ Wait \/ CheckStack \/ Lookup
    BY <1>3 DEF Subscribe, Wait, CheckStack, Lookup
  <1>4. CASE InstallStackStep
    BY <1>4 DEF InstallStackStep, RecreateTracing, InstallMinio, ApplyStack, StackReady,
                ApplyRoute, InstallStack
  <1>5. CASE Cleanup \/ Abort
    BY <1>5 DEF Cleanup, Abort, InstallSteps
  <1>6. CASE UninstallStackStep
    BY <1>6 DEF UninstallStackStep, DropRoute, DropStack, DropMinio, DropTracing, UninstallStack
  <1>7. CASE Unsubscribe \/ DropCsv \/ DropNamespace
    BY <1>7 DEF Unsubscribe, DropCsv, DropNamespace, UninstallOperator
  <1>8. CASE ClusterStep
    BY <1>8 DEF ClusterStep, OlmInstall, OlmRemove, ReconcileStack, process, OlmParts
  <1>9. CASE UNCHANGED vars
    BY <1>9 DEF vars
  <1> QED
    BY <1>1, <1>2, <1>3, <1>4, <1>5, <1>6, <1>7, <1>8, <1>9
    DEF Next, InstallStackStep, UninstallStackStep, ClusterStep, Done

\* Every step keeps what exists in tracing-system in keeping with the process.
LEMMA StackStep == TypeOK /\ FlagInv /\ StackInv /\ [Next]_vars /\ ~Abort => StackInv'
  <1> SUFFICES ASSUME TypeOK, FlagInv, StackInv, [Next]_vars, ~Abort PROVE StackInv'
    OBVIOUS
  <1> USE DEF TypeOK, StackInv, ForOperator, Operators, Goto, Tempo1st, cluster
  <1>1. CASE Start \/ Check \/ Subscribe \/ Wait
    BY <1>1 DEF Start, Check, Subscribe, Wait
  <1>2. CASE CheckStack \/ Cleanup
    BY <1>2 DEF CheckStack, Cleanup
  <1>3. CASE InstallStackStep
    BY <1>3 DEF InstallStackStep, RecreateTracing, InstallMinio, ApplyStack, StackReady,
                ApplyRoute, InstallStack, StackParts
  <1>4. CASE UninstallStackStep
    BY <1>4 DEF UninstallStackStep, DropRoute, DropStack, DropMinio, DropTracing,
                UninstallStack, StackParts
  <1>5. CASE Lookup \/ Unsubscribe \/ DropCsv \/ DropNamespace
    BY <1>5 DEF Lookup, Unsubscribe, DropCsv, DropNamespace, UninstallOperator
  <1>6. CASE ClusterStep
    BY <1>6 DEF ClusterStep, OlmInstall, OlmRemove, ReconcileStack, process, StackParts
  <1>7. CASE UNCHANGED vars
    BY <1>7 DEF vars
  <1> QED
    BY <1>1, <1>2, <1>3, <1>4, <1>5, <1>6, <1>7
    DEF Next, InstallStackStep, UninstallStackStep, ClusterStep, Done

\* Every step keeps what exists of each operator in keeping with the process.
LEMMA OperatorStep ==
  ASSUME TypeOK, FlagInv, StackInv, [Next]_vars, ~Abort,
         NEW o \in Operators, OperatorInv(o)
  PROVE  OperatorInv(o)'
  <1> USE DEF TypeOK, FlagInv, ForOperator, InstallSteps, Operators, Goto, Tempo1st, cluster,
              OperatorInv, Before, Past, Removed
  <1>1. preexisting' = preexisting /\ Initially(o)' = Initially(o)
    BY DEF Next, vars, Start, Check, Subscribe, Wait, CheckStack, RecreateTracing,
           InstallMinio, ApplyStack, StackReady, ApplyRoute, InstallStack, Cleanup,
           DropRoute, DropStack, DropMinio, DropTracing, UninstallStack, Lookup,
           Unsubscribe, DropCsv, DropNamespace, UninstallOperator, Abort, OlmInstall,
           OlmRemove, ReconcileStack, Done, Initially
  <1>2. CASE Start
    BY <1>1, <1>2 DEF Start
  <1>3. CASE Check
    BY <1>1, <1>3 DEF Check, Exists, Initially
  <1>4. CASE Subscribe
    BY <1>1, <1>4 DEF Subscribe
  <1>5. CASE Wait
    BY <1>1, <1>5 DEF Wait
  <1>6. CASE CheckStack \/ Cleanup
    BY <1>1, <1>6 DEF CheckStack, Cleanup
  <1>7. CASE InstallStackStep
    BY <1>1, <1>7 DEF InstallStackStep, RecreateTracing, InstallMinio, ApplyStack, StackReady,
                      ApplyRoute, InstallStack
  <1>8. CASE UninstallStackStep
    BY <1>1, <1>8 DEF UninstallStackStep, DropRoute, DropStack, DropMinio, DropTracing,
                      UninstallStack
  <1>9. CASE Lookup
    BY <1>1, <1>9 DEF Lookup
  <1>10. CASE Unsubscribe \/ DropCsv
    BY <1>1, <1>10 DEF Unsubscribe, DropCsv, UninstallOperator
  <1>11. CASE DropNamespace
    BY <1>1, <1>11 DEF DropNamespace, UninstallOperator
  <1>12. CASE ClusterStep
    BY <1>1, <1>12 DEF ClusterStep, OlmInstall, OlmRemove, ReconcileStack, process, Initially, OlmParts
  <1>13. CASE UNCHANGED vars
    BY <1>1, <1>13 DEF vars
  <1> QED
    BY <1>2, <1>3, <1>4, <1>5, <1>6, <1>7, <1>8, <1>9, <1>10, <1>11, <1>12, <1>13
    DEF Next, InstallStackStep, UninstallStackStep, ClusterStep, Done

\* The inductive invariant; a process that is killed, and a cleanup that does
\* not end, leave trouble behind.
THEOREM Invariant == Spec => []IInv
  <1>1. IInv /\ [Next]_vars => IInv'
    <2> SUFFICES ASSUME IInv, [Next]_vars PROVE IInv'
      OBVIOUS
    <2>1. TypeOK' /\ FlagInv' /\ TempoInv'
      BY TypeStep, FlagStep, TempoStep DEF IInv
    <2>2. CASE Abort
      BY <2>1, <2>2 DEF Abort, CleanInv, IInv
    <2>3. CASE ~Abort
      <3>1. troubled' = troubled
        BY <2>3 DEF Next, vars, Start, Check, Subscribe, Wait, CheckStack, RecreateTracing,
           InstallMinio, ApplyStack, StackReady, ApplyRoute, InstallStack, Cleanup,
           DropRoute, DropStack, DropMinio, DropTracing, UninstallStack, Lookup,
           Unsubscribe, DropCsv, DropNamespace, UninstallOperator, OlmInstall,
           OlmRemove, ReconcileStack, Done
      <3> SUFFICES ASSUME ~troubled
                   PROVE  StackInv' /\ \A o \in Operators : OperatorInv(o)'
        BY <2>1, <3>1 DEF CleanInv, IInv
      <3>2. StackInv /\ \A o \in Operators : OperatorInv(o)
        BY DEF CleanInv, IInv
      <3>3. StackInv'
        BY <2>3, <3>2, StackStep DEF IInv
      <3>4. ASSUME NEW o \in Operators PROVE OperatorInv(o)'
        BY <2>3, <3>2, OperatorStep DEF IInv
      <3> QED BY <3>3, <3>4
    <2> QED BY <2>2, <2>3
  <1> QED BY <1>1, InitIInv, PTL DEF Spec

\* Every variable keeps its type.
THEOREM TypesKept == Spec => []TypeOK
  <1>1. IInv => TypeOK
    BY DEF IInv
  <1> QED BY <1>1, Invariant, PTL

\* Uninstall never touches a Tempo operator that the administrator installed,
\* for it is looked for before anything can fail.
THEOREM AdministratorsTempoSurvives == Spec => []TempoSurvives
  <1>1. IInv => TempoSurvives
    BY DEF IInv, TempoInv, TempoSurvives
  <1> QED BY <1>1, Invariant, PTL

\* A process that is not killed, and whose Uninstall ends, leaves nothing of
\* what it installed, however far it got.
THEOREM NothingIsLeftBehind == Spec => []NothingLeftBehind
  <1>1. IInv => NothingLeftBehind
    BY DEF IInv, CleanInv, StackInv, OperatorInv, Before, NothingLeftBehind
  <1> QED BY <1>1, Invariant, PTL

\* After InstallIfNotExist the test has what it needs.
THEOREM WhatIsInstalledIsUsable == Spec => []InstalledIsUsable
  <1>1. IInv => InstalledIsUsable
    BY DEF IInv, TypeOK, CleanInv, StackInv, OperatorInv, Past, Exists, Initially,
           OlmParts, InstallSteps, ForOperator, InstalledIsUsable
  <1> QED BY <1>1, Invariant, PTL

\* The flags are wrong only after an earlier process left something.
THEOREM LeftoversMeanTrouble == Spec => []LeftoverMeansTrouble
  <1>1. IInv => LeftoverMeansTrouble
    BY DEF IInv, CleanInv, OperatorInv, LeftoverMeansTrouble
  <1> QED BY <1>1, Invariant, PTL

===============================================================================
