------------------------ MODULE ContinualRequest_proofs ------------------------
(***************************************************************************)
(* Proofs about ContinualRequest, for any sets of resources and requests:  *)
(* the invariant IInv, and from it that nothing requested is deleted, that *)
(* no requester outlives its test, and that the promise Watch is kept.     *)
(***************************************************************************)
EXTENDS ContinualRequest, TLAPS

\* What registering a cleanup does to the list: every entry keeps its place.
LEMMA RegisterAppends ==
  ASSUME TypeOK, NEW c \in Resources \cup Requests, Register(c)
  PROVE  /\ cleanups' \in Seq(Resources \cup Requests)
         /\ DOMAIN cleanups = 1..Len(cleanups)
         /\ DOMAIN cleanups' = 1..Len(cleanups) + 1
         /\ Len(cleanups') = Len(cleanups) + 1
         /\ \A i \in 1..Len(cleanups) : cleanups'[i] = cleanups[i]
         /\ cleanups'[Len(cleanups) + 1] = c
         /\ left' \in 0..Len(cleanups')
         /\ Registered' = Registered \cup {c}
  <1>1. /\ cleanups' \in Seq(Resources \cup Requests)
        /\ Len(cleanups') = Len(cleanups) + 1
        /\ \A i \in 1..Len(cleanups) : cleanups'[i] = cleanups[i]
        /\ cleanups'[Len(cleanups) + 1] = c
        /\ Len(cleanups) \in Nat
    BY DEF Register, TypeOK
  <1>2. DOMAIN cleanups = 1..Len(cleanups) /\ DOMAIN cleanups' = 1..Len(cleanups) + 1
    BY <1>1 DEF TypeOK
  <1>3. left' \in 0..Len(cleanups')
    BY <1>1 DEF Register, TypeOK
  <1>4. Registered' = Registered \cup {c}
    BY <1>1, <1>2 DEF Registered
  <1> QED BY <1>1, <1>2, <1>3, <1>4

\* Registering something new while the test function runs: no cleanup is
\* registered twice, and those that were to run still are, in their places.
LEMMA RegisterNew ==
  ASSUME IInv, main = "body", NEW c \in (Resources \cup Requests) \ Registered, Register(c)
  PROVE  /\ \A i, j \in DOMAIN cleanups' : cleanups'[i] = cleanups'[j] => i = j
         /\ left = Len(cleanups) /\ left' = Len(cleanups')
         /\ \A i \in 1..left : i \in 1..left' /\ cleanups'[i] = cleanups[i]
  <1>1. left = Len(cleanups) /\ Len(cleanups) \in Nat
    BY DEF IInv, Registration, TypeOK
  <1>2. \A i \in DOMAIN cleanups : cleanups[i] # c
    BY DEF Registered
  <1>3. \A i, j \in DOMAIN cleanups : cleanups[i] = cleanups[j] => i = j
    BY DEF IInv, Registration
  <1>4. TypeOK
    BY DEF IInv
  <1>5. \A i, j \in DOMAIN cleanups' : cleanups'[i] = cleanups'[j] => i = j
    BY <1>1, <1>2, <1>3, <1>4, RegisterAppends
  <1>6. left' = left + 1
    BY DEF Register
  <1> QED BY <1>1, <1>4, <1>5, <1>6, RegisterAppends

\* While the test function runs no cleanup has begun, and no context is cancelled.
LEMMA NoneAskedInBody ==
  ASSUME IInv, main = "body"
  PROVE  Asked = {} /\ cancelled = {}
  <1>1. left = Len(cleanups) /\ cleanups \in Seq(Resources \cup Requests)
    BY DEF IInv, Registration, TypeOK
  <1>2. \A i \in DOMAIN cleanups : ~(i > left)
    BY <1>1
  <1>3. Asked = {}
    BY <1>2 DEF Asked
  <1> QED BY <1>3 DEF IInv, Registration

\* What a step does to the set of requesters whose cleanup has begun.
LEMMA AskedByDelete ==
  ASSUME IInv, NEW r \in Resources, Delete(r)
  PROVE  Asked' = Asked
  <1>1. /\ cleanups' = cleanups /\ left' = left - 1 /\ cleanups[left] = r
        /\ main = "cleanup" /\ main' = "cleanup" /\ left \in Nat
        /\ DOMAIN cleanups \subseteq Int
    BY DEF Delete, Last, IInv, TypeOK
  <1>2. \A q \in Requests : q # r
    BY ContinualRequestAssumption
  <1>3. \A q \in Requests, i \in DOMAIN cleanups :
          cleanups[i] = q => (i > left <=> i > left - 1)
    BY <1>1, <1>2
  <1> QED BY <1>1, <1>3 DEF Asked

LEMMA AskedByCancel ==
  ASSUME IInv, NEW q \in Requests, Cancel(q)
  PROVE  Asked' = Asked \cup {q}
  <1>1. /\ cleanups' = cleanups /\ left' = left /\ cleanups[left] = q
        /\ main = "cleanup" /\ main' = "blocked" /\ left \in DOMAIN cleanups
    BY DEF Cancel, Last, IInv, TypeOK
  <1> QED BY <1>1 DEF Asked

LEMMA AskedByStopped ==
  ASSUME IInv, NEW q \in Requests, Stopped(q)
  PROVE  Asked' = Asked
  <1>1. /\ cleanups' = cleanups /\ left' = left - 1 /\ main = "blocked"
        /\ main' = "cleanup" /\ left \in Nat /\ DOMAIN cleanups \subseteq Int
    BY DEF Stopped, IInv, TypeOK
  <1>2. \A i \in DOMAIN cleanups : i > left' <=> i > left \/ i = left
    BY <1>1
  <1> QED BY <1>1, <1>2 DEF Asked

LEMMA AskedByNone ==
  ASSUME IInv, UNCHANGED <<cleanups, left>>, main # "blocked", main' # "blocked"
  PROVE  Asked' = Asked
  BY DEF Asked

\* A cleanup that was registered has not begun.
LEMMA AskedByRegister ==
  ASSUME IInv, main = "body", main' # "blocked",
         NEW c \in Resources \cup Requests, Register(c)
  PROVE  Asked' = {}
  <1>1. \A i \in DOMAIN cleanups' : ~(i > left')
    <2>1. TypeOK /\ left = Len(cleanups) /\ Len(cleanups) \in Nat
      BY DEF IInv, Registration, TypeOK
    <2>2. left' = left + 1
      BY DEF Register
    <2> QED BY <2>1, <2>2, RegisterAppends
  <1> QED BY <1>1 DEF Asked

\* When the next cleanup is about to begin, those that have begun have ended,
\* and what they waited for has left its loop.
LEMMA AskedHaveLeft ==
  ASSUME IInv, main = "cleanup"
  PROVE  Asked \cap Watching = {}
  <1> SUFFICES ASSUME NEW q \in Asked, q \in Watching PROVE FALSE
    OBVIOUS
  <1>1. PICK i \in DOMAIN cleanups : cleanups[i] = q /\ i > left
    BY DEF Asked
  <1>2. q \in Requests /\ requester[q] \notin Idle
    BY DEF Watching, Idle
  <1>3. PICK j \in 1..left : cleanups[j] = q
    BY <1>2 DEF IInv, Registration
  <1>4. j \in DOMAIN cleanups /\ left \in Nat
    BY <1>3 DEF IInv, TypeOK
  <1>5. i = j
    BY <1>1, <1>3, <1>4 DEF IInv, Registration
  <1> QED BY <1>1, <1>3, <1>4, <1>5

\* Nothing has been done yet, so nothing is registered or requested.
LEMMA InitIInv == Init => IInv
  <1> SUFFICES ASSUME Init PROVE IInv
    OBVIOUS
  <1>1. TypeOK
    <2>1. cleanups \in Seq(Resources \cup Requests) /\ left \in 0..Len(cleanups)
      BY DEF Init
    <2>2. requester \in [Requests -> RequesterStates]
      BY DEF Init, RequesterStates, Idle
    <2> QED BY <2>1, <2>2 DEF Init, TypeOK
  <1>2. Registration /\ RequestedIsPresent
    BY DEF Init, Registration, RequestedIsPresent, Registered, Asked, Idle
  <1> QED BY <1>1, <1>2 DEF IInv

\* A resource is provisioned: its cleanup joins the list before it exists.
LEMMA ProvisionKeeps ==
  ASSUME IInv, NEW r \in Resources, Provision(r)
  PROVE  IInv'
  <1>1. /\ main = "body" /\ r \in (Resources \cup Requests) \ Registered
        /\ Register(r) /\ TypeOK
    BY DEF Provision, IInv
  <1>2. TypeOK'
    BY <1>1, RegisterAppends DEF Provision, TypeOK
  <1>3. RequestedIsPresent'
    BY DEF Provision, IInv, RequestedIsPresent
  <1>4. \A q \in Requests : requester'[q] = "none" => q \notin Registered'
    BY <1>1, RegisterAppends, ContinualRequestAssumption DEF Provision, IInv, Registration
  <1>5. ASSUME NEW q \in Requests, requester'[q] \notin Idle
        PROVE  \E i \in 1..left', j \in 1..left' :
                 j < i /\ cleanups'[i] = q /\ cleanups'[j] = target'[q]
    <2>1. PICK i \in 1..left, j \in 1..left :
            j < i /\ cleanups[i] = q /\ cleanups[j] = target[q]
      BY <1>5 DEF Provision, IInv, Registration
    <2> QED BY <1>1, <2>1, RegisterNew DEF Provision
  <1>6. \A s \in present' : s \in Registered'
    BY <1>1, RegisterAppends DEF Provision, IInv, Registration
  <1>7. main' \in {"body", "cleanup"} /\ left' = Len(cleanups')
    BY <1>1, RegisterNew DEF Provision
  <1>8. cancelled' = {}
    BY <1>1, NoneAskedInBody DEF Provision
  <1>9. Registration'
    BY <1>1, <1>4, <1>5, <1>6, <1>7, <1>8, RegisterNew DEF Registration
  <1> QED BY <1>2, <1>3, <1>9 DEF IInv

\* A requester is started: what it requests is present, hence registered, and
\* its own cleanup goes on top.
LEMMA ContinuallyRequestKeeps ==
  ASSUME IInv, NEW q \in Requests, ContinuallyRequest(q)
  PROVE  IInv'
  <1>1. /\ main = "body" /\ q \in (Resources \cup Requests) \ Registered
        /\ Register(q) /\ TypeOK
    BY DEF ContinuallyRequest, IInv, Registration
  <1>2. TypeOK'
    BY <1>1, RegisterAppends DEF ContinuallyRequest, TypeOK, RequesterStates
  <1>3. RequestedIsPresent'
    BY <1>1 DEF ContinuallyRequest, IInv, RequestedIsPresent, TypeOK
  <1>4. \A p \in Requests : requester'[p] = "none" => p \notin Registered'
    BY <1>1, RegisterAppends DEF ContinuallyRequest, IInv, Registration, TypeOK
  <1>5. ASSUME NEW p \in Requests, requester'[p] \notin Idle
        PROVE  \E i \in 1..left', j \in 1..left' :
                 j < i /\ cleanups'[i] = p /\ cleanups'[j] = target'[p]
    <2>1. CASE p = q
      <3>1. PICK j \in DOMAIN cleanups : cleanups[j] = target[q]
        BY DEF ContinuallyRequest, IInv, Registration, Registered
      <3>2. j \in 1..left /\ left \in Nat
        BY <1>1, <3>1, RegisterAppends, RegisterNew DEF TypeOK
      <3>3. cleanups'[left + 1] = q /\ left + 1 = left' /\ cleanups'[j] = target[q]
        BY <1>1, <3>1, <3>2, RegisterAppends, RegisterNew DEF Register
      <3> QED BY <2>1, <3>2, <3>3 DEF ContinuallyRequest
    <2>2. CASE p # q
      <3>1. PICK i \in 1..left, j \in 1..left :
              j < i /\ cleanups[i] = p /\ cleanups[j] = target[p]
        BY <1>1, <1>5, <2>2 DEF ContinuallyRequest, IInv, Registration, TypeOK
      <3> QED BY <1>1, <3>1, RegisterNew DEF ContinuallyRequest
    <2> QED BY <2>1, <2>2
  <1>6. \A s \in present' : s \in Registered'
    BY <1>1, RegisterAppends DEF ContinuallyRequest, IInv, Registration
  <1>7. main' = "body" /\ left' = Len(cleanups')
    BY <1>1, RegisterNew DEF ContinuallyRequest
  <1>8. cancelled' = {}
    BY <1>1, NoneAskedInBody DEF ContinuallyRequest
  <1>9. Registration'
    BY <1>1, <1>4, <1>5, <1>6, <1>7, <1>8, RegisterNew DEF Registration
  <1> QED BY <1>2, <1>3, <1>9 DEF IInv

\* The cleanup on top is done with: a requester that is still requesting and
\* whose cleanup it was not has both its entries below.
LEMMA PopKeepsPairs ==
  ASSUME IInv, left > 0, left' = left - 1, UNCHANGED <<cleanups, target>>,
         NEW q \in Requests, requester[q] \notin Idle, Last # q
  PROVE  /\ \E i \in 1..left', j \in 1..left' :
              j < i /\ cleanups'[i] = q /\ cleanups'[j] = target'[q]
         /\ Last # target[q]
  <1>1. PICK i \in 1..left, j \in 1..left :
          j < i /\ cleanups[i] = q /\ cleanups[j] = target[q]
    BY DEF IInv, Registration
  <1>2. left \in Nat /\ left \in DOMAIN cleanups /\ j \in DOMAIN cleanups
    BY <1>1 DEF IInv, TypeOK
  <1>3. i # left
    BY <1>1 DEF Last
  <1>4. i \in 1..left' /\ j \in 1..left'
    BY <1>1, <1>2, <1>3
  <1>5. Last # target[q]
    BY <1>1, <1>2, <1>4 DEF IInv, Registration, Last
  <1> QED BY <1>1, <1>4, <1>5

\* A resource is deleted: were it requested, the requester's cleanup would be
\* above its own.
LEMMA DeleteKeeps ==
  ASSUME IInv, NEW r \in Resources, Delete(r)
  PROVE  IInv'
  <1>1. /\ main = "cleanup" /\ left > 0 /\ Last = r /\ left' = left - 1
        /\ UNCHANGED <<main, cleanups, target, requester, cancelled>>
        /\ present' = present \ {r}
    BY DEF Delete
  <1>2. \A q \in Requests : Last # q
    BY <1>1, ContinualRequestAssumption
  <1>3. TypeOK'
    <2>1. left' \in 0..Len(cleanups')
      BY <1>1 DEF TypeOK, IInv
    <2>2. failed' \in BOOLEAN
      BY DEF Delete, TypeOK, IInv
    <2> QED BY <1>1, <2>1, <2>2 DEF TypeOK, IInv
  <1>4. RequestedIsPresent'
    BY <1>1, <1>2, PopKeepsPairs DEF RequestedIsPresent, IInv
  <1>5. cancelled' \subseteq Asked'
    BY <1>1, AskedByDelete DEF IInv, Registration
  <1>6. Registration'
    BY <1>1, <1>2, <1>5, PopKeepsPairs DEF Registration, Registered, IInv
  <1> QED BY <1>3, <1>4, <1>6 DEF IInv

\* The cleanup of a requester cancels it and waits.
LEMMA CancelKeeps ==
  ASSUME IInv, NEW q \in Requests, Cancel(q)
  PROVE  IInv'
  <1>1. TypeOK'
    BY DEF Cancel, TypeOK, IInv
  <1>2. RequestedIsPresent'
    BY DEF Cancel, RequestedIsPresent, IInv
  <1>3. cancelled' \subseteq Asked'
    BY AskedByCancel DEF Cancel, IInv, Registration
  <1>4. Registration'
    BY <1>3 DEF Cancel, Registration, Registered, Last, IInv
  <1> QED BY <1>1, <1>2, <1>4 DEF IInv

\* Both sides meet on the channel: the requester is idle from here on, and its
\* cleanup is done with.
LEMMA StoppedKeeps ==
  ASSUME IInv, NEW q \in Requests, Stopped(q)
  PROVE  IInv'
  <1>1. /\ main = "blocked" /\ Last = q /\ left' = left - 1 /\ main' = "cleanup"
        /\ requester' = [requester EXCEPT ![q] = "stopped"]
        /\ UNCHANGED <<cleanups, failed, present, target, cancelled>>
    BY DEF Stopped
  <1>2. left > 0
    BY <1>1 DEF IInv, Registration
  <1>3. TypeOK'
    BY <1>1, <1>2 DEF TypeOK, IInv, RequesterStates, Idle
  <1>4. \A p \in Requests : /\ requester'[p] \notin Idle => p # q /\ requester[p] \notin Idle
                            /\ requester'[p] = "none" => requester[p] = "none"
    BY <1>1 DEF IInv, TypeOK, Idle
  <1>5. RequestedIsPresent'
    BY <1>1, <1>4 DEF RequestedIsPresent, IInv
  <1>6. cancelled' \subseteq Asked'
    BY <1>1, AskedByStopped DEF IInv, Registration
  <1>7. Registration'
    BY <1>1, <1>2, <1>4, <1>6, PopKeepsPairs DEF Registration, Registered, IInv
  <1> QED BY <1>3, <1>5, <1>7 DEF IInv

\* A step of a requester within its loop, or out of it: it was started, and
\* the list of cleanups is not its business.
LEMMA RequesterKeeps ==
  ASSUME IInv, NEW q \in Requests,
         Check(q) \/ Done(q) \/ After(q) \/ Respond(q)
  PROVE  IInv'
  <1>1. /\ requester[q] \notin Idle
        /\ \E pc \in RequesterStates \ {"none"} : requester' = [requester EXCEPT ![q] = pc]
        /\ failed' \in {failed, TRUE}
        /\ UNCHANGED <<main, cleanups, left, present, target, cancelled>>
    BY DEF Check, Done, After, Respond, Succeed, NoResponse, BodyError, Go,
           Idle, RequesterStates
  <1>2. \A p \in Requests : /\ requester'[p] \notin Idle => requester[p] \notin Idle
                            /\ requester'[p] = "none" => requester[p] = "none"
    BY <1>1 DEF IInv, TypeOK
  <1>3. TypeOK'
    BY <1>1 DEF IInv, TypeOK
  <1>4. RequestedIsPresent'
    BY <1>1, <1>2 DEF IInv, RequestedIsPresent
  <1>5. Asked' = Asked
    BY <1>1 DEF Asked
  <1>6. Registration'
    BY <1>1, <1>2, <1>5 DEF IInv, Registration, Registered, Last
  <1> QED BY <1>3, <1>4, <1>6 DEF IInv

\* The test function or the whole test comes to an end, or nothing happens.
LEMMA EndKeeps ==
  ASSUME IInv, EndBody \/ EndTest \/ UNCHANGED vars
  PROVE  IInv'
  <1>1. TypeOK'
    BY DEF IInv, TypeOK, EndBody, EndTest, vars
  <1>2. RequestedIsPresent'
    BY DEF IInv, RequestedIsPresent, EndBody, EndTest, vars
  <1>3. Registration'
    <2>1. CASE EndBody
      BY <2>1, AskedByNone DEF IInv, Registration, Registered, Last, EndBody
    <2>2. CASE EndTest
      BY <2>2, AskedByNone DEF IInv, Registration, Registered, Last, EndTest
    <2>3. CASE UNCHANGED vars
      BY <2>3 DEF IInv, Registration, Registered, Asked, Last, vars
    <2> QED BY <2>1, <2>2, <2>3
  <1> QED BY <1>1, <1>2, <1>3 DEF IInv

\* The inductive invariant: the cleanup of every active requester is still to
\* run, above that of what it requests.
THEOREM Invariant == Spec => []IInv
  <1>1. IInv /\ [Next]_vars => IInv'
    <2> SUFFICES ASSUME IInv, [Next]_vars PROVE IInv'
      OBVIOUS
    <2>1. CASE \E r \in Resources : Provision(r) \/ Delete(r)
      BY <2>1, ProvisionKeeps, DeleteKeeps
    <2>2. CASE EndBody \/ EndTest \/ Ended \/ UNCHANGED vars
      BY <2>2, EndKeeps DEF Ended
    <2>3. CASE \E q \in Requests : ContinuallyRequest(q) \/ Cancel(q) \/ Stopped(q)
      BY <2>3, ContinuallyRequestKeeps, CancelKeeps, StoppedKeeps
    <2>4. CASE \E q \in Requests : Check(q) \/ Done(q) \/ After(q) \/ Respond(q)
      BY <2>4, RequesterKeeps
    <2> QED BY <2>1, <2>2, <2>3, <2>4 DEF Next
  <1> QED BY <1>1, InitIInv, PTL DEF Spec

\* Every variable keeps its type.
THEOREM TypesKept == Spec => []TypeOK
  <1>1. IInv => TypeOK
    BY DEF IInv
  <1> QED BY <1>1, Invariant, PTL

\* The cleanups of continuallyRequest, run last in, first out, keep every
\* resource that a requester may still request.
THEOREM NothingRequestedIsDeleted == Spec => []RequestedIsPresent
  <1>1. IInv => RequestedIsPresent
    BY DEF IInv
  <1> QED BY <1>1, Invariant, PTL

\* When the test has ended, every requester it started has left its loop: no
\* goroutine reports to a completed testing.T.
THEOREM NoneOutlives == Spec => []NoRequesterOutlivesTest
  <1>1. IInv => NoRequesterOutlivesTest
    BY DEF IInv, Registration, NoRequesterOutlivesTest
  <1> QED BY <1>1, Invariant, PTL

\* A requester's step, or its cleanup's, begins a watch, asks for its end, gives
\* it up, or makes the test fail.
LEMMA RequesterWatches ==
  ASSUME IInv, NEW q \in Requests,
         \/ Check(q) \/ Done(q) \/ After(q) \/ Respond(q)
         \/ ContinuallyRequest(q) \/ Cancel(q) \/ Stopped(q)
  PROVE  [W!Next]_W!vars
  <1>1. requester \in [Requests -> RequesterStates] /\ failed \in BOOLEAN
    BY DEF IInv, TypeOK
  <1>2. CASE ContinuallyRequest(q)
    <2>1. Watching' = Watching \cup {q} /\ q \notin Watching
      BY <1>1, <1>2 DEF ContinuallyRequest, Watching
    <2>2. Asked' = Asked
      BY <1>2, NoneAskedInBody, AskedByRegister DEF ContinuallyRequest
    <2>3. W!Begin(q)
      BY <1>2, <2>1, <2>2 DEF ContinuallyRequest, W!Begin
    <2> QED BY <2>3 DEF W!Next
  <1>3. CASE Cancel(q)
    <2>1. Watching' = Watching
      BY <1>3 DEF Cancel, Watching
    <2>2. Asked \cap Watching = {}
      BY <1>3, AskedHaveLeft DEF Cancel
    <2>3. W!Ask(q)
      BY <1>3, <2>1, <2>2, AskedByCancel DEF Cancel, W!Ask
    <2> QED BY <2>3 DEF W!Next
  <1>4. CASE Stopped(q)
    <2>1. Watching' = Watching
      BY <1>1, <1>4 DEF Stopped, Watching
    <2> QED BY <1>4, <2>1, AskedByStopped DEF Stopped, W!vars
  <1>5. CASE Check(q) \/ Done(q) \/ After(q) \/ Respond(q)
    <2>1. /\ q \in Watching
          /\ UNCHANGED <<main, cleanups, left>>
          /\ failed' \in {failed, TRUE}
      BY <1>5 DEF Check, Done, After, Respond, Succeed, NoResponse, BodyError, Watching
    <2>2. PICK pc \in RequesterStates :
            /\ requester' = [requester EXCEPT ![q] = pc]
            /\ \/ pc \in {"check", "select", "request"}
               \/ q \in cancelled \/ failed'
      BY <1>5 DEF Check, Done, After, Respond, Succeed, NoResponse, BodyError, Go,
                  Idle, RequesterStates
    <2>3. Asked' = Asked
      BY <2>1 DEF Asked
    <2>4. CASE pc \in {"check", "select", "request"}
      <3>1. Watching' = Watching
        BY <1>1, <2>1, <2>2, <2>4 DEF Watching
      <3>2. CASE failed' = failed
        BY <2>1, <2>3, <3>1, <3>2 DEF W!vars
      <3>3. CASE failed' = TRUE
        BY <2>1, <2>3, <3>1, <3>3 DEF W!Alarm, W!Next
      <3> QED BY <2>1, <3>2, <3>3
    <2>5. CASE pc \notin {"check", "select", "request"}
      <3>1. Watching' = Watching \ {q}
        BY <1>1, <2>2, <2>5 DEF Watching
      <3>2. q \in Asked \/ failed'
        BY <2>2, <2>5 DEF IInv, Registration
      <3>3. W!GiveUp(q)
        BY <2>1, <2>3, <3>1, <3>2 DEF W!GiveUp
      <3> QED BY <3>3 DEF W!Next
    <2> QED BY <2>4, <2>5
  <1> QED BY <1>2, <1>3, <1>4, <1>5

\* A step of the test ends the test function, makes the test fail, or is none
\* of the promise's business.
LEMMA TestWatches ==
  ASSUME IInv,
         \/ \E r \in Resources : Provision(r) \/ Delete(r)
         \/ EndBody \/ EndTest \/ UNCHANGED vars
  PROVE  [W!Next]_W!vars
  <1>1. Watching' = Watching
    BY DEF Watching, Provision, Delete, EndBody, EndTest, vars
  <1>2. ASSUME NEW r \in Resources, Provision(r)
        PROVE  [W!Next]_W!vars
    <2>1. Asked = {} /\ main = "body"
      BY <1>2, NoneAskedInBody DEF Provision
    <2>2. Asked' = {}
      BY <1>2, <2>1, AskedByRegister DEF Provision
    <2>3. CASE main' = "body"
      BY <1>1, <1>2, <2>1, <2>2, <2>3 DEF Provision, W!vars
    <2>4. CASE main' # "body"
      BY <1>1, <1>2, <2>1, <2>2, <2>4 DEF Provision, W!End, W!Next
    <2> QED BY <2>3, <2>4
  <1>3. ASSUME NEW r \in Resources, Delete(r)
        PROVE  [W!Next]_W!vars
    <2>1. Asked' = Asked /\ main = "cleanup" /\ main' = "cleanup"
      BY <1>3, AskedByDelete DEF Delete
    <2>2. CASE failed' = failed
      BY <1>1, <2>1, <2>2 DEF W!vars
    <2>3. CASE failed' = TRUE
      BY <1>1, <2>1, <2>3 DEF W!Alarm, W!Next
    <2> QED BY <1>3, <2>2, <2>3 DEF Delete
  <1>4. CASE EndBody
    <2>1. Asked' = Asked
      BY <1>4, AskedByNone DEF EndBody
    <2>2. W!End
      BY <1>1, <1>4, <2>1 DEF EndBody, W!End
    <2> QED BY <2>2 DEF W!Next
  <1>5. CASE EndTest
    <2>1. Asked' = Asked
      BY <1>5, AskedByNone DEF EndTest
    <2> QED BY <1>1, <1>5, <2>1 DEF EndTest, W!vars
  <1>6. CASE UNCHANGED vars
    <2>1. Asked' = Asked
      BY <1>6 DEF Asked, vars
    <2> QED BY <1>1, <1>6, <2>1 DEF vars, W!vars
  <1> QED BY <1>2, <1>3, <1>4, <1>5, <1>6

\* continuallyRequest, with its goroutines, contexts, channel and cleanups, keeps
\* the promise stated in Watch: in a test that does not fail every requester goes
\* on until its own cleanup asks it to stop.
THEOREM ImplementsWatch == Spec => KeepsWatch
  <1>1. Init => W!Init
    <2> SUFFICES ASSUME Init PROVE W!Init
      OBVIOUS
    <2>1. Watching = {} /\ Asked = {}
      BY DEF Init, Watching, Asked
    <2> QED BY <2>1 DEF Init, W!Init
  <1>2. IInv /\ [Next]_vars => [W!Next]_W!vars
    <2> SUFFICES ASSUME IInv, [Next]_vars PROVE [W!Next]_W!vars
      OBVIOUS
    <2>1. CASE \/ \E r \in Resources : Provision(r) \/ Delete(r)
               \/ EndBody \/ EndTest \/ Ended \/ UNCHANGED vars
      BY <2>1, TestWatches DEF Ended
    <2>2. CASE \E q \in Requests :
                 \/ Check(q) \/ Done(q) \/ After(q) \/ Respond(q)
                 \/ ContinuallyRequest(q) \/ Cancel(q) \/ Stopped(q)
      BY <2>2, RequesterWatches
    <2> QED BY <2>1, <2>2 DEF Next
  <1> QED BY <1>1, <1>2, Invariant, PTL DEF Spec, KeepsWatch, W!Spec

===============================================================================
