--------------------------- MODULE ContinualRequest ---------------------------
(***************************************************************************)
(* continuallyRequest of the migration tests: while a test migrates an     *)
(* application, goroutines keep requesting its URL and fail the test when  *)
(* a request does.  The test function, its cleanups (run last in, first    *)
(* out) and every requester run concurrently; the cleanup that a requester *)
(* registers cancels its context and then blocks on the channel `stopped`  *)
(* until the requester is out of its loop, so that the cleanups registered *)
(* earlier delete nothing that is still being requested.                   *)
(***************************************************************************)
EXTENDS Integers, Sequences

CONSTANTS
  Resources,  \* what the tests create and their cleanups delete
  Requests    \* the calls of continuallyRequest

ASSUME ContinualRequestAssumption == Resources \cap Requests = {}

VARIABLES
  main,       \* the test's goroutine: its function, cleaning up, blocked, ended
  cleanups,   \* what was registered with t.Cleanup, in order
  left,       \* how many of these are still to run
  failed,     \* t.Failed()
  present,    \* the resources that exist
  target,     \* what each requester requests
  requester,  \* where each requester is
  cancelled   \* whose context is cancelled

vars == <<main, cleanups, left, failed, present, target, requester, cancelled>>

\* A requester that is out of its loop for good, or never was in it.
Idle == {"none", "stopped", "dead"}
RequesterStates == Idle \cup {"check", "select", "request", "sending"}

Registered == {cleanups[i] : i \in DOMAIN cleanups}
Last == cleanups[left]

Init ==
  /\ main = "body"
  /\ cleanups = <<>>
  /\ left = 0
  /\ failed = FALSE
  /\ present = {}
  /\ target \in [Requests -> Resources]
  /\ requester = [q \in Requests |-> "none"]
  /\ cancelled = {}

\* Mutant: the cleanup replaces those registered before (as the suite's setup
\* helper does).
RegisterOver(c) ==
  /\ cleanups' = <<c>>
  /\ left' = left + 1

Register(c) ==
  /\ cleanups' = Append(cleanups, c)
  /\ left' = left + 1

------------------------------------------------------------------------------
(***************************************************************************)
(* The test function.                                                      *)
(***************************************************************************)
\* A cleanup is registered and what it deletes is created; where creating it
\* fails, so does the test.
Provision(r) ==
  /\ main = "body"
  /\ r \notin Registered
  /\ Register(r)
  /\ \/ present' = present \cup {r} /\ UNCHANGED <<main, failed>>
     \/ main' = "cleanup" /\ failed' = TRUE /\ UNCHANGED present
  /\ UNCHANGED <<target, requester, cancelled>>

\* Mutant: the goroutine is started but its cleanup is not registered.
ContinuallyRequestOnly(q) ==
  /\ main = "body"
  /\ requester[q] = "none"
  /\ target[q] \in present
  /\ requester' = [requester EXCEPT ![q] = "check"]
  /\ UNCHANGED <<main, cleanups, left, failed, present, target, cancelled>>

ContinuallyRequest(q) ==
  /\ main = "body"
  /\ requester[q] = "none"
  /\ target[q] \in present
  /\ Register(q)
  /\ requester' = [requester EXCEPT ![q] = "check"]
  /\ UNCHANGED <<main, failed, present, target, cancelled>>

\* The test function returns, or fails and is left by Goexit.
EndBody ==
  /\ main = "body"
  /\ main' = "cleanup"
  /\ failed' \in {failed, TRUE}
  /\ UNCHANGED <<cleanups, left, present, target, requester, cancelled>>

------------------------------------------------------------------------------
(***************************************************************************)
(* The cleanups.                                                           *)
(***************************************************************************)
\* A resource is deleted; a failure to do so does not keep the cleanups
\* registered before it from running.
Delete(r) ==
  /\ main = "cleanup" /\ left > 0 /\ Last = r
  /\ left' = left - 1
  /\ present' = present \ {r}
  /\ failed' \in {failed, TRUE}
  /\ UNCHANGED <<main, cleanups, target, requester, cancelled>>

\* Mutant: cancel() without waiting for the requester.
CancelOnly(q) ==
  /\ main = "cleanup" /\ left > 0 /\ Last = q
  /\ cancelled' = cancelled \cup {q}
  /\ left' = left - 1
  /\ UNCHANGED <<main, cleanups, failed, present, target, requester>>

\* Mutant: the requesters share one context.
CancelShared(q) ==
  /\ main = "cleanup" /\ left > 0 /\ Last = q
  /\ cancelled' = Requests
  /\ main' = "blocked"
  /\ UNCHANGED <<cleanups, left, failed, present, target, requester>>

\* cancel(); then the cleanup blocks on <-stopped.
Cancel(q) ==
  /\ main = "cleanup" /\ left > 0 /\ Last = q
  /\ cancelled' = cancelled \cup {q}
  /\ main' = "blocked"
  /\ UNCHANGED <<cleanups, left, failed, present, target, requester>>

\* The channel is not buffered: both sides meet.
Stopped(q) ==
  /\ main = "blocked" /\ Last = q
  /\ requester[q] = "sending"
  /\ requester' = [requester EXCEPT ![q] = "stopped"]
  /\ main' = "cleanup"
  /\ left' = left - 1
  /\ UNCHANGED <<cleanups, failed, present, target, cancelled>>

EndTest ==
  /\ main = "cleanup" /\ left = 0
  /\ main' = "ended"
  /\ UNCHANGED <<cleanups, left, failed, present, target, requester, cancelled>>

------------------------------------------------------------------------------
(***************************************************************************)
(* A requester.                                                            *)
(***************************************************************************)
Go(q, pc) == requester' = [requester EXCEPT ![q] = pc]

\* Mutant: the loop is left with a return, past the send.
CheckAndReturn(q) ==
  /\ requester[q] = "check"
  /\ Go(q, IF failed THEN "stopped" ELSE IF q \in cancelled THEN "sending" ELSE "select")
  /\ UNCHANGED <<main, cleanups, left, failed, present, target, cancelled>>

\* The top of the loop.  If the context is cancelled by the time the select is
\* entered, that is the case it takes: the timer of 500 ms is only starting.
Check(q) ==
  /\ requester[q] = "check"
  /\ Go(q, IF failed \/ q \in cancelled THEN "sending" ELSE "select")
  /\ UNCHANGED <<main, cleanups, left, failed, present, target, cancelled>>

Done(q) ==
  /\ requester[q] = "select" /\ q \in cancelled
  /\ Go(q, "sending")
  /\ UNCHANGED <<main, cleanups, left, failed, present, target, cancelled>>

After(q) ==
  /\ requester[q] = "select"
  /\ Go(q, "request")
  /\ UNCHANGED <<main, cleanups, left, failed, present, target, cancelled>>

\* There is a response, or the request ended with context.Canceled, which the
\* check ignores.
Succeed(q) ==
  /\ requester[q] = "request"
  /\ Go(q, "check")
  /\ UNCHANGED <<main, cleanups, left, failed, present, target, cancelled>>

\* There is no response: the check calls t.Error.  (With the context cancelled,
\* that is what the error says.)
NoResponse(q) ==
  /\ requester[q] = "request" /\ q \notin cancelled
  /\ Go(q, "check")
  /\ failed' = TRUE
  /\ UNCHANGED <<main, cleanups, left, present, target, cancelled>>

\* Reading the body fails, which a cancelled context is one reason for:
\* curl.Request calls t.Fatalf, and Goexit ends the requester where it is.
BodyError(q) ==
  /\ requester[q] = "request"
  /\ Go(q, "dead")
  /\ failed' = TRUE
  /\ UNCHANGED <<main, cleanups, left, present, target, cancelled>>

Respond(q) == Succeed(q) \/ NoResponse(q) \/ BodyError(q)

Ended == main = "ended" /\ UNCHANGED vars

Next ==
  \/ \E r \in Resources : Provision(r) \/ Delete(r)
  \/ EndBody \/ EndTest \/ Ended
  \/ \E q \in Requests :
       \/ ContinuallyRequest(q) \/ Cancel(q) \/ Stopped(q)
       \/ Check(q) \/ Done(q) \/ After(q) \/ Respond(q)

\* The test function comes to an end, the cleanups are run, and Go schedules
\* every goroutine that can run.  A request need not end (the client has no
\* timeout) unless its context is cancelled.
Fairness ==
  /\ WF_vars(EndBody) /\ WF_vars(EndTest)
  /\ \A r \in Resources : WF_vars(Delete(r))
  /\ \A q \in Requests :
       /\ WF_vars(Cancel(q)) /\ WF_vars(Stopped(q))
       /\ WF_vars(Check(q)) /\ WF_vars(Done(q))
       /\ WF_vars(q \in cancelled /\ Respond(q))

Spec == Init /\ [][Next]_vars /\ Fairness

------------------------------------------------------------------------------
\* Types of the state.
TypeOK ==
  /\ main \in {"body", "cleanup", "blocked", "ended"}
  /\ cleanups \in Seq(Resources \cup Requests)
  /\ left \in 0..Len(cleanups)
  /\ failed \in BOOLEAN
  /\ present \subseteq Resources
  /\ target \in [Requests -> Resources]
  /\ requester \in [Requests -> RequesterStates]
  /\ cancelled \subseteq Requests

(***************************************************************************)
(* Nothing is deleted that a requester may still request, whatever order   *)
(* cleanups were registered in and whichever side fails first.             *)
(***************************************************************************)
RequestedIsPresent ==
  \A q \in Requests : requester[q] \notin Idle => target[q] \in present

(***************************************************************************)
(* Once the test has ended no requester touches its testing.T: testing     *)
(* panics when a completed test is failed or logs.                         *)
(***************************************************************************)
NoRequesterOutlivesTest ==
  main = "ended" => \A q \in Requests : requester[q] \in Idle

(***************************************************************************)
(* The test ends, unless a requester was ended by t.Fatalf.                *)
(***************************************************************************)
TestEnds == <>(main = "ended" \/ \E q \in Requests : requester[q] = "dead")

\* The requesters whose cleanup has begun.
Asked ==
  {q \in Requests : \E i \in DOMAIN cleanups :
     cleanups[i] = q /\ (i > left \/ (i = left /\ main = "blocked"))}

Watching == {q \in Requests : requester[q] \in {"check", "select", "request"}}

(***************************************************************************)
(* The promise stated in Watch: in a test that does not fail, a requester  *)
(* goes on until its own cleanup cancels it, whatever the other requesters *)
(* and their cleanups do, and each has left its loop before the next is    *)
(* cancelled.  A test that passes has watched all of its migration.        *)
(***************************************************************************)
W == INSTANCE Watch WITH
  Users    <- Requests,
  busy     <- main = "body",
  watching <- Watching,
  asked    <- Asked,
  alarm    <- failed

KeepsWatch == W!Spec

\* "Once the test is over, this func will clean itself up and wait until in
\* flight requests have finished" (continuallyRequest): the cleanup does end.
CleansItselfUp == <>(main = "ended")

------------------------------------------------------------------------------
\* The inductive invariant: a requester's cleanup is still to run, and above
\* that of what it requests; no other cleanup cancels it.
Registration ==
  /\ \A i, j \in DOMAIN cleanups : cleanups[i] = cleanups[j] => i = j
  /\ \A q \in Requests : requester[q] = "none" => q \notin Registered
  /\ \A q \in Requests : requester[q] \notin Idle =>
       \E i \in 1..left, j \in 1..left :
         j < i /\ cleanups[i] = q /\ cleanups[j] = target[q]
  /\ \A r \in present : r \in Registered
  /\ main = "body" => left = Len(cleanups)
  /\ main = "blocked" => left > 0 /\ Last \in Requests
  /\ main = "ended" => left = 0
  /\ cancelled \subseteq Asked

IInv == TypeOK /\ Registration /\ RequestedIsPresent

==============================================================================
