--------------------------------- MODULE Watch ---------------------------------
(***************************************************************************)
(* What continuallyRequest promises the test that calls it: a watcher,     *)
(* once begun, goes on until the test is over and the watcher is asked to  *)
(* stop, and each is waited for before the next one is asked.  One that    *)
(* stops earlier does so in a test that fails, so nothing that a test has  *)
(* watched goes unwatched in a test that passes.  Contexts, channels and   *)
(* cleanups are not mentioned.                                             *)
(***************************************************************************)
CONSTANT Users

VARIABLES
  busy,      \* the test function is in progress
  watching,  \* the users that watch
  asked,     \* those that were asked to stop
  alarm      \* the test has failed

vars == <<busy, watching, asked, alarm>>

Init ==
  /\ busy = TRUE
  /\ watching = {}
  /\ asked = {}
  /\ alarm = FALSE

Begin(u) ==
  /\ busy
  /\ u \notin watching
  /\ watching' = watching \cup {u}
  /\ UNCHANGED <<busy, asked, alarm>>

End ==
  /\ busy
  /\ busy' = FALSE
  /\ alarm' \in {alarm, TRUE}
  /\ UNCHANGED <<watching, asked>>

Ask(u) ==
  /\ ~busy
  /\ asked \cap watching = {}
  /\ asked' = asked \cup {u}
  /\ UNCHANGED <<busy, watching, alarm>>

GiveUp(u) ==
  /\ u \in watching
  /\ watching' = watching \ {u}
  /\ alarm' \in {alarm, TRUE}
  /\ u \in asked \/ alarm'
  /\ UNCHANGED <<busy, asked>>

Alarm ==
  /\ alarm' = TRUE
  /\ UNCHANGED <<busy, watching, asked>>

Next ==
  \/ \E u \in Users : Begin(u) \/ Ask(u) \/ GiveUp(u)
  \/ End \/ Alarm

Spec == Init /\ [][Next]_vars
================================================================================
