----------------------------- MODULE ScriptLog -----------------------------
(***************************************************************************)
(* What the script store promises: every script is a log of bodies, to     *)
(* which one body at a time is appended and of which nothing published is  *)
(* ever changed, until the script is deleted.                              *)
(***************************************************************************)
EXTENDS Sequences

CONSTANTS Scripts, Bodies

VARIABLES
  log,       \* the published bodies of each script, version 1 first
  dropped    \* scripts whose deletion has begun

Init == log = [s \in Scripts |-> <<>>] /\ dropped = {}

Publish(s, b) ==
  /\ s \notin dropped
  /\ log' = [log EXCEPT ![s] = Append(@, b)]
  /\ UNCHANGED dropped

Drop(s) ==
  /\ dropped' = dropped \cup {s}
  /\ log' = [log EXCEPT ![s] = <<>>]

Next == \E s \in Scripts : Drop(s) \/ \E b \in Bodies : Publish(s, b)

Spec == Init /\ [][Next]_<<log, dropped>>
=============================================================================
