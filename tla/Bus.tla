-------------------------------- MODULE Bus --------------------------------
(***************************************************************************)
(* The message bus (sub, pub and until of src/src/mq.ts over the external  *)
(* mqemitter) and pingDevice of src/src/devutil.ts, for one device.        *)
(*                                                                         *)
(* Two topics: "to-dev", to which every connection of the device           *)
(* subscribes, and "from-dev", on which a ping waits for a pong.  emit     *)
(* calls every listener of the topic at once, and pub resolves when all of *)
(* them have called done.  A listener made by sub calls done when the      *)
(* promise of its handler is fulfilled, and never when it is rejected.     *)
(***************************************************************************)
EXTENDS Naturals, FiniteSets

CONSTANTS
  Callers,   \* requests that publish: pings, and updates of the row
  Conns,     \* connections of the device that may be subscribed
  MaxPings   \* bound: pings a connection has not answered

ASSUME BusAssumption == MaxPings \in Nat

VARIABLES
  subs,      \* connections subscribed to "to-dev"
  broken,    \* connections whose socket refuses what is sent
  pings,     \* pings each connection has on the wire
  pc,        \* where each caller is
  kind,      \* what it publishes
  target,    \* connections its publication was emitted to
  handled,   \* those that have called done
  doomed,    \* those whose socket was already broken
  refused,   \* those whose handler was rejected: they never call done
  waiters,   \* listeners of until on "from-dev"
  result,    \* what pingDevice returned: "pong" a duration, "lost" -1
  heard      \* history: where the caller was when pongs came in

conns == <<subs, broken, pings>>
publication == <<kind, target, handled, doomed, refused>>
vars == <<conns, pc, publication, waiters, result, heard>>

Kinds == {"ping", "update"}
PCs == {"idle", "publishing", "waiting", "answered"}

TypeOK ==
  /\ subs \subseteq Conns /\ broken \subseteq Conns
  /\ pings \in [Conns -> 0..MaxPings]
  /\ pc \in [Callers -> PCs]
  /\ kind \in [Callers -> Kinds]
  /\ target \in [Callers -> SUBSET Conns]
  /\ handled \in [Callers -> SUBSET Conns]
  /\ doomed \in [Callers -> SUBSET Conns]
  /\ refused \in [Callers -> SUBSET Conns]
  /\ waiters \subseteq Callers
  /\ result \in [Callers -> {"none", "pong", "lost"}]
  /\ heard \in [Callers -> SUBSET {"publishing", "waiting"}]

Init ==
  /\ subs = {} /\ broken = {} /\ waiters = {}
  /\ pings = [c \in Conns |-> 0]
  /\ pc = [p \in Callers |-> "idle"]
  /\ kind = [p \in Callers |-> "ping"]
  /\ target = [p \in Callers |-> {}]
  /\ handled = [p \in Callers |-> {}]
  /\ doomed = [p \in Callers |-> {}]
  /\ refused = [p \in Callers |-> {}]
  /\ result = [p \in Callers |-> "none"]
  /\ heard = [p \in Callers |-> {}]

-----------------------------------------------------------------------------
(* Connections come and go. *)

Subscribe(c) ==
  /\ c \notin subs
  /\ subs' = subs \cup {c}
  /\ broken' = broken \ {c}
  /\ UNCHANGED <<pings, pc, publication, waiters, result, heard>>

\* The socket is closing, or gone: sending fails before closed() has run.
Break(c) ==
  /\ c \in subs \ broken
  /\ broken' = broken \cup {c}
  /\ pings' = [pings EXCEPT ![c] = 0]
  /\ UNCHANGED <<subs, pc, publication, waiters, result, heard>>

\* closed(): removeListener.  What is being published goes on.
Unsubscribe(c) ==
  /\ c \in subs \cap broken
  /\ subs' = subs \ {c}
  /\ UNCHANGED <<broken, pings, pc, publication, waiters, result, heard>>

-----------------------------------------------------------------------------
(* pub: emit, and the handlers of sub. *)

\* The handlers of all connections run up to their first await, the send.
Publish(p, k) ==
  /\ pc[p] \in {"idle", "answered"}
  /\ k = "ping" => \A c \in subs : pings[c] < MaxPings
  /\ pc' = [pc EXCEPT ![p] = "publishing"]
  /\ kind' = [kind EXCEPT ![p] = k]
  /\ target' = [target EXCEPT ![p] = subs]
  /\ doomed' = [doomed EXCEPT ![p] = subs \cap broken]
  /\ handled' = [handled EXCEPT ![p] = {}]
  /\ refused' = [refused EXCEPT ![p] = {}]
  /\ result' = [result EXCEPT ![p] = "none"]
  /\ heard' = [heard EXCEPT ![p] = {}]
  /\ pings' = [c \in Conns |->
                 IF k = "ping" /\ c \in subs \ broken
                 THEN pings[c] + 1 ELSE pings[c]]
  /\ UNCHANGED <<subs, broken, waiters>>

\* Called back by no handler yet.
Pending(p) == target[p] \ (handled[p] \cup refused[p])

\* The message has been sent: the handler is fulfilled and done is called.
Handled(p, c) ==
  /\ pc[p] = "publishing" /\ c \in Pending(p) \ doomed[p]
  /\ handled' = [handled EXCEPT ![p] = @ \cup {c}]
  /\ UNCHANGED <<conns, pc, kind, target, doomed, refused, waiters, result, heard>>

\* Mutant: done is called for a rejected handler, too.
RejectedDone(p, c) ==
  /\ pc[p] = "publishing" /\ c \in Pending(p) \cap (doomed[p] \cup broken)
  /\ target' = [target EXCEPT ![p] = @ \ {c}]
  /\ refused' = [refused EXCEPT ![p] = @ \cup {c}]
  /\ UNCHANGED <<conns, pc, kind, handled, doomed, waiters, result, heard>>

\* The send failed: errorHandler is called, done is not.
Rejected(p, c) ==
  /\ pc[p] = "publishing" /\ c \in Pending(p) \cap (doomed[p] \cup broken)
  /\ refused' = [refused EXCEPT ![p] = @ \cup {c}]
  /\ UNCHANGED <<conns, pc, kind, target, handled, doomed, waiters, result, heard>>

\* Everybody is done: pub resolves, and a ping calls until.
Published(p) ==
  /\ pc[p] = "publishing" /\ handled[p] = target[p]
  /\ IF kind[p] = "ping"
     THEN /\ pc' = [pc EXCEPT ![p] = "waiting"]
          /\ waiters' = waiters \cup {p}
     ELSE /\ pc' = [pc EXCEPT ![p] = "answered"]
          /\ UNCHANGED waiters
  /\ UNCHANGED <<conns, publication, result, heard>>

-----------------------------------------------------------------------------
(* until, and the pongs published by fromDevice. *)

\* What a pong does to the callers: those waiting get it, those that are
\* still publishing miss it.
Overheard ==
  heard' = [p \in Callers |->
              IF pc[p] \in {"publishing", "waiting"}
              THEN heard[p] \cup {pc[p]} ELSE heard[p]]

\* Mutant: the pong goes to one of the waiting pings.
PongOne(c) ==
  /\ c \in subs \ broken /\ pings[c] > 0
  /\ pings' = [pings EXCEPT ![c] = @ - 1]
  /\ \E got \in SUBSET waiters :
       /\ Cardinality(got) <= 1 /\ (waiters # {} => got # {})
       /\ pc' = [p \in Callers |-> IF p \in got THEN "answered" ELSE pc[p]]
       /\ result' = [p \in Callers |-> IF p \in got THEN "pong" ELSE result[p]]
       /\ waiters' = waiters \ got
  /\ Overheard
  /\ UNCHANGED <<subs, broken, publication>>

\* A pong answers every ping that waits: it names none.
Pong(c) ==
  /\ c \in subs \ broken /\ pings[c] > 0
  /\ pings' = [pings EXCEPT ![c] = @ - 1]
  /\ pc' = [p \in Callers |-> IF p \in waiters THEN "answered" ELSE pc[p]]
  /\ result' = [p \in Callers |-> IF p \in waiters THEN "pong" ELSE result[p]]
  /\ waiters' = {}
  /\ Overheard
  /\ UNCHANGED <<subs, broken, publication>>

\* Mutant: the timer is set only if something was sent.
TimeoutSent(p) ==
  /\ pc[p] = "waiting" /\ target[p] # {}
  /\ result' = [result EXCEPT ![p] = "lost"]
  /\ pc' = [pc EXCEPT ![p] = "answered"]
  /\ waiters' = waiters \ {p}
  /\ UNCHANGED <<conns, publication, heard>>

\* 408 after timeoutMS, which pingDevice turns into -1.
Timeout(p) ==
  /\ pc[p] = "waiting"
  /\ result' = [result EXCEPT ![p] = "lost"]
  /\ pc' = [pc EXCEPT ![p] = "answered"]
  /\ waiters' = waiters \ {p}
  /\ UNCHANGED <<conns, publication, heard>>

Next ==
  \/ \E c \in Conns : Subscribe(c) \/ Break(c) \/ Unsubscribe(c) \/ Pong(c)
  \/ \E p \in Callers :
       \/ \E k \in Kinds : Publish(p, k)
       \/ \E c \in Conns : Handled(p, c) \/ Rejected(p, c)
       \/ Published(p) \/ Timeout(p)

Spec == Init /\ [][Next]_vars

\* Writes to a socket end one way or the other, callbacks run, timers fire.
Fairness ==
  \A p \in Callers :
    /\ \A c \in Conns : WF_vars(Handled(p, c) \/ Rejected(p, c))
    /\ WF_vars(Published(p)) /\ WF_vars(Timeout(p))

FairSpec == Spec /\ Fairness

-----------------------------------------------------------------------------
(* Properties. *)

\* An update that is answered has been handled by every connection that was
\* subscribed when it was emitted, and none of them failed to pass it on.
Reached ==
  \A p \in Callers : pc[p] \in {"waiting", "answered"} =>
    handled[p] = target[p] /\ refused[p] = {}

\* until leaves no listener behind, whichever way it ends.
NoStaleWaiter == waiters = {p \in Callers : pc[p] = "waiting"}

\* -1 is returned only if no pong came between the call of until and its
\* timeout, however many pings wait on the same topic.
LostUnheard == \A p \in Callers : result[p] = "lost" => "waiting" \notin heard[p]

IInv ==
  /\ TypeOK /\ Reached /\ NoStaleWaiter /\ LostUnheard
  /\ \A p \in Callers :
       /\ pc[p] = "publishing" =>
            handled[p] \subseteq target[p] \ refused[p] /\ refused[p] \subseteq target[p]
       /\ pc[p] # "answered" => "waiting" \notin heard[p] /\ result[p] = "none"

\* A call ends, unless a handler was rejected.
CallEnds ==
  \A p \in Callers :
    pc[p] = "publishing" ~> pc[p] = "answered" \/ refused[p] # {}
=============================================================================
