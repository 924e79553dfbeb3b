----------------------------- MODULE Forwarding -----------------------------
(***************************************************************************)
(* The forwarding sockets of src/src/fwdsock.ts and the streamingMask of   *)
(* ConnectedDevice (src/src/wssk.ts), for one device.                      *)
(*                                                                         *)
(* A viewer is one websocket on /devfwd (frames and logs) or /devlogs      *)
(* (logs).  Its handler checks the token, pings the device, publishes      *)
(* "setfwd" at once and then every five seconds, and subscribes to what    *)
(* the device says.  Publishing runs the handler of the device up to the   *)
(* send, so the mask changes in the step that publishes.  The handlers of  *)
(* the socket's own events are registered last, after two awaits.          *)
(*                                                                         *)
(* Names that Bus has, too, begin with F here: BusProofs is about both.    *)
(***************************************************************************)
EXTENDS Naturals

CONSTANTS
  Viewers,    \* sockets
  DevFwd      \* those on /devfwd; the others are on /devlogs

ASSUME ForwardingAssumption == DevFwd \subseteq Viewers

VARIABLES
  up,         \* is the device connected?
  mask,       \* the bits of streamingMask that setfwd is about
  at,         \* where the handler of each viewer is
  socket,     \* viewers whose socket is open
  closed,     \* viewers whose handler has set closed
  timer,      \* viewers with a timer that will call enableFwd
  listening,  \* viewers with a listener on "from-dev"
  early       \* history: viewers whose socket closed during the two awaits

device == <<up, mask>>
viewer == <<at, socket, closed, timer, listening>>
fvars == <<device, viewer, early>>

Bits == {"jacdac", "dmesg"}

\* What each route passes to setfwd: {forwarding, logging} or {logging}.
Wants(v) == IF v \in DevFwd THEN Bits ELSE {"dmesg"}

Awaiting == {"pinging", "subscribing"}

FTypeOK ==
  /\ up \in BOOLEAN /\ mask \subseteq Bits
  /\ at \in [Viewers -> {"new", "open", "done"} \cup Awaiting]
  /\ socket \subseteq Viewers /\ closed \subseteq Viewers
  /\ timer \subseteq Viewers /\ listening \subseteq Viewers
  /\ early \subseteq Viewers

FInit ==
  /\ up = FALSE /\ mask = {}
  /\ at = [v \in Viewers |-> "new"]
  /\ socket = Viewers
  /\ closed = {} /\ timer = {} /\ listening = {} /\ early = {}

Goto(v, label) == at' = [at EXCEPT ![v] = label]

-----------------------------------------------------------------------------
(* The device. *)

\* A new ConnectedDevice has the default mask.
Connect ==
  /\ ~up /\ up' = TRUE
  /\ mask' = {}
  /\ UNCHANGED <<viewer, early>>

Disconnect ==
  /\ up /\ up' = FALSE
  /\ mask' = {}
  /\ UNCHANGED <<viewer, early>>

\* setfwd with TRUE for the bits on and FALSE for the bits off; the others
\* are undefined and stay.  Without a connection nobody is subscribed.
SetFwd(on, off) == mask' = IF up THEN (mask \cup on) \ off ELSE mask

-----------------------------------------------------------------------------
(* The handler of a viewer. *)

\* Mutant: the subscription is not ended.
CloseItListening(v) ==
  /\ Goto(v, "done")
  /\ SetFwd({}, Bits)
  /\ closed' = closed \cup {v}
  /\ socket' = socket \ {v}
  /\ UNCHANGED listening

\* closeIt: both bits go off, whoever else wants them.  The timer finds out
\* when it fires.
CloseIt(v) ==
  /\ Goto(v, "done")
  /\ listening' = listening \ {v}
  /\ SetFwd({}, Bits)
  /\ closed' = closed \cup {v}
  /\ socket' = socket \ {v}

\* No such device: closeIt throws on the undefined dev, before it sets
\* closed, and the server ends the socket of a handler that was rejected.
NoDevice(v) ==
  /\ at[v] = "new"
  /\ Goto(v, "done")
  /\ socket' = socket \ {v}
  /\ UNCHANGED <<device, closed, timer, listening, early>>

\* "bad proto-key", "token expired", "bad sig": error calls closeIt.
Refuse(v) ==
  /\ at[v] = "new"
  /\ CloseIt(v)
  /\ UNCHANGED <<up, timer, early>>

Accept(v) ==
  /\ at[v] = "new"
  /\ Goto(v, "pinging")
  /\ UNCHANGED <<device, socket, closed, timer, listening, early>>

NotConnected(v) ==
  /\ at[v] = "pinging"
  /\ CloseIt(v)
  /\ UNCHANGED <<up, timer, early>>

\* The ping is answered: enableFwd, and sub adds the listener at once.
Answered(v) ==
  /\ at[v] = "pinging"
  /\ Goto(v, "subscribing")
  /\ SetFwd(Wants(v), {})
  /\ timer' = timer \cup {v}
  /\ listening' = listening \cup {v}
  /\ UNCHANGED <<up, socket, closed, early>>

\* sub resolves; the handlers of message, error and close are registered.
Subscribed(v) ==
  /\ at[v] = "subscribing"
  /\ Goto(v, "open")
  /\ UNCHANGED <<device, socket, closed, timer, listening, early>>

\* Mutant: closed is looked at after publishing.
EnableFwdLate(v) ==
  /\ v \in timer
  /\ SetFwd(Wants(v), {})
  /\ timer' = timer \ (closed \cap {v})
  /\ UNCHANGED <<up, at, socket, closed, listening, early>>

\* Mutant: setTimeout is not called again.
EnableFwdOnce(v) ==
  /\ v \in timer
  /\ timer' = timer \ {v}
  /\ IF v \in closed THEN UNCHANGED mask ELSE SetFwd(Wants(v), {})
  /\ UNCHANGED <<up, at, socket, closed, listening, early>>

\* enableFwd, by the timer.
EnableFwd(v) ==
  /\ v \in timer
  /\ IF v \in closed
     THEN timer' = timer \ {v} /\ UNCHANGED mask
     ELSE SetFwd(Wants(v), {}) /\ UNCHANGED timer
  /\ UNCHANGED <<up, at, socket, closed, listening, early>>

\* The socket fails or is closed by the other side once its handlers are
\* there; or, on /devfwd, a frame is too large.
SocketCloses(v) ==
  /\ at[v] = "open" /\ v \in socket
  /\ CloseIt(v)
  /\ UNCHANGED <<up, timer, early>>

\* The socket goes away earlier: nobody is told.
ClosesEarly(v) ==
  /\ at[v] \in {"new"} \cup Awaiting /\ v \in socket
  /\ socket' = socket \ {v}
  /\ early' = early \cup {v}
  /\ UNCHANGED <<device, at, closed, timer, listening>>

\* The same user opens a socket again.
Opens(v) ==
  /\ at[v] = "done" /\ v \notin timer
  /\ Goto(v, "new")
  /\ socket' = socket \cup {v}
  /\ closed' = closed \ {v}
  /\ early' = early \ {v}
  /\ UNCHANGED <<device, timer, listening>>

FNext ==
  \/ Connect \/ Disconnect
  \/ \E v \in Viewers :
       \/ NoDevice(v) \/ Refuse(v) \/ Accept(v) \/ NotConnected(v) \/ Answered(v)
       \/ Subscribed(v) \/ EnableFwd(v) \/ SocketCloses(v) \/ ClosesEarly(v)
       \/ Opens(v)

FSpec == FInit /\ [][FNext]_fvars

\* Timers fire.
FFairSpec == FSpec /\ \A v \in Viewers : WF_fvars(EnableFwd(v))

-----------------------------------------------------------------------------
(* Properties. *)

\* The device streams only for the sake of a viewer that wants it and whose
\* timer goes on; and that one is still there, unless its socket closed while
\* the handler awaited the ping or the subscription.
StreamsForSomeone ==
  \A b \in mask : \E v \in timer \ closed : b \in Wants(v) /\ v \in socket \cup early

\* Closing a viewer leaves no listener behind, with the same exception.
NoListenerLeft == listening \subseteq socket \cup early

FIInv ==
  /\ FTypeOK /\ StreamsForSomeone /\ NoListenerLeft
  /\ mask # {} => up
  /\ \A v \in Viewers :
       /\ at[v] \in {"new", "pinging"} => v \notin timer \cup closed \cup listening
       /\ at[v] \in {"subscribing", "open"} => v \in timer \ closed
       /\ at[v] # "done" => v \in socket \cup early
       /\ v \in closed => at[v] = "done"
       /\ at[v] = "done" => v \notin listening /\ v \notin timer \ closed

\* A viewer that stays, on a device that stays, sees its streams again and
\* again, whatever the other viewers do: closing any of them turns all
\* streams off, and the timer turns them on.
Streams ==
  \A v \in Viewers :
    <>[](v \in socket /\ at[v] = "open" /\ up) => []<>(Wants(v) \subseteq mask)
=============================================================================
