------------------------------ MODULE Session ------------------------------
(***************************************************************************)
(* One encrypted websocket of a device: wsskInit of src/src/wssk.ts, and   *)
(* connected and closed of its ConnectedDevice.                            *)
(*                                                                         *)
(* Each side counts the messages it sends and those it gets in a nonce of  *)
(* its own; a message is opened only with the nonce it was sealed with, so *)
(* the counts have to stay in step.  The first message of the device       *)
(* proves that it has the key and starts connected(), which subscribes,    *)
(* awaits, and then sets up a timer; closed() tears both down, and may run *)
(* during that await.                                                      *)
(***************************************************************************)
EXTENDS Naturals, Sequences

CONSTANTS
  Bytes,      \* length of a nonce (JD_AES_CCM_NONCE_BYTES)
  Top,        \* greatest value of a byte
  MaxFrames   \* bound: messages sealed by each side

ASSUME SessionAssumption ==
  /\ Bytes \in Nat \ {0} /\ Top \in Nat /\ Top >= 2
  /\ MaxFrames \in Nat

VARIABLES
  hasKey,     \* does the other side have the key of the device?
  socket,     \* is the websocket open?
  closed, gotAuth,
  client, server,     \* the nonces of the gateway: of what it opens and seals
  devSend, devRecv,   \* those of the device
  up, down,           \* messages on the wire, to and from the gateway
  phase,              \* where connected() is
  listeners,          \* listeners of this connection on "to-dev"
  unsub,              \* is this.unsub set?
  timers,             \* intervals that call fastTick
  sealedUp, sealedDown,   \* history: nonces each side has sealed with
  late                \* history: closed() ran while connected() awaited sub

nonces == <<client, server, devSend, devRecv>>
wire == <<up, down, sealedUp, sealedDown>>
connection == <<phase, listeners, unsub, timers>>
vars == <<hasKey, socket, closed, gotAuth, nonces, wire, connection, late>>

Nonces == [1..Bytes -> 0..Top]
\* What the gateway tells apart: a text message, one sealed with another key,
\* and of those it can open: 32 zeros, fewer, and anything else.
Kinds == {"auth", "short", "data", "foreign", "text"}
Frames == [nonce : Nonces, kind : Kinds]

TypeOK ==
  /\ hasKey \in BOOLEAN /\ socket \in BOOLEAN
  /\ closed \in BOOLEAN /\ gotAuth \in BOOLEAN
  /\ client \in Nonces /\ server \in Nonces
  /\ devSend \in Nonces /\ devRecv \in Nonces
  /\ up \in Seq(Frames) /\ down \in Seq(Nonces)
  /\ phase \in {"none", "subscribing", "streaming", "done"}
  /\ listeners \in Nat /\ timers \in Nat /\ unsub \in BOOLEAN
  /\ sealedUp \in Seq(Nonces) /\ sealedDown \in Seq(Nonces)
  /\ late \in BOOLEAN

\* Mutant: without the continue, the carry stops after one byte.
IncNonceOnce(n) ==
  [i \in 1..Bytes |->
     IF i = Bytes \/ (i = Bytes - 1 /\ n[Bytes] = Top)
     THEN (n[i] + 1) % (Top + 1) ELSE n[i]]

\* incNonce: the last byte below Top is incremented, those after it are reset.
IncNonce(n) ==
  LET full == {i \in 1..Bytes : \A j \in i..Bytes : n[j] = Top} IN
  [i \in 1..Bytes |->
     IF i \in full THEN 0
     ELSE IF i = Bytes \/ i + 1 \in full THEN n[i] + 1 ELSE n[i]]

ClientStart == [i \in 1..Bytes |-> IF i = 1 THEN 1 ELSE 0]

\* Mutant: both directions start with the same nonce.
ServerStartSame == ClientStart

ServerStart == [i \in 1..Bytes |-> IF i = 1 THEN 2 ELSE 0]

\* The handler has found the device, registered its handlers and sent the
\* hello and the first sealed message, zeros.
Init ==
  /\ hasKey \in BOOLEAN
  /\ socket = TRUE /\ closed = FALSE /\ gotAuth = FALSE
  /\ client = ClientStart /\ devSend = ClientStart
  /\ server = IncNonce(ServerStart) /\ devRecv = ServerStart
  /\ up = <<>> /\ down = <<ServerStart>>
  /\ phase = "none" /\ listeners = 0 /\ unsub = FALSE /\ timers = 0
  /\ sealedUp = <<>> /\ sealedDown = <<ServerStart>>
  /\ late = FALSE

-----------------------------------------------------------------------------
(* The device. *)

\* A device that has the key seals what it sends; the other one can only
\* send what the gateway cannot open.
DeviceSends(k) ==
  /\ socket /\ Len(sealedUp) < MaxFrames
  /\ k = "foreign" <=> ~hasKey
  /\ up' = Append(up, [nonce |-> devSend, kind |-> k])
  /\ devSend' = IncNonce(devSend)
  /\ sealedUp' = Append(sealedUp, devSend)
  /\ UNCHANGED <<hasKey, socket, closed, gotAuth, client, server, devRecv, down,
                 sealedDown, connection, late>>

SendsText ==
  /\ socket /\ Len(up) < MaxFrames
  /\ up' = Append(up, [nonce |-> devSend, kind |-> "text"])
  /\ UNCHANGED <<hasKey, socket, closed, gotAuth, nonces, down, sealedUp,
                 sealedDown, connection, late>>

DeviceReceives ==
  /\ down # <<>> /\ Head(down) = devRecv
  /\ down' = Tail(down)
  /\ devRecv' = IncNonce(devRecv)
  /\ UNCHANGED <<hasKey, socket, closed, gotAuth, client, server, devSend, up,
                 sealedUp, sealedDown, connection, late>>

-----------------------------------------------------------------------------
(* What the steps of the gateway are made of. *)

\* Mutant: the nonce advances before the message is sealed.
SealAfter ==
  /\ server' = IncNonce(server)
  /\ sealedDown' = Append(sealedDown, server')
  /\ down' = IF socket THEN Append(down, server') ELSE down

\* sendEnc: seals and advances the nonce, and then the send may fail.
Seal ==
  /\ server' = IncNonce(server)
  /\ sealedDown' = Append(sealedDown, server)
  /\ down' = IF socket THEN Append(down, server) ELSE down

\* Mutant: the interval is not cleared.
CdevClosedTicking ==
  /\ listeners' = IF unsub THEN listeners - 1 ELSE listeners
  /\ unsub' = FALSE
  /\ late' = (late \/ phase = "subscribing")
  /\ UNCHANGED <<phase, timers>>

\* ConnectedDevice.closed(): unsub is noop until connected() has set it.
CdevClosed ==
  /\ listeners' = IF unsub THEN listeners - 1 ELSE listeners
  /\ unsub' = FALSE
  /\ timers' = IF timers > 0 THEN timers - 1 ELSE 0
  /\ late' = (late \/ phase = "subscribing")
  /\ UNCHANGED phase

\* closed is set and the socket closed; what is on the wire is lost.
CloseSocket ==
  /\ closed' = TRUE /\ socket' = FALSE
  /\ CdevClosed

-----------------------------------------------------------------------------
(* The handler of "message". *)

Ignored ==
  /\ up # <<>> /\ closed
  /\ up' = Tail(up)
  /\ UNCHANGED <<hasKey, socket, closed, gotAuth, nonces, down, sealedUp,
                 sealedDown, connection, late>>

Arrives(kinds) == up # <<>> /\ ~closed /\ Head(up).kind \in kinds /\ up' = Tail(up)

\* "not binary"
NotBinary ==
  /\ Arrives({"text"})
  /\ CloseSocket
  /\ UNCHANGED <<hasKey, gotAuth, nonces, down, sealedUp, sealedDown>>

\* Mutant: the nonce does not advance in the first message.
OpenedLater ==
  /\ Arrives({"auth", "short", "data"}) /\ Head(up).nonce = client
  /\ client' = IF gotAuth THEN IncNonce(client) ELSE client

\* The message can be opened: it was sealed with the nonce it is opened with.
Opened ==
  /\ Arrives({"auth", "short", "data"}) /\ Head(up).nonce = client
  /\ client' = IncNonce(client)

\* "bad auth": the message cannot be opened.  The nonce has advanced.
BadAuth ==
  /\ Arrives({"auth", "short", "data", "foreign"})
  /\ Head(up).kind = "foreign" \/ Head(up).nonce # client
  /\ client' = IncNonce(client)
  /\ CloseSocket
  /\ UNCHANGED <<hasKey, gotAuth, server, devSend, devRecv, down, sealedUp, sealedDown>>

\* "too short auth", or not zeros.
AuthRefused ==
  /\ Opened /\ ~gotAuth /\ Head(up).kind # "auth"
  /\ CloseSocket
  /\ UNCHANGED <<hasKey, gotAuth, server, devSend, devRecv, down, sealedUp, sealedDown>>

\* connected() runs up to the await of sub, which has added the listener.
Auth ==
  /\ Opened /\ ~gotAuth /\ Head(up).kind = "auth"
  /\ gotAuth' = TRUE
  /\ phase' = "subscribing" /\ listeners' = listeners + 1
  /\ UNCHANGED <<hasKey, socket, closed, server, devSend, devRecv, down, sealedUp,
                 sealedDown, unsub, timers, late>>

\* fromDevice, which may answer (PingCloud).
FromDevice ==
  /\ Opened /\ gotAuth
  /\ \/ UNCHANGED <<server, down, sealedDown>>
     \/ Len(sealedDown) < MaxFrames /\ Seal
  /\ UNCHANGED <<hasKey, socket, closed, gotAuth, devSend, devRecv, sealedUp,
                 connection, late>>

-----------------------------------------------------------------------------
(* connected(), after its awaits, and the rest. *)

\* sub resolves: unsub, the interval, and setStreaming is sent.
Subscribed ==
  /\ phase = "subscribing" /\ Len(sealedDown) < MaxFrames
  /\ unsub' = TRUE /\ timers' = timers + 1
  /\ Seal
  /\ phase' = "streaming"
  /\ UNCHANGED <<hasKey, socket, closed, gotAuth, client, devSend, devRecv, up,
                 sealedUp, listeners, late>>

\* setStreaming, getDevice and syncScript end, or one of them throws.
Connected ==
  /\ phase = "streaming"
  /\ phase' = "done"
  /\ UNCHANGED <<hasKey, socket, closed, gotAuth, nonces, wire, listeners, unsub,
                 timers, late>>

\* toDevice, deployStep: whoever is subscribed sends, on a closed socket too.
Command ==
  /\ listeners > 0 /\ Len(sealedDown) < MaxFrames
  /\ Seal
  /\ UNCHANGED <<hasKey, socket, closed, gotAuth, client, devSend, devRecv, up,
                 sealedUp, connection, late>>

\* The events "error" and "close" of the socket.
SocketCloses ==
  /\ socket /\ ~closed
  /\ CloseSocket
  /\ UNCHANGED <<hasKey, gotAuth, nonces, wire>>

Next ==
  \/ \E k \in Kinds \ {"text"} : DeviceSends(k)
  \/ SendsText \/ DeviceReceives
  \/ Ignored \/ NotBinary \/ BadAuth \/ AuthRefused \/ Auth \/ FromDevice
  \/ Subscribed \/ Connected \/ Command \/ SocketCloses

Spec == Init /\ [][Next]_vars

-----------------------------------------------------------------------------
(* Properties. *)

\* The nonce that follows a message.
After(f) == IF f.kind = "text" THEN f.nonce ELSE IncNonce(f.nonce)

\* As long as the connection is open, from the nonce the gateway opens with to the one the device seals with,
\* one step for each message on the wire.
InStepUp ==
  ~closed =>
    /\ client = IF up = <<>> THEN devSend ELSE up[1].nonce
    /\ \A i \in 1..Len(up) :
         After(up[i]) = IF i = Len(up) THEN devSend ELSE up[i + 1].nonce

\* And in the other direction, while what is sealed is also sent.
InStepDown ==
  socket =>
    /\ devRecv = IF down = <<>> THEN server ELSE down[1]
    /\ \A i \in 1..Len(down) :
         IncNonce(down[i]) = IF i = Len(down) THEN server ELSE down[i + 1]

\* Both sides keep count, whatever is on the wire and however it is dropped:
\* wsskInit's two nonces are those of the device.
InStep == InStepUp /\ InStepDown

\* A message of a device that has the key is never refused as "bad auth".
HonestHeard == [][BadAuth => Head(up).kind = "foreign"]_vars

\* The subscription and the timer end with the connection, unless closed()
\* ran between the call of sub and its return: then both stay for ever.
LeftoversOnlyIfLate == closed /\ (listeners > 0 \/ timers > 0) => late

\* One subscription and one timer, and none for a device without the key.
OneOfEach ==
  /\ timers <= listeners
  /\ listeners <= IF gotAuth /\ hasKey THEN 1 ELSE 0

\* Where connected() is, and what it has set up.
Control ==
  /\ closed <=> ~socket
  /\ phase = "none" <=> ~gotAuth
  /\ phase \in {"none", "subscribing"} => timers = 0 /\ ~unsub
  /\ phase \in {"streaming", "done"} /\ ~closed => unsub
  /\ unsub => listeners = 1
  /\ timers > 0 => unsub
  /\ phase = "subscribing" => listeners = 1 /\ (closed => late)

\* Only a device with the key sends what can be opened.
Keyed == \A i \in 1..Len(up) : up[i].kind \in {"foreign", "text"} \/ hasKey

IInv ==
  /\ TypeOK /\ InStepUp /\ InStepDown /\ LeftoversOnlyIfLate /\ OneOfEach
  /\ Control /\ Keyed

\* No nonce is used twice with the session key, in either direction.
NonceOnce ==
  /\ \A i, j \in 1..Len(sealedUp) : sealedUp[i] = sealedUp[j] => i = j
  /\ \A i, j \in 1..Len(sealedDown) : sealedDown[i] = sealedDown[j] => i = j
  /\ \A i \in 1..Len(sealedUp), j \in 1..Len(sealedDown) : sealedUp[i] # sealedDown[j]

\* What the first bytes of a nonce count, as one number.
Counts(n) ==
  LET counts[i \in 0..Bytes] ==
        IF i = 0 THEN 0 ELSE counts[i - 1] * (Top + 1) + n[i]
  IN  counts

\* The number of the next nonce is one more, or 0 after the greatest.
AddsOne(n) ==
  Counts(IncNonce(n))[Bytes] =
    IF \A i \in 1..Bytes : n[i] = Top THEN 0 ELSE Counts(n)[Bytes] + 1

\* incNonce adds one to the number that a nonce is, through all carries, at every
\* count that the nonces of the gateway can reach; only the greatest wraps around.
CarryIsAddition ==
  \A n \in Nonces : n[1] \in {client[1], server[1]} => AddsOne(n)

\* The order in which IncNonce goes through the nonces.
Before(m, n) ==
  \E i \in 1..Bytes : m[i] < n[i] /\ \A j \in 1..i - 1 : m[j] = n[j]

\* The nonces of one direction, which has a first byte of its own.
Counted(first) == {n \in Nonces : n[1] = first}

\* The invariant behind NonceOnce: a side that will seal with n has sealed, in
\* order, with all nonces of its direction that come before n, or with all.
Spent(sealed, n, first) ==
  LET spent == {sealed[i] : i \in 1..Len(sealed)} IN
  /\ \A i, j \in 1..Len(sealed) : i < j => Before(sealed[i], sealed[j])
  /\ \/ spent = Counted(first)
     \/ n[1] = first /\ spent = {m \in Counted(first) : Before(m, n)}

SpentInv == Spent(sealedUp, devSend, 1) /\ Spent(sealedDown, server, 2)
=============================================================================
