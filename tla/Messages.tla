------------------------------ MODULE Messages ------------------------------
(***************************************************************************)
(* The messages of one device: what it sends and who is told (fromDevice   *)
(* of wssk.ts, messages.ts and the sinks of env.ts, mqtt.ts and azure/),   *)
(* and what is sent to it (sendJSON and sendBinary of apidevices.ts, the   *)
(* message handler of mqtt.ts, sendPayload of wssk.ts).                    *)
(*                                                                         *)
(* pubToDevice runs the handlers of the connections up to their send, so   *)
(* that what is published is on the wire in the same step; what becomes of *)
(* a publication that fails, or of a socket that takes nothing, is in Bus. *)
(* The viewers, who are notified next to the sinks, are in Forwarding.     *)
(***************************************************************************)
EXTENDS Naturals, FiniteSets, Functions

CONSTANTS
  Uplinks,         \* what the device may send
  Downlinks,       \* what may be sent to it: by the API, through MQTT, and its pings answered
  Conns,           \* its connections
  Sinks,           \* those registered, of "env", "telemetry", "mqtt", "hub", "queue"
  Fields,          \* of an environment
  FieldSize,       \* what each takes in JSON
  MAX_WSSK_SIZE,   \* 230
  MaxPatches       \* bound: environments assigned

AllSinks == {"env", "telemetry", "mqtt", "hub", "queue"}

ASSUME MessagesAssumption ==
  /\ Sinks \subseteq AllSinks
  /\ FieldSize \in [Fields -> Nat]
  /\ MAX_WSSK_SIZE \in Nat /\ MaxPatches \in Nat

VARIABLES
  row,        \* envJSON of the row
  patches,    \* environments assigned so far
  phase,      \* of each connection: "closed", "hello" before it is authenticated, "open"
  dev,        \* envJSON of the row as it was read for hello
  outdated,   \* history: connections with a row from before the last PATCH
  up,         \* the sinks of each message of the device: told, awaited, failed
  answer,     \* history: what a message of topic "env" was answered, and is due by the row
  down,       \* where each message to the device is
  to,         \* the connections it was published to
  sent,       \* what each connection has sent
  process     \* "up" or "ended"

device == <<row, patches>>
sessions == <<phase, dev, outdated>>
uplink == <<up, answer>>
downlink == <<down, to>>
vars == <<device, sessions, uplink, downlink, sent, process>>

\* The number of the PATCH that gave a field its value, 0 if it has none.
Envs == [Fields -> 0..MaxPatches]
NoEnv == [f \in Fields |-> 0]
Set(env) == {f \in Fields : env[f] # 0}

Kinds == {"json", "logs", "binary"}
Topics == {"env", "tev", "other"}

Idle == [told |-> {}, waiting |-> {}, failed |-> {}]
Handling == [told : SUBSET AllSinks, waiting : SUBSET AllSinks, failed : SUBSET AllSinks]

Sizes == 0..MAX_WSSK_SIZE + 1
Down == [pc : {"none", "lookup", "published", "answered", "refused", "ignored", "rejected"},
         topic : {0, 1}, size : Sizes]
NoDown == [pc |-> "none", topic |-> 0, size |-> 0]

TypeOK ==
  /\ row \in Envs /\ patches \in 0..MaxPatches
  /\ phase \in [Conns -> {"closed", "hello", "open"}] /\ outdated \subseteq Conns
  /\ dev \in [Conns -> Envs]
  /\ up \in [Uplinks -> Handling]
  /\ \A m \in Uplinks : up[m].waiting \cap (up[m].told \cup up[m].failed) = {}
  /\ answer \in [Uplinks -> [env : Envs, due : Envs, outdated : BOOLEAN]]
  /\ down \in [Downlinks -> Down]
  /\ to \in [Downlinks -> SUBSET Conns]
  /\ sent \in [Conns -> SUBSET (Uplinks \cup Downlinks)]
  /\ process \in {"up", "ended"}

Init ==
  /\ row = NoEnv /\ patches = 0
  /\ phase = [c \in Conns |-> "closed"] /\ outdated = {}
  /\ dev = [c \in Conns |-> NoEnv]
  /\ up = [m \in Uplinks |-> Idle]
  /\ answer = [m \in Uplinks |-> [env |-> NoEnv, due |-> NoEnv, outdated |-> FALSE]]
  /\ down = [d \in Downlinks |-> NoDown]
  /\ to = [d \in Downlinks |-> {}]
  /\ sent = [c \in Conns |-> {}]
  /\ process = "up"

-----------------------------------------------------------------------------
(* The row and the connections. *)

open == {c \in Conns : phase[c] = "open"}

\* PATCH with an environment; the "update" it publishes is about scripts.
PatchEnv(fields) ==
  /\ process = "up" /\ patches < MaxPatches
  /\ patches' = patches + 1
  /\ row' = [f \in Fields |-> IF f \in fields THEN patches + 1 ELSE 0]
  /\ outdated' = {c \in Conns : phase[c] # "closed"}
  /\ UNCHANGED <<phase, dev, uplink, downlink, sent, process>>

\* Mutant: a connection takes over the row that another one was made with.
HelloCached(c) ==
  /\ process = "up" /\ phase[c] = "closed"
  /\ phase' = [phase EXCEPT ![c] = "hello"]
  /\ dev' = [dev EXCEPT ![c] =
               IF open = {} THEN row ELSE dev[CHOOSE e \in open : TRUE]]
  /\ outdated' = outdated \ {c}
  /\ UNCHANGED <<device, uplink, downlink, sent, process>>

\* getDeviceFromFullPath; the ConnectedDevice keeps the row it is made with.
Hello(c) ==
  /\ process = "up" /\ phase[c] = "closed"
  /\ phase' = [phase EXCEPT ![c] = "hello"]
  /\ dev' = [dev EXCEPT ![c] = row]
  /\ outdated' = outdated \ {c}
  /\ UNCHANGED <<device, uplink, downlink, sent, process>>

\* connected: subToDevice adds the listener at once.
Authenticated(c) ==
  /\ phase[c] = "hello"
  /\ phase' = [phase EXCEPT ![c] = "open"]
  /\ UNCHANGED <<device, dev, outdated, uplink, downlink, sent, process>>

Close(c) ==
  /\ phase[c] # "closed"
  /\ phase' = [phase EXCEPT ![c] = "closed"]
  /\ dev' = [dev EXCEPT ![c] = NoEnv]
  /\ outdated' = outdated \ {c}
  /\ UNCHANGED <<device, uplink, downlink, sent, process>>

-----------------------------------------------------------------------------
(* To the device. *)

\* The JSON text of an environment, and what a text is with its topic.
JsonSize(env) == 1 + FoldFunctionOnSet(+, 0, FieldSize, Set(env))
Payload(topic, size) == topic + 1 + size

\* Mutant: one byte less is allowed.
CarriedLess(topic, size) == Payload(topic, size) < MAX_WSSK_SIZE

\* sendPayload drops the others, with a warning.
Carried(topic, size) == Payload(topic, size) <= MAX_WSSK_SIZE

\* pubToDevice and toDevice.
Published(m, topic, size) ==
  sent' = [c \in Conns |->
             IF c \in open /\ Carried(topic, size) THEN sent[c] \cup {m} ELSE sent[c]]

NotPublished == UNCHANGED sent

\* POST .../json and .../binary: 400 for a message without topic or bytes.
Invalid(d) ==
  /\ process = "up" /\ down[d].pc = "none"
  /\ down' = [down EXCEPT ![d].pc = "refused"]
  /\ NotPublished /\ UNCHANGED <<device, sessions, uplink, to, process>>

\* sendJSON and sendBinary: 413, or published.
SendTooBig(d, size) ==
  /\ process = "up" /\ down[d].pc = "none" /\ size > MAX_WSSK_SIZE
  /\ down' = [down EXCEPT ![d].pc = "refused", ![d].size = size]
  /\ NotPublished /\ UNCHANGED <<device, sessions, uplink, to, process>>

Send(d, topic, size) ==
  /\ process = "up" /\ down[d].pc = "none" /\ size <= MAX_WSSK_SIZE
  /\ down' = [down EXCEPT ![d] =
                [pc |-> "published", topic |-> topic, size |-> size]]
  /\ to' = [to EXCEPT ![d] = open]
  /\ Published(d, topic, size)
  /\ UNCHANGED <<device, sessions, uplink, process>>

\* The API answers {}, whether somebody was subscribed or not.
Answer(d) ==
  /\ process = "up" /\ down[d].pc = "published"
  /\ down' = [down EXCEPT ![d].pc = "answered"]
  /\ UNCHANGED <<device, sessions, uplink, to, sent, process>>

\* A message of the broker: its topic, and then getDevice, which is awaited.
MqttArrives(d, topic, size) ==
  /\ process = "up" /\ down[d].pc = "none"
  /\ down' = [down EXCEPT ![d] =
                [pc |-> "lookup", topic |-> topic, size |-> size]]
  /\ UNCHANGED <<device, sessions, uplink, to, sent, process>>

\* Another topic, or a device that has no row.
MqttUnknown(d) ==
  /\ process = "up" /\ down[d].pc = "lookup"
  /\ down' = [down EXCEPT ![d].pc = "ignored"]
  /\ UNCHANGED <<device, sessions, uplink, to, sent, process>>

MqttSend(d) ==
  /\ process = "up" /\ down[d].pc = "lookup" /\ down[d].size <= MAX_WSSK_SIZE
  /\ down' = [down EXCEPT ![d].pc = "published"]
  /\ to' = [to EXCEPT ![d] = open]
  /\ Published(d, down[d].topic, down[d].size)
  /\ UNCHANGED <<device, sessions, uplink, process>>

\* Nobody waits for the promise of that handler: when getDevice fails, the
\* message is no JSON or it is too big, Node ends the process.
Ended ==
  /\ process' = "ended"
  /\ phase' = [c \in Conns |-> "closed"]
  /\ dev' = [c \in Conns |-> NoEnv]
  /\ outdated' = {}
  /\ up' = [m \in Uplinks |-> [up[m] EXCEPT !.waiting = {}, !.failed = @ \cup up[m].waiting]]
  /\ UNCHANGED <<device, answer, to, sent>>

\* All other requests end with the process.
Unheard(d) ==
  /\ down' = [e \in Downlinks |->
                IF e = d THEN [down[e] EXCEPT !.pc = "rejected"]
                ELSE IF down[e].pc \in {"lookup", "published"}
                THEN [down[e] EXCEPT !.pc = "ignored"]
                ELSE down[e]]
  /\ Ended

MqttRejected(d) ==
  /\ process = "up" /\ down[d].pc = "lookup"
  /\ Unheard(d)

\* The answer to a PingCloud is not waited for either, and the socket refuses
\* it.  One that is sent changes nothing here.
PingRefused(d) ==
  /\ process = "up" /\ open # {} /\ down[d].pc = "none"
  /\ Unheard(d)

Restart ==
  /\ process = "ended"
  /\ process' = "up"
  /\ UNCHANGED <<device, sessions, uplink, downlink, sent>>

-----------------------------------------------------------------------------
(* From the device. *)

TopicName(sink) ==
  CASE sink = "env" -> "env" [] sink = "telemetry" -> "tev" [] OTHER -> "*"

\* ingestMessage: the sinks of the topic, and those of "*" if it has none.
\* It returns at once for null, 0, false and "".
Interested(topic, falsy) ==
  LET named == {s \in Sinks : TopicName(s) = topic} IN
  IF falsy THEN {}
  ELSE IF named # {} THEN named
  ELSE {s \in Sinks : TopicName(s) = "*"}

\* Those of a message; ingestLogs has one sink.
SinksOf(kind, topic, falsy) ==
  CASE kind = "json" -> Interested(topic, falsy)
    [] kind = "logs" -> Sinks \cap {"telemetry"}
    [] kind = "binary" -> {}

\* Told, or failed, when the call returns: the clients of the broker and of
\* the telemetry keep what they are given.
Sync == {"telemetry", "mqtt", "env"}

\* All sinks are async functions: Promise.all starts every one of them.
Started(m, sinks, refused) ==
  up' = [up EXCEPT ![m] = [told |-> (sinks \cap Sync) \ refused,
                           waiting |-> sinks \ Sync,
                           failed |-> sinks \cap refused]]

\* A message that is not for "env"; invalid JSON is a warning, and nothing
\* else.  The sink of mqtt.ts returns when its client is not connected.
FromDevice(m, kind, topic, falsy) ==
  LET sinks == SinksOf(kind, topic, falsy) IN
  /\ open # {} /\ up[m] = Idle /\ "env" \notin sinks
  /\ \E offline \in {{}, {"mqtt"}} : Started(m, sinks, offline)
  /\ NotPublished /\ UNCHANGED <<device, sessions, answer, downlink, process>>

\* What the device asked for of the environment; everything if it names nothing.
Asked(env, fields) ==
  [f \in Fields |-> IF fields = {} \/ f \in fields THEN env[f] ELSE 0]

\* The sink of env.ts runs up to its publication: 413 if the answer is too big.
EnvAsked(m, c, fields) ==
  LET env == Asked(dev[c], fields) IN
  /\ up[m] = Idle /\ c \in open /\ "env" \in Sinks
  /\ answer' = [answer EXCEPT ![m] =
                  [env |-> env, due |-> Asked(row, fields), outdated |-> c \in outdated]]
  /\ IF JsonSize(env) > MAX_WSSK_SIZE
     THEN Started(m, {"env"}, {"env"}) /\ NotPublished
     ELSE Started(m, {"env"}, {}) /\ Published(m, 1, JsonSize(env))
  /\ UNCHANGED <<device, sessions, downlink, process>>

\* Mutant: the sink is still to be told.
SinkToldStill(m, s) ==
  /\ s \in up[m].waiting
  /\ up' = [up EXCEPT ![m].told = @ \cup {s}]
  /\ UNCHANGED <<device, sessions, answer, downlink, sent, process>>

SinkTold(m, s) ==
  /\ s \in up[m].waiting
  /\ up' = [up EXCEPT ![m].waiting = @ \ {s}, ![m].told = @ \cup {s}]
  /\ UNCHANGED <<device, sessions, answer, downlink, sent, process>>

\* A service that refuses, or a batch that is full; runInBg reports it.
SinkFails(m, s) ==
  /\ s \in up[m].waiting
  /\ up' = [up EXCEPT ![m].waiting = @ \ {s}, ![m].failed = @ \cup {s}]
  /\ UNCHANGED <<device, sessions, answer, downlink, sent, process>>

-----------------------------------------------------------------------------
Next ==
  \/ \E fields \in SUBSET Fields : PatchEnv(fields)
  \/ \E c \in Conns : Hello(c) \/ Authenticated(c) \/ Close(c)
  \/ \E d \in Downlinks :
       \/ Invalid(d) \/ Answer(d) \/ MqttUnknown(d) \/ MqttSend(d) \/ MqttRejected(d)
       \/ PingRefused(d)
       \/ \E size \in Sizes :
            \/ SendTooBig(d, size)
            \/ \E topic \in {0, 1} : Send(d, topic, size) \/ MqttArrives(d, topic, size)
  \/ Restart
  \/ \E m \in Uplinks :
       \/ \E kind \in Kinds, topic \in Topics, falsy \in BOOLEAN :
            FromDevice(m, kind, topic, falsy)
       \/ \E c \in Conns, fields \in SUBSET Fields : EnvAsked(m, c, fields)
       \/ \E s \in Sinks : SinkTold(m, s) \/ SinkFails(m, s)

Spec == Init /\ [][Next]_vars

-----------------------------------------------------------------------------
(* Properties. *)

\* A device is answered with the environment of its row, unless a PATCH came
\* after the row was read for its connection (the sink of env.ts).
CurrentUnlessPatched ==
  \A m \in Uplinks : answer[m].outdated \/ answer[m].env = answer[m].due

\* What the API or the broker got accepted is dropped by a connection it was
\* published to only if its bytes fit and fit no more with the topic (sendJSON
\* and sendPayload); sockets that are broken are not looked at here.
LostOnlyInBetween ==
  \A d \in Downlinks : \A c \in to[d] :
    d \in sent[c] \/ (down[d].size <= MAX_WSSK_SIZE
                      /\ Payload(down[d].topic, down[d].size) > MAX_WSSK_SIZE)

\* A connection that is not outdated has the row; a message that nobody has
\* published yet has gone to no connection.
Sessions == \A c \in Conns : phase[c] = "closed" \/ c \in outdated \/ dev[c] = row
Unpublished == \A d \in Downlinks : down[d].pc \in {"none", "lookup"} => to[d] = {}

\* The inductive invariant behind the properties above.
IInv ==
  /\ TypeOK /\ CurrentUnlessPatched /\ LostOnlyInBetween
  /\ Sessions /\ Unpublished
=============================================================================
