--------------------------- MODULE MessagesProofs ---------------------------
(* Proofs about Messages, for any number of messages, connections and       *)
(* fields, and any limit.                                                   *)
EXTENDS Messages, TLAPS

LEMMA InitInv == Init => IInv
<1> SUFFICES ASSUME Init PROVE IInv
  OBVIOUS
<1>1. NoEnv \in Envs /\ NoDown \in Down /\ Idle \in Handling
  BY MessagesAssumption DEF NoEnv, Envs, NoDown, Down, Sizes, Idle, Handling
<1>2. TypeOK
  BY <1>1, MessagesAssumption DEF Init, TypeOK, Idle
<1> QED
  BY <1>2 DEF Init, IInv, CurrentUnlessPatched, LostOnlyInBetween,
     Sessions, Unpublished, NoDown

-----------------------------------------------------------------------------
(* The row and the connections. *)

LEMMA PatchStep ==
  ASSUME IInv, NEW fields \in SUBSET Fields, PatchEnv(fields)
  PROVE  IInv'
<1>1. patches' \in 0..MaxPatches /\ row' \in Envs
  BY MessagesAssumption DEF PatchEnv, IInv, TypeOK, Envs
<1>2. TypeOK'
  BY <1>1 DEF PatchEnv, uplink, downlink, IInv, TypeOK
<1>3. Sessions'
  BY DEF PatchEnv, IInv, Sessions
<1>4. UNCHANGED <<uplink, downlink, sent, process>>
  BY DEF PatchEnv
<1> QED
  BY <1>2, <1>3, <1>4
  DEF uplink, downlink, IInv, CurrentUnlessPatched, LostOnlyInBetween, Unpublished

LEMMA ConnectionStep ==
  ASSUME IInv, NEW c \in Conns, Hello(c) \/ Authenticated(c) \/ Close(c)
  PROVE  IInv'
<1>1. NoEnv \in Envs
  BY MessagesAssumption DEF NoEnv, Envs
<1>2. TypeOK'
  BY <1>1 DEF Hello, Authenticated, Close, device, uplink, downlink, IInv, TypeOK
<1>3. Sessions'
  BY DEF Hello, Authenticated, Close, device, IInv, TypeOK, Sessions
<1>4. UNCHANGED <<uplink, downlink, sent, process>>
  BY DEF Hello, Authenticated, Close
<1> QED
  BY <1>2, <1>3, <1>4
  DEF uplink, downlink, IInv, CurrentUnlessPatched, LostOnlyInBetween, Unpublished

-----------------------------------------------------------------------------
(* To the device. *)

\* A message that is published is sent on every open connection, or does not
\* fit with its topic; nothing that was sent is forgotten.
LEMMA PublishedSends ==
  ASSUME TypeOK, NEW m, m \in Uplinks \cup Downlinks, NEW topic \in {0, 1}, NEW size,
         Published(m, topic, size)
  PROVE  /\ sent' \in [Conns -> SUBSET (Uplinks \cup Downlinks)]
         /\ \A c \in Conns : sent[c] \subseteq sent'[c]
         /\ \A c \in open : Carried(topic, size) => m \in sent'[c]
  BY DEF TypeOK, Published, open

\* The steps of a message to the device that publish nothing and end nothing.
LEMMA AcceptStep ==
  ASSUME IInv, NEW d \in Downlinks,
         \/ Invalid(d) \/ Answer(d) \/ MqttUnknown(d)
         \/ \E size \in Sizes :
              \/ SendTooBig(d, size)
              \/ \E topic \in {0, 1} : MqttArrives(d, topic, size)
  PROVE  IInv'
<1>1. /\ down[d].pc \in {"none", "published", "lookup"}
      /\ down[d].pc # "none" => down'[d].size = down[d].size /\ down'[d].topic = down[d].topic
      /\ down'[d].pc \in {"none", "lookup"} => down[d].pc = "none"
      /\ down'[d] \in Down
      /\ down' = [down EXCEPT ![d] = down'[d]]
  BY DEF Invalid, Answer, MqttUnknown, SendTooBig, MqttArrives, IInv, TypeOK, Down
<1>2. UNCHANGED <<device, sessions, uplink, to, sent, process>>
  BY DEF Invalid, Answer, MqttUnknown, SendTooBig, MqttArrives, NotPublished
<1>3. TypeOK'
  BY <1>1, <1>2 DEF device, sessions, uplink, IInv, TypeOK
<1>4. Unpublished' /\ LostOnlyInBetween'
  BY <1>1, <1>2 DEF IInv, TypeOK, Unpublished, LostOnlyInBetween
<1> QED
  BY <1>2, <1>3, <1>4
  DEF device, sessions, uplink, IInv, CurrentUnlessPatched, Sessions

LEMMA SendStep ==
  ASSUME IInv, NEW d \in Downlinks,
         \/ MqttSend(d)
         \/ \E topic \in {0, 1}, size \in Sizes : Send(d, topic, size)
  PROVE  IInv'
<1>1. PICK topic \in {0, 1}, size \in Sizes :
        /\ size <= MAX_WSSK_SIZE
        /\ down' = [down EXCEPT ![d] = [pc |-> "published", topic |-> topic, size |-> size]]
        /\ Published(d, topic, size)
  <2>1. CASE MqttSend(d)
    <3>1. down[d] \in Down
      BY DEF IInv, TypeOK
    <3>2. /\ down[d].topic \in {0, 1} /\ down[d].size \in Sizes
          /\ [down[d] EXCEPT !.pc = "published"]
               = [pc |-> "published", topic |-> down[d].topic, size |-> down[d].size]
      BY <3>1 DEF Down
    <3>3. down' = [down EXCEPT ![d] = [down[d] EXCEPT !.pc = "published"]]
      BY <2>1 DEF MqttSend
    <3> QED BY <2>1, <3>2, <3>3 DEF MqttSend
  <2>2. CASE \E topic \in {0, 1}, size \in Sizes : Send(d, topic, size)
    BY <2>2 DEF Send
  <2> QED BY <2>1, <2>2
<1>2. /\ process = "up" /\ down[d].pc \in {"none", "lookup"}
      /\ to' = [to EXCEPT ![d] = open]
      /\ UNCHANGED <<device, sessions, uplink, process>>
  BY DEF MqttSend, Send
<1>3. /\ sent' \in [Conns -> SUBSET (Uplinks \cup Downlinks)]
      /\ \A c \in Conns : sent[c] \subseteq sent'[c]
      /\ \A c \in open : Carried(topic, size) => d \in sent'[c]
  BY <1>1, PublishedSends DEF IInv
<1>4. TypeOK'
  BY <1>1, <1>2, <1>3 DEF device, sessions, uplink, open, IInv, TypeOK, Down
<1>5. ~Carried(topic, size) => Payload(topic, size) > MAX_WSSK_SIZE
  BY MessagesAssumption DEF Carried, Payload, Sizes
<1>6. LostOnlyInBetween'
  <2> SUFFICES ASSUME NEW e \in Downlinks, NEW c \in to'[e]
               PROVE  \/ e \in sent'[c]
                      \/ /\ down'[e].size <= MAX_WSSK_SIZE
                         /\ Payload(down'[e].topic, down'[e].size) > MAX_WSSK_SIZE
    BY DEF LostOnlyInBetween, Payload
  <2>1. CASE e = d
    BY <2>1, <1>1, <1>2, <1>3, <1>5 DEF IInv, TypeOK, open
  <2>2. CASE e # d
    BY <2>2, <1>1, <1>2, <1>3 DEF IInv, TypeOK, LostOnlyInBetween
  <2> QED BY <2>1, <2>2
<1>7. Unpublished'
  BY <1>1, <1>2 DEF IInv, TypeOK, Unpublished
<1> QED
  BY <1>2, <1>4, <1>6, <1>7
  DEF device, sessions, uplink, IInv, CurrentUnlessPatched, Sessions

\* The process ends, and everything in memory with it.
LEMMA EndedStep ==
  ASSUME IInv, NEW d \in Downlinks, MqttRejected(d) \/ PingRefused(d)
  PROVE  IInv'
<1>1. Unheard(d)
  BY DEF MqttRejected, PingRefused
<1>2. \A e \in Downlinks :
        /\ down'[e] \in Down
        /\ down'[e].topic = down[e].topic /\ down'[e].size = down[e].size
        /\ down'[e].pc \in {"none", "lookup"} => down[e].pc = "none"
  BY <1>1 DEF Unheard, IInv, TypeOK, Down
<1>4. \A m \in Uplinks : up'[m] \in Handling /\ up'[m].waiting = {}
  <2> SUFFICES ASSUME NEW m \in Uplinks
               PROVE  up'[m] \in Handling /\ up'[m].waiting = {}
    OBVIOUS
  <2>1. up[m] \in Handling
    BY DEF IInv, TypeOK
  <2>2. up'[m] = [told |-> up[m].told, waiting |-> {},
                  failed |-> up[m].failed \cup up[m].waiting]
    BY <1>1, <2>1 DEF Unheard, Ended, Handling
  <2> QED BY <2>1, <2>2 DEF Handling
<1>5. TypeOK'
  <2>1. NoEnv \in Envs
    BY MessagesAssumption DEF NoEnv, Envs
  <2> QED BY <1>1, <1>2, <1>4, <2>1 DEF Unheard, Ended, device, IInv, TypeOK
<1>7. Sessions' /\ CurrentUnlessPatched'
  BY <1>1 DEF Unheard, Ended, IInv, Sessions, CurrentUnlessPatched
<1>8. Unpublished' /\ LostOnlyInBetween'
  BY <1>1, <1>2 DEF Unheard, Ended, IInv, Unpublished, LostOnlyInBetween, Payload
<1> QED BY <1>5, <1>7, <1>8 DEF IInv

LEMMA RestartStep ==
  ASSUME IInv, Restart
  PROVE  IInv'
  BY DEF Restart, device, sessions, uplink, downlink, IInv, TypeOK,
     CurrentUnlessPatched, LostOnlyInBetween, Sessions, Unpublished

-----------------------------------------------------------------------------
(* From the device. *)

\* A sink of a message that is started is told, awaited or has failed, one of
\* the three.
LEMMA StartedSinks ==
  ASSUME TypeOK, NEW m \in Uplinks, NEW sinks \in SUBSET AllSinks, NEW refused \in SUBSET Sync,
         Started(m, sinks, refused)
  PROVE  /\ up' \in [Uplinks -> Handling]
         /\ \A n \in Uplinks : up'[n].waiting \cap (up'[n].told \cup up'[n].failed) = {}
<1>1. \A n \in Uplinks : n # m => up'[n] = up[n]
  BY DEF TypeOK, Started
<1>2. up'[m] = [told |-> (sinks \cap Sync) \ refused, waiting |-> sinks \ Sync,
                failed |-> sinks \cap refused]
  BY DEF TypeOK, Started
<1>3. up' \in [Uplinks -> Handling]
  BY <1>2 DEF TypeOK, Started, Handling
<1>4. up'[m].waiting \cap (up'[m].told \cup up'[m].failed) = {}
  BY <1>2
<1> QED
  BY <1>1, <1>3, <1>4 DEF TypeOK

LEMMA FromDeviceStep ==
  ASSUME IInv, NEW m \in Uplinks, NEW kind \in Kinds, NEW topic \in Topics,
         NEW falsy \in BOOLEAN, FromDevice(m, kind, topic, falsy)
  PROVE  IInv'
<1> DEFINE sinks == SinksOf(kind, topic, falsy)
<1>1. sinks \in SUBSET AllSinks
  BY MessagesAssumption DEF SinksOf, Interested, Kinds
<1>2. PICK offline \in {{}, {"mqtt"}} : Started(m, sinks, offline)
  BY DEF FromDevice
<1>3. offline \in SUBSET Sync
  BY DEF Sync
<1>4. UNCHANGED <<device, sessions, answer, downlink, sent, process>>
  BY DEF FromDevice, NotPublished
<1> HIDE DEF sinks
<1>5. /\ up' \in [Uplinks -> Handling]
      /\ \A n \in Uplinks : up'[n].waiting \cap (up'[n].told \cup up'[n].failed) = {}
  BY <1>1, <1>2, <1>3, StartedSinks DEF IInv
<1>6. TypeOK'
  BY <1>4, <1>5 DEF device, sessions, downlink, IInv, TypeOK
<1> QED
  BY <1>4, <1>6
  DEF device, sessions, downlink, IInv, CurrentUnlessPatched, LostOnlyInBetween,
      Sessions, Unpublished

\* The answer is from the row, unless the connection is outdated.
LEMMA EnvStep ==
  ASSUME IInv, NEW m \in Uplinks, NEW c \in Conns, NEW fields \in SUBSET Fields,
         EnvAsked(m, c, fields)
  PROVE  IInv'
<1> DEFINE env == Asked(dev[c], fields)
<1>1. PICK refused \in {{}, {"env"}} : Started(m, {"env"}, refused)
  BY DEF EnvAsked
<1>2. {"env"} \in SUBSET AllSinks /\ refused \in SUBSET Sync
  BY DEF AllSinks, Sync
<1>3. /\ up' \in [Uplinks -> Handling]
      /\ \A n \in Uplinks : up'[n].waiting \cap (up'[n].told \cup up'[n].failed) = {}
  BY <1>1, <1>2, StartedSinks DEF IInv
<1>4. UNCHANGED <<device, sessions, downlink, process>>
  BY DEF EnvAsked
<1>5. /\ sent' \in [Conns -> SUBSET (Uplinks \cup Downlinks)]
      /\ \A e \in Conns : sent[e] \subseteq sent'[e]
  <2>1. CASE NotPublished
    BY <2>1 DEF NotPublished, IInv, TypeOK
  <2>2. CASE Published(m, 1, JsonSize(env))
    BY <2>2, PublishedSends DEF IInv
  <2> QED BY <2>1, <2>2 DEF EnvAsked
<1>6. /\ answer' = [answer EXCEPT ![m] =
           [env |-> env, due |-> Asked(row, fields), outdated |-> c \in outdated]]
      /\ c \in open
  BY DEF EnvAsked
<1>7. env \in Envs /\ Asked(row, fields) \in Envs
  BY MessagesAssumption DEF Asked, Envs, IInv, TypeOK
<1>8. c \in outdated \/ env = Asked(row, fields)
  BY <1>6 DEF open, IInv, Sessions
<1> HIDE DEF env
<1>9. TypeOK'
  BY <1>3, <1>4, <1>5, <1>6, <1>7 DEF device, sessions, downlink, IInv, TypeOK
<1>11. CurrentUnlessPatched'
  BY <1>6, <1>8 DEF IInv, TypeOK, CurrentUnlessPatched
<1>12. LostOnlyInBetween'
  BY <1>4, <1>5 DEF downlink, IInv, TypeOK, LostOnlyInBetween, Payload
<1> QED
  BY <1>4, <1>9, <1>11, <1>12
  DEF device, sessions, downlink, IInv, Sessions, Unpublished

LEMMA SinkStep ==
  ASSUME IInv, NEW m \in Uplinks, NEW s \in Sinks, SinkTold(m, s) \/ SinkFails(m, s)
  PROVE  IInv'
<1>1. UNCHANGED <<device, sessions, answer, downlink, sent, process>>
  BY DEF SinkTold, SinkFails
<1>2. /\ up[m] \in Handling /\ s \in up[m].waiting /\ s \in AllSinks
      /\ up[m].waiting \cap (up[m].told \cup up[m].failed) = {}
  BY MessagesAssumption DEF SinkTold, SinkFails, IInv, TypeOK
<1>3. /\ up'[m] \in Handling
      /\ up' = [up EXCEPT ![m] = up'[m]]
      /\ up'[m].waiting = up[m].waiting \ {s}
      /\ \/ up'[m].told = up[m].told \cup {s} /\ up'[m].failed = up[m].failed
         \/ up'[m].told = up[m].told /\ up'[m].failed = up[m].failed \cup {s}
  BY <1>2 DEF SinkTold, SinkFails, IInv, TypeOK, Handling
<1>4. TypeOK'
  BY <1>1, <1>2, <1>3 DEF device, sessions, downlink, IInv, TypeOK
<1> QED
  BY <1>1, <1>4
  DEF device, sessions, downlink, IInv, CurrentUnlessPatched, LostOnlyInBetween,
      Sessions, Unpublished

-----------------------------------------------------------------------------
(* Theorems. *)

LEMMA Step == IInv /\ [Next]_vars => IInv'
<1> SUFFICES ASSUME IInv, [Next]_vars PROVE IInv'
  OBVIOUS
<1>1. CASE \E fields \in SUBSET Fields : PatchEnv(fields)
  BY <1>1, PatchStep
<1>2. CASE \E c \in Conns : Hello(c) \/ Authenticated(c) \/ Close(c)
  BY <1>2, ConnectionStep
<1>3. ASSUME NEW d \in Downlinks,
             \/ Invalid(d) \/ Answer(d) \/ MqttUnknown(d) \/ MqttSend(d) \/ MqttRejected(d)
             \/ PingRefused(d)
             \/ \E size \in Sizes :
                  \/ SendTooBig(d, size)
                  \/ \E topic \in {0, 1} : Send(d, topic, size) \/ MqttArrives(d, topic, size)
      PROVE  IInv'
  BY <1>3, AcceptStep, SendStep, EndedStep
<1>4. CASE Restart
  BY <1>4, RestartStep
<1>5. ASSUME NEW m \in Uplinks,
             \/ \E kind \in Kinds, topic \in Topics, falsy \in BOOLEAN :
                  FromDevice(m, kind, topic, falsy)
             \/ \E c \in Conns, fields \in SUBSET Fields : EnvAsked(m, c, fields)
             \/ \E s \in Sinks : SinkTold(m, s) \/ SinkFails(m, s)
      PROVE  IInv'
  BY <1>5, FromDeviceStep, EnvStep, SinkStep
<1>6. CASE UNCHANGED vars
  BY <1>6
  DEF vars, device, sessions, uplink, downlink, IInv, TypeOK,
      CurrentUnlessPatched, LostOnlyInBetween, Sessions, Unpublished
<1> QED BY <1>1, <1>2, <1>3, <1>4, <1>5, <1>6 DEF Next

\* The invariant of the messages of a device.
THEOREM Inductive == Spec => []IInv
<1> QED BY InitInv, Step, PTL DEF Spec

\* Every variable keeps its type.
THEOREM Typing == Spec => []TypeOK
<1>1. IInv => TypeOK
  BY DEF IInv
<1> QED BY <1>1, Inductive, PTL

\* A device gets the environment of its row, unless a PATCH has come since
\* its connection was opened.
THEOREM EnvironmentIsCurrent == Spec => []CurrentUnlessPatched
<1>1. IInv => CurrentUnlessPatched
  BY DEF IInv
<1> QED BY <1>1, Inductive, PTL

\* Of what the API and the broker accept, a connection drops only what fits
\* without its topic and not with it.
THEOREM LossIsInBetween == Spec => []LostOnlyInBetween
<1>1. IInv => LostOnlyInBetween
  BY DEF IInv
<1> QED BY <1>1, Inductive, PTL

=============================================================================
