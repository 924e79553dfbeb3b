---------------------------- MODULE DeployProofs ----------------------------
(***************************************************************************)
(* Proofs about Deploy, for every set of versions and program sizes, any   *)
(* finite number of overlapping downloads, any number of earlier           *)
(* connections and every bound.  All but Typing assume that at most one    *)
(* message is late (MaxLate <= 1): with two ConfirmedHeld is false.        *)
(***************************************************************************)
EXTENDS Deploy, SequenceTheorems, FiniteSetTheorems, TLAPS

USE DeployAssumption

\* What runs a version is an image.
LEMMA ProgramImage == \A v \in Versions : Program(v) \in Images
BY DEF Program, Images, Chunks

\* Arming the back-off timer keeps its types and leaves a failure pending.
LEMMA ArmBackoffType ==
  ASSUME BackoffTypes, ArmBackoff
  PROVE  BackoffTypes' /\ deployNumFail' # 0 /\ deployTimeout' > 0
BY DEF BackoffTypes, ArmBackoff, OneMoreFail

\* The head of deployScript() keeps the engine's and the wire's types.
LEMMA BeginDeployType ==
  ASSUME EngineTypes, BackoffTypes, WireTypes, BeginDeploy
  PROVE  /\ deployPtr' \in Nat /\ deployCmd' \in DeployCmds \cup {Idle}
         /\ BackoffTypes'
         /\ toDev' \in Seq(ToDevMsgs)
<1>1. ToDev("GetHash") \in ToDevMsgs
  BY DEF ToDev, ToDevMsgs, DeployCmds
<1> QED
  BY <1>1, ArmBackoffType DEF WireTypes, BeginDeploy, SendDeployCmd, ToDev, DeployCmds

\* checkDeployed() keeps the engine's and the wire's types.
LEMMA CheckDeployedType ==
  ASSUME EngineTypes, BackoffTypes, WireTypes, CheckDeployed
  PROVE  /\ deployPtr' \in Nat /\ deployCmd' \in DeployCmds \cup {Idle}
         /\ BackoffTypes'
         /\ toDev' \in Seq(ToDevMsgs)
<1>1. CASE BeginDeploy
  BY <1>1, BeginDeployType
<1>2. CASE UNCHANGED <<deployPtr, deployCmd, backoff, toDev>>
  BY <1>2 DEF EngineTypes, BackoffTypes, WireTypes, backoff
<1> QED
  BY <1>1, <1>2 DEF CheckDeployed, ensureDeployed

\* The initial states are well typed.
LEMMA InitType == Init => TypeOK
<1> SUFFICES ASSUME Init PROVE TypeOK
  OBVIOUS
<1>1. Blank \in Images
  BY DEF Blank, Images
<1>2. TableTypes
  BY DEF Init, TableTypes
<1>3. CallTypes
  <2>1. stage \in [Slots -> Stages] /\ asked \in [Slots -> Rows]
    BY DEF Init, Rows, Stages
  <2>2. faults \in 0..MaxFaults
    BY DEF Init
  <2> QED
    BY <2>1, <2>2 DEF Init, CallTypes
<1>4. EngineTypes /\ OlderTypes
  <2>1. EngineTypes
    BY DEF Init, EngineTypes, Rows
  <2>2. OlderTypes
    BY DEF Init, OlderTypes
  <2> QED
    BY <2>1, <2>2
<1>5. BackoffTypes
  BY DEF Init, BackoffTypes
<1>6. WireTypes
  BY DEF Init, WireTypes
<1>7. DeviceTypes
  BY <1>1, ProgramImage DEF Init, DeviceTypes
<1> QED
  BY <1>2, <1>3, <1>4, <1>5, <1>6, <1>7 DEF TypeOK

\* A group of variables left alone keeps its types.
LEMMA Kept ==
  ASSUME TypeOK
  PROVE  /\ UNCHANGED table => TableTypes'
         /\ UNCHANGED <<connected, lastMsg, calls, faults>> => CallTypes'
         /\ UNCHANGED older => OlderTypes'
         /\ UNCHANGED engine => EngineTypes'
         /\ UNCHANGED backoff => BackoffTypes'
         /\ UNCHANGED wire => WireTypes'
         /\ UNCHANGED device => DeviceTypes'
<1>1. UNCHANGED table => TableTypes'
  BY DEF TypeOK, TableTypes, table
<1>2. UNCHANGED <<connected, lastMsg, calls, faults>> => CallTypes'
  BY DEF TypeOK, CallTypes, calls
<1>3. UNCHANGED engine => EngineTypes'
  BY DEF TypeOK, EngineTypes, engine
<1>4. UNCHANGED backoff => BackoffTypes'
  BY DEF TypeOK, BackoffTypes, backoff
<1>5. UNCHANGED wire => WireTypes'
  BY DEF TypeOK, WireTypes, wire
<1>6. UNCHANGED device => DeviceTypes'
  BY DEF TypeOK, DeviceTypes, device
<1>7. UNCHANGED older => OlderTypes'
  BY DEF TypeOK, OlderTypes, older
<1> QED
  BY <1>1, <1>2, <1>3, <1>4, <1>5, <1>6, <1>7

\* The steps that write the device row keep the types.
LEMMA RowStepType ==
  ASSUME TypeOK, NEW r \in Rows, Patch(r) \/ WriteBack(r) \/ SlowTick \/ PatchOther
  PROVE  TypeOK'
<1>1. TableTypes'
  BY DEF TypeOK, TableTypes, Patch, WriteBack, SlowTick, PatchOther
<1>2. CallTypes'
  BY DEF TypeOK, CallTypes, Patch, WriteBack, SlowTick, PatchOther, calls
<1> QED
  BY <1>1, <1>2, Kept DEF TypeOK, Patch, WriteBack, SlowTick, PatchOther

\* A sync that starts keeps the types of the calls and of the engine.
LEMMA StartSyncType ==
  ASSUME TypeOK, NEW s \in Slots, NEW v \in Rows, StartSync(s, v),
         UNCHANGED <<connected, lastMsg, faults>>
  PROVE  CallTypes' /\ EngineTypes'
<1>1. CallTypes'
  BY DEF TypeOK, CallTypes, StartSync, Stages
<1>2. EngineTypes'
  BY DEF TypeOK, EngineTypes, StartSync, Rows
<1> QED
  BY <1>1, <1>2

\* A notification of the row keeps the types.
LEMMA PublishType ==
  ASSUME TypeOK, NEW r \in Rows, Publish(r)
  PROVE  TypeOK'
<1>1. TableTypes'
  BY DEF TypeOK, TableTypes, Publish
<1>2. CallTypes' /\ EngineTypes'
  <2>1. CASE connected /\ r # None
    BY <2>1, StartSyncType DEF Publish
  <2>2. CASE ~(connected /\ r # None)
    BY <2>2, Kept DEF Publish
  <2> QED
    BY <2>1, <2>2
<1>3. OlderTypes'
  BY DEF TypeOK, OlderTypes, Publish
<1> QED
  BY <1>1, <1>2, <1>3, Kept DEF TypeOK, Publish

\* What connected() does after each of its awaits keeps the types.
LEMMA HelloType ==
  ASSUME TypeOK, NEW s \in Slots, Subscribed(s) \/ HelloRead(s) \/ HelloSync(s)
  PROVE  TypeOK'
<1>1. CASE HelloRead(s)
  <2>1. CallTypes'
    BY <1>1 DEF TypeOK, CallTypes, TableTypes, HelloRead, Stages
  <2> QED
    BY <1>1, <2>1, Kept DEF TypeOK, HelloRead
<1>2. CASE HelloSync(s)
  <2>1. asked[s] \in Rows
    BY DEF TypeOK, CallTypes
  <2>2. CallTypes' /\ EngineTypes'
    BY <1>2, <2>1, StartSyncType DEF HelloSync
  <2> QED
    BY <1>2, <2>2, Kept DEF TypeOK, HelloSync
<1>3. CASE Subscribed(s)
  <2>1. CallTypes'
    BY <1>3 DEF TypeOK, CallTypes, Subscribed, Stages
  <2> QED
    BY <1>3, <2>1, Kept DEF TypeOK, Subscribed
<1> QED
  BY <1>1, <1>2, <1>3

\* A call that ends, with its body or without, keeps the types.
LEMMA CallEndsType ==
  ASSUME TypeOK, NEW s \in Slots, Fetched(s) \/ FetchFailed(s)
  PROVE  TypeOK'
<1>1. CallTypes'
  <2>1. stage' \in [Slots -> Stages] /\ asked' \in [Slots -> Rows]
    BY DEF TypeOK, CallTypes, Fetched, FetchFailed, Finished, Stages, Rows
  <2>2. faults' \in 0..MaxFaults
    BY DEF TypeOK, CallTypes, Fetched, FetchFailed
  <2> QED
    BY <2>1, <2>2 DEF TypeOK, CallTypes, Fetched, FetchFailed
<1>2. /\ deployPtr' \in Nat /\ deployCmd' \in DeployCmds \cup {Idle}
      /\ BackoffTypes'
      /\ toDev' \in Seq(ToDevMsgs)
  BY CheckDeployedType DEF TypeOK, Fetched, FetchFailed
<1>3. deployBuffer' \in Rows
  BY DEF TypeOK, CallTypes, EngineTypes, Fetched, FetchFailed
<1>4. EngineTypes'
  BY <1>2, <1>3 DEF TypeOK, EngineTypes, Fetched, FetchFailed
<1>5. WireTypes'
  BY <1>2 DEF TypeOK, WireTypes, Fetched, FetchFailed
<1> QED
  BY <1>1, <1>2, <1>4, <1>5, Kept DEF TypeOK, Fetched, FetchFailed

\* The calls in progress can be counted.
LEMMA BusyCount == Cardinality(Busy) \in Nat
<1>1. IsFiniteSet(Busy)
  BY FS_Subset DEF Busy
<1> QED
  BY <1>1, FS_CardinalityType

\* What the connections that are not the newest do keeps the types.
LEMMA OlderType ==
  ASSUME TypeOK, OldCallEnds \/ OldCallArms \/ OlderCloses
  PROVE  TypeOK'
<1>1. OlderTypes'
  BY DEF TypeOK, OlderTypes, OldCallEnds, OldCallArms, OlderCloses
<1>2. BackoffTypes'
  BY ArmBackoffType, Kept DEF TypeOK, OldCallEnds, OldCallArms, OlderCloses
<1> QED
  BY <1>1, <1>2, Kept DEF TypeOK, OldCallEnds, OldCallArms, OlderCloses

\* A connection the device leaves, noticed or not, leaves the types.
LEMMA LeftType ==
  ASSUME TypeOK, Disconnect \/ Reconnect
  PROVE  TypeOK'
<1>1. Left
  BY DEF Disconnect, Reconnect
<1>2. stage' \in [Slots -> Stages] /\ asked' \in [Slots -> Rows]
  BY <1>1 DEF Disconnect, Reconnect, Left, Stages, Rows
<1>3. faults' \in 0..MaxFaults
  BY <1>1 DEF TypeOK, CallTypes, Left
<1>4. CallTypes'
  BY <1>1, <1>2, <1>3 DEF TypeOK, CallTypes, Disconnect, Reconnect, Left
<1>5. OlderTypes'
  <2>1. oldCalls' \in 0..MaxOldCalls
    BY <1>1, BusyCount DEF TypeOK, OlderTypes, Left
  <2> QED
    BY <2>1 DEF TypeOK, OlderTypes, Disconnect, Reconnect
<1>6. EngineTypes' /\ WireTypes'
  <2>1. EngineTypes'
    BY <1>1 DEF EngineTypes, Left, Rows
  <2>2. WireTypes'
    BY <1>1 DEF WireTypes, Left
  <2> QED
    BY <2>1, <2>2
<1>7. DeviceTypes'
  BY <1>1 DEF TypeOK, DeviceTypes, Left, Images, Blank
<1> QED
  BY <1>1, <1>4, <1>5, <1>6, <1>7, Kept DEF TypeOK, Left

\* What is left of a queue once its first message is taken.
LEMMA FirstOut ==
  ASSUME NEW S, NEW q \in Seq(S), q # <<>>
  PROVE  /\ Head(q) \in S /\ Tail(q) \in Seq(S)
         /\ Head(q) = q[1] /\ Len(Tail(q)) = Len(q) - 1
         /\ \A i \in 1..Len(Tail(q)) : Tail(q)[i] = q[i + 1]
OBVIOUS

\* A command put on the wire keeps the wire's types.
LEMMA SendType ==
  ASSUME TypeOK, NEW m \in ToDevMsgs, SendDeployCmd(m)
  PROVE  deployCmd' \in DeployCmds /\ toDev' \in Seq(ToDevMsgs)
<1>1. m.cmd \in DeployCmds
  BY DEF ToDevMsgs, DeployCmds
<1> QED
  BY <1>1 DEF TypeOK, WireTypes, SendDeployCmd

\* An answer leaves the types of the engine, of the caches and of toDev.
LEMMA DeployStepEngineType ==
  ASSUME TypeOK, NEW m \in FromDevMsgs,
         \/ Unexpected(m) \/ NothingLoaded(m) \/ HashMatches(m)
         \/ HashDiffers(m) \/ NextChunk(m) \/ Deployed(m)
  PROVE  EngineTypes' /\ BackoffTypes' /\ toDev' \in Seq(ToDevMsgs)
<1>1. m.hash \in Images \cup {None}
  BY DEF FromDevMsgs
<1>2. toDev \in Seq(ToDevMsgs)
  BY DEF TypeOK, WireTypes
<1>3. CASE Unexpected(m)
  <2>1. BackoffTypes'
    BY <1>3, ArmBackoffType, Kept DEF TypeOK, Unexpected, deployFail
  <2>2. EngineTypes'
    BY <1>3 DEF TypeOK, EngineTypes, Unexpected, deployFail
  <2> QED
    BY <1>2, <1>3, <2>1, <2>2 DEF Unexpected
<1>4. CASE NothingLoaded(m)
  <2>1. EngineTypes'
    BY <1>1, <1>4 DEF TypeOK, EngineTypes, NothingLoaded
  <2> QED
    BY <1>2, <1>4, <2>1, Kept DEF TypeOK, NothingLoaded
<1>5. CASE HashMatches(m)
  <2>1. EngineTypes'
    BY <1>1, <1>5 DEF TypeOK, EngineTypes, HashMatches
  <2>2. BackoffTypes'
    BY <1>5 DEF BackoffTypes, HashMatches
  <2> QED
    BY <1>2, <1>5, <2>1, <2>2 DEF HashMatches
<1>6. CASE HashDiffers(m)
  <2>1. ToDev("DeployStart") \in ToDevMsgs
    BY DEF ToDev, ToDevMsgs, DeployCmds
  <2>2. CASE secondTry
    <3>1. BackoffTypes'
      BY <1>6, <2>2, ArmBackoffType DEF TypeOK, HashDiffers, deployFail
    <3>2. EngineTypes'
      BY <1>1, <1>6, <2>2 DEF TypeOK, EngineTypes, HashDiffers, deployFail
    <3> QED
      BY <1>2, <1>6, <2>2, <3>1, <3>2 DEF HashDiffers
  <2>3. CASE ~secondTry
    <3>1. deployCmd' \in DeployCmds /\ toDev' \in Seq(ToDevMsgs)
      BY <1>6, <2>1, <2>3, SendType DEF HashDiffers
    <3>2. EngineTypes'
      BY <1>1, <1>6, <3>1 DEF TypeOK, EngineTypes, HashDiffers
    <3> QED
      BY <1>6, <2>3, <3>1, <3>2, Kept DEF TypeOK, HashDiffers
  <2> QED
    BY <2>2, <2>3
<1>7. CASE NextChunk(m)
  <2>1. deployBuffer \in Versions /\ deployPtr \in Nat
    BY <1>7 DEF TypeOK, EngineTypes, Rows, NextChunk
  <2>2. /\ [cmd |-> "DeployWrite", chunk |-> <<deployBuffer, deployPtr + 1>>] \in ToDevMsgs
        /\ ToDev("DeployFinish") \in ToDevMsgs
    BY <2>1 DEF ToDev, ToDevMsgs, DeployCmds, Chunks
  <2>3. deployCmd' \in DeployCmds /\ toDev' \in Seq(ToDevMsgs)
    BY <1>7, <2>2, SendType DEF NextChunk
  <2>4. deployPtr' \in Nat
    BY <1>7, <2>1 DEF NextChunk
  <2>5. EngineTypes'
    BY <1>7, <2>3, <2>4 DEF TypeOK, EngineTypes, NextChunk
  <2> QED
    BY <1>7, <2>3, <2>5, Kept DEF TypeOK, NextChunk
<1>8. CASE Deployed(m)
  <2>1. Program(deployBuffer) \in Images
    BY <1>8, ProgramImage DEF TypeOK, EngineTypes, Rows, Deployed
  <2>2. /\ deployPtr' \in Nat /\ deployCmd' \in DeployCmds \cup {Idle}
        /\ BackoffTypes' /\ toDev' \in Seq(ToDevMsgs)
    BY <1>8, BeginDeployType DEF TypeOK, Deployed
  <2>3. EngineTypes'
    BY <1>8, <2>1, <2>2 DEF TypeOK, EngineTypes, Deployed
  <2> QED
    BY <2>2, <2>3
<1> QED
  BY <1>3, <1>4, <1>5, <1>6, <1>7, <1>8

\* Each way deployStep() takes an answer receives one.
LEMMA ReceiveInStep ==
  ASSUME NEW m,
         \/ Unexpected(m) \/ NothingLoaded(m) \/ HashMatches(m)
         \/ HashDiffers(m) \/ NextChunk(m) \/ Deployed(m)
  PROVE  Receive
BY DEF Unexpected, NothingLoaded, HashMatches, HashDiffers, NextChunk, Deployed

\* A step of deployStep() keeps the types.
LEMMA DeployStepType ==
  ASSUME TypeOK, DeployStep
  PROVE  TypeOK'
<1> DEFINE m == Head(fromDev)
<1>1. fromDev # <<>> /\ fromDev \in Seq(FromDevMsgs)
  BY DEF DeployStep, TypeOK, WireTypes
<1>2. m \in FromDevMsgs /\ Tail(fromDev) \in Seq(FromDevMsgs)
  BY <1>1, FirstOut
<1>3. \/ Unexpected(m) \/ NothingLoaded(m) \/ HashMatches(m)
      \/ HashDiffers(m) \/ NextChunk(m) \/ Deployed(m)
  BY DEF DeployStep
<1>4. Receive
  BY <1>3, ReceiveInStep
<1>5. EngineTypes' /\ BackoffTypes' /\ toDev' \in Seq(ToDevMsgs)
  BY <1>2, <1>3, DeployStepEngineType
<1>6. WireTypes'
  BY <1>2, <1>4, <1>5 DEF WireTypes, Receive
<1>7. CallTypes'
  BY <1>4 DEF TypeOK, CallTypes, Receive, calls
<1> QED
  BY <1>4, <1>5, <1>6, <1>7, Kept DEF TypeOK, Receive

\* A step of the device keeps the types.
LEMMA DeviceStepType ==
  ASSUME TypeOK, DeviceStep
  PROVE  TypeOK'
<1> DEFINE m == Head(toDev)
<1>1. toDev # <<>> /\ toDev \in Seq(ToDevMsgs)
  BY DEF DeviceStep, TypeOK, WireTypes
<1>2. m \in ToDevMsgs /\ Tail(toDev) \in Seq(ToDevMsgs)
  BY <1>1, FirstOut
<1>3. m.cmd \in DeployCmds /\ (m.cmd = "DeployWrite" => m.chunk \in Chunks)
  BY <1>2 DEF ToDevMsgs, DeployCmds
<1>4. Blank \in Images
  BY DEF Blank, Images
<1>5. CASE Serve(m)
  <2>1. [cmd |-> m.cmd, hash |-> IF m.cmd = "GetHash" THEN devImage ELSE None] \in FromDevMsgs
    BY <1>3 DEF TypeOK, DeviceTypes, FromDevMsgs
  <2>2. WireTypes'
    BY <1>2, <1>5, <2>1 DEF TypeOK, WireTypes, Serve, Answer
  <2>3. DeviceTypes'
    <3>1. CASE m.cmd = "GetHash"
      BY <1>5, <3>1, Kept DEF Serve
    <3>2. CASE m.cmd = "DeployStart"
      BY <1>4, <1>5, <3>2 DEF DeviceTypes, Serve
    <3>3. CASE m.cmd = "DeployWrite"
      <4>1. Append(devPart, m.chunk) \in Images
        BY <1>3, <3>3 DEF TypeOK, DeviceTypes, Images
      <4> QED
        BY <1>5, <3>3, <4>1 DEF TypeOK, DeviceTypes, Serve
    <3>4. CASE m.cmd = "DeployFinish"
      BY <1>4, <1>5, <3>4 DEF TypeOK, DeviceTypes, Serve
    <3> QED
      BY <1>3, <3>1, <3>2, <3>3, <3>4 DEF DeployCmds
  <2>4. CallTypes'
    BY <1>5, Kept DEF Serve, Answer
  <2> QED
    BY <1>5, <2>2, <2>3, <2>4, Kept DEF TypeOK, Serve, Answer
<1>6. CASE Refuse(m)
  <2>1. FromDev("Error") \in FromDevMsgs
    BY DEF FromDev, FromDevMsgs
  <2>2. WireTypes'
    BY <1>2, <1>6, <2>1 DEF TypeOK, WireTypes, Refuse, Answer
  <2>3. DeviceTypes'
    BY <1>4, <1>6 DEF TypeOK, DeviceTypes, Refuse
  <2>4. faults' \in 0..MaxFaults
    BY <1>6 DEF TypeOK, CallTypes, Refuse
  <2>5. CallTypes'
    BY <1>6, <2>4 DEF TypeOK, CallTypes, Refuse, Answer, calls
  <2> QED
    BY <1>6, <2>2, <2>3, <2>5, Kept DEF TypeOK, Refuse, Answer
<1> QED
  BY <1>5, <1>6 DEF DeviceStep

\* The clock, the device's other traffic and the link keep the types.
LEMMA LinkType ==
  ASSUME TypeOK, DeviceTalks \/ Tick \/ Connect
  PROVE  TypeOK'
<1>1. CASE DeviceTalks
  <2>1. CallTypes'
    BY <1>1 DEF TypeOK, CallTypes, DeviceTalks, calls
  <2> QED
    BY <1>1, <2>1, Kept DEF TypeOK, DeviceTalks
<1>2. CASE Tick
  <2>1. BackoffTypes'
    BY <1>2 DEF TypeOK, BackoffTypes, Tick
  <2> QED
    BY <1>2, <2>1, Kept DEF TypeOK, Tick
<1>3. CASE Connect
  <2>1. stage' \in [Slots -> Stages]
    BY <1>3 DEF TypeOK, CallTypes, Connect, Stages
  <2>2. CallTypes'
    BY <1>3, <2>1 DEF TypeOK, CallTypes, Connect
  <2> QED
    BY <1>3, <2>2, Kept DEF TypeOK, Connect
<1> QED
  BY <1>1, <1>2, <1>3

\* Every step keeps the types.
LEMMA NextType == TypeOK /\ [Next]_vars => TypeOK'
<1> SUFFICES ASSUME TypeOK, [Next]_vars PROVE TypeOK'
  OBVIOUS
<1>1. ASSUME NEW r \in Rows, Patch(r) \/ WriteBack(r) \/ Publish(r) PROVE TypeOK'
  BY <1>1, RowStepType, PublishType
<1>2. ASSUME NEW s \in Slots,
             Subscribed(s) \/ HelloRead(s) \/ HelloSync(s) \/ Fetched(s) \/ FetchFailed(s)
      PROVE TypeOK'
  BY <1>2, HelloType, CallEndsType
<1>3. CASE SlowTick \/ PatchOther
  BY <1>3, RowStepType DEF Rows
<1>4. CASE DeployStep \/ DeviceStep
  BY <1>4, DeployStepType, DeviceStepType
<1>5. CASE DeviceTalks \/ Tick \/ Connect
  BY <1>5, LinkType
<1>6. CASE Disconnect \/ Reconnect \/ OldCallEnds \/ OldCallArms \/ OlderCloses
  BY <1>6, LeftType, OlderType
<1>7. CASE UNCHANGED vars
  BY <1>7, Kept DEF TypeOK, vars
<1> QED
  BY <1>1, <1>2, <1>3, <1>4, <1>5, <1>6, <1>7 DEF Next

\* Every variable keeps its type: the queues hold messages of the protocol,
\* the caches stay within their caps, a loaded program is a version.
THEOREM Typing == Spec => []TypeOK
<1>1. Init => TypeOK
  BY InitType
<1>2. TypeOK /\ [Next]_vars => TypeOK'
  BY NextType
<1> QED
  BY <1>1, <1>2, PTL DEF Spec

-----------------------------------------------------------------------------
(* A device of which at most one message is late. *)

\* The variables OnTheWire, ConfirmedHeld and ChunksInOrder speak of.
shared == <<deployPtr, deployCmd, deployedHash, backoff, wire, devImage, devPart>>

\* How many messages are on the wire, either way.
LEMMA WireLengths ==
  ASSUME TypeOK
  PROVE  /\ Len(toDev) \in Nat /\ (toDev = <<>> <=> Len(toDev) = 0)
         /\ Len(fromDev) \in Nat /\ (fromDev = <<>> <=> Len(fromDev) = 0)
         /\ InFlight = Len(toDev) + Len(fromDev)
<1>1. toDev \in Seq(ToDevMsgs) /\ fromDev \in Seq(FromDevMsgs)
  BY DEF TypeOK, WireTypes
<1>2. Len(toDev) \in Nat /\ Len(fromDev) \in Nat
  BY <1>1
<1> QED
  BY <1>1, <1>2, EmptySeq DEF InFlight

\* Who has a place in a queue that is all there is has the first and only one.
LEMMA OnlyOne == \A a, b \in Nat : \A i \in 1..a : a + b <= 1 => a = 1 /\ b = 0 /\ i = 1
OBVIOUS

\* The invariant holds initially.
LEMMA InitInv == Init => IInv
<1> SUFFICES ASSUME Init PROVE IInv
  OBVIOUS
<1>1. toDev = <<>> /\ fromDev = <<>> /\ InFlight = 0 /\ devPart = <<>>
  BY DEF Init, InFlight, Blank
<1>2. OnTheWire /\ ChunksInOrder
  BY <1>1 DEF Init, OnTheWire, ChunksInOrder, Idle
<1>3. InStep
  BY <1>1 DEF Init, InStep, Idle
<1>4. ConfirmedHeld
  BY DEF Init, ConfirmedHeld, Confirmed
<1> QED
  BY <1>2, <1>3, <1>4, InitType DEF IInv

\* What a step that leaves the shared variables alone preserves.
LEMMA SharedKept ==
  ASSUME IInv, UNCHANGED shared, connected => connected',
         \A s \in Slots : stage'[s] # "free" => connected'
  PROVE  OnTheWire' /\ InStep' /\ ConfirmedHeld' /\ ChunksInOrder'
<1>1. OnTheWire' /\ ChunksInOrder'
  BY DEF IInv, OnTheWire, ChunksInOrder, InFlight, shared, wire, backoff
<1>2. InStep'
  BY DEF IInv, InStep, InFlight, shared, wire, backoff
<1>3. ConfirmedHeld'
  BY DEF IInv, ConfirmedHeld, Confirmed, InStep, shared, wire, backoff
<1> QED
  BY <1>1, <1>2, <1>3

\* BeginDeploy, with at most a late message on the wire.
LEMMA BeginDeployInv ==
  ASSUME MaxLate <= 1, IInv, TypeOK', BeginDeploy, connected, connected',
         Len(toDev) + Len(fromDev') <= MaxLate, fromDev' \in {fromDev, <<>>},
         UNCHANGED <<devImage, devPart>>
  PROVE  OnTheWire' /\ InStep' /\ ConfirmedHeld' /\ ChunksInOrder'
<1>1. deployCmd' = "GetHash" /\ deployPtr' = 0 /\ deployCmd' # Idle
  BY DEF BeginDeploy, SendDeployCmd, ToDev, Idle
<1>2. deployNumFail' # 0 /\ deployTimeout' > 0
  BY ArmBackoffType DEF IInv, TypeOK, BeginDeploy
<1>3. toDev \in Seq(ToDevMsgs) /\ Len(toDev) \in Nat /\ Len(fromDev') \in Nat
  BY WireLengths DEF IInv, TypeOK, WireTypes
<1>4. /\ Len(toDev') = Len(toDev) + 1 /\ toDev' # <<>>
      /\ toDev'[Len(toDev')].cmd = "GetHash"
      /\ \A i \in 1..Len(toDev') :
           \/ i = Len(toDev') /\ toDev'[i].cmd = "GetHash"
           \/ i \in 1..Len(toDev) /\ toDev'[i] = toDev[i]
  BY <1>3 DEF BeginDeploy, SendDeployCmd, ToDev
<1>5. OnTheWire'
  BY <1>1, <1>2, <1>3, <1>4 DEF OnTheWire, InFlight
<1>6. \A i \in 1..Len(fromDev') : fromDev'[i].cmd = "GetHash" => fromDev'[i].hash = devImage
  <2> SUFFICES ASSUME fromDev' = fromDev, NEW i \in 1..Len(fromDev),
                      fromDev[i].cmd = "GetHash", deployCmd = "DeployStart"
               PROVE  FALSE
    BY DEF IInv, InStep
  <2>1. Len(fromDev) + Len(toDev) <= 1 /\ Len(fromDev) \in Nat
    BY <1>3
  <2>2. i = 1 /\ Len(fromDev) = 1 /\ Len(toDev) = 0
    BY <1>3, <2>1, OnlyOne, Zenon
  <2> QED
    BY <2>2, WireLengths DEF IInv, OnTheWire, Idle
<1>7. InStep'
  BY <1>1, <1>2, <1>4, <1>6 DEF IInv, InStep
<1>8. ConfirmedHeld' /\ ChunksInOrder'
  BY <1>2 DEF IInv, ConfirmedHeld, Confirmed, ChunksInOrder
<1> QED
  BY <1>5, <1>7, <1>8

\* A fetch that ends, with the body or with an error, keeps the invariant.
LEMMA CallInv ==
  ASSUME MaxLate <= 1, IInv, TypeOK', NEW s \in Slots, Fetched(s) \/ FetchFailed(s)
  PROVE  OnTheWire' /\ InStep' /\ ConfirmedHeld' /\ ChunksInOrder'
<1>1. /\ CheckDeployed
      /\ stage[s] = "fetch" /\ stage' = [stage EXCEPT ![s] = "free"]
      /\ UNCHANGED <<connected, deployedHash, fromDev, devImage, devPart>>
  BY DEF Fetched, FetchFailed, Finished, device
<1>2. connected /\ connected'
  BY <1>1 DEF IInv, InStep
<1>3. \A t \in Slots : stage'[t] # "free" => connected'
  BY <1>2
<1>4. CASE UNCHANGED <<deployPtr, deployCmd, backoff, toDev>>
  BY <1>1, <1>2, <1>3, <1>4, SharedKept DEF shared, wire
<1>5. CASE deployTimeout = 0 /\ BeginDeploy
  <2>1. Len(toDev) + Len(fromDev') <= MaxLate
    BY <1>1, <1>5 DEF IInv, OnTheWire, InFlight
  <2> QED
    BY <1>1, <1>2, <1>5, <2>1, BeginDeployInv
<1>6. deployTimeout \in Nat
  BY DEF IInv, TypeOK, BackoffTypes
<1> QED
  BY <1>1, <1>4, <1>5, <1>6 DEF CheckDeployed, ensureDeployed

\* The first answer on the wire: if it is the expected one, what is left on the
\* wire after it is at most the GetHash of a new attempt.
LEMMA FirstAnswer ==
  ASSUME MaxLate <= 1, IInv, fromDev # <<>>
  PROVE  /\ Head(fromDev) = fromDev[1] /\ Len(fromDev) > 0
         /\ Len(Tail(fromDev)) = Len(fromDev) - 1
         /\ Tail(fromDev) = <<>> => Len(fromDev) = 1
         /\ \A i \in 1..Len(Tail(fromDev)) : Tail(fromDev)[i] = fromDev[i + 1]
         /\ Len(toDev) + Len(Tail(fromDev)) <= MaxLate
         /\ Head(fromDev).cmd = deployCmd =>
              /\ deployCmd # Idle /\ deployNumFail # 0
              /\ deployCmd # "GetHash" => toDev = <<>> /\ Tail(fromDev) = <<>>
<1>1. /\ fromDev \in Seq(FromDevMsgs) /\ Len(fromDev) > 0
      /\ Len(toDev) \in Nat /\ Len(fromDev) \in Nat /\ InFlight = Len(toDev) + Len(fromDev)
  BY WireLengths DEF IInv, TypeOK, WireTypes
<1>2. /\ Head(fromDev) = fromDev[1] /\ Len(Tail(fromDev)) = Len(fromDev) - 1
      /\ Head(fromDev) \in FromDevMsgs /\ Tail(fromDev) \in Seq(FromDevMsgs)
      /\ \A i \in 1..Len(Tail(fromDev)) : Tail(fromDev)[i] = fromDev[i + 1]
  BY <1>1, FirstOut
<1>3. Len(toDev) + Len(Tail(fromDev)) <= MaxLate
  BY <1>1, <1>2 DEF IInv, OnTheWire
<1>4. ASSUME Head(fromDev).cmd = deployCmd
      PROVE  deployCmd # Idle /\ deployNumFail # 0
  BY <1>2, <1>4 DEF FromDevMsgs, DeployCmds, Idle, IInv, InStep
<1>5. ASSUME Head(fromDev).cmd = deployCmd, deployCmd # "GetHash"
      PROVE  toDev = <<>> /\ Tail(fromDev) = <<>>
  <2>1. InFlight <= 1
    BY <1>1, <1>2, <1>4, <1>5 DEF IInv, OnTheWire
  <2>2. Len(toDev) = 0 /\ Len(Tail(fromDev)) = 0
    BY <1>1, <1>2, <2>1
  <2> QED
    BY <1>2, <2>2, EmptySeq, WireLengths DEF IInv
<1>6. ASSUME Tail(fromDev) = <<>>
      PROVE  Len(fromDev) = 1
  <2>1. Len(Tail(fromDev)) = 0
    BY <1>2, <1>6, EmptySeq, Zenon
  <2>2. \A n \in Nat : n - 1 = 0 => n = 1
    OBVIOUS
  <2> QED
    BY <1>1, <1>2, <2>1, <2>2, Zenon
<1> QED
  BY <1>1, <1>2, <1>3, <1>4, <1>5, <1>6

\* An answer is taken and deployStep is left with nothing to wait for.
LEMMA TakenInv ==
  ASSUME MaxLate <= 1, IInv, TypeOK', fromDev # <<>>, Receive, UNCHANGED toDev,
         deployCmd' = Idle,
         deployNumFail' = 0 => deployNumFail = 0 \/ deployCmd = "GetHash"
  PROVE  OnTheWire' /\ InStep'
<1>1. /\ Len(toDev) \in Nat /\ Len(fromDev) \in Nat /\ Len(fromDev) > 0
      /\ Len(fromDev') = Len(fromDev) - 1
      /\ \A i \in 1..Len(fromDev') : fromDev'[i] = fromDev[i + 1]
      /\ Len(toDev) + Len(fromDev') <= MaxLate
      /\ MaxLate \in Nat
  BY FirstAnswer, WireLengths DEF IInv, Receive
<1>2. connected /\ connected' /\ UNCHANGED <<devImage, devPart, stage>>
  BY DEF Receive, calls, device
<1>3. OnTheWire'
  BY <1>1 DEF OnTheWire, InFlight
<1>4. ASSUME deployNumFail' = 0, NEW i \in 1..Len(toDev)
      PROVE  toDev[i].cmd = "GetHash"
  <2>1. CASE deployNumFail = 0
    BY <1>4, <2>1 DEF IInv, InStep
  <2>2. CASE deployCmd = "GetHash"
    <3>1. Len(toDev) + Len(fromDev') <= 1 /\ Len(fromDev') \in Nat
      BY <1>1
    <3>2. Len(toDev) = 1 /\ i = 1
      BY <1>1, <3>1, OnlyOne, Zenon
    <3> QED
      BY <2>2, <3>2, WireLengths DEF IInv, OnTheWire, Idle
  <2> QED
    BY <1>4, <2>1, <2>2
<1>5. ASSUME NEW i \in 1..Len(fromDev'), fromDev'[i].cmd = "GetHash"
      PROVE  fromDev'[i].hash = devImage
  <2>1. i = 1 /\ Len(fromDev) = 2 /\ Len(toDev) = 0 /\ fromDev'[i] = fromDev[2]
    BY <1>1
  <2>2. deployCmd # "DeployStart"
    BY <1>5, <2>1, WireLengths DEF IInv, OnTheWire, Idle
  <2> QED
    BY <1>5, <2>1, <2>2 DEF IInv, InStep
<1>6. InStep'
  BY <1>1, <1>2, <1>4, <1>5 DEF IInv, InStep, Idle
<1> QED
  BY <1>3, <1>6

\* A step of deployStep() keeps the invariant.
LEMMA DeployStepInv ==
  ASSUME MaxLate <= 1, IInv, TypeOK', DeployStep
  PROVE  OnTheWire' /\ InStep' /\ ConfirmedHeld' /\ ChunksInOrder'
<1> DEFINE m == Head(fromDev)
<1>1. /\ fromDev # <<>> /\ m = fromDev[1] /\ Len(fromDev) > 0
      /\ Len(toDev) \in Nat /\ Len(fromDev) \in Nat /\ MaxLate \in Nat
      /\ Len(Tail(fromDev)) = Len(fromDev) - 1
      /\ Tail(fromDev) = <<>> => Len(fromDev) = 1
      /\ \A i \in 1..Len(Tail(fromDev)) : Tail(fromDev)[i] = fromDev[i + 1]
      /\ Len(toDev) + Len(Tail(fromDev)) <= MaxLate
      /\ m.cmd = deployCmd =>
           /\ deployCmd # Idle /\ deployNumFail # 0
           /\ deployCmd # "GetHash" => toDev = <<>> /\ Tail(fromDev) = <<>>
  BY FirstAnswer, WireLengths DEF DeployStep, IInv
<1>2. \/ Unexpected(m) \/ NothingLoaded(m) \/ HashMatches(m)
      \/ HashDiffers(m) \/ NextChunk(m) \/ Deployed(m)
  BY DEF DeployStep
<1>3. Receive
  BY <1>2, ReceiveInStep
<1>4. /\ fromDev' = Tail(fromDev) /\ connected /\ connected'
      /\ UNCHANGED <<devImage, devPart, stage>>
  BY <1>3 DEF Receive, calls, device
<1>5. TypeOK
  BY DEF IInv
<1> HIDE DEF m
<1>6. ChunksInOrder'
  BY <1>4 DEF IInv, ChunksInOrder
<1>7. deployNumFail' # 0 => ConfirmedHeld'
  BY DEF ConfirmedHeld, Confirmed
<1>8. CASE Unexpected(m)
  <2>1. deployCmd' = Idle /\ UNCHANGED <<toDev, deployedHash>>
    BY <1>8 DEF Unexpected, deployFail
  <2>2. deployNumFail' = 0 => deployNumFail = 0
    BY <1>5, <1>8, ArmBackoffType DEF TypeOK, Unexpected, deployFail, backoff
  <2>3. ConfirmedHeld'
    BY <1>4, <2>1, <2>2 DEF IInv, ConfirmedHeld, Confirmed
  <2> QED
    BY <1>1, <1>3, <1>6, <2>1, <2>2, <2>3, TakenInv
<1>9. CASE NothingLoaded(m)
  <2>1. /\ m.cmd = deployCmd /\ UNCHANGED <<deployPtr, deployCmd, deployNumFail, deployTimeout, toDev>>
    BY <1>9 DEF NothingLoaded, Expected, backoff
  <2>2. deployNumFail' # 0
    BY <1>1, <2>1
  <2>3. OnTheWire'
    BY <1>1, <1>4, <2>1, WireLengths DEF IInv, OnTheWire, InFlight
  <2>4. InStep'
    BY <1>1, <1>4, <2>1, <2>2 DEF IInv, InStep
  <2> QED
    BY <1>6, <1>7, <2>2, <2>3, <2>4
<1>10. CASE HashMatches(m)
  <2>1. /\ m.cmd = "GetHash" /\ deployCmd = "GetHash" /\ UNCHANGED toDev
        /\ deployCmd' = Idle /\ deployedHash' = m.hash
    BY <1>10 DEF HashMatches, Expected
  <2>2. OnTheWire' /\ InStep'
    BY <1>1, <1>3, <2>1, TakenInv
  <2>3. m.hash = devImage
    BY <1>1, <2>1 DEF IInv, InStep
  <2>4. m.hash \in {Program(v) : v \in Versions}
    BY <1>5, <1>10 DEF TypeOK, EngineTypes, Rows, HashMatches
  <2>5. ConfirmedHeld'
    BY <1>4, <2>1, <2>3, <2>4 DEF ConfirmedHeld
  <2> QED
    BY <1>6, <2>2, <2>5
<1>11. CASE HashDiffers(m)
  <2>1. /\ m.cmd = "GetHash" /\ deployCmd = "GetHash" /\ UNCHANGED deployPtr
    BY <1>11 DEF HashDiffers, Expected
  <2>2. CASE secondTry
    <3>1. deployCmd' = Idle /\ UNCHANGED toDev
      BY <1>11, <2>2 DEF HashDiffers, deployFail
    <3>2. deployNumFail' # 0
      BY <1>5, <1>11, <2>2, ArmBackoffType DEF TypeOK, HashDiffers, deployFail
    <3> QED
      BY <1>1, <1>3, <1>6, <1>7, <3>1, <3>2, TakenInv
  <2>3. CASE ~secondTry
    <3>1. /\ toDev' = Append(toDev, ToDev("DeployStart")) /\ deployCmd' = "DeployStart"
          /\ UNCHANGED <<deployNumFail, deployTimeout>>
      BY <1>11, <2>3 DEF HashDiffers, SendDeployCmd, ToDev, backoff
    <3>2. toDev \in Seq(ToDevMsgs)
      BY <1>5 DEF TypeOK, WireTypes
    <3>3. /\ Len(toDev') = Len(toDev) + 1 /\ toDev' # <<>>
          /\ toDev'[Len(toDev')].cmd = "DeployStart"
          /\ \A i \in 1..Len(toDev) : toDev'[i] = toDev[i]
          /\ \A i \in 1..Len(toDev') : i = Len(toDev') \/ i \in 1..Len(toDev)
      BY <1>1, <3>1, <3>2 DEF ToDev
    <3>4. InFlight' = InFlight /\ InFlight = Len(toDev) + Len(fromDev)
      BY <1>1, <1>4, <1>5, <3>3, WireLengths DEF InFlight
    <3>5. \A i \in 1..Len(toDev) : toDev[i].cmd = "GetHash"
      <4> SUFFICES ASSUME NEW i \in 1..Len(toDev) PROVE toDev[i].cmd = "GetHash"
        OBVIOUS
      <4>1. Len(toDev) + Len(Tail(fromDev)) <= 1 /\ Len(Tail(fromDev)) \in Nat
        BY <1>1
      <4>2. Len(toDev) = 1 /\ i = 1
        BY <1>1, <4>1, OnlyOne, Zenon
      <4> QED
        BY <1>5, <2>1, <4>2, WireLengths DEF IInv, OnTheWire, Idle
    <3>6. \A i \in 1..Len(fromDev') : fromDev'[i].cmd \in {"GetHash", "Error"}
      <4> SUFFICES ASSUME NEW i \in 1..Len(fromDev') PROVE fromDev'[i].cmd \in {"GetHash", "Error"}
        OBVIOUS
      <4>1. i = 1 /\ Len(fromDev) = 2 /\ Len(toDev) = 0 /\ fromDev'[i] = fromDev[2]
        BY <1>1, <1>4
      <4> QED
        BY <1>5, <2>1, <4>1, WireLengths DEF IInv, OnTheWire, Idle
    <3>7. OnTheWire'
      <4>1. InFlight' <= MaxLate + 1 /\ (deployTimeout' = 0 => InFlight' <= MaxLate)
        BY <3>1, <3>4 DEF IInv, OnTheWire
      <4>2. ASSUME InFlight' > 1
            PROVE  IF fromDev' = <<>> THEN toDev'[1].cmd = "GetHash"
                                      ELSE fromDev'[1].cmd \in {"GetHash", "Error"}
        <5>1. CASE fromDev' = <<>>
          <6>2. Len(toDev) + Len(fromDev) > 1
            BY <3>4, <4>2, Zenon
          <6>3. Len(fromDev) = 1
            BY <1>1, <1>4, <5>1, Zenon
          <6>4. Len(toDev) > 0
            <7>1. \A a, b \in Nat : a + b > 1 /\ b = 1 => a > 0
              OBVIOUS
            <7> QED
              BY <1>1, <6>2, <6>3, <7>1, Zenon
          <6> QED
            BY <1>1, <3>3, <3>5, <5>1, <6>4
        <5>2. CASE fromDev' # <<>>
          <6>1. Len(fromDev') > 0
            BY <5>2, WireLengths, <1>1, <1>4, EmptySeq, FirstOut DEF IInv, TypeOK, WireTypes
          <6> QED
            BY <1>1, <1>4, <3>6, <5>2, <6>1
        <5> QED
          BY <5>1, <5>2
      <4> QED
        BY <3>1, <3>3, <4>1, <4>2 DEF OnTheWire, Idle
    <3>8. deployNumFail' # 0 /\ deployPtr' = 0
      BY <1>1, <2>1, <3>1 DEF IInv, InStep
    <3>9. InStep'
      BY <1>4, <3>1, <3>3, <3>5, <3>6, <3>8 DEF IInv, InStep
    <3> QED
      BY <1>6, <1>7, <3>7, <3>8, <3>9
  <2> QED
    BY <2>2, <2>3
<1>12. ASSUME m.cmd = deployCmd, NEW c, SendDeployCmd(c), UNCHANGED backoff,
              \/ /\ c.cmd = "DeployWrite" /\ deployPtr' = Len(devPart) + 1
                 /\ c.chunk[2] = deployPtr'
              \/ c.cmd = "DeployFinish",
              deployCmd # "GetHash"
       PROVE  OnTheWire' /\ InStep' /\ ConfirmedHeld' /\ ChunksInOrder'
  <2>1. /\ toDev' = <<c>> /\ fromDev' = <<>> /\ deployCmd' = c.cmd
        /\ deployNumFail' # 0 /\ UNCHANGED deployTimeout
    BY <1>1, <1>4, <1>12 DEF SendDeployCmd, backoff
  <2>2. Len(toDev') = 1 /\ toDev'[1] = c /\ Len(fromDev') = 0
    BY <2>1
  <2>3. InFlight = 1 /\ InFlight' = 1
    <3>1. toDev = <<>> /\ Tail(fromDev) = <<>>
      BY <1>1, <1>12
    <3>2. Len(toDev) = 0 /\ Len(fromDev) = 1
      BY <1>1, <3>1
    <3> QED
      BY <2>2, <3>2 DEF InFlight
  <2>4. OnTheWire'
    BY <1>1, <1>12, <2>1, <2>2, <2>3 DEF IInv, OnTheWire, Idle
  <2>5. InStep'
    BY <1>4, <1>12, <2>1, <2>2 DEF IInv, InStep
  <2> QED
    BY <1>6, <1>7, <2>1, <2>4, <2>5
<1>13. CASE NextChunk(m)
  <2> DEFINE c == [cmd |-> "DeployWrite", chunk |-> <<deployBuffer, deployPtr + 1>>]
  <2>1. m.cmd = deployCmd /\ deployCmd \in {"DeployStart", "DeployWrite"}
    BY <1>13 DEF NextChunk, Expected
  <2>2. CASE deployPtr < Size[deployBuffer]
    <3>1. deployPtr = Len(devPart)
      BY <1>1, <2>1 DEF IInv, InStep, Blank
    <3>2. /\ SendDeployCmd(c) /\ UNCHANGED backoff
          /\ c.cmd = "DeployWrite" /\ deployPtr' = Len(devPart) + 1 /\ c.chunk[2] = deployPtr'
      BY <1>13, <2>2, <3>1 DEF NextChunk
    <3> HIDE DEF c
    <3> QED
      BY <1>12, <2>1, <3>2
  <2>3. CASE ~(deployPtr < Size[deployBuffer])
    <3>1. /\ SendDeployCmd(ToDev("DeployFinish")) /\ UNCHANGED backoff
          /\ ToDev("DeployFinish").cmd = "DeployFinish"
      BY <1>13, <2>3 DEF NextChunk, ToDev
    <3> QED
      BY <1>12, <2>1, <3>1
  <2> QED
    BY <2>2, <2>3
<1>14. CASE Deployed(m)
  <2>1. m.cmd = deployCmd /\ deployCmd = "DeployFinish" /\ BeginDeploy
    BY <1>14 DEF Deployed, Expected
  <2>2. toDev = <<>> /\ fromDev' = <<>>
    BY <1>1, <1>4, <2>1
  <2>3. Len(toDev) + Len(fromDev') <= MaxLate
    BY <1>1, <1>4
  <2> QED
    BY <1>4, <2>1, <2>2, <2>3, BeginDeployInv
<1> QED
  BY <1>2, <1>8, <1>9, <1>10, <1>11, <1>13, <1>14

\* What the answer to the first command on the wire preserves.
LEMMA AnswerInv ==
  ASSUME MaxLate <= 1, IInv, TypeOK', toDev # <<>>,
         NEW a, Answer(a), a.cmd \in {toDev[1].cmd, "Error"},
         toDev[1].cmd = "GetHash" => devImage' = devImage,
         \A i \in 1..Len(devPart') : devPart'[i][2] = i,
         a.cmd = "GetHash" => a.hash = devImage',
         a.cmd = "DeployStart" => devPart' = Blank,
         a.cmd = "DeployWrite" /\ deployCmd = "DeployWrite" => deployPtr = Len(devPart')
  PROVE  OnTheWire' /\ InStep' /\ ConfirmedHeld' /\ ChunksInOrder'
<1>1. /\ toDev \in Seq(ToDevMsgs) /\ fromDev \in Seq(FromDevMsgs)
      /\ toDev' = Tail(toDev) /\ fromDev' = Append(fromDev, a)
      /\ connected /\ connected'
      /\ UNCHANGED <<deployPtr, deployCmd, deployedHash, deployNumFail, deployTimeout, stage>>
  BY DEF Answer, engine, backoff, calls, IInv, TypeOK, WireTypes
<1>2. /\ Len(toDev) \in Nat /\ Len(fromDev) \in Nat /\ Len(toDev) > 0 /\ MaxLate \in Nat
      /\ Len(toDev') = Len(toDev) - 1 /\ Len(fromDev') = Len(fromDev) + 1
      /\ \A i \in 1..Len(toDev') : toDev'[i] = toDev[i + 1]
  BY <1>1, FirstOut, WireLengths DEF IInv
<1>3. /\ fromDev'[Len(fromDev')] = a /\ Len(fromDev') > 0
      /\ \A i \in 1..Len(fromDev) : fromDev'[i] = fromDev[i]
      /\ \A i \in 1..Len(fromDev') : i = Len(fromDev') \/ i \in 1..Len(fromDev)
  BY <1>1, <1>2
<1>4. /\ InFlight = Len(toDev) + Len(fromDev) /\ InFlight' = InFlight
      /\ InFlight <= MaxLate + 1 /\ (deployCmd = Idle => InFlight <= MaxLate)
      /\ toDev' = <<>> => Len(toDev) = 1
      /\ toDev' # <<>> => Len(toDev') > 0
      /\ fromDev' # <<>>
  <2>1. InFlight' = InFlight
    BY <1>2 DEF InFlight
  <2>2. /\ toDev' \in Seq(ToDevMsgs) /\ fromDev' \in Seq(FromDevMsgs)
    BY DEF TypeOK, WireTypes
  <2>3. (toDev' # <<>> => Len(toDev') \in Nat \ {0}) /\ Len(<<>>) = 0
    BY <2>2, EmptySeq
  <2>4. ASSUME toDev' = <<>> PROVE Len(toDev) = 1
    <3>1. Len(toDev') = 0
      BY <2>3, <2>4, Zenon
    <3>2. \A n \in Nat : n - 1 = 0 => n = 1
      OBVIOUS
    <3> QED
      BY <1>2, <3>1, <3>2, Zenon
  <2>5. \A n \in Nat \ {0} : n > 0
    OBVIOUS
  <2>6. toDev' # <<>> => Len(toDev') > 0
    BY <2>3, <2>5, Zenon
  <2>7. fromDev' # <<>>
    <3> SUFFICES ASSUME fromDev' = <<>> PROVE FALSE
      OBVIOUS
    <3>1. Len(fromDev') = 0
      BY <2>3, Zenon
    <3> QED
      BY <1>3, <3>1
  <2> QED
    BY <2>1, <2>4, <2>6, <2>7, WireLengths DEF IInv, OnTheWire
<1>5. deployCmd # Idle => toDev[Len(toDev)].cmd = deployCmd
  BY DEF IInv, OnTheWire
<1>6. InFlight > 1 => deployCmd \in {"GetHash", "DeployStart"}
  BY DEF IInv, OnTheWire
<1>7. ASSUME toDev' # <<>>
      PROVE  /\ Len(toDev') = 1 /\ toDev'[1] = toDev[Len(toDev)] /\ Len(toDev) = 2
             /\ toDev'[1].cmd = deployCmd /\ deployCmd \in {"GetHash", "DeployStart"}
  <2>1. Len(toDev) + Len(fromDev) <= 2 /\ Len(toDev) - 1 > 0
    BY <1>2, <1>4, <1>7
  <2>2. \A n, k \in Nat : n + k <= 2 /\ n - 1 > 0 => n = 2 /\ n - 1 = 1 /\ n + k = 2
    OBVIOUS
  <2>3. Len(toDev) = 2 /\ Len(toDev') = 1 /\ InFlight = 2
    BY <1>2, <1>4, <2>1, <2>2, Zenon
  <2>4. deployCmd # Idle
    BY <1>2, <1>4, <2>3
  <2>5. toDev'[1] = toDev[2]
    BY <1>2, <2>3
  <2> QED
    BY <1>5, <1>6, <2>3, <2>4, <2>5
<1>8. ASSUME NEW i \in 1..Len(fromDev)
      PROVE  /\ i = 1 /\ fromDev # <<>> /\ InFlight = 2
             /\ toDev[1].cmd = deployCmd /\ deployCmd \in {"GetHash", "DeployStart"}
  <2>1. Len(toDev) + Len(fromDev) <= 2 /\ Len(toDev) > 0
    BY <1>2, <1>4
  <2>2. \A n, k \in Nat : \A j \in 1..k :
          n + k <= 2 /\ n > 0 => n = 1 /\ k = 1 /\ j = 1 /\ n + k = 2
    OBVIOUS
  <2>3. Len(toDev) = 1 /\ Len(fromDev) = 1 /\ i = 1 /\ InFlight = 2
    BY <1>2, <1>4, <2>1, <2>2, Zenon
  <2>4. deployCmd # Idle /\ fromDev # <<>>
    BY <1>2, <1>4, <2>3, WireLengths DEF IInv
  <2> QED
    BY <1>5, <1>6, <2>3, <2>4
<1>9. OnTheWire'
  <2>1. ASSUME deployCmd # Idle
        PROVE  /\ toDev' # <<>> => toDev'[Len(toDev')].cmd = deployCmd
               /\ toDev' = <<>> => fromDev'[Len(fromDev')].cmd \in {deployCmd, "Error"}
    BY <1>3, <1>4, <1>5, <1>7, <2>1
  <2>2. ASSUME InFlight > 1, deployCmd = "DeployStart"
        PROVE  fromDev'[1].cmd \in {"GetHash", "Error"}
    <3>1. CASE fromDev = <<>>
      <4>1. Len(fromDev) = 0 /\ toDev[1].cmd = "GetHash"
        BY <2>2, <3>1, WireLengths DEF IInv, OnTheWire
      <4> QED
        BY <1>2, <1>3, <4>1
    <3>2. CASE fromDev # <<>>
      <4>1. 1 \in 1..Len(fromDev) /\ fromDev[1].cmd \in {"GetHash", "Error"}
        BY <1>2, <2>2, <3>2, WireLengths DEF IInv, OnTheWire
      <4> QED
        BY <1>3, <4>1
    <3> QED
      BY <3>1, <3>2
  <2> QED
    BY <1>1, <1>4, <1>6, <2>1, <2>2 DEF IInv, OnTheWire
<1>10. InStep'
  <2>1. ASSUME NEW i \in 1..Len(toDev')
        PROVE  toDev'[i].cmd # "DeployWrite" /\ i + 1 \in 1..Len(toDev)
    <3>1. toDev' # <<>>
      <4>1. Len(<<>>) = 0 /\ \A n : \A j \in 1..n : n # 0
        OBVIOUS
      <4> QED
        BY <4>1, Zenon
    <3>2. \A j \in 1..1 : j = 1
      OBVIOUS
    <3>3. i = 1 /\ Len(toDev) = 2
      BY <1>7, <3>1, <3>2, Zenon
    <3> QED
      BY <1>7, <3>1, <3>3
  <2>2. ASSUME NEW i \in 1..Len(fromDev')
        PROVE  /\ fromDev'[i].cmd = "GetHash" /\ deployCmd # "DeployStart"
                    => fromDev'[i].hash = devImage'
               /\ fromDev'[i].cmd = "DeployStart" /\ deployCmd = "DeployStart" => devPart' = Blank
               /\ fromDev'[i].cmd = "DeployWrite" /\ deployCmd = "DeployWrite"
                    => deployPtr = Len(devPart')
    <3>1. CASE i \in 1..Len(fromDev)
      <4>1. fromDev'[i] = fromDev[i] /\ i = 1
        BY <1>3, <1>8, <3>1
      <4>2. deployCmd = "DeployStart" => fromDev[1].cmd \in {"GetHash", "Error"}
        BY <1>8, <3>1 DEF IInv, OnTheWire
      <4> QED
        BY <1>8, <3>1, <4>1, <4>2 DEF IInv, InStep
    <3>2. CASE i = Len(fromDev')
      BY <1>3, <3>2
    <3> QED
      BY <1>3, <3>1, <3>2
  <2>3. deployNumFail = 0 => \A i \in 1..Len(toDev') : toDev'[i].cmd = "GetHash"
    BY <1>2, <2>1 DEF IInv, InStep
  <2> QED
    BY <1>1, <2>1, <2>2, <2>3 DEF IInv, InStep
<1>11. ConfirmedHeld'
  <2>1. deployNumFail = 0 => devImage' = devImage
    BY <1>2 DEF IInv, InStep
  <2> QED
    BY <1>1, <2>1 DEF IInv, ConfirmedHeld, Confirmed
<1> QED
  BY <1>9, <1>10, <1>11 DEF ChunksInOrder

\* A step of the device keeps the invariant.
LEMMA DeviceStepInv ==
  ASSUME MaxLate <= 1, IInv, TypeOK', DeviceStep
  PROVE  OnTheWire' /\ InStep' /\ ConfirmedHeld' /\ ChunksInOrder'
<1> DEFINE m == Head(toDev)
<1>1. toDev \in Seq(ToDevMsgs) /\ toDev # <<>> /\ devPart \in Images
  BY DEF IInv, TypeOK, WireTypes, DeviceTypes, DeviceStep
<1>2. m \in ToDevMsgs /\ m = toDev[1] /\ Len(toDev) > 0 /\ Len(toDev) \in Nat
  BY <1>1, FirstOut, WireLengths DEF IInv
<1>3. m.cmd \in DeployCmds /\ m.cmd # "Error"
  BY <1>2 DEF ToDevMsgs, DeployCmds
<1> HIDE DEF m
<1>4. CASE Serve(m)
  <2> DEFINE a == [cmd |-> m.cmd, hash |-> IF m.cmd = "GetHash" THEN devImage ELSE None]
  <2>1. Answer(a) /\ a.cmd = m.cmd /\ a.cmd = toDev[1].cmd
    BY <1>2, <1>4 DEF Serve
  <2>2. CASE m.cmd = "GetHash"
    <3>1. a.hash = devImage' /\ devImage' = devImage /\ devPart' = devPart
      BY <1>4, <2>2 DEF Serve, device
    <3> HIDE DEF a
    <3> QED
      BY <1>1, <1>2, <2>1, <2>2, <3>1, AnswerInv DEF IInv, ChunksInOrder
  <2>3. CASE m.cmd = "DeployStart"
    <3>1. devPart' = Blank
      BY <1>4, <2>3 DEF Serve
    <3>2. Len(devPart') = 0
      BY <3>1 DEF Blank
    <3> HIDE DEF a
    <3> QED
      BY <1>1, <1>2, <2>1, <2>3, <3>1, <3>2, AnswerInv
  <2>4. CASE m.cmd = "DeployWrite"
    <3>1. devPart' = Append(devPart, m.chunk) /\ m.chunk[2] = Len(devPart) + 1
      <4>1. devPart' = Append(devPart, m.chunk)
        BY <1>4, <2>4 DEF Serve
      <4> QED
        BY <1>2, <2>4, <4>1 DEF IInv, InStep
    <3>2. Len(devPart') = Len(devPart) + 1
      BY <1>1, <3>1 DEF Images
    <3>3. \A i \in 1..Len(devPart') : devPart'[i][2] = i
      BY <1>1, <3>1, <3>2 DEF IInv, ChunksInOrder, Images
    <3>4. deployCmd = "DeployWrite" => deployPtr = Len(devPart')
      BY <1>2, <2>4, <3>2 DEF IInv, InStep
    <3> HIDE DEF a
    <3> QED
      BY <1>1, <1>2, <2>1, <2>4, <3>3, <3>4, AnswerInv
  <2>5. CASE m.cmd = "DeployFinish"
    <3>1. Len(devPart') = 0
      BY <1>4, <2>5 DEF Serve, Blank
    <3> HIDE DEF a
    <3> QED
      BY <1>1, <1>2, <2>1, <2>5, <3>1, AnswerInv
  <2> QED
    BY <1>3, <2>2, <2>3, <2>4, <2>5 DEF DeployCmds
<1>5. CASE Refuse(m)
  <2>1. /\ Answer(FromDev("Error")) /\ FromDev("Error").cmd = "Error"
        /\ devPart' = devPart \/ Len(devPart') = 0
        /\ m.cmd = "GetHash" => devImage' = devImage
    BY <1>5 DEF Refuse, FromDev, Blank
  <2>2. \A i \in 1..Len(devPart') : devPart'[i][2] = i
    BY <2>1 DEF IInv, ChunksInOrder
  <2> QED
    BY <1>1, <1>2, <2>1, <2>2, AnswerInv
<1> QED
  BY <1>4, <1>5 DEF DeviceStep, m

\* The steps of the row, of calls that begin, of the clock and of the connections.
LEMMA QuietStepInv ==
  ASSUME MaxLate <= 1, IInv, TypeOK',
         \/ \E r \in Rows : Patch(r) \/ WriteBack(r) \/ Publish(r)
         \/ \E s \in Slots : Subscribed(s) \/ HelloRead(s) \/ HelloSync(s)
         \/ SlowTick \/ PatchOther \/ DeviceTalks \/ Tick \/ Connect
         \/ Disconnect \/ Reconnect \/ OldCallEnds \/ OldCallArms \/ OlderCloses
  PROVE  OnTheWire' /\ InStep' /\ ConfirmedHeld' /\ ChunksInOrder'
<1>1. /\ stage \in [Slots -> Stages]
      /\ \A s \in Slots : stage[s] # "free" => connected
  BY DEF IInv, TypeOK, CallTypes, InStep
<1>2. CASE \/ SlowTick \/ PatchOther \/ DeviceTalks \/ OldCallEnds \/ OlderCloses
           \/ \E r \in Rows : Patch(r) \/ WriteBack(r)
  <2>1. UNCHANGED shared /\ UNCHANGED <<connected, stage>>
    BY <1>2 DEF SlowTick, PatchOther, DeviceTalks, OldCallEnds, OlderCloses, Patch, WriteBack,
                shared, engine, wire, device, calls
  <2> QED
    BY <1>1, <2>1, SharedKept
<1>3. ASSUME NEW r \in Rows, Publish(r)
      PROVE  OnTheWire' /\ InStep' /\ ConfirmedHeld' /\ ChunksInOrder'
  <2>1. UNCHANGED shared /\ UNCHANGED connected
    BY <1>3 DEF Publish, StartSync, shared, engine, wire, device
  <2>2. \A t \in Slots : stage'[t] # "free" => connected
    <3>1. CASE connected /\ r # None
      BY <3>1
    <3>2. CASE ~(connected /\ r # None)
      BY <1>1, <1>3, <3>2 DEF Publish, calls
    <3> QED
      BY <3>1, <3>2
  <2> QED
    BY <2>1, <2>2, SharedKept
<1>4. ASSUME NEW s \in Slots, Subscribed(s) \/ HelloRead(s) \/ HelloSync(s)
      PROVE  OnTheWire' /\ InStep' /\ ConfirmedHeld' /\ ChunksInOrder'
  <2>1. UNCHANGED shared /\ UNCHANGED connected /\ connected
    BY <1>1, <1>4 DEF Subscribed, HelloRead, HelloSync, StartSync, shared, engine, wire, device
  <2> QED
    BY <2>1, SharedKept
<1>5. CASE OldCallArms
  <2>1. UNCHANGED <<deployPtr, deployCmd, deployedHash, wire, devImage, devPart, connected, stage>>
    BY <1>5 DEF OldCallArms, engine, device, calls
  <2>2. deployNumFail' # 0 /\ deployTimeout' > 0
    BY <1>5, ArmBackoffType DEF OldCallArms, IInv, TypeOK
  <2>3. OnTheWire'
    BY <2>1, <2>2 DEF IInv, OnTheWire, InFlight, wire
  <2>4. InStep'
    BY <1>1, <2>1, <2>2 DEF IInv, InStep, InFlight, wire
  <2>5. ConfirmedHeld' /\ ChunksInOrder'
    BY <2>1, <2>2 DEF IInv, ConfirmedHeld, Confirmed, ChunksInOrder
  <2> QED
    BY <2>3, <2>4, <2>5
<1>6. CASE Tick
  <2>1. /\ UNCHANGED <<deployPtr, deployCmd, deployedHash, wire, devImage, devPart>>
        /\ UNCHANGED <<connected, stage, deployNumFail>>
    BY <1>6 DEF Tick, engine, device, calls
  <2>2. deployTimeout' = 0 => InFlight <= MaxLate
    BY <1>6 DEF Tick, IInv, TypeOK, BackoffTypes
  <2>3. OnTheWire'
    BY <2>1, <2>2 DEF IInv, OnTheWire, InFlight, wire
  <2>4. InStep'
    BY <2>1 DEF IInv, InStep, InFlight, wire
  <2>5. ConfirmedHeld' /\ ChunksInOrder'
    BY <2>1 DEF IInv, ConfirmedHeld, Confirmed, ChunksInOrder
  <2> QED
    BY <2>3, <2>4, <2>5
<1>7. CASE Disconnect \/ Reconnect
  <2>1. Left /\ \A t \in Slots : stage'[t] # "free" => connected'
    BY <1>7 DEF Disconnect, Reconnect, Left
  <2>2. /\ Len(toDev') = 0 /\ Len(fromDev') = 0 /\ deployCmd' = Idle /\ deployPtr' = 0
        /\ deployedHash' = None /\ toDev' = <<>> /\ fromDev' = <<>> /\ Len(devPart') = 0
    BY <2>1 DEF Left, Blank
  <2>3. OnTheWire' /\ InStep'
    BY <2>1, <2>2 DEF OnTheWire, InStep, InFlight, Idle
  <2>4. ConfirmedHeld' /\ ChunksInOrder'
    BY <2>2 DEF ConfirmedHeld, Confirmed, ChunksInOrder
  <2> QED
    BY <2>3, <2>4
<1>8. CASE Connect
  <2>1. UNCHANGED shared /\ connected'
    BY <1>8 DEF Connect, shared, engine, device
  <2> QED
    BY <2>1, SharedKept
<1> QED
  BY <1>2, <1>3, <1>4, <1>5, <1>6, <1>7, <1>8

\* Every step keeps the invariant, when at most one message is late.
LEMMA NextInv ==
  ASSUME MaxLate <= 1
  PROVE  IInv /\ [Next]_vars => IInv'
<1> SUFFICES ASSUME IInv, [Next]_vars PROVE IInv'
  OBVIOUS
<1>1. TypeOK'
  BY NextType DEF IInv
<1>2. CASE \/ \E r \in Rows : Patch(r) \/ WriteBack(r) \/ Publish(r)
           \/ \E s \in Slots : Subscribed(s) \/ HelloRead(s) \/ HelloSync(s)
           \/ SlowTick \/ PatchOther \/ DeviceTalks \/ Tick \/ Connect
           \/ Disconnect \/ Reconnect \/ OldCallEnds \/ OldCallArms \/ OlderCloses
  BY <1>1, <1>2, QuietStepInv DEF IInv
<1>3. CASE \E s \in Slots : Fetched(s) \/ FetchFailed(s)
  BY <1>1, <1>3, CallInv DEF IInv
<1>4. CASE DeployStep
  BY <1>1, <1>4, DeployStepInv DEF IInv
<1>5. CASE DeviceStep
  BY <1>1, <1>5, DeviceStepInv DEF IInv
<1>6. CASE UNCHANGED vars
  <2>1. /\ UNCHANGED shared /\ UNCHANGED <<connected, stage>>
    BY <1>6 DEF vars, shared, engine, device, calls
  <2>2. \A s \in Slots : stage[s] # "free" => connected
    BY DEF IInv, InStep
  <2> QED
    BY <1>1, <2>1, <2>2, SharedKept DEF IInv
<1> QED
  BY <1>2, <1>3, <1>4, <1>5, <1>6 DEF Next

\* The inductive invariant: types, one command out, device and engine in step.
THEOREM Inductive ==
  ASSUME MaxLate <= 1
  PROVE  Spec => []IInv
<1>1. Init => IInv
  BY InitInv
<1>2. IInv /\ [Next]_vars => IInv'
  BY NextInv
<1> QED
  BY <1>1, <1>2, PTL DEF Spec

\* When the device is never late, one deploy command or answer is on the wire at
\* a time, the one deployStep waits for (sendDeployCmd, and the test of line 215 of wssk.ts).
THEOREM CommandsOutstanding ==
  ASSUME MaxLate = 0
  PROVE  Spec => []OneOutstanding
<1>1. IInv => OneOutstanding
  <2> SUFFICES ASSUME IInv PROVE OneOutstanding
    OBVIOUS
  <2>1. /\ Len(toDev) \in Nat /\ Len(fromDev) \in Nat /\ InFlight = Len(toDev) + Len(fromDev)
        /\ (toDev = <<>> <=> Len(toDev) = 0) /\ (fromDev = <<>> <=> Len(fromDev) = 0)
    BY WireLengths DEF IInv
  <2>2. InFlight <= 1 /\ (deployTimeout = 0 \/ deployCmd = Idle => InFlight = 0)
    BY <2>1 DEF IInv, OnTheWire
  <2>3. ASSUME NEW i \in 1..Len(toDev)
        PROVE  toDev[i].cmd = deployCmd
    <3>1. Len(toDev) = 1 /\ i = 1
      BY <2>1, <2>2, OnlyOne, Zenon
    <3> QED
      BY <2>1, <2>2, <3>1 DEF IInv, OnTheWire
  <2>4. ASSUME NEW i \in 1..Len(fromDev)
        PROVE  deployCmd # Idle /\ fromDev[i].cmd \in {deployCmd, "Error"}
    <3>1. Len(fromDev) + Len(toDev) <= 1
      BY <2>1, <2>2
    <3>2. Len(fromDev) = 1 /\ Len(toDev) = 0 /\ i = 1
      BY <2>1, <3>1, OnlyOne, Zenon
    <3> QED
      BY <2>1, <2>2, <3>2 DEF IInv, OnTheWire
  <2> QED
    BY <2>2, <2>3, <2>4 DEF OneOutstanding
<1>2. Spec => []IInv
  <2>1. MaxLate <= 1
    OBVIOUS
  <2> QED
    BY <2>1, Inductive
<1> QED
  BY <1>1, <1>2, PTL

\* The hash the gateway knows, when no failure is pending, is that of a whole
\* program and of what the device holds (lines 227-243 of wssk.ts).
THEOREM ConfirmedIsHeld ==
  ASSUME MaxLate <= 1
  PROVE  Spec => []ConfirmedHeld
<1>1. IInv => ConfirmedHeld
  BY DEF IInv
<1> QED
  BY <1>1, Inductive, PTL

\* No chunk of an upload is skipped, sent twice or sent out of order, however
\* the loaded program is swapped (deployPtr, lines 189 and 255-276).
THEOREM UploadInOrder ==
  ASSUME MaxLate <= 1
  PROVE  Spec => []ChunksInOrder
<1>1. IInv => ChunksInOrder
  BY DEF IInv
<1> QED
  BY <1>1, Inductive, PTL

\* Only the answer to GetHash, when it differs, has DeployStart sent.
LEMMA EraseOnlyOnMismatch ==
  ASSUME MaxLate <= 1, IInv, [Next]_vars, NEW v \in Versions,
         deployCmd' = "DeployStart", deployCmd # "DeployStart", deployBuffer = v
  PROVE  devImage # Program(v)
<1>1. DeployStep
  <2>1. ASSUME BeginDeploy PROVE FALSE
    BY <2>1 DEF BeginDeploy, SendDeployCmd, ToDev
  <2>2. ASSUME CheckDeployed PROVE FALSE
    BY <2>1, <2>2 DEF CheckDeployed, ensureDeployed
  <2>3. ASSUME NEW s \in Slots, Fetched(s) \/ FetchFailed(s) PROVE FALSE
    BY <2>2, <2>3 DEF Fetched, FetchFailed
  <2>4. ~Disconnect /\ ~Reconnect
    BY DEF Disconnect, Reconnect, Left, Idle
  <2>5. deployCmd' # deployCmd
    OBVIOUS
  <2>6. ASSUME NEW r \in Rows PROVE ~Patch(r) /\ ~WriteBack(r) /\ ~Publish(r)
    BY <2>5 DEF Patch, WriteBack, Publish, StartSync, engine
  <2>7. ASSUME NEW s \in Slots PROVE ~Subscribed(s) /\ ~HelloRead(s) /\ ~HelloSync(s)
    BY <2>5 DEF Subscribed, HelloRead, HelloSync, StartSync, engine
  <2>8. /\ ~SlowTick /\ ~PatchOther /\ ~DeviceTalks /\ ~Tick /\ ~Connect
        /\ ~OldCallEnds /\ ~OldCallArms /\ ~OlderCloses /\ ~UNCHANGED vars
    BY <2>5 DEF SlowTick, PatchOther, DeviceTalks, Tick, Connect,
                OldCallEnds, OldCallArms, OlderCloses, vars, engine
  <2>9. ~DeviceStep
    BY <2>5 DEF DeviceStep, Serve, Refuse, Answer, engine
  <2> QED
    BY <2>3, <2>4, <2>6, <2>7, <2>8, <2>9 DEF Next
<1> DEFINE m == Head(fromDev)
<1>2. Len(fromDev) > 0 /\ m = fromDev[1]
  BY <1>1, FirstAnswer DEF DeployStep
<1>3. HashDiffers(m)
  <2>1. ~Unexpected(m) /\ ~NothingLoaded(m) /\ ~HashMatches(m)
    BY DEF Unexpected, NothingLoaded, HashMatches, deployFail, Idle
  <2>2. ~NextChunk(m)
    BY DEF NextChunk, SendDeployCmd, ToDev
  <2>3. ~Deployed(m)
    BY DEF Deployed, BeginDeploy, SendDeployCmd, ToDev
  <2> QED
    BY <1>1, <2>1, <2>2, <2>3 DEF DeployStep
<1>4. m.hash = devImage
  BY <1>2, <1>3, WireLengths DEF IInv, InStep, HashDiffers, Expected
<1> QED
  BY <1>3, <1>4 DEF HashDiffers

\* A device that holds the loaded program is never told to erase it.
THEOREM EraseJustified ==
  ASSUME MaxLate <= 1
  PROVE  Spec => NoNeedlessErase
<1> DEFINE Justified == \A v \in Versions :
             /\ deployCmd' = "DeployStart" /\ deployCmd # "DeployStart"
             /\ deployBuffer = v
             => devImage # Program(v)
<1>1. IInv /\ [Next]_vars => [Justified]_vars
  BY EraseOnlyOnMismatch
<1> QED
  BY <1>1, Inductive, PTL DEF Spec, NoNeedlessErase

\* The flash changes only when the device carries out a command, and then a
\* failure is pending: the engine vouches for nothing.
LEMMA FlashChange ==
  ASSUME IInv, [Next]_vars, devImage' # devImage
  PROVE  ~Confirmed /\ ~Confirmed'
<1>1. DeviceStep
  <2>1. ASSUME NEW r \in Rows PROVE ~Patch(r) /\ ~WriteBack(r) /\ ~Publish(r)
    BY DEF Patch, WriteBack, Publish, device
  <2>2. ASSUME NEW s \in Slots
        PROVE  /\ ~Subscribed(s) /\ ~HelloRead(s) /\ ~HelloSync(s)
               /\ ~Fetched(s) /\ ~FetchFailed(s)
    BY DEF Subscribed, HelloRead, HelloSync, Fetched, FetchFailed, device
  <2>3. /\ ~SlowTick /\ ~PatchOther /\ ~DeviceTalks /\ ~Tick /\ ~UNCHANGED vars
        /\ ~Connect /\ ~Disconnect /\ ~Reconnect /\ ~OldCallEnds /\ ~OldCallArms /\ ~OlderCloses
    BY DEF SlowTick, PatchOther, DeviceTalks, Tick, vars, device,
           Connect, Disconnect, Reconnect, Left, OldCallEnds, OldCallArms, OlderCloses
  <2>4. ~DeployStep
    BY ReceiveInStep DEF DeployStep, Receive, device
  <2> QED
    BY <2>1, <2>2, <2>3, <2>4 DEF Next
<1> DEFINE m == Head(toDev)
<1>2. m = toDev[1] /\ 1 \in 1..Len(toDev)
  <2>1. toDev \in Seq(ToDevMsgs) /\ toDev # <<>>
    BY <1>1 DEF IInv, TypeOK, WireTypes, DeviceStep
  <2> QED
    BY <2>1, FirstOut, WireLengths DEF IInv
<1>3. m.cmd # "GetHash"
  BY <1>1 DEF DeviceStep, Serve, Refuse, device
<1>4. deployNumFail # 0 /\ deployNumFail' = deployNumFail
  BY <1>1, <1>2, <1>3 DEF IInv, InStep, DeviceStep, Serve, Refuse, Answer, backoff
<1> QED
  BY <1>4 DEF Confirmed

\* Every behaviour of the engine is one DeployPromise allows.
THEOREM PromiseKept ==
  ASSUME MaxLate <= 1
  PROVE  Spec => KeepsPromise
<1> DEFINE word == IF Confirmed THEN deployedHash ELSE None
<1>1. Init => Promise!Init
  <2> SUFFICES ASSUME Init PROVE Promise!Init
    OBVIOUS
  <2>1. devImage \in Images
    BY InitType DEF TypeOK, DeviceTypes
  <2>2. ~Confirmed
    BY DEF Init, Confirmed
  <2> QED
    BY <2>1, <2>2 DEF Promise!Init
<1>2. IInv /\ IInv' /\ [Next]_vars => [Promise!Next]_<<devImage, word>>
  <2> SUFFICES ASSUME IInv, IInv', [Next]_vars PROVE Promise!Next
    OBVIOUS
  <2>1. CASE devImage' # devImage
    <3>1. word = None /\ word' = None
      BY <2>1, FlashChange
    <3>2. devImage' \in Images
      BY DEF IInv, TypeOK, DeviceTypes
    <3> QED
      BY <3>1, <3>2 DEF Promise!Next, Promise!Rewrite
  <2>2. CASE devImage' = devImage /\ ~Confirmed'
    BY <2>2 DEF Promise!Next, Promise!Doubt
  <2>3. CASE devImage' = devImage /\ Confirmed'
    <3>1. /\ word' = deployedHash' /\ devImage' = deployedHash'
          /\ deployedHash' \in {Program(v) : v \in Versions}
      BY <2>3 DEF IInv, ConfirmedHeld
    <3> QED
      BY <2>3, <3>1 DEF Promise!Next, Promise!Vouch
  <2> QED
    BY <2>1, <2>2, <2>3
<1> QED
  BY <1>1, <1>2, Inductive, PTL DEF Spec, KeepsPromise, Promise!Spec
=============================================================================
