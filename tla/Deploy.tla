------------------------------- MODULE Deploy -------------------------------
(***************************************************************************)
(* The deployment engine of one device: class ConnectedDevice of           *)
(* src/src/wssk.ts, the script fields of the device's row in the devices   *)
(* table, the script downloads it starts, and the device at the other end  *)
(* of the websocket.                                                       *)
(*                                                                         *)
(* The gateway is one node process: the code between two awaits runs       *)
(* alone, so it is one action.  The awaits whose outcome is used later are *)
(* actions of their own: the read and the write of the row in updateEntity *)
(* (SlowTick, PatchOther, WriteBack), its publication (Publish), the       *)
(* read of the row in connected() (HelloRead) and the download in          *)
(* syncScript (Fetched, FetchFailed).                                      *)
(*                                                                         *)
(* A device uses one connection, the newest.  Earlier ones may still be    *)
(* subscribed next to it: half-open, because the gateway has not noticed   *)
(* that the device is gone, or left over, because they closed while        *)
(* connected() awaited subToDevice and so never unsubscribe.  All they     *)
(* share with the newest is the row and the two back-off caches.           *)
(*                                                                         *)
(* deployBuffer and deployHash are assigned together (lines 180-183 and    *)
(* 380-381), so deployBuffer stands for both.  A program is a sequence of  *)
(* chunks, one chunk per DeployWrite, and it is its own hash.              *)
(***************************************************************************)
EXTENDS Naturals, Sequences, FiniteSets

CONSTANTS
  Versions,     \* the script versions a row can name
  Size,         \* number of chunks of the program of each version
  None,         \* no script in a row, nothing loaded, hash not known
  Slots,        \* bound: calls of syncScript in progress
  MaxUpdates,   \* bound: row updates read and not yet published
  BackoffBase,  \* the 2 of deployFail
  BackoffCap,   \* the 20 of deployFail
  MaxLate,      \* messages on the wire when the deploy timeout passes
  MaxFaults,    \* bound: refusals, failed downloads and lost connections
  MaxOldCalls   \* bound: calls of earlier connections in progress

ASSUME DeployAssumption ==
  /\ Size \in [Versions -> Nat \ {0}]
  /\ None \notin Versions \cup Seq(Versions \X Nat)
  /\ IsFiniteSet(Slots)
  /\ MaxUpdates \in Nat
  /\ BackoffBase \in Nat
  /\ BackoffCap \in Nat \ {0}
  /\ MaxLate \in Nat
  /\ MaxFaults \in Nat
  /\ MaxOldCalls \in Nat

VARIABLES
  row,            \* scriptId and scriptVersion in the devices table
  readers,        \* rows that an updateEntity has read and will write back
  pubs,           \* rows written, their "update" message not yet published
  connected,      \* is there an authenticated connection?
  lastMsg,        \* has the device been heard since the last slowTick?
  halfOpen,       \* earlier connections that are not closed yet
  leftover,       \* closed ones that are subscribed for ever
  oldCalls,       \* calls of earlier connections in progress
  stage,          \* what each call of syncScript (or connected) waits for
  asked,          \* the version each call of syncScript is for
  deployBuffer, deployPtr, deployCmd, deployedHash,
  secondTry,      \* are deployedHash and deployHash the same object?
  deployNumFail,  \* cached per device: it survives the connection
  deployTimeout,  \* cached per device: units of 10 s left, 0 when passed
  toDev, fromDev, \* the two directions of the websocket
  devImage,       \* the program in the flash of the device
  devPart,        \* chunks of the upload that is under way
  faults          \* faults left

table == <<row, readers, pubs>>
older == <<halfOpen, leftover, oldCalls>>
calls == <<stage, asked>>
engine == <<deployBuffer, deployPtr, deployCmd, deployedHash, secondTry>>
backoff == <<deployNumFail, deployTimeout>>
wire == <<toDev, fromDev>>
device == <<devImage, devPart>>
vars == <<table, connected, lastMsg, older, calls, engine, backoff, wire, device, faults>>

Rows == Versions \cup {None}
Chunks == Versions \X Nat
Images == Seq(Chunks)
Program(v) == [i \in 1..Size[v] |-> <<v, i>>]
Blank == <<>>

Idle == "Idle"                                   \* deployCmd is 0
DeployCmds == {"GetHash", "DeployStart", "DeployWrite", "DeployFinish"}
ToDevMsgs == [cmd : {"DeployWrite"}, chunk : Chunks]
             \cup [cmd : DeployCmds \ {"DeployWrite"}, chunk : {None}]
FromDevMsgs == [cmd : DeployCmds \cup {"Error"}, hash : Images \cup {None}]
ToDev(c) == [cmd |-> c, chunk |-> None]
FromDev(c) == [cmd |-> c, hash |-> None]

\* A call of the newest connection waits for subToDevice ("sub"), for the row
\* ("read"), to run ("run"), for the download ("fetch").
Stages == {"free", "sub", "read", "run", "fetch"}
Busy == {s \in Slots : stage[s] # "free"}
Subscribing == \E s \in Slots : stage[s] = "sub"

InFlight == Len(toDev) + Len(fromDev)

TableTypes == row \in Rows /\ readers \subseteq Rows /\ pubs \subseteq Rows
CallTypes ==
  /\ connected \in BOOLEAN /\ lastMsg \in BOOLEAN
  /\ stage \in [Slots -> Stages] /\ asked \in [Slots -> Rows]
  /\ faults \in 0..MaxFaults
OlderTypes ==
  halfOpen \in Nat /\ leftover \in Nat /\ oldCalls \in 0..MaxOldCalls
EngineTypes ==
  /\ deployBuffer \in Rows
  /\ deployPtr \in Nat
  /\ deployCmd \in DeployCmds \cup {Idle}
  /\ deployedHash \in Images \cup {None}
  /\ secondTry \in BOOLEAN
BackoffTypes ==
  /\ deployNumFail \in 0..BackoffCap
  /\ deployTimeout \in 0..(BackoffBase + BackoffCap)
WireTypes == toDev \in Seq(ToDevMsgs) /\ fromDev \in Seq(FromDevMsgs)
DeviceTypes == devImage \in Images /\ devPart \in Images

TypeOK ==
  /\ TableTypes /\ CallTypes /\ OlderTypes /\ EngineTypes
  /\ BackoffTypes /\ WireTypes /\ DeviceTypes

-----------------------------------------------------------------------------
(* The device has been deployed to before, so the caches start anywhere. *)

Init ==
  /\ row \in Rows /\ readers = {} /\ pubs = {}
  /\ connected = FALSE /\ lastMsg = FALSE
  /\ halfOpen = 0 /\ leftover = 0 /\ oldCalls = 0
  /\ stage = [s \in Slots |-> "free"]
  /\ asked = [s \in Slots |-> None]
  /\ deployBuffer = None /\ deployPtr = 0 /\ deployCmd = Idle
  /\ deployedHash = None /\ secondTry = FALSE
  /\ deployNumFail \in 0..BackoffCap
  /\ deployTimeout \in 0..(BackoffBase + BackoffCap)
  /\ toDev = <<>> /\ fromDev = <<>>
  /\ devImage \in {Blank} \cup {Program(v) : v \in Versions}
  /\ devPart = Blank
  /\ faults = MaxFaults

-----------------------------------------------------------------------------
(* The deploy timeout and the commands. *)

\* Mutant: without Math.min.
UncappedFail == deployNumFail + 1

\* deployNumFail only matters up to the cap of line 200, and is kept there.
OneMoreFail == IF deployNumFail < BackoffCap THEN deployNumFail + 1 ELSE BackoffCap

\* Mutant: the timeout is set without counting a failure.
ArmSilently ==
  /\ deployNumFail' = deployNumFail
  /\ deployTimeout' = BackoffBase + deployNumFail

\* The two cache entries deployFail writes: all that the engine of an earlier
\* connection shares with that of the newest.
ArmBackoff ==
  /\ deployNumFail' = OneMoreFail
  /\ deployTimeout' = BackoffBase + OneMoreFail

deployFail == deployCmd' = Idle /\ ArmBackoff

SendDeployCmd(m) ==
  /\ deployCmd' = m.cmd
  /\ toDev' = Append(toDev, m)

\* Mutant: deployPtr is left where the last deployment stopped.
BeginWhereItStopped ==
  /\ UNCHANGED deployPtr
  /\ ArmBackoff
  /\ SendDeployCmd(ToDev("GetHash"))

\* ensureDeployed with the timeout passed.
BeginDeploy ==
  /\ deployPtr' = 0
  /\ ArmBackoff
  /\ SendDeployCmd(ToDev("GetHash"))

\* Mutant: the deploy timeout is not looked at.
EnsureAtOnce == BeginDeploy

ensureDeployed ==
  IF deployTimeout > 0
  THEN UNCHANGED <<deployPtr, deployCmd, backoff, toDev>>
  ELSE BeginDeploy

\* Mutant: only a device whose hash is not known is asked.
CheckOnce ==
  IF deployBuffer' # None /\ deployedHash = None
  THEN ensureDeployed
  ELSE UNCHANGED <<deployPtr, deployCmd, backoff, toDev>>

\* The test at the end of syncScript, on the new value of deployBuffer.
CheckDeployed ==
  IF deployBuffer' # None /\ (deployedHash = None \/ deployedHash # Program(deployBuffer'))
  THEN ensureDeployed
  ELSE UNCHANGED <<deployPtr, deployCmd, backoff, toDev>>

-----------------------------------------------------------------------------
(* The row of the device, and syncScript. *)

MayUpdate == Cardinality(readers) + Cardinality(pubs) < MaxUpdates

\* PATCH /devices/:id with a script assigns the script fields of the row.
Patch(r) ==
  /\ MayUpdate
  /\ row' = r
  /\ pubs' = pubs \cup {r}
  /\ UNCHANGED <<readers, connected, lastMsg, older, calls, engine, backoff, wire, device, faults>>

\* A PATCH of other fields reads the row, and will write the script back.
PatchOther ==
  /\ MayUpdate
  /\ readers' = readers \cup {row}
  /\ UNCHANGED <<row, pubs, connected, lastMsg, older, calls, engine, backoff, wire, device, faults>>

\* slowTick, whose timer connected() sets when it has subscribed, takes the
\* counters and reads the row.  That of an earlier connection is a PatchOther.
SlowTick ==
  /\ MayUpdate
  /\ connected /\ ~Subscribing /\ lastMsg
  /\ lastMsg' = FALSE
  /\ readers' = readers \cup {row}
  /\ UNCHANGED <<row, pubs, connected, older, calls, engine, backoff, wire, device, faults>>

\* It writes back the row it read: "Replace", whatever the table has now.
WriteBack(r) ==
  /\ r \in readers
  /\ readers' = readers \ {r}
  /\ row' = r
  /\ pubs' = pubs \cup {r}
  /\ UNCHANGED <<connected, lastMsg, older, calls, engine, backoff, wire, device, faults>>

\* syncScript up to its await: whatever is loaded is dropped and downloaded
\* again, since nothing ever assigns deployId and deployVersion.
StartSync(s, v) ==
  /\ deployBuffer' = None
  /\ secondTry' = FALSE
  /\ stage' = [stage EXCEPT ![s] = "fetch"]
  /\ asked' = [asked EXCEPT ![s] = v]
  /\ UNCHANGED <<deployPtr, deployCmd, deployedHash>>

\* The "update" message reaches the newest connection, if there is one, and
\* each earlier one that is still subscribed.
Publish(r) ==
  /\ r \in pubs
  /\ pubs' = pubs \ {r}
  /\ oldCalls' = IF r = None THEN oldCalls ELSE oldCalls + halfOpen + leftover
  /\ oldCalls' <= MaxOldCalls
  /\ IF connected /\ r # None
     THEN \E s \in Slots : stage[s] = "free" /\ StartSync(s, r)
     ELSE UNCHANGED <<calls, engine>>
  /\ UNCHANGED <<row, readers, connected, lastMsg, halfOpen, leftover, backoff, wire, device, faults>>

\* connected() has subscribed: unsub and the timer are set.
Subscribed(s) ==
  /\ stage[s] = "sub"
  /\ stage' = [stage EXCEPT ![s] = "read"]
  /\ UNCHANGED <<table, connected, lastMsg, older, asked, engine, backoff, wire, device, faults>>

\* It reads the row, and later syncs what it read.
HelloRead(s) ==
  /\ stage[s] = "read"
  /\ stage' = [stage EXCEPT ![s] = IF row = None THEN "free" ELSE "run"]
  /\ asked' = [asked EXCEPT ![s] = row]
  /\ UNCHANGED <<table, connected, lastMsg, older, engine, backoff, wire, device, faults>>

HelloSync(s) ==
  /\ stage[s] = "run"
  /\ StartSync(s, asked[s])
  /\ UNCHANGED <<table, connected, lastMsg, older, backoff, wire, device, faults>>

Finished(s) ==
  /\ stage' = [stage EXCEPT ![s] = "free"]
  /\ asked' = [asked EXCEPT ![s] = None]

\* The download of syncScript ends: setDeploy, then the check.
Fetched(s) ==
  /\ stage[s] = "fetch"
  /\ deployBuffer' = asked[s]
  /\ secondTry' = FALSE
  /\ CheckDeployed
  /\ Finished(s)
  /\ UNCHANGED <<table, connected, lastMsg, older, deployedHash, fromDev, device, faults>>

\* It fails: the error is swallowed and what another call loaded is checked.
FetchFailed(s) ==
  /\ stage[s] = "fetch"
  /\ faults > 0 /\ faults' = faults - 1
  /\ UNCHANGED <<deployBuffer, secondTry>>
  /\ CheckDeployed
  /\ Finished(s)
  /\ UNCHANGED <<table, connected, lastMsg, older, deployedHash, fromDev, device>>

\* A call of an earlier connection ends without a deployment: nothing is
\* loaded, or what is loaded has the hash that connection knows, or the timeout
\* has not passed.
OldCallEnds ==
  /\ oldCalls > 0
  /\ oldCalls' = oldCalls - 1
  /\ UNCHANGED <<table, connected, lastMsg, halfOpen, leftover, calls, engine, backoff, wire, device, faults>>

\* Or it begins a deployment of its own: it arms the timeout, which is that of
\* the newest connection too, and its GetHash goes nowhere.
OldCallArms ==
  /\ oldCalls > 0 /\ deployTimeout = 0
  /\ oldCalls' = oldCalls - 1
  /\ ArmBackoff
  /\ UNCHANGED <<table, connected, lastMsg, halfOpen, leftover, calls, engine, wire, device, faults>>

-----------------------------------------------------------------------------
(* deployStep: a message of the device. *)

Receive ==
  /\ connected
  /\ fromDev' = Tail(fromDev)
  /\ lastMsg' = TRUE
  /\ UNCHANGED <<table, connected, older, calls, device, faults>>

Expected(m) == m.cmd = deployCmd

\* Line 213: an Error, or the answer to another command.
Unexpected(m) ==
  /\ Receive
  /\ ~Expected(m)
  /\ IF deployCmd # Idle
     THEN deployFail
     ELSE UNCHANGED <<deployCmd, backoff>>
  /\ UNCHANGED <<deployBuffer, deployPtr, deployedHash, secondTry, toDev>>

\* The answer finds deployHash or deployBuffer null, while a download runs:
\* deployStep throws where it uses it, and what it did before stays.
NothingLoaded(m) ==
  /\ Receive
  /\ Expected(m) /\ deployBuffer = None
  /\ deployedHash' = IF m.cmd = "GetHash" THEN m.hash ELSE deployedHash
  /\ UNCHANGED <<deployBuffer, deployPtr, deployCmd, secondTry, backoff, toDev>>

HashMatches(m) ==
  /\ Receive
  /\ Expected(m) /\ m.cmd = "GetHash" /\ deployBuffer # None
  /\ m.hash = Program(deployBuffer)
  /\ deployedHash' = m.hash
  /\ secondTry' = FALSE
  /\ deployCmd' = Idle
  /\ deployNumFail' = 0
  /\ deployTimeout' = 0
  /\ UNCHANGED <<deployBuffer, deployPtr, toDev>>

\* Mutant: the device is erased whatever hash it reports.
EraseAnyway(m) ==
  /\ Receive
  /\ Expected(m) /\ m.cmd = "GetHash" /\ deployBuffer # None
  /\ deployedHash' = m.hash
  /\ secondTry' = FALSE
  /\ SendDeployCmd(ToDev("DeployStart"))
  /\ UNCHANGED <<deployBuffer, deployPtr, backoff>>

HashDiffers(m) ==
  /\ Receive
  /\ Expected(m) /\ m.cmd = "GetHash" /\ deployBuffer # None
  /\ m.hash # Program(deployBuffer)
  /\ deployedHash' = m.hash
  /\ secondTry' = FALSE
  /\ IF secondTry
     THEN deployFail /\ UNCHANGED toDev
     ELSE SendDeployCmd(ToDev("DeployStart")) /\ UNCHANGED backoff
  /\ UNCHANGED <<deployBuffer, deployPtr>>

\* Mutant: the last chunk is forgotten.
ChunkShort(m) ==
  /\ Receive
  /\ Expected(m) /\ m.cmd \in {"DeployStart", "DeployWrite"} /\ deployBuffer # None
  /\ IF deployPtr + 1 < Size[deployBuffer]
     THEN /\ deployPtr' = deployPtr + 1
          /\ SendDeployCmd([cmd |-> "DeployWrite", chunk |-> <<deployBuffer, deployPtr + 1>>])
     ELSE SendDeployCmd(ToDev("DeployFinish")) /\ UNCHANGED deployPtr
  /\ UNCHANGED <<deployBuffer, deployedHash, secondTry, backoff>>

\* The answer to DeployStart or DeployWrite: the next chunk, or the end.
NextChunk(m) ==
  /\ Receive
  /\ Expected(m) /\ m.cmd \in {"DeployStart", "DeployWrite"} /\ deployBuffer # None
  /\ IF deployPtr < Size[deployBuffer]
     THEN /\ deployPtr' = deployPtr + 1
          /\ SendDeployCmd([cmd |-> "DeployWrite", chunk |-> <<deployBuffer, deployPtr + 1>>])
     ELSE /\ SendDeployCmd(ToDev("DeployFinish"))
          /\ UNCHANGED deployPtr
  /\ UNCHANGED <<deployBuffer, deployedHash, secondTry, backoff>>

\* Mutant: the answer to DeployFinish is trusted, the hash not re-checked.
TrustFinish(m) ==
  /\ Receive
  /\ Expected(m) /\ m.cmd = "DeployFinish" /\ deployBuffer # None
  /\ deployedHash' = Program(deployBuffer)
  /\ deployCmd' = Idle
  /\ deployNumFail' = 0
  /\ deployTimeout' = 0
  /\ UNCHANGED <<deployBuffer, deployPtr, secondTry, toDev>>

\* The answer to DeployFinish: re-check the hash, with the timeout cleared.
Deployed(m) ==
  /\ Receive
  /\ Expected(m) /\ m.cmd = "DeployFinish" /\ deployBuffer # None
  /\ deployedHash' = Program(deployBuffer)
  /\ secondTry' = TRUE
  /\ BeginDeploy
  /\ UNCHANGED deployBuffer

DeployStep ==
  /\ fromDev # <<>>
  /\ LET m == Head(fromDev)
     IN \/ Unexpected(m) \/ NothingLoaded(m) \/ HashMatches(m)
        \/ HashDiffers(m) \/ NextChunk(m) \/ Deployed(m)

\* Any other message of the device: lastMsg is all the engine sees of it.
DeviceTalks ==
  /\ connected /\ ~lastMsg
  /\ lastMsg' = TRUE
  /\ UNCHANGED <<table, connected, older, calls, engine, backoff, wire, device, faults>>

\* Ten seconds of the deploy timeout pass.
Tick ==
  /\ deployTimeout > 0
  /\ deployTimeout = 1 => InFlight <= MaxLate
  /\ deployTimeout' = deployTimeout - 1
  /\ UNCHANGED <<table, connected, lastMsg, older, calls, engine, deployNumFail, wire, device, faults>>

-----------------------------------------------------------------------------
(* The device and the websocket. *)

Answer(a) ==
  /\ connected
  /\ toDev' = Tail(toDev)
  /\ fromDev' = Append(fromDev, a)
  /\ UNCHANGED <<table, connected, lastMsg, older, calls, engine, backoff>>

\* The device carries out a command and answers it.
Serve(m) ==
  /\ Answer([cmd |-> m.cmd,
                hash |-> IF m.cmd = "GetHash" THEN devImage ELSE None])
  /\ CASE m.cmd = "GetHash" -> UNCHANGED device
       [] m.cmd = "DeployStart" ->
            devImage' = Blank /\ devPart' = Blank
       [] m.cmd = "DeployWrite" ->
            devPart' = Append(devPart, m.chunk) /\ UNCHANGED devImage
       [] m.cmd = "DeployFinish" ->
            devImage' = devPart /\ devPart' = Blank
  /\ UNCHANGED faults

\* It refuses: an erase that was begun may be done, an upload is over.
Refuse(m) ==
  /\ Answer(FromDev("Error"))
  /\ faults > 0 /\ faults' = faults - 1
  /\ devImage' \in IF m.cmd = "DeployStart" THEN {devImage, Blank} ELSE {devImage}
  /\ devPart' = IF m.cmd = "GetHash" THEN devPart ELSE Blank

DeviceStep == toDev # <<>> /\ (Serve(Head(toDev)) \/ Refuse(Head(toDev)))

\* The device has left the newest connection: what was on the wire is lost,
\* the calls in progress go on, and only the two caches are left to the next.
Left ==
  /\ connected
  /\ faults > 0 /\ faults' = faults - 1
  /\ lastMsg' = FALSE
  /\ oldCalls' = oldCalls + Cardinality(Busy)
  /\ oldCalls' <= MaxOldCalls
  /\ asked' = [s \in Slots |-> None]
  /\ deployBuffer' = None /\ deployPtr' = 0 /\ deployCmd' = Idle
  /\ deployedHash' = None /\ secondTry' = FALSE
  /\ toDev' = <<>> /\ fromDev' = <<>>
  /\ devPart' = Blank
  /\ UNCHANGED <<table, backoff, devImage>>

\* The gateway sees the socket close.  unsub is not set before connected() has
\* subscribed: then closed() does nothing, and the connection stays.
Disconnect ==
  /\ Left
  /\ connected' = FALSE
  /\ stage' = [s \in Slots |-> "free"]
  /\ leftover' = IF Subscribing THEN leftover + 1 ELSE leftover
  /\ UNCHANGED halfOpen

\* The device authenticates: a new ConnectedDevice, connected() is called.
Connect ==
  /\ ~connected
  /\ connected' = TRUE
  /\ \E s \in Slots : stage' = [stage EXCEPT ![s] = "sub"]
  /\ UNCHANGED <<table, lastMsg, older, asked, engine, backoff, wire, device, faults>>

\* It does so while its earlier connection is still open to the gateway.  One
\* that is still subscribing may yet close too early.
Reconnect ==
  /\ Left
  /\ UNCHANGED connected
  /\ \E s \in Slots : stage' = [t \in Slots |-> IF t = s THEN "sub" ELSE "free"]
  /\ \/ halfOpen' = halfOpen + 1 /\ UNCHANGED leftover
     \/ Subscribing /\ leftover' = leftover + 1 /\ UNCHANGED halfOpen

\* The gateway notices: closed() of an earlier connection.
OlderCloses ==
  /\ halfOpen > 0
  /\ halfOpen' = halfOpen - 1
  /\ UNCHANGED <<table, connected, lastMsg, leftover, oldCalls, calls,
                 engine, backoff, wire, device, faults>>

-----------------------------------------------------------------------------
Next ==
  \/ \E r \in Rows : Patch(r) \/ WriteBack(r) \/ Publish(r)
  \/ \E s \in Slots :
       Subscribed(s) \/ HelloRead(s) \/ HelloSync(s) \/ Fetched(s) \/ FetchFailed(s)
  \/ PatchOther \/ SlowTick \/ DeployStep \/ DeviceTalks \/ Tick
  \/ DeviceStep \/ Disconnect \/ Connect \/ Reconnect
  \/ OldCallEnds \/ OldCallArms \/ OlderCloses

Spec == Init /\ [][Next]_vars

\* Timers fire, storage answers, callbacks run; a device that is connected
\* answers, and keeps talking.  Nothing makes an earlier connection close, and
\* of several downloads only some need to end.
Fairness ==
  /\ WF_vars(\E r \in Rows : WriteBack(r) \/ Publish(r))
  /\ WF_vars(\E s \in Slots : Subscribed(s) \/ HelloRead(s) \/ HelloSync(s))
  /\ WF_vars(\E s \in Slots : Fetched(s) \/ FetchFailed(s))
  /\ WF_vars(SlowTick) /\ WF_vars(DeviceTalks) /\ WF_vars(Tick)
  /\ WF_vars(DeployStep \/ DeviceStep) /\ WF_vars(OldCallEnds \/ OldCallArms)

FairSpec == Spec /\ Fairness

-----------------------------------------------------------------------------
(* Properties. *)

\* With a device that answers before the deploy timeout passes (MaxLate = 0)
\* there is one command at a time: what is on the wire is the command deployStep waits
\* for, or its answer, and nothing is left when the timeout has passed
\* (sendDeployCmd and line 215 of wssk.ts).
OneOutstanding ==
  /\ InFlight <= 1
  /\ deployTimeout = 0 => InFlight = 0
  /\ \A i \in 1..Len(toDev) : toDev[i].cmd = deployCmd
  /\ \A i \in 1..Len(fromDev) : deployCmd # Idle /\ fromDev[i].cmd \in {deployCmd, "Error"}

\* The newest connection vouches for the hash it knows: no failure is pending.
\* (The word of an earlier one is worth nothing: it reads the same cache, and
\* keeps the hash the device had when it left.)
Confirmed == connected /\ deployNumFail = 0 /\ deployedHash # None

\* When no failure is pending, the hash the gateway knows is that of a whole
\* program and the device holds it, however the loaded program was swapped
\* while chunks were sent, and whatever the earlier connections, with their
\* own hashes, do to the caches (deployedHash and deployNumFail, lines 92 and
\* 227-243).
ConfirmedHeld ==
  Confirmed => /\ devImage = deployedHash
               /\ deployedHash \in {Program(v) : v \in Versions}

\* Whatever is swapped, retried or refused, the chunks of an upload reach the
\* device in order, none skipped and none sent twice (deployPtr, 255-276).
ChunksInOrder == \A i \in 1..Len(devPart) : devPart[i][2] = i

\* The inductive invariant behind the properties above, for MaxLate <= 1.  The
\* newest message on the wire is the command deployStep waits for, or its
\* answer; what comes before it is left of an attempt that was given up, and
\* lets deployStep go as far as DeployStart at most.
OnTheWire ==
  /\ InFlight <= MaxLate + 1
  /\ deployTimeout = 0 \/ deployCmd = Idle => InFlight <= MaxLate
  /\ deployCmd # Idle =>
       /\ toDev # <<>> => toDev[Len(toDev)].cmd = deployCmd
       /\ toDev = <<>> /\ fromDev # <<>> => fromDev[Len(fromDev)].cmd \in {deployCmd, "Error"}
  /\ InFlight > 1 => deployCmd \in {"GetHash", "DeployStart"}
  /\ InFlight > 1 /\ deployCmd = "DeployStart" =>
       IF fromDev = <<>> THEN toDev[1].cmd = "GetHash"
                         ELSE fromDev[1].cmd \in {"GetHash", "Error"}

\* With nothing pending only GetHash is out, an answer to it tells the present
\* state of the device, and deployPtr counts the chunks the device has or is
\* about to get.
InStep ==
  /\ ~connected => deployCmd = Idle /\ deployedHash = None /\ InFlight = 0
  /\ \A s \in Slots : stage[s] # "free" => connected
  /\ deployNumFail = 0 =>
       /\ deployCmd = Idle
       /\ \A i \in 1..Len(toDev) : toDev[i].cmd = "GetHash"
  /\ deployCmd \in {"GetHash", "DeployStart"} => deployPtr = 0
  /\ \A i \in 1..Len(toDev) :
       toDev[i].cmd = "DeployWrite" =>
         /\ toDev[i].chunk[2] = Len(devPart) + 1
         /\ deployCmd = "DeployWrite" => deployPtr = Len(devPart) + 1
  /\ \A i \in 1..Len(fromDev) :
       /\ fromDev[i].cmd = "GetHash" /\ deployCmd # "DeployStart" => fromDev[i].hash = devImage
       /\ fromDev[i].cmd = "DeployStart" /\ deployCmd = "DeployStart" => devPart = Blank
       /\ fromDev[i].cmd = "DeployWrite" /\ deployCmd = "DeployWrite" => deployPtr = Len(devPart)

IInv == TypeOK /\ OnTheWire /\ InStep /\ ConfirmedHeld /\ ChunksInOrder

\* DeployStart, which erases, is never sent to a device that holds the
\* program that is loaded (the comparison at line 229).
NoNeedlessErase ==
  [][\A v \in Versions :
       /\ deployCmd' = "DeployStart" /\ deployCmd # "DeployStart"
       /\ deployBuffer = v
       => devImage # Program(v)]_vars

\* The engine keeps the promise of DeployPromise.
Promise == INSTANCE DeployPromise WITH
  Programs <- {Program(v) : v \in Versions},
  Contents <- Images,
  image <- devImage,
  vouched <- IF Confirmed THEN deployedHash ELSE None
KeepsPromise == Promise!Spec

-----------------------------------------------------------------------------
(* Liveness. *)

\* The row names r for good and the hash the gateway knows is another one.
Wanting(v) == connected /\ row = v /\ deployedHash # Program(v)

\* A mismatch that lasts is asked about again and again: no failure, lost
\* answer, throw in deployStep or second syncScript stops the retries
\* (slowTick, syncScript), unless a connection that is still subscribed arms
\* the shared back-off for ever in place of the newest (lines 92 and 410).
NeverGivesUp ==
  \A v \in Versions :
    <>[]Wanting(v) => []<><<BeginDeploy>>_vars \/ []<><<OldCallArms>>_vars

AnswerInWindow == fromDev # <<>> /\ NothingLoaded(Head(fromDev))

\* If the row keeps naming v, the hash the gateway knows becomes that of v and
\* stays so, though an older row was synced last or by two calls at once,
\* unless answers keep falling in the window where a download has emptied
\* deployBuffer, or an earlier connection keeps arming the back-off.
HashConverges ==
  \A v \in Versions :
    <>[](connected /\ row = v) =>
      \/ <>[](deployedHash = Program(v))
      \/ []<><<AnswerInWindow>>_vars
      \/ []<><<OldCallArms>>_vars
=============================================================================
