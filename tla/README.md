# A verification model of devicescript-gateway

The gateway (`src/src/`, a Fastify server in one node process) keeps devices
and scripts in Azure storage, holds one encrypted websocket per device, uploads
scripts to the devices and passes messages between devices and the cloud.  This
directory models it in TLA+, checks the models with TLC on small instances, and
proves with TLAPS, for all values of the constants, what matters most about
them.

## 1. The system

### Components, their state and operations

| component | code | state | operations | model |
|---|---|---|---|---|
| deployment engine | `wssk.ts`, `ConnectedDevice` | the loaded program (`deployBuffer`, `deployHash`), `deployPtr`, `deployCmd`, `deployedHash`; the back-off, cached per device and process | `syncScript`, `ensureDeployed`, `deployStep`, `deployFail` | `Deploy` |
| script store | `storage.ts`, `apiscripts.ts` | three tables and a blob container | `createScript`, `updateScript`, `deleteScript`, `getScriptBody` | `ScriptStore`, `Assignment` |
| device registry | `storage.ts`, `apidevices.ts` | one row per device | `addDevice`, `patchDevice`, `updateEntity` (read, `Replace`, publish), `deleteDevice` | `Registry`; the script of the row also in `Deploy` and `Assignment` |
| device session | `wssk.ts`, `wsskInit` | keys, two nonces, `gotAuth`, `closed`; a subscription and a timer | handshake, `connected`, `closed` | `Session`; in `Deploy` the newest of a device's connections next to the earlier ones that are still subscribed; several in `Messages` |
| message bus | `mq.ts`, `devutil.ts` | subscribers per topic | `sub`, `pub`, `until`, `pingDevice` | `Bus` |
| forwarding sockets | `fwdsock.ts` | a subscription and a timer per viewer; `streamingMask` of the device | `enableFwd`, `closeIt` | `Forwarding` |
| exception and log reassembly | `wssk.ts` | `exnBuffer`, `exnLines`, `logBuffer` | `splitLines`, `fastTick`, `parseException` | `Lines`, `Exceptions` |
| message sinks | `messages.ts`, `env.ts`, `mqtt.ts`, `azure/` | lists filled at start-up | `ingestMessage`, `ingestLogs`, the messages of the MQTT broker, `sendJSON`, `sendBinary` | `Messages` |
| message hooks | `storage.ts`, `apidevices.ts` | two rows per hook | `addMessageHook`, `deleteMessageHook`, `getHooksFor` | `Hooks` |
| server, secrets, API description, infrastructure | the rest | none after start-up | | not modelled (section 8) |

### How they interact

A PATCH of a device, and every `slowTick` of a connection that has something to
report, run `updateDevice`: read the row, change it, write it back with
`"Replace"`, publish it on `to-dev/<device>`.  The connection of the device, if
there is one, is subscribed: `toDevice` calls `syncScript`, which downloads the
body of the script from the store and starts a deployment when the hash the
device is known to have is another one.  A deployment is a conversation: GetHash,
DeployStart, one DeployWrite per chunk, DeployFinish, GetHash again; each answer
of the device calls `deployStep`.  `slowTick` saves `deployedHash` in the row, so
the engine's own retries come back to it as updates of the row.

What the device sends is published on `from-dev/<device>`, where forwarding
sockets and pings listen, and handed to the sinks.  What is sent to the device,
by the API, the broker or the `env` sink, is published on `to-dev/<device>`.

### What is hard

* **Interleaving at every await.** `syncScript` empties `deployBuffer`, downloads,
  and then sets it; any number of calls overlap, and a deployment that is under
  way goes on meanwhile.  A row is read, changed and written back with no check
  that it is still the same.  `setInterval` does not wait for the last tick.
* **Set-up that awaits.** `connected()` and the handler of a forwarding socket
  subscribe, await, and only then say how to undo it; the socket may close in
  between.
* **Failures without an error path.** A refused command, a lost connection and an
  answer that makes `deployStep` throw all end the same way: nothing happens
  until the back-off has passed and some update calls `syncScript` again.  A
  subscriber that is rejected never calls back; a promise nobody waits for ends
  the process.
* **State that outlives its owner.** The back-off caches belong to the process,
  the calls of a closed connection go on, a half-open connection stays subscribed
  next to the one the device has made since, and the listings of a deletion are
  stale when they are used.
* **No transactions.** `updateScript` writes to three tables and a container,
  a hook is two rows, and a request may stop after any of its writes.

## 2. What makes each component correct

* *Engine.* Commands do not overlap; chunks arrive in order; the hash the newest
  connection vouches for is what the device holds; a device that has the right program
  is not erased; a mismatch is retried until it is gone.
* *Store.* A published version is complete and never changes; two updates never
  publish the same version; the sha index leads to the program it names; a device
  that is given the latest version can load it.
* *Registry.* Every key handed out is that of the row; an update is done once; a
  device that was deleted stays away.  (A write of one field should not undo that of
  another: the code does not ensure it, see section 7.)
* *Session.* The nonces of both sides are in step and none is used twice; after
  `closed`, no subscription and no timer.
* *Bus.* A publication that resolves has been handled by all; a ping ends, and one
  that is answered while it waits is not reported lost.
* *Forwarding.* While a viewer is connected the device streams; afterwards nobody
  listens, and the device streams for somebody who wants it.
* *Reassembly.* Every line is reported once, whole and in order.
* *Sinks.* A device is answered with its environment; what is accepted is sent.  (That
  one sink keeps no other from being told is how `Promise.all` and async functions
  are: there is nothing to check.)
* *Hooks.* A message finds every hook added for it, once; a deleted one is gone.

## 3. Modules

`PROJECT.json` maps every definition to the lines it stands for.  For each module
`M`, `MCM` gives its constants small values and `MProofs` has the theorems; those of
`Assignment` are in `ScriptStoreProofs`, those of `Forwarding` in `BusProofs` and
those of `Lines` in `ExceptionsProofs`.

### `Deploy`, with `DeployPromise`

The engine of one device, its row, the downloads, the websocket and the device, and
what is left of the device's earlier connections.
`DeployPromise` is its abstract specification: a gateway that vouches for a
program only while the device holds it.

One action per stretch of code between two awaits whose outcome is used later:
`SlowTick`, `PatchOther` and `WriteBack` are the two halves of `updateEntity`, `Publish` the
publication that follows; `Subscribed`, `HelloRead` and `HelloSync` those of `connected`;
`StartSync` and `Fetched` (or `FetchFailed`) the two of `syncScript`.  The actions of `DeployStep`
are the branches of `deployStep`; every branch ends in at most one send.  Sends are awaited
in the code and nothing follows them, so they are part of the action.  The
device is external: `Serve` and `Refuse` are what `deployStep` expects of it.

Connections.  Nothing in `wsskInit` closes the connection a device had when it
authenticates on another one.  The engine that is modelled in full is that of the
newest; the device uses no other.  The earlier ones are counted:

* `halfOpen`, those the gateway still takes for open.  `Reconnect` makes one, `OlderCloses` is
  `closed()` when the gateway notices.
* `leftover`, those whose socket closed while `connected()` awaited `subToDevice`: `closed()` ran
  before `unsub` was set, so they stay subscribed for ever (`Disconnect` while
  `Subscribing`, or a `Reconnect` then, whose earlier socket closes too early; finding 11).
* `oldCalls`, their calls of `syncScript` in progress: those that were running when
  the device left (`Left`), and one more of each at every update (`Publish`).

What they share with the newest is the row, which their `slowTick` reads and writes back
(`PatchOther`), and the two back-off caches (`wssk.ts:92-93`).  A call of theirs ends without a
deployment (`OldCallEnds`) or begins one (`OldCallArms`): it arms the back-off, and its GetHash goes
to a socket nobody reads.  Which of the two depends on a `deployBuffer` and a
`deployedHash` that are not modelled, so both are always possible: more than the code does,
never less.  One assumption: once the device has authenticated on a new connection the gateway
receives nothing more from it on an earlier one, so `deployStep` runs on the
newest only.  A lost connection, noticed or not, costs a fault.

Abstractions.  A program is the sequence of its chunks, and it is its own hash:
two programs have the same hash only if they are the same.  `deployHash` and
`deployBuffer` are always assigned together.  `deployNumFail` is kept at the cap
beyond which line 200 ignores it.  `secondTry` is the identity of the two buffer
objects that line 228 compares.  A script body that is too short or has a bad
magic ends `syncScript` as a failed download does (`FetchFailed`).

Time.  `deployTimeout` counts units of ten seconds.  `Tick` is what makes time
pass, and the assumption about it is explicit: when a deploy timeout passes, at
most `MaxLate` messages are on the wire.  `MaxLate = 0` is a device that answers
before the back-off of at least 30 s has passed (the engine does not extend the
timeout while a deployment advances, so for a long upload this is an assumption
about its duration, too).

### `ScriptStore`, with `ScriptLog`, and `Assignment`

One action per storage operation.  `Claim` is `createEntity` in
`scriptVersions`, the only step two requests cannot both take; then `Copy` (no
body in the request), `Upload`, `Index`, `WriteHead`.  `DeleteBegin` to `DelHead`
are `deleteScript`, with the listings it works from.  `Fail` ends a request at
any step and leaves what it did: a storage error or a restart of the gateway.
An operation that was done though its answer was lost is the operation followed by
`Fail`.  `deleting` and `used` are history: a script is *live* until a
deletion of it begins, and identifiers are not returned twice (`uniqueKey` is the
time and twelve random letters).  `ScriptLog` is the abstract specification: per
script a sequence of bodies that only grows, until it is dropped.

`Assignment` composes the store with a device.  `patchDevice` chooses a version
(`ChooseLatest`, `ChooseVersion`), which may be one that is not there any more, or
not yet, when the row is written (`Assign`) or the body downloaded (`Fetch`,
`Fetched`); all steps of the store may come in between.

### `Registry`

The row of one device.  `addDevice` is `Get`, `Create` and `Reget`; `updateEntity`
is `Read` and `Replace`, and starts again after a failure until it has failed more
than `Retries` times; a tick is an update that adds to the statistics.  Every
operation may fail, and be done though its answer is lost.  `given`, `applied` and
`lost` are history.  Name, meta and `lastAct` are written as the script is, and
left out.  The statistics count modulo `MaxStats + 1`.

### `Session`

One connection, from its handshake to its close.  A message carries the nonce it
was sealed with and opens with that nonce only (the cipher is external); `IncNonce`
is `incNonce`, byte by byte.  `Auth`, `Subscribed` and `Connected` are the
stretches of `connected()`, `CdevClosed` is `closed()`, and `Command` is anything
that a subscription makes the connection send, on a closed socket too.

### `Bus`

`Publish` is `emit`: it fixes the connections that are subscribed and runs their
handlers up to the send.  `Handled` and `Rejected` are what becomes of each send,
`Published` the resolution of `pub`, after which a ping is one more listener
(`waiters`).  A pong names no ping: it answers all that wait.

### `Forwarding`

Viewers on two routes, each with a handler that checks, pings (`Accept`,
`Answered`), subscribes (`Subscribed`) and only then listens to its socket.
`SetFwd` is what `setfwd` does to `streamingMask`; `EnableFwd` is the timer.
`ClosesEarly` is a socket that closes while nobody listens to it.

### `Lines` and `Exceptions`

`Lines` is `splitLines` as a pure function, a recursive function over the bytes, next to
what it promises: the lines are the stretches of the text between two ends of line
that are not empty, all, once and in order, and the rest is what is after the last end of
line.  `Exceptions` is what `fastTick` does with the lines of
exception reports.  Buffers and arrays have identities there, because the code
compares buffers by reference and pushes to an array a tick may have in hand:
`Report`, `Parsed` and `Notified` are the stretches of `fastTick` around its two
awaits, and two ticks may overlap.  `late` and `overlapped` are history.

### `Messages`

Messages of one device, both ways.  `FromDevice` and `EnvAsked` start the sinks
interested in the topic of a message; those that await a
service end in `SinkTold` or `SinkFails`.  A connection keeps the row it was
opened with (`dev`).  To the device: `Send` (the API) and `MqttArrives`, `MqttSend`;
sizes are what tells messages apart.  Nobody waits for the promise of the MQTT
handler or of the answer to `PingCloud`: `MqttRejected` and `PingRefused` end the process,
`Restart` is what starts it again.

### `Hooks`

Adding writes the row by which messages find a hook and then the row by which it
is listed; deleting removes them in the same order.  `Put` and `Unlookup`, `Unlist` may fail, and
be done all the same.  `POST` for one device fails always (section 7).  No code
of `src/` calls `getHooksFor` yet; `TimesFound` is what it would return.

## 4. Runs

| run | question | bounds | states |
|---|---|---|---|
| `deploy_core` | types; the vouched hash is held; chunks in order; no needless erase; implements `DeployPromise` | 2 versions (of 1 and 2 chunks), 2 overlapping downloads, 1 pending row update, 1 fault (hence 1 earlier connection), 1 call of it in progress, `BackoffBase` 0, `BackoffCap` 1, `MaxLate` 1, slots symmetric | 3.3 million |
| `deploy_live` | one command at a time; retries go on; the hash converges | as above, with versions of 1 chunk and `MaxLate` 0 | 0.7 million |
| `store_core` | published versions complete; the claim is exclusive; the sha index sound; implements `ScriptLog` | 3 requests, 1 script, 3 versions, 3 bodies: one with a program, one without, one over the limit | 1.7 million |
| `assign` | the latest version can be loaded; a version is always the same program | 2 requests, 1 script, 2 versions, 2 bodies and one that is too big, 1 device | 0.9 million |
| `registry` | keys agree; updates counted; only creation makes a row | 2 requests, 2 keys, 1 retry, statistics modulo 2 | 2.6 million |
| `registry_patch` | the finding of section 7 | 2 requests, nothing fails | |
| `session` | nonces in step and used once; the carry; what a close leaves | nonces of 3 bytes of 0..2, 4 messages each way | 0.1 million |
| `bus` | publications reach all; -1 only when nothing was heard; calls end | 2 callers, 2 connections, 2 pings unanswered | 0.5 million |
| `fwd` | streams and listeners of those who are there; viewers that stay see their streams | 3 viewers, 2 of them on `/devfwd` | 6 thousand |
| `exn` | lines lost only if late, in order, reported in the end; `splitLines` | 5 lines in 4 packets, 2 ticks; texts in up to 3 packets of up to 3 bytes | 0.1 million |
| `msg` | types; the environment is current unless patched; what is lost on the way down | 1 message each way, 2 connections, 5 sinks, 2 patches, sizes of 0 to 4 with a limit of 3 | 0.9 million |
| `hooks` | hooks are found, listed and gone | 3 requests, 2 hooks, 1 device, 2 methods | 0.3 million |

Why these bounds.  The hazards of the engine need two programs, one of them of
more than one chunk, two calls of `syncScript` at once, and an update between
any two steps; a fault is consumed by a refusal, a failed download or a lost
connection, whose earlier connection then stays half-open or left over as long as it
likes, and takes part in every update.  `BackoffBase` 0 and `BackoffCap` 1 keep the
back-off, of one unit, short: that it is longer in the code delays the retries and nothing
else, and the proofs allow any.  One call of an earlier connection at a time (`MaxOldCalls` 1)
leaves out a connection lost with two calls in progress, and the proofs do not.  Those of the store need two requests for the same version and
a third that deletes, and a failed version followed by another attempt.  Those of
the row need a reader that is overtaken, a deletion and a second creation, and a
retry after an answer that was lost.  A nonce must carry over two bytes, and a
connection close before, during and after each await.  A ping must be overtaken
by the pong of another, with one connection quick and one broken.  A viewer that
leaves must turn off one that stays and one that has just come.  A line must come
between any two steps of two ticks.  The proofs of section 6 have none of these
bounds.

`CutsDoNotMatter` and `CarryIsAddition` are about `splitLines` and `incNonce` alone: all
texts in up to three packets of up to three bytes, and all nonces with the first byte of either
direction.  The first stands for
`LinesKept`, which depends on no state, and is evaluated before the first packet.

`CHECK_DEADLOCK` is off where an instance may run out of what is bounded
(identifiers, versions and keys in `store_core`, `assign` and `registry`, messages in
`session`, lines in `exn`).  In the others it is on, and no deadlock is found.

## 5. Fairness

`Deploy`.  `FairSpec` assumes that timers fire (`SlowTick`, `Tick`), that storage answers
one way or the other (`WriteBack`, `Publish`, `HelloRead`, `Fetched \/ FetchFailed`),
that a node callback that is ready runs (`Subscribed`, `HelloSync`, `DeployStep`, `OldCallEnds \/
OldCallArms`), that a device carries out commands (`DeviceStep`) and
keeps talking (`DeviceTalks`).  The last matters: `slowTick` does nothing for a
silent device, and nothing else calls `syncScript` again.  It is what the
gateway's own pings and the device's statistics give in practice.  Of several downloads only
some need to end: one may hang.  Nothing is assumed of `Patch`, of faults, which are finitely
many, of `Connect`, since both properties are about a device that is connected, or of
`OlderCloses`: a half-open connection may stay for ever.

`NeverGivesUp` and `HashConverges` have an escape that the code needs: an earlier
connection that stays subscribed runs `syncScript` at every update and may arm the shared
back-off each time before the newest connection comes to it.  Without the escape TLC
finds the run: `Reconnect`, and from then on `Publish`, `Tick`, `OldCallArms` for ever
(finding 11).  `HashConverges` has another one: answers of the device
that fall in the window where a download has emptied `deployBuffer` make
`deployStep` throw, and TLC finds a run in which this happens for ever.  Since
every row update downloads the program again (section 7) the window recurs.

`HashConverges` speaks of the hash the gateway knows.  What is *not* true, and was
tried: that the program in the flash converges.
After a refused re-check, `deployedHash` is the hash of the loaded program and
`syncScript` sees nothing to do.  Nor does the hash converge when answers may
be late (`MaxLate = 1`): they carry no number of the attempt.

`Bus`: a write to a socket ends one way or the other, a publication that all have
handled resolves, the timer of `until` fires.  Nothing makes a device answer.
`CallEnds` has the exception of a rejected subscriber, which the code leaves hanging.

`Forwarding`: the timer of each viewer fires.  Nothing is assumed of sockets.

`Exceptions`: the interval fires while the connection is open, and what a tick
awaits ends.  Nothing makes the device send.

## 6. Proofs

All theorems are checked by TLAPS to the last leaf; PROJECT.json lists those a
reader should know.  They hold for all values of the constants allowed by the
assumption of each module.  Each module has a theorem `Typing` for its type
invariant, and one, `Inductive`, for the invariant `IInv` from which the others follow.

*Engine* (`DeployProofs`).  `Typing` holds for every value of the constants.  All are about
the newest connection, with any number of earlier ones that are half-open or left
over, any number of their calls, and the back-off they share.  All that these can do to the
invariant is arm the back-off (`OldCallArms`), which takes the engine's word back, and change
the row, which the invariant does not mention; in particular none of their steps makes `deployNumFail` 0.  The
others assume `MaxLate <= 1`: of the messages of a device at most one is late.  This is
what run `deploy_core` checks, and as far as it goes: with `MaxLate = 2` TLC finds
`ConfirmedHeld` violated (section 7).  `CommandsOutstanding` needs `MaxLate = 0`, since
it says that nothing is late.  `IInv` adds two parts to the properties.  `OnTheWire`: the newest
message is the command that is out, or its answer; what is before it is left from
an attempt that was given up, and then the engine has not come farther than
`DeployStart`, because each step beyond needs an answer, and messages do not overtake each other.
`InStep`: with no failure pending only `GetHash` is out; an answer to it tells
the present state of the flash unless an erasure is on the way; `deployPtr` counts the
chunks the device has, or is about to get.  They are needed because
`ConfirmedHeld` speaks of the step where `deployNumFail` becomes 0, and that step relies on
an answer that is still true when it arrives, though it may be one to an
earlier question.  `EraseJustified` and `PromiseKept` follow from the invariant, step by step.

*Store* (`ScriptStoreProofs`).  `IInv`
adds where each request stands: one that has not claimed is not ahead of the
row; one that has claimed holds its entry, and the blob of that entry is written
by it alone; there is no blob without an entry.  The key step is `ClaimAlone`:
a claim for version n+1 succeeds only if no entry n+1 is there, all versions
up to the row have one, hence n is the row's version, and any other claimant would
have made that very entry.  Most steps are `Quiet`: they leave live scripts alone and
move a request out of `updateScript` or to its start, and one lemma covers them.

*Assignment* (in the same module).  `AIInv` adds to that of the store: what is
given as the latest version is not ahead of the row, and what was loaded is what
is stored.  The key lemma is `StoreGrows`: no step of the store lowers the row of a
live script or changes a body that is there, which is what makes a choice that
is out of date when it is written, or downloaded, still a good one.

*Registry* (`RegistryProofs`).  `OneKey`: as long as the device is not deleted, all
copies of the row, and all keys in hand, have the key of the row; a creation
succeeds once.  `InOrder` says what a request has done by each of its steps.

*Session* (`SessionProofs`).  `InStep` chains the nonces from the one a side opens
with, over all messages on the wire, to the one the other side seals with; it
is inductive with `Keyed` (only a device with the key sends what opens) and
`Control` (where `connected()` is, and what it has set up).  `AtMostOne` says that
a connection has at most one subscription and one timer, and none without the key.

`NoncesUsedOnce` is about all nonces of a session, hence about their order.
`Before` is the order of the bytes, `NextNonce` shows that `incNonce` gives the next nonce in it with
none between, and the invariant `Spent` says that a side has sealed, in
that order, with all nonces of its direction before the one it has.  The
assumption `MaxFrames <= Capacity` is that there are no more messages than nonces that share the
first byte (256^12 in the code): after that many a nonce does come back, or
runs into the other direction.  Why fewer messages leave a nonce unspent is a
count: `Spent` makes the messages a surjection onto the nonces that are spent.
`IncrementAdds` says that `incNonce` is an addition for nonces of any length, by induction over their
bytes, and `CarriesAdd` is the property of the run.

*Bus* (`BusProofs`).  The invariant says which callers can have which listeners and timers
at each of their steps.  The same module has the theorems about *Forwarding*, whose
`FIInv` says the same of viewers: `ForwardingInductive`, and what follows about
streams and listeners.

*Hooks* (`HooksProofs`).  `RowsInOrder`: an id that is being added is nobody
else's, and the row messages look for is the first to come and the first to go.
`MessagesFindHooks` counts, hence uses the theorems about finite sets.

*Messages* (`MessagesProofs`).  `IInv` adds `Sessions`, that a connection which no PATCH has
overtaken has the row of the device, which is what the answer of `env.ts` relies on; and
`Unpublished`, that a message whose device is still being looked up has gone to no
connection.

*Reassembly* (`ExceptionsProofs`).  `InUse`: if a tick awaits, the array in use has
only lines that were reported, are in the hands of a tick, or are `late`.

`LinesAreKept` (in the same module) is `LinesKept` for packets of any length and number,
and `CutsNeverMatter` the property of the run.
`ByteKeeps` is one turn of the loop, in its three cases: a byte more of the rest,
an empty line, a line.  `RestAgain` says that what the last packet left, and the loop
goes over again, makes no line; so `PacketKeeps` may go on where the last packet ended.
Both inductions, over bytes and over packets, are by the lemma `Induction`, which says of a set
of numbers what the library's theorem says of a predicate; it follows from there
being a least number in a set.  The same lemma shows that the recursive functions
exist.

Only model-checked.  Liveness (`NeverGivesUp`, `HashConverges`, `CallEnds`, `Streams`,
`Reported`), which is out of the prover's reach.  All other properties of the passing runs are
proved; for `OneOutstanding` run `deploy_live` and the theorem have the same bound on late
messages.

## 7. Findings

`registry_patch`: `slowTick` reads the row, a PATCH assigns a script and is
answered, and `slowTick` writes back the row it had read (`updateEntity` uses
`"Replace"` and no etag): the assignment is undone.

Met while modelling, each reproduced with TLC on the modules here and left
without a run:

1. `syncScript` never finds the loaded version loaded, since `deployId` and
   `deployVersion` are never assigned (comment "no need to set it", `wssk.ts:378`):
   every update of the row downloads the program again.
2. The hash the API returns as that of the deployed script is, on a connected device
   with no deployment in progress, that of another program, after an upload that failed.
3. A body over 1 MB leaves its version entry behind: every later update of the
   script is refused as a race ("race condition updating script", `storage.ts:501`),
   and a device can be assigned that version.
4. An update that runs while its script is deleted leaves a body that nothing refers to.
5. With two late messages `ConfirmedHeld` fails, since answers carry no attempt number.
6. A ping never ends when a subscriber of its publication is rejected, and is reported
   lost when its pong comes while the publication is still awaited ("-1 if
   timeout", `swagger/openapi.ts:203`).
7. Of two POSTs for a new device the second fails (`openapi.ts:251`: "Can be also
   used to get the deployment key"); and a stale `Replace`, after a deletion and a
   new creation, puts the old key back.
8. A deletion of a hook that stops half-way leaves a hook that is listed, never
   found, and cannot be deleted.  `POST /hooks` with a `deviceId` always fails: it
   is passed to a function that takes the request (`apidevices.ts:223`).
9. A message whose size is within the limit, and with its topic is not, is answered
   `{}` and dropped (`wssk.ts:308`).
10. The environment a device gets is that of when it connected (`env.ts:11`).
11. A close while `connected()` awaits, or while a forwarding socket is set up,
    leaves a listener and a timer for ever.  The properties name these cases.  Such a
    connection has no `deployedHash` and so tries to deploy at every update: it
    can keep the back-off of the device armed, and the connection that is alive may never
    begin.  A connection that is half-open does the same as long as it lasts.
12. A half-open connection keeps the hash the device had when it left, finds
    `deployNumFail` cleared by its successor, and its `slowTick` writes that hash to the
    row (`wssk.ts:628`), over that of the program the device has been given since.

## 8. Not modelled

* Start-up, routing and authentication (`index.ts`, `apigateway.ts`, `util.ts`,
  `secrets.ts`, `azure/keyvault.ts`): each is read once, and no state changes
  afterwards.  The one path of `util.ts` that matters, `runInBg`, is in `Messages`.
* The API description (`swagger/`), types and constants: data.  Infrastructure
  scripts and the Power Automate connector: not part of the gateway.
* The contents of messages: telemetry records, formatting, the text of parsed
  exceptions.  The cipher, the broker, the emitter and Azure are external, and modelled by what
  the code relies on.
* The column `deployedHash` of the row, which is answered to the API and steers nothing
  (finding 12), and messages a device has sent on a connection before it made another and
  that arrive after it has: `Deploy` takes them for lost.
* In `Deploy`, a send that fails in the middle of a deployment is a lost connection.
* Restarts of the gateway are in `ScriptStore` (`Fail`), `Registry` and `Hooks` (an
  operation that fails and is not retried) and `Messages`; the other components keep nothing
  across one.
