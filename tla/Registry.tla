------------------------------ MODULE Registry ------------------------------
(***************************************************************************)
(* The row of one device: addDevice and patchDevice of                     *)
(* src/src/apidevices.ts, slowTick of src/src/wssk.ts, and createDevice,   *)
(* updateEntity and deleteDevice of src/src/storage.ts.                    *)
(*                                                                         *)
(* One action per operation on the table.  updateEntity reads the row,     *)
(* changes its copy, and replaces the row by it whatever the row is by     *)
(* then; after any failure it starts again.  An operation may fail, and it *)
(* may be done though its answer is lost.                                  *)
(***************************************************************************)
EXTENDS Naturals

CONSTANTS
  Requests,   \* requests and ticks that run at the same time
  Scripts,    \* what a device can be assigned
  None,       \* no row, no script
  Retries,    \* updateEntity gives up when it fails with cnt > Retries
  MaxKeys,    \* bound: keys that are generated
  MaxStats,   \* bound: the statistics count modulo MaxStats + 1
  MayFail     \* does storage fail?

Keys == 1..MaxKeys
Rows == [key : Keys, script : Scripts \cup {None}, stats : 0..MaxStats]

ASSUME RegistryAssumption ==
  /\ None \notin Scripts /\ None \notin Rows
  /\ Retries \in Nat /\ MaxKeys \in Nat /\ MaxStats \in Nat \ {0}
  /\ MayFail \in BOOLEAN

VARIABLES
  row,        \* the row of the device
  created,    \* keys generated and stored
  pc, op,     \* where each request is, and what it is
  want,       \* the script it assigns
  dev,        \* key in the DeviceInfo addDevice holds, 0 if that is null
  copy,       \* the row it read, updated
  cnt,        \* failures of its updateEntity
  answer,     \* how it ended
  given,      \* history: keys handed out in a connectionString
  deleted,    \* history: has the device been deleted?
  applied, lost   \* history: Replaces done, and done with the answer lost

request == <<op, want, dev>>
history == <<given, deleted>>
counts == <<applied, lost>>
vars == <<row, created, pc, request, copy, cnt, answer, history, counts>>

TypeOK ==
  /\ row \in Rows \cup {None} /\ created \in 0..MaxKeys
  /\ pc \in [Requests -> {"idle", "get", "create", "reget", "read", "write", "reply"}]
  /\ op \in [Requests -> {"add", "patch", "tick"}]
  /\ want \in [Requests -> Scripts \cup {None}]
  /\ dev \in [Requests -> 0..MaxKeys]
  /\ copy \in [Requests -> Rows \cup {None}]
  /\ cnt \in [Requests -> 0..(Retries + 1)]
  /\ answer \in [Requests -> {"none", "ok", "failed"}]
  /\ given \subseteq Keys /\ deleted \in BOOLEAN
  /\ applied \in [Requests -> Nat] /\ lost \in [Requests -> Nat]

Init ==
  /\ row = None /\ created = 0
  /\ pc = [r \in Requests |-> "idle"]
  /\ op = [r \in Requests |-> "patch"]
  /\ want = [r \in Requests |-> None]
  /\ dev = [r \in Requests |-> 0]
  /\ copy = [r \in Requests |-> None]
  /\ cnt = [r \in Requests |-> 0]
  /\ answer = [r \in Requests |-> "none"]
  /\ given = {} /\ deleted = FALSE
  /\ applied = [r \in Requests |-> 0] /\ lost = [r \in Requests |-> 0]

Goto(r, label) == pc' = [pc EXCEPT ![r] = label]

Begin(r, o, s, label) ==
  /\ pc[r] = "idle"
  /\ Goto(r, label)
  /\ op' = [op EXCEPT ![r] = o]
  /\ want' = [want EXCEPT ![r] = s]
  /\ dev' = [dev EXCEPT ![r] = 0]
  /\ copy' = [copy EXCEPT ![r] = None]
  /\ cnt' = [cnt EXCEPT ![r] = 0]
  /\ answer' = [answer EXCEPT ![r] = "none"]
  /\ applied' = [applied EXCEPT ![r] = 0]
  /\ lost' = [lost EXCEPT ![r] = 0]
  /\ UNCHANGED <<row, created, history>>

End(r, how) ==
  /\ Goto(r, "idle")
  /\ answer' = [answer EXCEPT ![r] = how]

-----------------------------------------------------------------------------
(* POST /devices: addDevice, then patchDevice. *)

PostBegin(r, s) == Begin(r, "add", s, "get")

\* getDevice: null if there is no row, and after any failure.
Get(r) ==
  /\ pc[r] = "get"
  /\ \/ /\ row # None
        /\ dev' = [dev EXCEPT ![r] = row.key]
        /\ Goto(r, "read")
     \/ /\ row = None \/ MayFail
        /\ UNCHANGED dev
        /\ Goto(r, "create")
  /\ UNCHANGED <<row, created, op, want, copy, cnt, answer, history, counts>>

\* Mutant: an upsert in place of createEntity.
CreateUpsert(r) ==
  /\ pc[r] = "create" /\ created < MaxKeys
  /\ row' = [key |-> created + 1, script |-> None, stats |-> 0]
  /\ created' = created + 1
  /\ Goto(r, "reget")
  /\ UNCHANGED <<request, copy, cnt, answer, history, counts>>

\* createEntity, with a key of its own; the answer may be lost.
Create(r) ==
  /\ pc[r] = "create" /\ row = None /\ created < MaxKeys
  /\ row' = [key |-> created + 1, script |-> None, stats |-> 0]
  /\ created' = created + 1
  /\ \/ Goto(r, "reget") /\ UNCHANGED answer
     \/ MayFail /\ End(r, "failed")
  /\ UNCHANGED <<request, copy, cnt, history, counts>>

\* 409, another request has created it; or a failure.
CreateRefused(r) ==
  /\ pc[r] = "create" /\ (row # None \/ MayFail)
  /\ End(r, "failed")
  /\ UNCHANGED <<row, created, request, copy, cnt, history, counts>>

\* getDevice again, in createDevice.
Reget(r) ==
  /\ pc[r] = "reget"
  /\ \/ row # None /\ dev' = [dev EXCEPT ![r] = row.key]
     \/ (row = None \/ MayFail) /\ UNCHANGED dev
  /\ Goto(r, "read")
  /\ UNCHANGED <<row, created, op, want, copy, cnt, answer, history, counts>>

-----------------------------------------------------------------------------
(* updateEntity, called by patchDevice and slowTick. *)

PatchBegin(r, s) == Begin(r, "patch", s, "read")

TickBegin(r) == Begin(r, "tick", None, "read")

\* The function passed to updateDevice.
Updated(r) ==
  IF op[r] = "tick"
  THEN [row EXCEPT !.stats = IF @ = MaxStats THEN 0 ELSE @ + 1]
  ELSE [row EXCEPT !.script = want[r]]

\* getEntity; nothing is written if the update changes nothing.
Read(r) ==
  /\ pc[r] = "read" /\ row # None
  /\ copy' = [copy EXCEPT ![r] = Updated(r)]
  /\ Goto(r, IF Updated(r) = row THEN "reply" ELSE "write")
  /\ UNCHANGED <<row, created, request, cnt, answer, history, counts>>

\* getEntity is not retried: 404, or a failure.
ReadFails(r) ==
  /\ pc[r] = "read"
  /\ row = None \/ MayFail
  /\ End(r, "failed")
  /\ UNCHANGED <<row, created, request, copy, cnt, history, counts>>

\* Mutant: an upsert in place of updateEntity.
ReplaceUpsert(r) ==
  /\ row' = copy[r]
  /\ applied' = [applied EXCEPT ![r] = @ + 1]

\* updateEntity of the table, "Replace", without an etag.
Replace(r) ==
  /\ row # None
  /\ row' = copy[r]
  /\ applied' = [applied EXCEPT ![r] = @ + 1]

Write(r) ==
  /\ pc[r] = "write"
  /\ Replace(r)
  /\ Goto(r, "reply")
  /\ UNCHANGED <<created, request, copy, cnt, answer, history, lost>>

\* A delay, and then once more from the start; or enough is enough.
Retry(r) ==
  IF cnt[r] > Retries
  THEN End(r, "failed") /\ UNCHANGED cnt
  ELSE /\ cnt' = [cnt EXCEPT ![r] = @ + 1]
       /\ Goto(r, "read")
       /\ UNCHANGED answer

\* Mutant: a failure of the write is taken for a success.
WriteIgnored(r) ==
  /\ pc[r] = "write"
  /\ row = None \/ MayFail
  /\ Goto(r, "reply")
  /\ UNCHANGED <<row, created, request, copy, cnt, answer, history, counts>>

WriteFails(r) ==
  /\ pc[r] = "write"
  /\ row = None \/ MayFail
  /\ Retry(r)
  /\ UNCHANGED <<row, created, request, copy, history, counts>>

\* Done, but the answer is lost: it will be done again.
WriteLost(r) ==
  /\ pc[r] = "write" /\ MayFail
  /\ Replace(r)
  /\ lost' = [lost EXCEPT ![r] = @ + 1]
  /\ Retry(r)
  /\ UNCHANGED <<created, request, copy, history>>

\* The rest of slowTick is a publication; patchDevice answers with the row as
\* it is now, and POST with the key of the DeviceInfo it holds.
Reply(r) ==
  /\ pc[r] = "reply"
  /\ op[r] # "tick" => row # None
  /\ op[r] = "add" => dev[r] # 0
  /\ End(r, "ok")
  /\ given' = IF op[r] = "add" THEN given \cup {dev[r]} ELSE given
  /\ UNCHANGED <<row, created, request, copy, cnt, deleted, counts>>

\* 404 "no such device", or no key for the connectionString.
ReplyFails(r) ==
  /\ pc[r] = "reply" /\ op[r] # "tick"
  /\ row = None \/ MayFail \/ (op[r] = "add" /\ dev[r] = 0)
  /\ End(r, "failed")
  /\ UNCHANGED <<row, created, request, copy, cnt, history, counts>>

-----------------------------------------------------------------------------
\* DELETE: deleteEntity.
Delete ==
  /\ row # None
  /\ row' = None /\ deleted' = TRUE
  /\ UNCHANGED <<created, pc, request, copy, cnt, answer, given, counts>>

Step(r) ==
  \/ Get(r) \/ Create(r) \/ CreateRefused(r) \/ Reget(r)
  \/ Read(r) \/ ReadFails(r) \/ Write(r) \/ WriteFails(r) \/ WriteLost(r)
  \/ Reply(r) \/ ReplyFails(r)

Next ==
  \/ \E r \in Requests :
       \/ \E s \in Scripts : PostBegin(r, s) \/ PatchBegin(r, s)
       \/ TickBegin(r) \/ Step(r)
  \/ Delete

Spec == Init /\ [][Next]_vars

-----------------------------------------------------------------------------
(* Properties. *)

\* As long as the device has not been deleted, every key that was handed out
\* is the key of its row, whoever created it and whatever failed.
KeysAgree == ~deleted => \A k \in given : row # None /\ row.key = k

\* A device that is gone comes back only with a new key, by a request that
\* creates it: no late write of a copy of its row revives it.
OnlyCreateMakes ==
  [][row = None /\ row' # None =>
       row'.key \notin 1..created /\ \E r \in Requests : pc[r] = "create"]_vars

\* An update is done once, and once more for every answer that was lost; one
\* that is answered and was not void has been done.
CountedOnce ==
  \A r \in Requests :
    /\ applied[r] <= lost[r] + 1
    /\ answer[r] = "ok" /\ op[r] = "tick" => applied[r] > 0

\* The invariant behind KeysAgree: all that is known of the key agrees.
OneKey ==
  ~deleted =>
    /\ row = None => given = {} /\ \A r \in Requests : dev[r] = 0 /\ copy[r] = None
    /\ row # None => \A r \in Requests :
         /\ dev[r] \in {0, row.key}
         /\ copy[r] # None => copy[r].key = row.key

\* Where a request is and what it has done.
InOrder ==
  \A r \in Requests :
    /\ pc[r] # "idle" => answer[r] = "none"
    /\ pc[r] \in {"get", "create", "reget"} =>
         op[r] = "add" /\ applied[r] = 0 /\ lost[r] = 0
    /\ pc[r] \in {"read", "write"} => applied[r] = lost[r]
    /\ pc[r] = "write" => copy[r] # None
    /\ pc[r] = "reply" /\ op[r] = "tick" => applied[r] > 0

IInv == TypeOK /\ KeysAgree /\ CountedOnce /\ OneKey /\ InOrder

\* "Update properties of a device" (openapi.ts, line 352): a script assigned
\* stays until another request assigns one.
AssignmentStays ==
  [][row # None /\ row' # None /\ row'.script # row.script =>
       \E r \in Requests : op[r] # "tick" /\ pc[r] = "write" /\ pc'[r] # "write"]_vars
=============================================================================
