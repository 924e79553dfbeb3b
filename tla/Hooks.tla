------------------------------- MODULE Hooks --------------------------------
(***************************************************************************)
(* Message hooks: the hook routes of src/src/apidevices.ts and             *)
(* addMessageHook, deleteMessageHook and getHooksFor of                    *)
(* src/src/storage.ts.                                                     *)
(*                                                                         *)
(* A hook is two rows of one table: one under its device and its method,   *)
(* by which a message finds it, and one under its partition, by which it   *)
(* is listed and deleted.  They are written and deleted one after the      *)
(* other; any of the four operations may fail, and it may have been done   *)
(* though its answer is lost.                                              *)
(***************************************************************************)
EXTENDS Naturals, FiniteSets

CONSTANTS
  Requests,   \* requests that run at the same time
  Devices,
  Methods,
  Wild,        \* "_": every device, every method
  MaxHooks,   \* bound: hooks that are added
  MayFail     \* does storage fail?

ASSUME HooksAssumption ==
  /\ Wild \notin Devices /\ Wild \notin Methods
  /\ MaxHooks \in Nat /\ MayFail \in BOOLEAN

VARIABLES
  lookup,     \* rows under a device and a method
  list,       \* rows under the partition
  next,       \* hooks that have been given an id
  pc, hook,   \* where each request is, and the hook it is about
  answer,     \* how it ended
  added,      \* history: hooks whose POST was answered with the id
  touched,    \* history: hooks whose deletion has come to the first row
  gone        \* history: hooks whose DELETE was answered with success

history == <<added, touched, gone>>
vars == <<lookup, list, next, pc, hook, answer, history>>

Key == [device : Devices \cup {Wild}, method : Methods \cup {Wild}]
Hook == [id : 1..MaxHooks, key : Key]
NoHook == [id |-> 0, key |-> [device |-> Wild, method |-> Wild]]

TypeOK ==
  /\ lookup \subseteq Hook /\ list \subseteq Hook
  /\ next \in 0..MaxHooks
  /\ pc \in [Requests -> {"idle", "lookup", "list", "unlookup", "unlist"}]
  /\ hook \in [Requests -> [id : 0..MaxHooks, key : Key]]
  /\ answer \in [Requests -> {"none", "ok", "failed"}]
  /\ added \subseteq Hook /\ touched \subseteq Hook /\ gone \subseteq Hook

Init ==
  /\ lookup = {} /\ list = {} /\ next = 0
  /\ pc = [r \in Requests |-> "idle"]
  /\ hook = [r \in Requests |-> NoHook]
  /\ answer = [r \in Requests |-> "none"]
  /\ added = {} /\ touched = {} /\ gone = {}

Goto(r, label) == pc' = [pc EXCEPT ![r] = label]

End(r, how) ==
  /\ Goto(r, "idle")
  /\ answer' = [answer EXCEPT ![r] = how]

-----------------------------------------------------------------------------
(* POST /hooks. *)

\* The row is written and the request goes on; or it fails, and the row may
\* have been written for all that.
Put(r, table, new, how) ==
  \/ new = table \cup {hook[r]} /\ how
  \/ MayFail /\ new \in {table, table \cup {hook[r]}} /\ End(r, "failed")

\* getDeviceIdFromParams is given the id in place of the request, and throws.
PostForDevice(r, d, method) ==
  /\ pc[r] = "idle"
  /\ End(r, "failed")
  /\ hook' = [hook EXCEPT ![r] = [id |-> 0, key |-> [device |-> d, method |-> method]]]
  /\ UNCHANGED <<lookup, list, next, history>>

\* Without a method, or with the method "_", the hook is for any.
Post(r, method) ==
  /\ pc[r] = "idle" /\ next < MaxHooks
  /\ next' = next + 1
  /\ hook' = [hook EXCEPT ![r] =
       [id |-> next + 1, key |-> [device |-> Wild, method |-> method]]]
  /\ answer' = [answer EXCEPT ![r] = "none"]
  /\ Goto(r, "lookup")
  /\ UNCHANGED <<lookup, list, history>>

AddLookup(r) ==
  /\ pc[r] = "lookup"
  /\ Put(r, lookup, lookup', Goto(r, "list") /\ UNCHANGED answer)
  /\ UNCHANGED <<list, next, hook, history>>

AddList(r) ==
  /\ pc[r] = "list"
  /\ Put(r, list, list', End(r, "ok"))
  /\ added' = IF answer'[r] = "ok" THEN added \cup {hook[r]} ELSE added
  /\ UNCHANGED <<lookup, next, hook, touched, gone>>

-----------------------------------------------------------------------------
(* DELETE /hooks/:hookId. *)

\* As Put; a row that is not there is a failure, 404.
Remove(r, table, new, how) ==
  \/ hook[r] \in table /\ new = table \ {hook[r]} /\ how
  \/ /\ hook[r] \notin table \/ MayFail
     /\ new \in (IF MayFail THEN {table, table \ {hook[r]}} ELSE {table})
     /\ End(r, "failed")

\* getEntity of the row in the list.
Delete(r, h) ==
  /\ pc[r] = "idle" /\ h \in list
  /\ hook' = [hook EXCEPT ![r] = h]
  /\ answer' = [answer EXCEPT ![r] = "none"]
  /\ Goto(r, "unlookup")
  /\ UNCHANGED <<lookup, list, next, history>>

\* There is no such row, or the request fails.
DeleteFails(r) ==
  /\ pc[r] = "idle"
  /\ End(r, "failed")
  /\ UNCHANGED <<lookup, list, next, hook, history>>

\* Mutant: the row in the list is deleted first.
UnlookupSecond(r) ==
  /\ pc[r] = "unlookup"
  /\ Remove(r, list, list', Goto(r, "unlist") /\ UNCHANGED answer)
  /\ touched' = touched \cup {hook[r]}
  /\ UNCHANGED <<lookup, next, hook, added, gone>>

Unlookup(r) ==
  /\ pc[r] = "unlookup"
  /\ Remove(r, lookup, lookup', Goto(r, "unlist") /\ UNCHANGED answer)
  /\ touched' = touched \cup {hook[r]}
  /\ UNCHANGED <<list, next, hook, added, gone>>

\* Mutant: a failure to delete the second row is ignored.
UnlistSilently(r) ==
  /\ pc[r] = "unlist"
  /\ list' \in {list, list \ {hook[r]}}
  /\ End(r, "ok")
  /\ gone' = gone \cup {hook[r]}
  /\ UNCHANGED <<lookup, next, hook, added, touched>>

Unlist(r) ==
  /\ pc[r] = "unlist"
  /\ Remove(r, list, list', End(r, "ok"))
  /\ gone' = IF answer'[r] = "ok" THEN gone \cup {hook[r]} ELSE gone
  /\ UNCHANGED <<lookup, next, hook, added, touched>>

-----------------------------------------------------------------------------
Next ==
  \E r \in Requests :
    \/ \E m \in Methods \cup {Wild} :
         Post(r, m) \/ \E d \in Devices : PostForDevice(r, d, m)
    \/ \E h \in Hook : Delete(r, h)
    \/ AddLookup(r) \/ AddList(r) \/ DeleteFails(r) \/ Unlookup(r) \/ Unlist(r)

Spec == Init /\ [][Next]_vars

-----------------------------------------------------------------------------
(* Which hooks a message finds. *)

\* Mutant: the hooks of every device are only found by their method.
QueriesOfDevice(d, m) ==
  <<[device |-> d, method |-> m], [device |-> Wild, method |-> m],
    [device |-> d, method |-> Wild], [device |-> d, method |-> m]>>

\* The four queries of getHooksFor.
Queries(d, m) ==
  <<[device |-> d, method |-> m], [device |-> Wild, method |-> m],
    [device |-> d, method |-> Wild], [device |-> Wild, method |-> Wild]>>

\* How many of them return the hook.
TimesFound(h, d, m) ==
  Cardinality({i \in 1..4 : h \in lookup /\ h.key = Queries(d, m)[i]})

Matches(h, d, m) == h.key.device \in {d, Wild} /\ h.key.method \in {m, Wild}

-----------------------------------------------------------------------------
(* Properties. *)

\* A hook that was added, and that nobody has begun to delete, is found by
\* each message it is for, once, and by no other.
AddedIsFound ==
  \A h \in added \ touched : \A d \in Devices, m \in Methods :
    TimesFound(h, d, m) = IF Matches(h, d, m) THEN 1 ELSE 0

\* A hook that was added and that messages find is listed, so that it can be
\* deleted, however many deletions have begun and failed.
FoundIsListed == added \cap lookup \subseteq list

\* A hook whose deletion was answered with success has neither row, for ever.
DeletedIsGone == gone \cap (lookup \cup list) = {}

\* Where a request is and what it has done: the id of a hook that is being
\* added is not used yet, and the first row is the one messages look for.
RowsInOrder ==
  /\ added \ touched \subseteq lookup
  /\ \A h \in lookup \cup list \cup added \cup touched \cup gone : h.id <= next
  /\ \A r \in Requests :
       /\ pc[r] # "idle" => hook[r] \in Hook /\ hook[r].id <= next
       /\ pc[r] \in {"lookup", "list"} =>
            /\ hook[r] \notin added \cup touched \cup list \cup gone
            /\ \A q \in Requests \ {r} : pc[q] # "idle" => hook[q] # hook[r]
       /\ pc[r] = "lookup" => hook[r] \notin lookup
       /\ pc[r] = "list" => hook[r] \in lookup
       /\ pc[r] = "unlist" => hook[r] \notin lookup /\ hook[r] \in touched

IInv == TypeOK /\ FoundIsListed /\ DeletedIsGone /\ RowsInOrder
=============================================================================
