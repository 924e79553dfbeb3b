--------------------------- MODULE RegistryProofs ---------------------------
(* Proofs about Registry, for any number of requests, keys and failures.   *)
EXTENDS Registry, TLAPS

\* Nothing has been created or counted.
LEMMA Zeroes == 0 \in 0..MaxKeys /\ 0 \in 0..(Retries + 1)
  BY RegistryAssumption

LEMMA InitInv == Init => IInv
<1> SUFFICES ASSUME Init PROVE IInv
  OBVIOUS
<1>1. TypeOK
  BY Zeroes, Zenon DEF Init, TypeOK
<1>2. KeysAgree /\ CountedOnce /\ OneKey /\ InOrder
  BY DEF Init, KeysAgree, CountedOnce, OneKey, InOrder
<1> QED BY <1>1, <1>2 DEF IInv

LEMMA RowFacts == ASSUME NEW x \in Rows PROVE x # None /\ x.key \in Keys
  BY RegistryAssumption DEF Rows

\* An update keeps the key, and a tick always changes something.
LEMMA UpdatedFacts ==
  ASSUME TypeOK, NEW r \in Requests, row # None
  PROVE  /\ Updated(r) \in Rows /\ Updated(r).key = row.key
         /\ op[r] = "tick" => Updated(r) # row
<1>1. row \in Rows
  BY DEF TypeOK
<1>2. CASE op[r] = "tick"
  <2> DEFINE n == IF row.stats = MaxStats THEN 0 ELSE row.stats + 1
  <2>1. n \in 0..MaxStats /\ n # row.stats
    BY <1>1, RegistryAssumption DEF Rows
  <2>2. Updated(r) = [row EXCEPT !.stats = n]
    BY <1>2 DEF Updated
  <2> QED BY <1>1, <2>1, <2>2 DEF Rows
<1>3. CASE op[r] # "tick"
  BY <1>1, <1>3 DEF TypeOK, Updated, Rows
<1> QED BY <1>2, <1>3

-----------------------------------------------------------------------------
(* Steps that leave the row alone, or create it, or delete it. *)

LEMMA BeginStep ==
  ASSUME IInv, NEW r \in Requests, NEW s \in Scripts \cup {None},
         \/ Begin(r, "add", s, "get")
         \/ Begin(r, "patch", s, "read")
         \/ Begin(r, "tick", s, "read")
  PROVE  IInv'
<1>1. TypeOK'
  <2>1. /\ row' \in Rows \cup {None} /\ created' \in 0..MaxKeys
        /\ given' \subseteq Keys /\ deleted' \in BOOLEAN
    BY DEF IInv, TypeOK, Begin, history
  <2>2. /\ pc' \in [Requests -> {"idle", "get", "create", "reget", "read", "write", "reply"}]
        /\ op' \in [Requests -> {"add", "patch", "tick"}]
        /\ answer' \in [Requests -> {"none", "ok", "failed"}]
    BY DEF IInv, TypeOK, Begin, Goto
  <2>3. /\ want' \in [Requests -> Scripts \cup {None}]
        /\ dev' \in [Requests -> 0..MaxKeys]
        /\ copy' \in [Requests -> Rows \cup {None}]
        /\ cnt' \in [Requests -> 0..(Retries + 1)]
    BY Zeroes DEF IInv, TypeOK, Begin
  <2>4. applied' \in [Requests -> Nat] /\ lost' \in [Requests -> Nat]
    BY DEF IInv, TypeOK, Begin
  <2> QED BY <2>1, <2>2, <2>3, <2>4 DEF TypeOK
<1>2. KeysAgree' /\ CountedOnce' /\ OneKey' /\ InOrder'
  BY DEF IInv, TypeOK, KeysAgree, CountedOnce, OneKey, InOrder, Begin, Goto, history
<1> QED BY <1>1, <1>2 DEF IInv

LEMMA GetStep ==
  ASSUME IInv, NEW r \in Requests, Get(r) \/ Reget(r)
  PROVE  IInv'
<1>1. TypeOK'
  <2>1. row # None => row.key \in 0..MaxKeys
    BY RowFacts, RegistryAssumption DEF IInv, TypeOK, Keys
  <2>2. dev' \in [Requests -> 0..MaxKeys]
    BY <2>1 DEF IInv, TypeOK, Get, Reget
  <2> QED BY <2>2 DEF IInv, TypeOK, Get, Reget, Goto, history, counts
<1>2. KeysAgree' /\ CountedOnce'
  BY DEF IInv, KeysAgree, CountedOnce, Get, Reget, history, counts
<1>3. OneKey'
  BY DEF IInv, TypeOK, OneKey, Get, Reget, history, counts
<1>4. InOrder'
  BY DEF IInv, TypeOK, InOrder, Get, Reget, Goto, counts
<1> QED BY <1>1, <1>2, <1>3, <1>4 DEF IInv

\* The row was not there: before the first deletion, nobody knows a key.
LEMMA CreateStep ==
  ASSUME IInv, NEW r \in Requests, Create(r)
  PROVE  IInv'
<1> DEFINE new == [key |-> created + 1, script |-> None, stats |-> 0]
<1>1. new \in Rows /\ row' = new /\ row' # None /\ row = None
  BY RegistryAssumption DEF IInv, TypeOK, Create, Rows, Keys
<1>2. TypeOK'
  BY <1>1, RegistryAssumption DEF IInv, TypeOK, Create, Goto, End, request, history, counts
<1>3. KeysAgree' /\ OneKey'
  BY <1>1 DEF IInv, KeysAgree, OneKey, Create, request, history
<1>4. CountedOnce' /\ InOrder'
  BY DEF IInv, TypeOK, CountedOnce, InOrder, Create, Goto, End, request, counts
<1> QED BY <1>2, <1>3, <1>4 DEF IInv

LEMMA EndStep ==
  ASSUME IInv, NEW r \in Requests, CreateRefused(r) \/ ReadFails(r) \/ ReplyFails(r)
  PROVE  IInv'
<1>1. /\ End(r, "failed")
      /\ UNCHANGED <<row, created, request, copy, cnt, history, counts>>
  BY DEF CreateRefused, ReadFails, ReplyFails
<1>2. TypeOK'
  BY <1>1 DEF IInv, TypeOK, End, Goto, request, history, counts
<1>3. KeysAgree' /\ OneKey'
  BY <1>1 DEF IInv, KeysAgree, OneKey, request, history
<1>4. CountedOnce' /\ InOrder'
  BY <1>1 DEF IInv, TypeOK, CountedOnce, InOrder, End, Goto, request, counts
<1> QED BY <1>2, <1>3, <1>4 DEF IInv

LEMMA ReadStep ==
  ASSUME IInv, NEW r \in Requests, Read(r)
  PROVE  IInv'
<1>1. /\ Updated(r) \in Rows /\ Updated(r).key = row.key /\ Updated(r) # None
      /\ op[r] = "tick" => Updated(r) # row
      /\ row # None
  BY UpdatedFacts, RowFacts DEF IInv, Read
<1>2. TypeOK'
  BY <1>1 DEF IInv, TypeOK, Read, Goto, request, history, counts
<1>3. KeysAgree' /\ CountedOnce'
  BY DEF IInv, KeysAgree, CountedOnce, Read, request, history, counts
<1>4. OneKey'
  BY <1>1 DEF IInv, TypeOK, OneKey, Read, request, history
<1>5. InOrder'
  BY <1>1 DEF IInv, TypeOK, InOrder, Read, Goto, request, counts
<1> QED BY <1>2, <1>3, <1>4, <1>5 DEF IInv

-----------------------------------------------------------------------------
(* Writes. *)

\* A copy that is written has the key of the row, until the device is deleted.
LEMMA ReplaceFacts ==
  ASSUME IInv, NEW r \in Requests, pc[r] = "write", Replace(r), UNCHANGED <<dev, copy, history>>
  PROVE  /\ row' \in Rows /\ row' # None
         /\ applied' \in [Requests -> Nat] /\ applied'[r] = lost[r] + 1
         /\ \A q \in Requests : q # r => applied'[q] = applied[q]
         /\ KeysAgree' /\ OneKey'
<1>1. row' = copy[r] /\ copy[r] # None /\ row # None
  BY DEF IInv, InOrder, Replace
<1>2. row' \in Rows
  BY <1>1 DEF IInv, TypeOK
<1>3. /\ applied' \in [Requests -> Nat] /\ applied'[r] = lost[r] + 1
      /\ \A q \in Requests : q # r => applied'[q] = applied[q]
  BY DEF IInv, TypeOK, InOrder, Replace
<1>4. ~deleted => row'.key = row.key
  BY <1>1 DEF IInv, OneKey
<1>5. KeysAgree'
  BY <1>1, <1>4 DEF IInv, KeysAgree, history
<1>6. OneKey'
  BY <1>1, <1>4 DEF IInv, OneKey, history
<1> QED BY <1>1, <1>2, <1>3, <1>5, <1>6

LEMMA RetryFacts ==
  ASSUME IInv, NEW r \in Requests, Retry(r)
  PROVE  /\ cnt' \in [Requests -> 0..(Retries + 1)]
         /\ \/ pc' = [pc EXCEPT ![r] = "read"] /\ answer' = answer
            \/ pc' = [pc EXCEPT ![r] = "idle"] /\ answer' = [answer EXCEPT ![r] = "failed"]
<1>1. CASE cnt[r] > Retries
  BY <1>1 DEF IInv, TypeOK, Retry, End, Goto
<1>2. CASE ~(cnt[r] > Retries)
  <2>1. cnt[r] + 1 \in 0..(Retries + 1)
    BY <1>2, RegistryAssumption DEF IInv, TypeOK
  <2>2. cnt' = [cnt EXCEPT ![r] = cnt[r] + 1]
    BY <1>2 DEF Retry
  <2>3. cnt' \in [Requests -> 0..(Retries + 1)]
    BY <2>1, <2>2 DEF IInv, TypeOK
  <2> QED BY <1>2, <2>3 DEF Retry, Goto
<1> QED BY <1>1, <1>2

LEMMA WriteStep ==
  ASSUME IInv, NEW r \in Requests, Write(r)
  PROVE  IInv'
<1>1. /\ row' \in Rows /\ row' # None
      /\ applied' \in [Requests -> Nat] /\ applied'[r] = lost[r] + 1
      /\ \A q \in Requests : q # r => applied'[q] = applied[q]
      /\ KeysAgree' /\ OneKey'
  BY ReplaceFacts DEF Write, request
<1>2. TypeOK'
  BY <1>1 DEF IInv, TypeOK, Write, Goto, request, history
<1>3. CountedOnce' /\ InOrder'
  BY <1>1 DEF IInv, TypeOK, CountedOnce, InOrder, Write, Goto, request
<1> QED BY <1>1, <1>2, <1>3 DEF IInv

LEMMA WriteFailsStep ==
  ASSUME IInv, NEW r \in Requests, WriteFails(r)
  PROVE  IInv'
<1>1. /\ cnt' \in [Requests -> 0..(Retries + 1)]
      /\ \/ pc' = [pc EXCEPT ![r] = "read"] /\ answer' = answer
         \/ pc' = [pc EXCEPT ![r] = "idle"] /\ answer' = [answer EXCEPT ![r] = "failed"]
  BY RetryFacts DEF WriteFails
<1>2. TypeOK'
  BY <1>1 DEF IInv, TypeOK, WriteFails, request, history, counts
<1>3. KeysAgree' /\ OneKey'
  BY DEF IInv, KeysAgree, OneKey, WriteFails, request, history
<1>4. CountedOnce' /\ InOrder'
  BY <1>1 DEF IInv, TypeOK, CountedOnce, InOrder, WriteFails, request, counts
<1> QED BY <1>2, <1>3, <1>4 DEF IInv

LEMMA WriteLostStep ==
  ASSUME IInv, NEW r \in Requests, WriteLost(r)
  PROVE  IInv'
<1>1. /\ row' \in Rows /\ row' # None
      /\ applied' \in [Requests -> Nat] /\ applied'[r] = lost[r] + 1
      /\ \A q \in Requests : q # r => applied'[q] = applied[q]
      /\ KeysAgree' /\ OneKey'
  BY ReplaceFacts DEF WriteLost, request
<1>2. /\ cnt' \in [Requests -> 0..(Retries + 1)]
      /\ \/ pc' = [pc EXCEPT ![r] = "read"] /\ answer' = answer
         \/ pc' = [pc EXCEPT ![r] = "idle"] /\ answer' = [answer EXCEPT ![r] = "failed"]
  BY RetryFacts DEF WriteLost
<1>3. TypeOK'
  BY <1>1, <1>2 DEF IInv, TypeOK, WriteLost, request, history
<1>4. CountedOnce' /\ InOrder'
  BY <1>1, <1>2 DEF IInv, TypeOK, CountedOnce, InOrder, WriteLost, request
<1> QED BY <1>1, <1>3, <1>4 DEF IInv

\* The key handed out is the one addDevice read.
LEMMA ReplyStep ==
  ASSUME IInv, NEW r \in Requests, Reply(r)
  PROVE  IInv'
<1>1. TypeOK'
  <2>1. op[r] = "add" => dev[r] \in Keys
    BY RegistryAssumption DEF IInv, TypeOK, Reply, Keys
  <2>2. given' \subseteq Keys
    BY <2>1 DEF IInv, TypeOK, Reply
  <2> QED BY <2>2 DEF IInv, TypeOK, Reply, End, Goto, request, counts
<1>2. KeysAgree' /\ OneKey'
  BY DEF IInv, TypeOK, KeysAgree, OneKey, Reply, request
<1>3. CountedOnce' /\ InOrder'
  BY DEF IInv, TypeOK, CountedOnce, InOrder, Reply, End, Goto, request, counts
<1> QED BY <1>1, <1>2, <1>3 DEF IInv

LEMMA DeleteStep ==
  ASSUME IInv, Delete
  PROVE  IInv'
  BY DEF IInv, TypeOK, KeysAgree, OneKey, CountedOnce, InOrder, Delete, request, counts

-----------------------------------------------------------------------------
(* Theorems. *)

LEMMA NextStep == IInv /\ [Next]_vars => IInv'
<1> SUFFICES ASSUME IInv, [Next]_vars PROVE IInv'
  OBVIOUS
<1>1. ASSUME NEW r \in Requests,
             (\E s \in Scripts : PostBegin(r, s) \/ PatchBegin(r, s)) \/ TickBegin(r)
      PROVE  IInv'
  BY <1>1, BeginStep DEF PostBegin, PatchBegin, TickBegin
<1>2. ASSUME NEW r \in Requests, Step(r) PROVE IInv'
  BY <1>2, GetStep, CreateStep, EndStep, ReadStep, WriteStep, WriteFailsStep,
     WriteLostStep, ReplyStep DEF Step
<1>3. CASE Delete
  BY <1>3, DeleteStep
<1>4. CASE UNCHANGED vars
  BY <1>4
  DEF vars, request, history, counts, IInv, TypeOK, KeysAgree, OneKey, CountedOnce, InOrder
<1> QED BY <1>1, <1>2, <1>3, <1>4 DEF Next

\* The invariant of the row of a device.
THEOREM Inductive == Spec => []IInv
<1> QED BY InitInv, NextStep, PTL DEF Spec

\* Every variable keeps its type; updateEntity makes a bounded number of tries.
THEOREM Typing == Spec => []TypeOK
<1>1. IInv => TypeOK
  BY DEF IInv
<1> QED BY <1>1, Inductive, PTL

\* Every key handed out is that of the row, until the device is deleted.
THEOREM HandedOutKeysAgree == Spec => []KeysAgree
<1>1. IInv => KeysAgree
  BY DEF IInv
<1> QED BY <1>1, Inductive, PTL

\* An update is done once for every answer that was lost, and once more.
THEOREM UpdatesCounted == Spec => []CountedOnce
<1>1. IInv => CountedOnce
  BY DEF IInv
<1> QED BY <1>1, Inductive, PTL

\* A deleted device comes back only by being created, with a new key.
THEOREM DeletedStaysAway == Spec => OnlyCreateMakes
<1> DEFINE A == row = None /\ row' # None =>
                  row'.key \notin 1..created /\ \E r \in Requests : pc[r] = "create"
<1>1. IInv /\ Next => A
  <2> SUFFICES ASSUME IInv, Next, row = None, row' # None PROVE A
    OBVIOUS
  <2>1. \E r \in Requests : Create(r)
    BY DEF Next, PostBegin, PatchBegin, TickBegin, Begin, Step, Get, CreateRefused, Reget,
       Read, ReadFails, Write, WriteFails, WriteLost, Replace, Reply, ReplyFails, Delete
  <2> QED BY <2>1 DEF Create, IInv, TypeOK
<1>2. IInv /\ [Next]_vars => [A]_vars
  BY <1>1
<1> QED BY <1>2, Inductive, PTL DEF Spec, OnlyCreateMakes
=============================================================================
