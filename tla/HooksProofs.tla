---------------------------- MODULE HooksProofs -----------------------------
(* Proofs about Hooks, for any number of requests and hooks.               *)
EXTENDS Hooks, FiniteSetTheorems, TLAPS

LEMMA InitInv == Init => IInv
<1> SUFFICES ASSUME Init PROVE IInv
  OBVIOUS
<1>1. 0 \in 0..MaxHooks
  BY HooksAssumption
<1>2. NoHook \in [id : 0..MaxHooks, key : Key]
  BY <1>1 DEF NoHook, Key
<1>3. TypeOK
  BY <1>1, <1>2 DEF Init, TypeOK
<1>4. FoundIsListed /\ DeletedIsGone /\ RowsInOrder
  BY DEF Init, FoundIsListed, DeletedIsGone, RowsInOrder
<1> QED BY <1>3, <1>4 DEF IInv

-----------------------------------------------------------------------------
(* The steps of a request, each in an operator of its own.                 *)

LEMMA PostStep ==
  ASSUME IInv, NEW r \in Requests, NEW m \in Methods \cup {Wild}, Post(r, m)
  PROVE  IInv'
<1> DEFINE h == [id |-> next + 1, key |-> [device |-> Wild, method |-> m]]
<1>1. next' = next + 1 /\ next' \in 0..MaxHooks /\ next' \in 1..MaxHooks
  BY HooksAssumption DEF Post, IInv, TypeOK
<1>2. h \in Hook /\ h.id = next' /\ h \in [id : 0..MaxHooks, key : Key]
  BY <1>1, HooksAssumption DEF Post, IInv, TypeOK, Hook, Key
<1>3. TypeOK'
  BY <1>1, <1>2 DEF Post, Goto, history, IInv, TypeOK
<1>4. FoundIsListed' /\ DeletedIsGone'
  BY DEF Post, history, IInv, FoundIsListed, DeletedIsGone
<1>5. /\ \A g \in lookup \cup list \cup added \cup touched \cup gone : g.id <= next /\ g # h
      /\ \A g \in lookup \cup list \cup added \cup touched \cup gone : g.id <= next'
  BY <1>1, <1>2 DEF IInv, TypeOK, RowsInOrder, Hook
<1>6. \A q \in Requests \ {r} :
        pc[q] # "idle" => hook[q] \in Hook /\ hook[q].id <= next' /\ hook[q] # h
  BY <1>1, <1>2 DEF IInv, TypeOK, RowsInOrder, Hook
<1>7. /\ hook' = [hook EXCEPT ![r] = h] /\ pc' = [pc EXCEPT ![r] = "lookup"]
      /\ UNCHANGED <<lookup, list, added, touched, gone>>
  BY DEF Post, Goto, history
<1>8. RowsInOrder'
  <2>1. /\ (added \ touched \subseteq lookup)'
        /\ \A g \in lookup' \cup list' \cup added' \cup touched' \cup gone' : g.id <= next'
    BY <1>5, <1>7 DEF IInv, RowsInOrder
  <2>2. ASSUME NEW q \in Requests
        PROVE  /\ pc'[q] # "idle" => hook'[q] \in Hook /\ hook'[q].id <= next'
               /\ pc'[q] \in {"lookup", "list"} =>
                    /\ hook'[q] \notin added' \cup touched' \cup list' \cup gone'
                    /\ \A p \in Requests \ {q} : pc'[p] # "idle" => hook'[p] # hook'[q]
               /\ pc'[q] = "lookup" => hook'[q] \notin lookup'
               /\ pc'[q] = "list" => hook'[q] \in lookup'
               /\ pc'[q] = "unlist" => hook'[q] \notin lookup' /\ hook'[q] \in touched'
    <3>1. CASE q = r
      BY <3>1, <1>1, <1>2, <1>5, <1>6, <1>7 DEF IInv, TypeOK
    <3>2. CASE q # r
      BY <3>2, <1>1, <1>2, <1>6, <1>7 DEF IInv, TypeOK, RowsInOrder
    <3> QED BY <3>1, <3>2
  <2> QED BY <2>1, <2>2 DEF RowsInOrder
<1> QED BY <1>3, <1>4, <1>8 DEF IInv

\* A request that begins nothing: it fails, or it deletes a row that is there.
LEMMA BeginStep ==
  ASSUME IInv, NEW r \in Requests,
         \/ \E d \in Devices, m \in Methods \cup {Wild} : PostForDevice(r, d, m)
         \/ DeleteFails(r)
         \/ \E h \in Hook : Delete(r, h)
  PROVE  IInv'
<1>1. /\ pc[r] = "idle"
      /\ UNCHANGED <<lookup, list, next, added, touched, gone>>
      /\ answer' \in [Requests -> {"none", "ok", "failed"}]
  BY DEF PostForDevice, DeleteFails, Delete, End, history, IInv, TypeOK
<1>2. /\ hook' \in [Requests -> [id : 0..MaxHooks, key : Key]]
      /\ \A q \in Requests \ {r} : hook'[q] = hook[q]
  <2>1. CASE \E h \in Hook : Delete(r, h)
    BY <2>1, HooksAssumption DEF Delete, IInv, TypeOK, Hook
  <2>2. CASE \E d \in Devices, m \in Methods \cup {Wild} : PostForDevice(r, d, m)
    BY <2>2, HooksAssumption DEF PostForDevice, IInv, TypeOK, Key
  <2>3. CASE DeleteFails(r)
    BY <2>3 DEF DeleteFails, IInv, TypeOK
  <2> QED BY <2>1, <2>2, <2>3
<1>3. \/ pc' = [pc EXCEPT ![r] = "idle"]
      \/ pc' = [pc EXCEPT ![r] = "unlookup"] /\ hook'[r] \in list
  BY DEF PostForDevice, DeleteFails, Delete, Goto, End, IInv, TypeOK
<1>4. TypeOK'
  BY <1>1, <1>2, <1>3 DEF IInv, TypeOK
<1>5. FoundIsListed' /\ DeletedIsGone'
  BY <1>1 DEF IInv, FoundIsListed, DeletedIsGone
<1>6. hook'[r] \in list =>
        /\ hook'[r] \in Hook /\ hook'[r].id <= next
        /\ \A q \in Requests \ {r} : pc[q] \in {"lookup", "list"} => hook[q] # hook'[r]
  BY DEF IInv, TypeOK, RowsInOrder
<1>7. RowsInOrder'
  <2>1. /\ (added \ touched \subseteq lookup)'
        /\ \A g \in lookup' \cup list' \cup added' \cup touched' \cup gone' : g.id <= next'
    BY <1>1 DEF IInv, RowsInOrder
  <2>2. ASSUME NEW q \in Requests
        PROVE  /\ pc'[q] # "idle" => hook'[q] \in Hook /\ hook'[q].id <= next'
               /\ pc'[q] \in {"lookup", "list"} =>
                    /\ hook'[q] \notin added' \cup touched' \cup list' \cup gone'
                    /\ \A p \in Requests \ {q} : pc'[p] # "idle" => hook'[p] # hook'[q]
               /\ pc'[q] = "lookup" => hook'[q] \notin lookup'
               /\ pc'[q] = "list" => hook'[q] \in lookup'
               /\ pc'[q] = "unlist" => hook'[q] \notin lookup' /\ hook'[q] \in touched'
    <3>1. CASE q = r
      BY <3>1, <1>1, <1>3, <1>6 DEF IInv, TypeOK
    <3>2. CASE q # r
      BY <3>2, <1>1, <1>2, <1>3, <1>6 DEF IInv, TypeOK, RowsInOrder
    <3> QED BY <3>1, <3>2
  <2> QED BY <2>1, <2>2 DEF RowsInOrder
<1> QED BY <1>4, <1>5, <1>7 DEF IInv

-----------------------------------------------------------------------------
(* The steps that write and delete rows.                                   *)

\* What is known of the request that is about to take a step.
LEMMA HookFacts ==
  ASSUME IInv, NEW r \in Requests, pc[r] # "idle"
  PROVE  hook[r] \in Hook /\ hook[r].id <= next
  BY DEF IInv, RowsInOrder

LEMMA AddLookupStep ==
  ASSUME IInv, NEW r \in Requests, AddLookup(r)
  PROVE  IInv'
<1>1. /\ lookup' \in {lookup, lookup \cup {hook[r]}}
      /\ \/ pc' = [pc EXCEPT ![r] = "list"] /\ hook[r] \in lookup' /\ answer' = answer
         \/ pc' = [pc EXCEPT ![r] = "idle"] /\ answer' = [answer EXCEPT ![r] = "failed"]
      /\ pc[r] = "lookup"
      /\ UNCHANGED <<list, next, hook, added, touched, gone>>
  BY DEF AddLookup, Put, End, Goto, history
<1>2. TypeOK'
  BY <1>1, HookFacts DEF IInv, TypeOK
<1>3. hook[r] \notin added \cup touched \cup list \cup gone
  BY <1>1 DEF IInv, RowsInOrder
<1>4. FoundIsListed' /\ DeletedIsGone'
  BY <1>1, <1>3 DEF IInv, FoundIsListed, DeletedIsGone
<1>5. RowsInOrder'
  <2>1. \A g \in lookup' \cup list' \cup added' \cup touched' \cup gone' : g.id <= next'
    BY <1>1, HookFacts DEF IInv, RowsInOrder
  <2>2. (added \ touched \subseteq lookup)'
    BY <1>1 DEF IInv, RowsInOrder
  <2> QED BY <1>1, <1>3, <2>1, <2>2 DEF IInv, TypeOK, RowsInOrder
<1> QED BY <1>2, <1>4, <1>5 DEF IInv

LEMMA AddListStep ==
  ASSUME IInv, NEW r \in Requests, AddList(r)
  PROVE  IInv'
<1>1. /\ list' \in {list, list \cup {hook[r]}}
      /\ \/ added' = added \cup {hook[r]} /\ hook[r] \in list'
         \/ added' = added
      /\ pc' = [pc EXCEPT ![r] = "idle"]
      /\ \/ answer' = [answer EXCEPT ![r] = "ok"]
         \/ answer' = [answer EXCEPT ![r] = "failed"]
      /\ pc[r] = "list"
      /\ UNCHANGED <<lookup, next, hook, touched, gone>>
  BY DEF AddList, Put, End, Goto, IInv, TypeOK
<1>2. TypeOK'
  BY <1>1, HookFacts DEF IInv, TypeOK
<1>3. hook[r] \in lookup /\ hook[r] \notin added \cup touched \cup list \cup gone
  BY <1>1 DEF IInv, RowsInOrder
<1>4. FoundIsListed' /\ DeletedIsGone'
  BY <1>1, <1>3 DEF IInv, FoundIsListed, DeletedIsGone
<1>5. RowsInOrder'
  <2>1. \A g \in lookup' \cup list' \cup added' \cup touched' \cup gone' : g.id <= next'
    BY <1>1, HookFacts DEF IInv, RowsInOrder
  <2>2. (added \ touched \subseteq lookup)'
    BY <1>1, <1>3 DEF IInv, RowsInOrder
  <2>3. \A q \in Requests \ {r} : pc[q] # "idle" => hook[q] # hook[r]
    BY <1>1 DEF IInv, RowsInOrder
  <2> QED BY <1>1, <1>3, <2>1, <2>2, <2>3 DEF IInv, TypeOK, RowsInOrder
<1> QED BY <1>2, <1>4, <1>5 DEF IInv

LEMMA UnlookupStep ==
  ASSUME IInv, NEW r \in Requests, Unlookup(r)
  PROVE  IInv'
<1>1. /\ lookup' \in {lookup, lookup \ {hook[r]}}
      /\ \/ pc' = [pc EXCEPT ![r] = "unlist"] /\ hook[r] \notin lookup' /\ answer' = answer
         \/ pc' = [pc EXCEPT ![r] = "idle"] /\ answer' = [answer EXCEPT ![r] = "failed"]
      /\ touched' = touched \cup {hook[r]}
      /\ pc[r] = "unlookup"
      /\ UNCHANGED <<list, next, hook, added, gone>>
  BY DEF Unlookup, Remove, End, Goto
<1>2. TypeOK'
  BY <1>1, HookFacts DEF IInv, TypeOK
<1>3. FoundIsListed' /\ DeletedIsGone'
  BY <1>1 DEF IInv, FoundIsListed, DeletedIsGone
<1>4. \A q \in Requests : pc[q] \in {"lookup", "list"} => hook[q] # hook[r]
  BY <1>1 DEF IInv, RowsInOrder
<1>5. RowsInOrder'
  <2>1. \A g \in lookup' \cup list' \cup added' \cup touched' \cup gone' : g.id <= next'
    BY <1>1, HookFacts DEF IInv, RowsInOrder
  <2>2. (added \ touched \subseteq lookup)'
    BY <1>1 DEF IInv, RowsInOrder
  <2> QED BY <1>1, <1>4, <2>1, <2>2 DEF IInv, TypeOK, RowsInOrder
<1> QED BY <1>2, <1>3, <1>5 DEF IInv

LEMMA UnlistStep ==
  ASSUME IInv, NEW r \in Requests, Unlist(r)
  PROVE  IInv'
<1>1. /\ list' \in {list, list \ {hook[r]}}
      /\ \/ gone' = gone \cup {hook[r]} /\ hook[r] \notin list'
         \/ gone' = gone
      /\ pc' = [pc EXCEPT ![r] = "idle"]
      /\ \/ answer' = [answer EXCEPT ![r] = "ok"]
         \/ answer' = [answer EXCEPT ![r] = "failed"]
      /\ pc[r] = "unlist"
      /\ UNCHANGED <<lookup, next, hook, added, touched>>
  BY DEF Unlist, Remove, End, Goto, IInv, TypeOK
<1>2. TypeOK'
  BY <1>1, HookFacts DEF IInv, TypeOK
<1>3. hook[r] \notin lookup /\ hook[r] \in touched
  BY <1>1 DEF IInv, RowsInOrder
<1>4. FoundIsListed' /\ DeletedIsGone'
  BY <1>1, <1>3 DEF IInv, FoundIsListed, DeletedIsGone
<1>5. \A q \in Requests : pc[q] \in {"lookup", "list"} => hook[q] # hook[r]
  BY <1>1 DEF IInv, RowsInOrder
<1>6. RowsInOrder'
  <2>1. \A g \in lookup' \cup list' \cup added' \cup touched' \cup gone' : g.id <= next'
    BY <1>1, HookFacts DEF IInv, RowsInOrder
  <2> QED BY <1>1, <1>5, <2>1 DEF IInv, TypeOK, RowsInOrder
<1> QED BY <1>2, <1>4, <1>6 DEF IInv

-----------------------------------------------------------------------------
(* Theorems. *)

LEMMA NextStep == IInv /\ [Next]_vars => IInv'
<1> SUFFICES ASSUME IInv, [Next]_vars PROVE IInv'
  OBVIOUS
<1>1. CASE UNCHANGED vars
  BY <1>1
  DEF vars, history, IInv, TypeOK, FoundIsListed, DeletedIsGone, RowsInOrder
<1>2. CASE Next
  BY <1>2, PostStep, BeginStep, AddLookupStep, AddListStep, UnlookupStep, UnlistStep DEF Next
<1> QED BY <1>1, <1>2

\* The invariant of the two rows of each hook.
THEOREM Inductive == Spec => []IInv
<1> QED BY InitInv, NextStep, PTL DEF Spec

\* Every variable keeps its type.
THEOREM Typing == Spec => []TypeOK
<1>1. IInv => TypeOK
  BY DEF IInv
<1> QED BY <1>1, Inductive, PTL

\* An added hook that messages find can be listed, whatever failed.
THEOREM FoundCanBeListed == Spec => []FoundIsListed
<1>1. IInv => FoundIsListed
  BY DEF IInv
<1> QED BY <1>1, Inductive, PTL

\* What was deleted with success has left no row.
THEOREM DeletionIsComplete == Spec => []DeletedIsGone
<1>1. IInv => DeletedIsGone
  BY DEF IInv
<1> QED BY <1>1, Inductive, PTL

\* The four queries are for different keys, and a hook that is for a message
\* has one of these keys.
LEMMA OneQuery ==
  ASSUME NEW d \in Devices, NEW m \in Methods, NEW h \in Hook, h \in lookup
  PROVE  TimesFound(h, d, m) = IF Matches(h, d, m) THEN 1 ELSE 0
<1> DEFINE S == {i \in 1..4 : h \in lookup /\ h.key = Queries(d, m)[i]}
<1>1. h.key = [device |-> h.key.device, method |-> h.key.method]
  BY DEF Hook, Key
<1>2. d # Wild /\ m # Wild
  BY HooksAssumption
<1>3. CASE ~Matches(h, d, m)
  <2>1. S = {}
    BY <1>1, <1>2, <1>3 DEF Matches, Queries
  <2> QED BY <2>1, <1>3, FS_EmptySet DEF TimesFound
<1>4. CASE Matches(h, d, m)
  <2>1. \E i \in 1..4 : S = {i}
    <3>1. CASE h.key.device = d /\ h.key.method = m
      <4>1. S = {1}
        BY <1>1, <1>2, <3>1 DEF Queries
      <4> QED BY <4>1
    <3>2. CASE h.key.device = Wild /\ h.key.method = m
      <4>1. S = {2}
        BY <1>1, <1>2, <3>2 DEF Queries
      <4> QED BY <4>1
    <3>3. CASE h.key.device = d /\ h.key.method = Wild
      <4>1. S = {3}
        BY <1>1, <1>2, <3>3 DEF Queries
      <4> QED BY <4>1
    <3>4. CASE h.key.device = Wild /\ h.key.method = Wild
      <4>1. S = {4}
        BY <1>1, <1>2, <3>4 DEF Queries
      <4> QED BY <4>1
    <3> QED BY <1>4, <3>1, <3>2, <3>3, <3>4 DEF Matches
  <2> QED BY <2>1, <1>4, FS_Singleton DEF TimesFound
<1> QED BY <1>3, <1>4

\* A message finds each hook that is for it once, and no other.
THEOREM MessagesFindHooks == Spec => []AddedIsFound
<1>1. IInv => AddedIsFound
  BY OneQuery DEF IInv, TypeOK, RowsInOrder, AddedIsFound
<1> QED BY <1>1, Inductive, PTL
=============================================================================
