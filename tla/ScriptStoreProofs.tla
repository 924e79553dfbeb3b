------------------------- MODULE ScriptStoreProofs -------------------------
(***************************************************************************)
(* Proofs about ScriptStore, and about the devices that load its scripts   *)
(* (Assignment), for any number of requests, scripts, bodies and versions, *)
(* and whatever fails.                                                     *)
(***************************************************************************)
EXTENDS Assignment, SequenceTheorems, FiniteSetTheorems, TLAPS

-----------------------------------------------------------------------------
(* Types. *)

\* The initial states are well typed.
LEMMA InitType == Init => TypeOK
BY ScriptStoreAssumption DEF Init, TypeOK, StoreTypes, RequestTypes, PCs

\* The end of a request keeps its types.
LEMMA DoneType ==
  ASSUME RequestTypes, NEW r \in Requests, Done(r)
  PROVE  RequestTypes'
BY ScriptStoreAssumption DEF RequestTypes, Done, Goto, PCs

\* The start of a request keeps its types.
LEMMA BeginType ==
  ASSUME RequestTypes, NEW r \in Requests, NEW s \in Scripts,
         NEW n \in 0..MaxVersion, NEW b \in Bodies \cup {None}, Begin(r, s, n, b)
  PROVE  RequestTypes'
<1>1. n \in 0..(MaxVersion - 1)
  BY ScriptStoreAssumption DEF Begin
<1> QED
  BY <1>1 DEF RequestTypes, Begin, Goto, PCs

\* What a step leaves alone keeps its types.
LEMMA Kept ==
  /\ StoreTypes /\ UNCHANGED store => StoreTypes'
  /\ RequestTypes /\ UNCHANGED request => RequestTypes'
BY DEF StoreTypes, RequestTypes, store, request

\* The version a request has reserved is a version of its script.
LEMMA NextVersion ==
  ASSUME TypeOK, NEW r \in Requests, pc[r] # "idle"
  PROVE  script[r] \in Scripts /\ base[r] + 1 \in Versions
BY ScriptStoreAssumption DEF TypeOK, RequestTypes, Versions

\* Every step keeps the types.
LEMMA TypeStep == TypeOK /\ [Next]_vars => TypeOK'
<1> SUFFICES ASSUME TypeOK, [Next]_vars PROVE TypeOK'
  OBVIOUS
<1>0. StoreTypes /\ used \subseteq Scripts /\ deleting \subseteq Scripts /\ RequestTypes
  BY DEF TypeOK
<1>1. CASE UNCHANGED vars
  BY <1>0, <1>1, Kept DEF TypeOK, vars
<1>2. ASSUME NEW r \in Requests, NEW s \in Scripts, NEW b \in Bodies \cup {None},
             UpdateBegin(r, s, b) \/ CreateBegin(r, s, b) \/ DeleteBegin(r, s)
      PROVE  TypeOK'
  <2>1. CASE UpdateBegin(r, s, b)
    <3>1. heads[s] \in 0..MaxVersion
      BY <1>0 DEF StoreTypes
    <3> QED
      BY <1>0, <2>1, <3>1, BeginType, Kept DEF TypeOK, UpdateBegin, Begin
  <2>2. CASE CreateBegin(r, s, b)
    <3>1. 0 \in 0..MaxVersion
      BY ScriptStoreAssumption
    <3>2. Begin(r, s, 0, b)
      BY <2>2 DEF CreateBegin
    <3>3. RequestTypes'
      BY <1>0, <3>1, <3>2, BeginType
    <3> QED
      BY <1>0, <2>2, <3>2, <3>3, Kept DEF TypeOK, CreateBegin, Begin
  <2>3. CASE DeleteBegin(r, s)
    <3>1. RequestTypes'
      BY <1>0, <2>3 DEF RequestTypes, DeleteBegin, Goto, PCs, Deleting
    <3> QED
      BY <1>0, <2>3, <3>1, Kept DEF TypeOK, DeleteBegin
  <2> QED
    BY <1>2, <2>1, <2>2, <2>3
<1>3. ASSUME NEW r \in Requests, Refused(r) \/ TooBig(r) \/ Fail(r) PROVE TypeOK'
  BY <1>0, <1>3, DoneType, Kept DEF TypeOK, Refused, TooBig, Fail
<1>4. ASSUME NEW r \in Requests, Claim(r) PROVE TypeOK'
  <2>1. script[r] \in Scripts /\ base[r] + 1 \in Versions
    BY <1>4, NextVersion DEF Claim
  <2>2. StoreTypes'
    BY <1>0, <1>4, <2>1 DEF StoreTypes, Claim
  <2>3. RequestTypes'
    BY <1>0, <1>4 DEF RequestTypes, Claim, Goto, PCs, Claimed
  <2> QED
    BY <1>0, <1>4, <2>2, <2>3 DEF TypeOK, Claim
<1>5. ASSUME NEW r \in Requests, Copy(r) PROVE TypeOK'
  <2>1. blobs[script[r]][base[r]] \in Bodies \cup {None}
    BY <1>0, <1>5, NextVersion DEF StoreTypes, Copy
  <2>2. RequestTypes'
    BY <1>0, <1>5, <2>1 DEF RequestTypes, Copy, Goto, PCs, Claimed
  <2> QED
    BY <1>0, <1>5, <2>2, Kept DEF TypeOK, Copy
<1>6. ASSUME NEW r \in Requests, Upload(r) PROVE TypeOK'
  <2>1. script[r] \in Scripts /\ base[r] + 1 \in Versions
    BY <1>6, NextVersion DEF Upload
  <2>2. StoreTypes'
    BY <1>0, <1>6, <2>1 DEF StoreTypes, RequestTypes, Upload
  <2>3. RequestTypes'
    BY <1>0, <1>6 DEF RequestTypes, Upload, Goto, PCs, Claimed
  <2> QED
    BY <1>0, <1>6, <2>2, <2>3 DEF TypeOK, Upload
<1>7. ASSUME NEW r \in Requests, Index(r) PROVE TypeOK'
  <2>1. script[r] \in Scripts /\ base[r] + 1 \in Versions
    BY <1>7, NextVersion DEF Index
  <2>2. StoreTypes'
    BY <1>0, <1>7, <2>1 DEF StoreTypes, Index
  <2>3. RequestTypes'
    BY <1>0, <1>7 DEF RequestTypes, Index, Goto, PCs, Claimed
  <2> QED
    BY <1>0, <1>7, <2>2, <2>3 DEF TypeOK, Index
<1>8. ASSUME NEW r \in Requests, WriteHead(r) PROVE TypeOK'
  <2>1. script[r] \in Scripts /\ base[r] + 1 \in Versions
    BY <1>8, NextVersion DEF WriteHead
  <2>2. StoreTypes'
    BY <1>0, <1>8, <2>1 DEF StoreTypes, WriteHead, Versions
  <2> QED
    BY <1>0, <1>8, <2>2, DoneType DEF TypeOK, WriteHead
<1>9. ASSUME NEW r \in Requests, ListBlobs(r) \/ ListEntries(r) PROVE TypeOK'
  <2>1. script[r] \in Scripts
    BY <1>9, NextVersion DEF ListBlobs, ListEntries
  <2>2. RequestTypes'
    BY <1>0, <1>9, <2>1
    DEF RequestTypes, StoreTypes, ListBlobs, ListEntries, Goto, PCs, Deleting
  <2> QED
    BY <1>0, <1>9, <2>2, Kept DEF TypeOK, ListBlobs, ListEntries
<1>10. ASSUME NEW r \in Requests, DelBlob(r) \/ DelEntry(r) PROVE TypeOK'
  <2>1. StoreTypes'
    <3>1. CASE DelBlob(r)
      <4> DEFINE s == script[r]
                 v == Newest(todo[r])
      <4>1. blobs' = [blobs EXCEPT ![s][v] = None]
        BY <3>1 DEF DelBlob
      <4>2. blobs' \in [Scripts -> [Versions -> Bodies \cup {None}]]
        BY <1>0, <4>1 DEF StoreTypes
      <4> QED
        BY <1>0, <3>1, <4>2 DEF StoreTypes, DelBlob
    <3>2. CASE DelEntry(r)
      BY <1>0, <3>2 DEF StoreTypes, DelEntry
    <3> QED
      BY <1>10, <3>1, <3>2
  <2>2. RequestTypes'
    BY <1>0, <1>10 DEF RequestTypes, DelBlob, DelEntry
  <2> QED
    BY <1>0, <1>10, <2>1, <2>2 DEF TypeOK, DelBlob, DelEntry
<1>11. ASSUME NEW r \in Requests, DelHead(r) PROVE TypeOK'
  <2>1. StoreTypes'
    <3>1. 0 \in 0..MaxVersion
      BY ScriptStoreAssumption
    <3> QED
      BY <1>0, <1>11, <3>1 DEF StoreTypes, DelHead
  <2> QED
    BY <1>0, <1>11, <2>1, DoneType DEF TypeOK, DelHead
<1> QED
  BY <1>1, <1>2, <1>3, <1>4, <1>5, <1>6, <1>7, <1>8, <1>9, <1>10, <1>11 DEF Next

\* The variables keep their types, in every execution.
THEOREM Typing == Spec => []TypeOK
BY InitType, TypeStep, PTL DEF Spec

-----------------------------------------------------------------------------
(* The invariant.  A step that leaves live scripts alone and moves requests *)
(* out of updateScript, or to its start, keeps every part of it.            *)

\* The invariant holds initially.
LEMMA InitInv == Init => IInv
<1> SUFFICES ASSUME Init PROVE IInv
  OBVIOUS
<1>1. HeadComplete /\ NoStrayBlob
  BY DEF Init, HeadComplete, NoStrayBlob, Live
<1>2. ClaimExclusive /\ InOrder
  BY DEF Init, ClaimExclusive, InOrder, Claimed, Deleting
<1>3. ShaIndexSound
  BY ScriptStoreAssumption DEF Init, ShaIndexSound, Live
<1> QED
  BY <1>1, <1>2, <1>3, InitType DEF IInv

Quiet ==
  /\ deleting \subseteq deleting'
  /\ \A s \in Scripts \ deleting' :
       heads'[s] = heads[s] /\ entries'[s] = entries[s] /\ blobs'[s] = blobs[s]
  /\ shaIndex' = shaIndex
  /\ \A q \in Requests :
       \/ pc'[q] = pc[q] /\ script'[q] = script[q] /\ base'[q] = base[q] /\ body'[q] = body[q]
       \/ pc'[q] = "idle"
       \/ pc'[q] \in Deleting /\ script'[q] \in deleting'
       \/ pc'[q] = "claim" /\ (script'[q] \in Live => base'[q] <= heads[script'[q]])

\* A quiet step keeps the invariant.
LEMMA QuietInv ==
  ASSUME IInv, TypeOK', Quiet
  PROVE  IInv'
<1>1. Live' \subseteq Live
  BY DEF Quiet, Live
<1>2. HeadComplete'
  BY <1>1 DEF IInv, HeadComplete, Quiet, Live
<1>3. ClaimExclusive'
  BY <1>1 DEF IInv, ClaimExclusive, Quiet, Live, Claimed, Deleting
<1>4. ShaIndexSound'
  BY <1>1 DEF IInv, ShaIndexSound, Quiet, Live
<1>5. InOrder'
  <2> SUFFICES ASSUME NEW q \in Requests
               PROVE  InOrder!(q)'
    BY DEF InOrder
  <2> QED
    BY <1>1 DEF IInv, InOrder, Quiet, Live, Claimed, Deleting
<1>6. NoStrayBlob'
  BY <1>1 DEF IInv, NoStrayBlob, Quiet, Live
<1> QED
  BY <1>2, <1>3, <1>4, <1>5, <1>6 DEF IInv

\* Requests begin and stop, and deletions run: all of these are quiet.
LEMMA QuietSteps ==
  ASSUME IInv, NEW r \in Requests
  PROVE  /\ \A s \in Scripts, b \in Bodies \cup {None} :
              UpdateBegin(r, s, b) \/ CreateBegin(r, s, b) \/ DeleteBegin(r, s) => Quiet
         /\ Refused(r) \/ TooBig(r) \/ Fail(r) => Quiet
         /\ ListBlobs(r) \/ ListEntries(r) => Quiet
         /\ DelBlob(r) \/ DelEntry(r) \/ DelHead(r) => Quiet
<1>0. TypeOK /\ StoreTypes /\ RequestTypes
  BY DEF IInv, TypeOK
<1>1. ASSUME NEW s \in Scripts, NEW n \in 0..MaxVersion, NEW b \in Bodies \cup {None},
             n <= heads[s], Begin(r, s, n, b)
      PROVE  Quiet
  BY <1>0, <1>1 DEF RequestTypes, Begin, Goto, Quiet, store, Live
<1>2. ASSUME NEW s \in Scripts, NEW b \in Bodies \cup {None}
      PROVE  UpdateBegin(r, s, b) \/ CreateBegin(r, s, b) \/ DeleteBegin(r, s) => Quiet
  <2>1. heads[s] \in 0..MaxVersion /\ 0 \in 0..MaxVersion /\ 0 <= heads[s] /\ heads[s] <= heads[s]
    BY <1>0, ScriptStoreAssumption DEF StoreTypes
  <2>2. UpdateBegin(r, s, b) \/ CreateBegin(r, s, b) => Quiet
    BY <1>1, <2>1 DEF UpdateBegin, CreateBegin
  <2>3. DeleteBegin(r, s) => Quiet
    BY <1>0 DEF RequestTypes, DeleteBegin, Goto, Quiet, store, Live, Deleting
  <2> QED
    BY <2>2, <2>3
<1>3. ASSUME Done(r), UNCHANGED <<store, deleting>> PROVE Quiet
  BY <1>0, <1>3 DEF RequestTypes, Done, Goto, Quiet, store
<1>4. Refused(r) \/ TooBig(r) \/ Fail(r) => Quiet
  BY <1>3 DEF Refused, TooBig, Fail
<1>5. pc[r] \in Deleting => script[r] \in deleting
  BY DEF IInv, InOrder
<1>6. ListBlobs(r) \/ ListEntries(r) => Quiet
  BY <1>0, <1>5 DEF RequestTypes, ListBlobs, ListEntries, Goto, Quiet, store, Deleting
<1>7. DelBlob(r) => Quiet
  BY <1>0, <1>5 DEF StoreTypes, DelBlob, Quiet, Deleting
<1>8. DelEntry(r) => Quiet
  BY <1>0, <1>5 DEF StoreTypes, DelEntry, Quiet, Deleting
<1>9. DelHead(r) => Quiet
  BY <1>0, <1>5 DEF StoreTypes, RequestTypes, DelHead, Done, Goto, Quiet, Deleting
<1> QED
  BY <1>2, <1>4, <1>6, <1>7, <1>8, <1>9

\* A version can be claimed only by an update of the row as it is now, and
\* only when no other update of the script is there.
LEMMA ClaimAlone ==
  ASSUME IInv, NEW r \in Requests, Claim(r), script[r] \in Live
  PROVE  /\ base[r] = heads[script[r]]
         /\ \A q \in Requests : pc[q] \in Claimed => script[q] # script[r]
<1> DEFINE s == script[r]
<1>0. StoreTypes /\ RequestTypes
  BY DEF IInv, TypeOK
<1>1. base[r] <= heads[s] /\ base[r] + 1 \notin entries[s] /\ pc[r] = "claim"
  BY DEF IInv, InOrder, Claim
<1>2. base[r] \in Nat /\ heads[s] \in Nat
  BY <1>0, ScriptStoreAssumption DEF StoreTypes, RequestTypes, Live
<1>3. ~ (base[r] + 1 \in 1..heads[s])
  BY <1>1 DEF IInv, HeadComplete
<1>4. base[r] = heads[s]
  BY <1>1, <1>2, <1>3
<1>5. ASSUME NEW q \in Requests, pc[q] \in Claimed, script[q] = s PROVE FALSE
  <2>1. heads[s] = base[q] /\ base[q] + 1 \in entries[s]
    BY <1>5 DEF IInv, ClaimExclusive, InOrder
  <2> QED
    BY <1>1, <1>4, <2>1
<1> QED
  BY <1>4, <1>5

\* A claim keeps the invariant.
LEMMA ClaimInv ==
  ASSUME IInv, TypeOK', NEW r \in Requests, Claim(r)
  PROVE  IInv'
<1> DEFINE s == script[r]
<1>0. StoreTypes /\ RequestTypes /\ s \in Scripts /\ base[r] + 1 \in Versions
  BY NextVersion DEF IInv, TypeOK, Claim
<1>1. /\ Live' = Live /\ UNCHANGED <<heads, blobs, shaIndex, script, base, body>>
      /\ entries' = [entries EXCEPT ![s] = @ \cup {base[r] + 1}]
      /\ pc[r] = "claim" /\ base[r] + 1 \notin entries[s]
      /\ pc' = [pc EXCEPT ![r] = IF body[r] = None THEN "copy" ELSE "upload"]
  BY DEF Claim, Live, Goto
<1>2. \A t \in Scripts : entries[t] \subseteq entries'[t]
  BY <1>0, <1>1 DEF StoreTypes
<1>3. base[r] + 1 \in entries'[s]
  BY <1>0, <1>1 DEF StoreTypes
<1>4. /\ pc'[r] \in {"copy", "upload"} /\ (pc'[r] = "upload" => body[r] # None)
      /\ \A q \in Requests : q # r => pc'[q] = pc[q]
  BY <1>0, <1>1 DEF RequestTypes
<1>5. HeadComplete'
  BY <1>1, <1>2 DEF IInv, HeadComplete, Live
<1>6. ClaimExclusive'
  BY <1>1, <1>4, ClaimAlone DEF IInv, ClaimExclusive
<1>7. ShaIndexSound'
  BY <1>1 DEF IInv, ShaIndexSound
<1>8. InOrder'
  <2>1. InOrder!(r)'
    <3>1. s \in Live => blobs[s][base[r] + 1] = None
      BY <1>0, <1>1 DEF IInv, NoStrayBlob
    <3>2. body[r] \in Bodies \cup {None}
      BY <1>0 DEF RequestTypes
    <3> QED
      BY <1>1, <1>3, <1>4, <3>1, <3>2 DEF Claimed, Deleting
  <2>2. ASSUME NEW q \in Requests, q # r PROVE InOrder!(q)'
    <3>1. InOrder!(q) /\ pc'[q] = pc[q] /\ deleting' = deleting
      BY <1>4, <2>2 DEF IInv, InOrder, Claim
    <3> QED
      BY <1>1, <1>2, <3>1 DEF Live
  <2> QED
    BY <2>1, <2>2 DEF InOrder
<1>9. NoStrayBlob'
  BY <1>1, <1>2 DEF IInv, NoStrayBlob, Live
<1> QED
  BY <1>5, <1>6, <1>7, <1>8, <1>9 DEF IInv

\* The copy of the previous body keeps the invariant.
LEMMA CopyInv ==
  ASSUME IInv, TypeOK', NEW r \in Requests, Copy(r)
  PROVE  IInv'
<1> DEFINE s == script[r]
<1>0. StoreTypes /\ RequestTypes /\ s \in Scripts
  BY NextVersion DEF IInv, TypeOK, Copy
<1>1. /\ Live' = Live /\ UNCHANGED <<store, script, base, deleting>>
      /\ body' = [body EXCEPT ![r] = blobs[s][base[r]]]
      /\ blobs[s][base[r]] \in Bodies
      /\ pc[r] = "copy" /\ pc' = [pc EXCEPT ![r] = "upload"]
  BY <1>0 DEF Copy, Live, Goto, StoreTypes
<1>2. /\ pc'[r] = "upload" /\ body'[r] \in Bodies
      /\ \A q \in Requests : q # r => pc'[q] = pc[q] /\ body'[q] = body[q]
  BY <1>0, <1>1 DEF RequestTypes
<1>3. HeadComplete' /\ ShaIndexSound' /\ NoStrayBlob'
  BY <1>1 DEF IInv, HeadComplete, ShaIndexSound, NoStrayBlob, store
<1>4. ClaimExclusive'
  BY <1>1, <1>2 DEF IInv, ClaimExclusive, store, Claimed
<1>5. InOrder'
  <2>1. InOrder!(r)'
    BY <1>1, <1>2 DEF IInv, InOrder, store, Claimed, Deleting
  <2>2. ASSUME NEW q \in Requests, q # r PROVE InOrder!(q)'
    BY <1>1, <1>2, <2>2 DEF IInv, InOrder, store
  <2> QED
    BY <2>1, <2>2 DEF InOrder
<1> QED
  BY <1>3, <1>4, <1>5 DEF IInv

\* The blob is written at a version above the row, where there is none yet:
\* no published body and no row of the index is touched.
LEMMA UploadInv ==
  ASSUME IInv, TypeOK', NEW r \in Requests, Upload(r)
  PROVE  IInv'
<1> DEFINE s == script[r]
           n == base[r] + 1
<1>0. StoreTypes /\ RequestTypes /\ s \in Scripts /\ n \in Versions
  BY NextVersion DEF IInv, TypeOK, Upload
<1>1. /\ Live' = Live
      /\ UNCHANGED <<heads, entries, shaIndex, deleting, script, base, body>>
      /\ blobs' = [blobs EXCEPT ![s][n] = body[r]]
      /\ pc[r] = "upload"
      /\ pc' = [pc EXCEPT ![r] = IF Sha[body[r]] = None THEN "head" ELSE "index"]
  BY DEF Upload, Live, Goto
<1>2. body[r] \in Bodies /\ body[r] # None
  BY <1>1, ScriptStoreAssumption DEF IInv, InOrder
<1>3. /\ pc'[r] \in {"head", "index"} /\ (pc'[r] = "index" => Sha[body[r]] # None)
      /\ \A q \in Requests : q # r => pc'[q] = pc[q]
  BY <1>0, <1>1 DEF RequestTypes
<1>4. /\ blobs'[s][n] = body[r]
      /\ \A t \in Scripts, v \in Versions : <<t, v>> # <<s, n>> => blobs'[t][v] = blobs[t][v]
  BY <1>0, <1>1 DEF StoreTypes
<1>5. s \in Live => /\ blobs[s][n] = None /\ n \in entries[s]
                    /\ \A q \in Requests : q # r /\ pc[q] \in Claimed => script[q] # s
  BY <1>1 DEF IInv, InOrder, ClaimExclusive, Claimed
<1>6. HeadComplete'
  <2> SUFFICES ASSUME NEW t \in Live, NEW v \in 1..heads[t]
               PROVE  v \in entries[t] /\ blobs'[t][v] # None
    BY <1>1 DEF HeadComplete
  <2>1. v \in Versions
    BY <1>0, ScriptStoreAssumption DEF StoreTypes, Versions, Live
  <2> QED
    BY <1>2, <1>4, <2>1 DEF IInv, HeadComplete, Live
<1>7. ClaimExclusive'
  BY <1>1, <1>3 DEF IInv, ClaimExclusive, Claimed
<1>8. ShaIndexSound'
  <2> SUFFICES ASSUME NEW h \in Shas, NEW t \in Live, NEW v \in Versions,
                      shaIndex[h] = <<t, v>>
               PROVE  blobs'[t][v] # None /\ Sha[blobs'[t][v]] = h
    BY <1>1 DEF ShaIndexSound
  <2>1. blobs[t][v] # None /\ Sha[blobs[t][v]] = h
    BY DEF IInv, ShaIndexSound
  <2> QED
    BY <1>4, <1>5, <2>1 DEF Live
<1>9. InOrder'
  <2>1. InOrder!(r)'
    BY <1>1, <1>2, <1>3, <1>4, <1>5 DEF Claimed, Deleting
  <2>2. ASSUME NEW q \in Requests, q # r PROVE InOrder!(q)'
    <3>1. InOrder!(q) /\ pc'[q] = pc[q]
      BY <1>3, <2>2 DEF IInv, InOrder
    <3>2. pc[q] \in Claimed => script[q] \in Scripts /\ base[q] + 1 \in Versions
      BY NextVersion DEF IInv, Claimed
    <3>3. pc[q] \in Claimed /\ script[q] \in Live =>
            blobs'[script[q]][base[q] + 1] = blobs[script[q]][base[q] + 1]
      BY <1>4, <1>5, <2>2, <3>2
    <3> QED
      BY <1>1, <3>1, <3>3
  <2> QED
    BY <2>1, <2>2 DEF InOrder
<1>10. NoStrayBlob'
  BY <1>1, <1>4, <1>5 DEF IInv, NoStrayBlob, Live
<1> QED
  BY <1>6, <1>7, <1>8, <1>9, <1>10 DEF IInv

\* The row of the sha index keeps the invariant.
LEMMA IndexInv ==
  ASSUME IInv, TypeOK', NEW r \in Requests, Index(r)
  PROVE  IInv'
<1> DEFINE s == script[r]
           n == base[r] + 1
<1>0. StoreTypes /\ RequestTypes /\ s \in Scripts /\ n \in Versions
  BY NextVersion DEF IInv, TypeOK, Index
<1>1. /\ Live' = Live
      /\ UNCHANGED <<heads, entries, blobs, deleting, script, base, body>>
      /\ shaIndex' = [shaIndex EXCEPT ![Sha[body[r]]] = <<s, n>>]
      /\ pc[r] = "index" /\ pc' = [pc EXCEPT ![r] = "head"]
  BY DEF Index, Live, Goto
<1>2. pc'[r] = "head" /\ \A q \in Requests : q # r => pc'[q] = pc[q]
  BY <1>0, <1>1 DEF RequestTypes
<1>3. s \in Live => blobs[s][n] = body[r]
  BY <1>1 DEF IInv, InOrder, Claimed
<1>4. body[r] \in Bodies /\ body[r] # None
  BY <1>1, ScriptStoreAssumption DEF IInv, InOrder
<1>5. HeadComplete' /\ NoStrayBlob'
  BY <1>1 DEF IInv, HeadComplete, NoStrayBlob
<1>6. ClaimExclusive'
  BY <1>1, <1>2 DEF IInv, ClaimExclusive, Claimed
<1>7. ShaIndexSound'
  <2> SUFFICES ASSUME NEW h \in Shas, NEW t \in Live, NEW v \in Versions,
                      shaIndex'[h] = <<t, v>>
               PROVE  blobs[t][v] # None /\ Sha[blobs[t][v]] = h
    BY <1>1 DEF ShaIndexSound
  <2>1. CASE h = Sha[body[r]]
    <3>1. t = s /\ v = n
      BY <1>0, <1>1, <2>1 DEF StoreTypes
    <3> QED
      BY <1>3, <1>4, <2>1, <3>1
  <2>2. CASE h # Sha[body[r]]
    <3>1. shaIndex[h] = <<t, v>>
      BY <1>0, <1>1, <2>2 DEF StoreTypes
    <3> QED
      BY <3>1 DEF IInv, ShaIndexSound
  <2> QED
    BY <2>1, <2>2
<1>8. InOrder'
  <2>1. InOrder!(r)'
    BY <1>1, <1>2 DEF IInv, InOrder, Claimed, Deleting
  <2>2. ASSUME NEW q \in Requests, q # r PROVE InOrder!(q)'
    BY <1>1, <1>2, <2>2 DEF IInv, InOrder
  <2> QED
    BY <2>1, <2>2 DEF InOrder
<1> QED
  BY <1>5, <1>6, <1>7, <1>8 DEF IInv

\* What WriteHead does to the row of a live script.
LEMMA HeadMoves ==
  ASSUME IInv, NEW r \in Requests, WriteHead(r)
  PROVE  /\ script[r] \in Scripts /\ base[r] \in Nat /\ base[r] + 1 \in Versions
         /\ \A t \in Scripts : t # script[r] => heads'[t] = heads[t]
         /\ heads'[script[r]] = base[r] + 1
         /\ script[r] \in Live => heads[script[r]] = base[r]
         /\ script[r] \in Live => /\ base[r] + 1 \in entries[script[r]]
                                  /\ blobs[script[r]][base[r] + 1] = body[r]
         /\ body[r] \in Bodies /\ body[r] # None
<1>0. StoreTypes /\ RequestTypes /\ script[r] \in Scripts /\ base[r] + 1 \in Versions
  BY NextVersion DEF IInv, TypeOK, WriteHead
<1>1. base[r] \in Nat
  BY <1>0, ScriptStoreAssumption DEF RequestTypes
<1>2. /\ \A t \in Scripts : t # script[r] => heads'[t] = heads[t]
      /\ heads'[script[r]] = base[r] + 1
  BY <1>0 DEF StoreTypes, WriteHead
<1>3. pc[r] = "head"
  BY DEF WriteHead
<1>4. script[r] \in Live => heads[script[r]] = base[r]
  BY <1>3 DEF IInv, ClaimExclusive, Claimed
<1>5. script[r] \in Live => /\ base[r] + 1 \in entries[script[r]]
                            /\ blobs[script[r]][base[r] + 1] = body[r]
  BY <1>3 DEF IInv, InOrder, Claimed
<1>6. body[r] \in Bodies /\ body[r] # None
  BY <1>3, ScriptStoreAssumption DEF IInv, InOrder
<1> QED
  BY <1>0, <1>1, <1>2, <1>4, <1>5, <1>6

\* The write of the row keeps the invariant.
LEMMA WriteHeadInv ==
  ASSUME IInv, TypeOK', NEW r \in Requests, WriteHead(r)
  PROVE  IInv'
<1> DEFINE s == script[r]
           n == base[r] + 1
<1>0. StoreTypes /\ RequestTypes
  BY DEF IInv, TypeOK
<1>1. /\ Live' = Live /\ UNCHANGED <<entries, blobs, shaIndex, deleting>>
      /\ pc[r] = "head" /\ Done(r)
  BY DEF WriteHead, Live
<1>2. /\ pc'[r] = "idle"
      /\ \A q \in Requests : q # r =>
           pc'[q] = pc[q] /\ script'[q] = script[q] /\ base'[q] = base[q] /\ body'[q] = body[q]
  BY <1>0, <1>1 DEF RequestTypes, Done, Goto
<1>3. s \in Live => \A q \in Requests : q # r /\ pc[q] \in Claimed => script[q] # s
  BY <1>1 DEF IInv, ClaimExclusive, Claimed
<1>4. \A t \in Live : heads'[t] = heads[t] \/ (t = s /\ heads[t] = base[r] /\ heads'[t] = n)
  BY HeadMoves DEF Live
<1>5. HeadComplete'
  <2> SUFFICES ASSUME NEW t \in Live, NEW v \in 1..heads'[t]
               PROVE  v \in entries[t] /\ blobs[t][v] # None
    BY <1>1 DEF HeadComplete
  <2>1. CASE heads'[t] = heads[t]
    BY <2>1 DEF IInv, HeadComplete
  <2>2. CASE t = s /\ heads[t] = base[r] /\ heads'[t] = n
    <3>1. v = n \/ v \in 1..heads[t]
      BY <2>2, HeadMoves
    <3> QED
      BY <2>2, <3>1, HeadMoves DEF IInv, HeadComplete
  <2> QED
    BY <1>4, <2>1, <2>2
<1>6. ClaimExclusive'
  <2> SUFFICES ASSUME NEW q \in Requests, pc'[q] \in Claimed, script'[q] \in Live
               PROVE  /\ heads'[script'[q]] = base'[q]
                      /\ \A p \in Requests :
                           pc'[p] \in Claimed /\ script'[p] = script'[q] => p = q
    BY <1>1 DEF ClaimExclusive
  <2>1. q # r /\ pc[q] \in Claimed /\ script'[q] = script[q] /\ base'[q] = base[q]
    BY <1>2 DEF Claimed
  <2>2. script[q] # s
    BY <1>3, <2>1
  <2>3. heads'[script[q]] = heads[script[q]]
    BY <2>1, <2>2, HeadMoves DEF Live
  <2> QED
    BY <1>2, <2>1, <2>3 DEF IInv, ClaimExclusive, Claimed
<1>7. ShaIndexSound' /\ NoStrayBlob'
  BY <1>1 DEF IInv, ShaIndexSound, NoStrayBlob
<1>8. InOrder'
  <2>1. InOrder!(r)'
    BY <1>2 DEF Claimed, Deleting
  <2>2. ASSUME NEW q \in Requests, q # r PROVE InOrder!(q)'
    <3>1. /\ InOrder!(q) /\ pc'[q] = pc[q] /\ script'[q] = script[q]
          /\ base'[q] = base[q] /\ body'[q] = body[q]
      BY <1>2, <2>2 DEF IInv, InOrder
    <3>2. base[q] \in Nat
      BY <1>0, ScriptStoreAssumption DEF RequestTypes
    <3>3. pc[q] = "claim" /\ script[q] \in Live => base[q] <= heads'[script[q]]
      BY <1>4, <3>1, <3>2, HeadMoves
    <3> QED
      BY <1>1, <3>1, <3>3
  <2> QED
    BY <2>1, <2>2 DEF InOrder
<1> QED
  BY <1>5, <1>6, <1>7, <1>8 DEF IInv

\* Every step keeps the invariant.
LEMMA StepInv == IInv /\ [Next]_vars => IInv'
<1> SUFFICES ASSUME IInv, [Next]_vars PROVE IInv'
  OBVIOUS
<1>0. TypeOK'
  BY TypeStep DEF IInv
<1>1. CASE UNCHANGED vars
  BY <1>0, <1>1, QuietInv DEF vars, store, request, Quiet
<1>2. CASE Next
  <2> SUFFICES ASSUME NEW r \in Requests, Next!(r) PROVE IInv'
    BY <1>2 DEF Next
  <2>1. CASE Quiet
    BY <1>0, <2>1, QuietInv
  <2>2. CASE Claim(r) \/ Copy(r) \/ Upload(r) \/ Index(r) \/ WriteHead(r)
    BY <1>0, <2>2, ClaimInv, CopyInv, UploadInv, IndexInv, WriteHeadInv
  <2> QED
    BY <2>1, <2>2, QuietSteps
<1> QED
  BY <1>1, <1>2

-----------------------------------------------------------------------------
(* The theorems. *)

\* The invariant holds in every execution.
THEOREM Inductive == Spec => []IInv
BY InitInv, StepInv, PTL DEF Spec

\* Every version up to the row of a live script has its entry and its blob.
THEOREM HeadIsComplete == Spec => []HeadComplete
<1>1. IInv => HeadComplete
  BY DEF IInv
<1> QED
  BY <1>1, Inductive, PTL

\* The row of a program in the sha index leads to that program.
THEOREM IndexIsSound == Spec => []ShaIndexSound
<1>1. IInv => ShaIndexSound
  BY DEF IInv
<1> QED
  BY <1>1, Inductive, PTL

\* createEntity in scriptVersions is a lock: whoever has it is alone, and
\* updates the row it started from.
THEOREM ClaimIsExclusive == Spec => []ClaimExclusive
<1>1. IInv => ClaimExclusive
  BY DEF IInv
<1> QED
  BY <1>1, Inductive, PTL

-----------------------------------------------------------------------------
(* The store implements the log. *)

\* The log of script s, as ImplementsLog maps it.
LogOf(s) == IF s \in deleting THEN <<>> ELSE [v \in 1..heads[s] |-> blobs[s][v]]

\* A log one version longer is the old one with a body appended.
LEMMA LogGrows ==
  ASSUME NEW n \in Nat, NEW f, NEW b, f[n + 1] = b
  PROVE  [v \in 1..(n + 1) |-> f[v]] = Append([v \in 1..n |-> f[v]], b)
<1> DEFINE old == [v \in 1..n |-> f[v]]
           new == [v \in 1..(n + 1) |-> f[v]]
           S == {f[v] : v \in 1..(n + 1)}
<1>1. old \in Seq(S) /\ Len(old) = n
  OBVIOUS
<1>2. new \in Seq(S) /\ Len(new) = n + 1
  OBVIOUS
<1>3. b \in S
  OBVIOUS
<1>4. Append(old, b) \in Seq(S) /\ Len(Append(old, b)) = n + 1
  BY <1>1, <1>3, AppendProperties
<1>5. \A i \in 1..(n + 1) : new[i] = Append(old, b)[i]
  BY <1>1, <1>3, AppendProperties
<1> QED
  BY <1>2, <1>4, <1>5, SeqEqual

\* Only the write of the row and the start of a deletion change a log.
LEMMA LogKept ==
  ASSUME IInv, deleting' = deleting,
         \A s \in Live : heads'[s] = heads[s] /\
           \A v \in 1..heads[s] : blobs'[s][v] = blobs[s][v]
  PROVE  \A s \in Scripts : LogOf(s)' = LogOf(s)
BY DEF LogOf, Live

\* A step empties one log for a deletion, appends to one, or changes none.
LEMMA LogStep ==
  ASSUME IInv, [Next]_vars
  PROVE  \/ \E s \in Scripts :
              /\ deleting' = deleting \cup {s}
              /\ LogOf(s)' = <<>>
              /\ \A t \in Scripts : t # s => LogOf(t)' = LogOf(t)
         \/ \E s \in Scripts \ deleting, b \in Bodies :
              /\ deleting' = deleting
              /\ LogOf(s)' = Append(LogOf(s), b)
              /\ \A t \in Scripts : t # s => LogOf(t)' = LogOf(t)
         \/ deleting' = deleting /\ \A t \in Scripts : LogOf(t)' = LogOf(t)
<1>0. StoreTypes /\ RequestTypes
  BY DEF IInv, TypeOK
<1>1. CASE UNCHANGED vars
  BY <1>1 DEF vars, store, LogOf
<1>2. CASE Next
  <2> SUFFICES ASSUME NEW r \in Requests, Next!(r)
               PROVE  \/ \E s \in Scripts :
                           /\ deleting' = deleting \cup {s}
                           /\ LogOf(s)' = <<>>
                           /\ \A t \in Scripts : t # s => LogOf(t)' = LogOf(t)
                      \/ \E s \in Scripts \ deleting, b \in Bodies :
                           /\ deleting' = deleting
                           /\ LogOf(s)' = Append(LogOf(s), b)
                           /\ \A t \in Scripts : t # s => LogOf(t)' = LogOf(t)
                      \/ deleting' = deleting /\ \A t \in Scripts : LogOf(t)' = LogOf(t)
    BY <1>2 DEF Next
  <2>1. ASSUME NEW s \in Scripts, DeleteBegin(r, s)
        PROVE  /\ deleting' = deleting \cup {s}
               /\ LogOf(s)' = <<>>
               /\ \A t \in Scripts : t # s => LogOf(t)' = LogOf(t)
    BY <2>1 DEF DeleteBegin, LogOf, store
  <2>2. CASE Quiet /\ deleting' = deleting
    BY <2>2, LogKept DEF Quiet, Live
  <2>3. CASE Claim(r) \/ Copy(r) \/ Index(r)
    BY <2>3, LogKept DEF Claim, Copy, Index, store
  <2>4. CASE Upload(r)
    <3>1. pc[r] = "upload" /\ deleting' = deleting /\ heads' = heads
      BY <2>4 DEF Upload
    <3>2. script[r] \in Scripts /\ base[r] + 1 \in Versions /\ base[r] \in Nat
      BY <1>0, <2>4, NextVersion, ScriptStoreAssumption DEF IInv, Upload, RequestTypes
    <3>3. \A s \in Scripts, v \in Versions :
            <<s, v>> # <<script[r], base[r] + 1>> => blobs'[s][v] = blobs[s][v]
      BY <1>0, <2>4 DEF Upload, StoreTypes
    <3>4. script[r] \in Live => heads[script[r]] = base[r]
      BY <3>1 DEF IInv, ClaimExclusive, Claimed
    <3>5. ASSUME NEW s \in Live, NEW v \in 1..heads[s] PROVE blobs'[s][v] = blobs[s][v]
      <4>1. v \in Versions /\ s \in Scripts
        BY <1>0, ScriptStoreAssumption DEF StoreTypes, Versions, Live
      <4>2. s = script[r] => v # base[r] + 1
        BY <3>2, <3>4
      <4> QED
        BY <3>3, <4>1, <4>2
    <3> QED
      BY <3>1, <3>5, LogKept
  <2>5. CASE WriteHead(r)
    <3>0. PICK s \in Scripts : s = script[r]
      BY <2>5, HeadMoves
    <3>1. deleting' = deleting /\ blobs' = blobs
      BY <2>5 DEF WriteHead
    <3>2. \A t \in Scripts : t # s => LogOf(t)' = LogOf(t)
      BY <2>5, <3>0, <3>1, HeadMoves DEF LogOf
    <3>3. CASE s \in deleting
      BY <3>1, <3>2, <3>3 DEF LogOf
    <3>4. CASE s \notin deleting
      <4>1. s \in Live /\ heads[s] = base[r] /\ heads'[s] = base[r] + 1
        BY <2>5, <3>0, <3>4, HeadMoves DEF Live
      <4>2. blobs[s][base[r] + 1] = body[r] /\ base[r] \in Nat
        BY <2>5, <3>0, <4>1, HeadMoves
      <4>3. /\ LogOf(s) = [v \in 1..base[r] |-> blobs[s][v]]
            /\ LogOf(s)' = [v \in 1..(base[r] + 1) |-> blobs[s][v]]
        BY <3>1, <3>4, <4>1 DEF LogOf
      <4>4. LogOf(s)' = Append(LogOf(s), body[r])
        BY <4>2, <4>3, LogGrows
      <4>5. s \in Scripts \ deleting /\ body[r] \in Bodies
        BY <2>5, <3>0, <3>4, HeadMoves
      <4> QED
        BY <3>1, <3>2, <4>4, <4>5
    <3> QED
      BY <3>3, <3>4
  <2>6. ASSUME ~\E s \in Scripts : DeleteBegin(r, s)
        PROVE  deleting' = deleting
    BY <2>6 DEF UpdateBegin, CreateBegin, Begin, Claim, Refused, Copy, Upload, TooBig,
                Index, WriteHead, ListBlobs, DelBlob, ListEntries, DelEntry, DelHead, Fail
  <2> QED
    BY <2>1, <2>2, <2>3, <2>4, <2>5, <2>6, QuietSteps
<1> QED
  BY <1>1, <1>2

\* Every behaviour of the store is one ScriptLog allows: published bodies are
\* appended one at a time and never change, until the script is deleted.
THEOREM StoreIsLog == Spec => ImplementsLog
<1> DEFINE L == [s \in Scripts |->
                   IF s \in deleting THEN <<>> ELSE [v \in 1..heads[s] |-> blobs[s][v]]]
<1>1. Init => Log!Init
  <2> SUFFICES ASSUME Init PROVE L = [s \in Scripts |-> <<>>] /\ deleting = {}
    BY DEF Log!Init
  <2>1. \A s \in Scripts : [v \in 1..heads[s] |-> blobs[s][v]] = <<>>
    BY DEF Init
  <2> QED
    BY <2>1 DEF Init
<1>2. IInv /\ [Next]_vars => [Log!Next]_<<L, deleting>>
  <2> SUFFICES ASSUME IInv, [Next]_vars PROVE [Log!Next]_<<L, deleting>>
    OBVIOUS
  <2>1. ASSUME NEW s \in Scripts, deleting' = deleting \cup {s}, LogOf(s)' = <<>>,
               \A t \in Scripts : t # s => LogOf(t)' = LogOf(t)
        PROVE  Log!Drop(s)
    <3>1. L' = [L EXCEPT ![s] = <<>>]
      BY <2>1 DEF LogOf
    <3> QED
      BY <2>1, <3>1 DEF Log!Drop
  <2>2. ASSUME NEW s \in Scripts \ deleting, NEW b \in Bodies, deleting' = deleting,
               LogOf(s)' = Append(LogOf(s), b),
               \A t \in Scripts : t # s => LogOf(t)' = LogOf(t)
        PROVE  Log!Publish(s, b)
    <3>1. L' = [L EXCEPT ![s] = Append(L[s], b)]
      BY <2>2 DEF LogOf
    <3> QED
      BY <2>2, <3>1 DEF Log!Publish
  <2>3. ASSUME deleting' = deleting, \A t \in Scripts : LogOf(t)' = LogOf(t)
        PROVE  L' = L
    BY <2>3 DEF LogOf
  <2> QED
    BY <2>1, <2>2, <2>3, LogStep DEF Log!Next
<1> QED
  BY <1>1, <1>2, Inductive, PTL DEF Spec, ImplementsLog, Log!Spec

-----------------------------------------------------------------------------
(* Devices that are assigned versions. *)

\* As long as a script is live its row only moves up, and what is stored for
\* a version stays.
LEMMA StoreGrows ==
  ASSUME IInv, [Next]_vars
  PROVE  /\ Live' \subseteq Live
         /\ \A s \in Live' : heads[s] <= heads'[s]
         /\ \A s \in Live', v \in Versions :
              blobs[s][v] # None => blobs'[s][v] = blobs[s][v]
<1> DEFINE Grows ==
      /\ Live' \subseteq Live
      /\ \A s \in Live' : heads[s] <= heads'[s]
      /\ \A s \in Live', v \in Versions :
           blobs[s][v] # None => blobs'[s][v] = blobs[s][v]
<1>0. StoreTypes /\ RequestTypes /\ \A s \in Scripts : heads[s] \in Nat
  BY ScriptStoreAssumption DEF IInv, TypeOK, StoreTypes
<1>1. CASE UNCHANGED vars
  BY <1>0, <1>1 DEF vars, store, Live
<1>2. CASE Next
  <2> SUFFICES ASSUME NEW r \in Requests, Next!(r) PROVE Grows
    BY <1>2 DEF Next
  <2>1. CASE Quiet
    BY <1>0, <2>1 DEF Quiet, Live
  <2>2. CASE Claim(r) \/ Copy(r) \/ Index(r)
    BY <1>0, <2>2 DEF Claim, Copy, Index, store, Live
  <2>3. CASE Upload(r)
    <3>1. pc[r] = "upload" /\ deleting' = deleting /\ heads' = heads
      BY <2>3 DEF Upload
    <3>2. script[r] \in Scripts /\ base[r] + 1 \in Versions
      BY <2>3, NextVersion DEF IInv, Upload
    <3>3. \A s \in Scripts, v \in Versions :
            <<s, v>> # <<script[r], base[r] + 1>> => blobs'[s][v] = blobs[s][v]
      BY <1>0, <2>3 DEF Upload, StoreTypes
    <3>4. script[r] \in Live => blobs[script[r]][base[r] + 1] = None
      BY <3>1 DEF IInv, InOrder, Claimed
    <3> QED
      BY <1>0, <3>1, <3>2, <3>3, <3>4 DEF Live
  <2>4. CASE WriteHead(r)
    <3>1. deleting' = deleting /\ blobs' = blobs
      BY <2>4 DEF WriteHead
    <3> QED
      BY <1>0, <2>4, <3>1, HeadMoves DEF Live
  <2> QED
    BY <2>1, <2>2, <2>3, <2>4, QuietSteps
<1> QED
  BY <1>1, <1>2

\* The initial states satisfy the invariant of the assignment.
LEMMA AssignInit == AInit => AIInv
<1> SUFFICES ASSUME AInit PROVE AIInv
  OBVIOUS
<1>1. ATypeOK
  BY DEF AInit, ATypeOK
<1>2. NotAhead /\ AsStored
  BY DEF AInit, NotAhead, AsStored, Live
<1> QED
  BY <1>1, <1>2, InitInv DEF AInit, AIInv

\* Steps of the store keep what a device has been given and has loaded.
LEMMA StoreKeeps ==
  ASSUME AIInv, [Next]_vars, UNCHANGED assignment
  PROVE  AIInv'
<1>1. IInv'
  BY StepInv DEF AIInv
<1>2. ATypeOK'
  BY DEF AIInv, ATypeOK, assignment
<1>3. NotAhead'
  <2> SUFFICES ASSUME NEW ref \in {patch, assigned} \ {None}, ref.default, ref.script \in Live'
               PROVE  ref.version <= heads'[ref.script]
    BY DEF NotAhead, assignment
  <2>1. ref.script \in Live /\ heads[ref.script] <= heads'[ref.script]
    BY StoreGrows DEF AIInv
  <2>2. ref.version <= heads[ref.script]
    BY <2>1 DEF AIInv, NotAhead
  <2>3. ref.version \in Nat /\ heads[ref.script] \in Nat /\ heads'[ref.script] \in Nat
    BY <1>1, <2>1, ScriptStoreAssumption
    DEF AIInv, ATypeOK, Ref, Versions, IInv, TypeOK, StoreTypes, Live
  <2> QED
    BY <2>1, <2>2, <2>3
<1>4. AsStored'
  BY StoreGrows DEF AIInv, AsStored, assignment
<1> QED
  BY <1>1, <1>2, <1>3, <1>4 DEF AIInv

\* A choice of a version by patchDevice keeps the invariant.
LEMMA ChooseKeeps ==
  ASSUME AIInv, NEW s \in Scripts,
         ChooseLatest(s) \/ \E v \in Versions : ChooseVersion(s, v)
  PROVE  AIInv'
<1>0. heads[s] \in 0..MaxVersion /\ heads[s] # 0 /\ UNCHANGED <<vars, assigned, fetching, loaded>>
  BY DEF AIInv, IInv, TypeOK, StoreTypes, ChooseLatest, ChooseVersion
<1>1. heads[s] \in Versions /\ heads[s] <= heads[s]
  BY <1>0, ScriptStoreAssumption DEF Versions
<1>2. IInv' /\ Live' = Live /\ heads' = heads /\ blobs' = blobs
  BY <1>0, StepInv DEF AIInv, vars, store, Live
<1>3. patch' \in Ref /\ (patch'.default => patch'.version <= heads[patch'.script])
  <2>1. CASE ChooseLatest(s)
    <3>1. patch' = [script |-> s, version |-> heads[s], default |-> TRUE]
      BY <2>1 DEF ChooseLatest
    <3> QED
      BY <3>1, <1>1 DEF Ref
  <2>2. CASE \E v \in Versions : ChooseVersion(s, v)
    <3>1. PICK v \in Versions : ChooseVersion(s, v)
      BY <2>2
    <3>2. patch' = [script |-> s, version |-> v, default |-> FALSE]
      BY <3>1 DEF ChooseVersion
    <3> QED
      BY <3>2 DEF Ref
  <2> QED
    BY <2>1, <2>2
<1>4. ATypeOK' /\ NotAhead' /\ AsStored'
  BY <1>0, <1>2, <1>3 DEF AIInv, ATypeOK, NotAhead, AsStored
<1> QED
  BY <1>2, <1>4 DEF AIInv

\* The write of the row, and the downloads, keep the invariant.
LEMMA DeviceKeeps ==
  ASSUME AIInv, Assign \/ NotAssigned \/ Fetch \/ Fetched \/ FetchFails
  PROVE  AIInv'
<1>1. UNCHANGED vars
  BY DEF Assign, NotAssigned, Fetch, Fetched, FetchFails
<1>2. IInv' /\ Live' = Live /\ heads' = heads /\ blobs' = blobs
  BY <1>1, StepInv DEF AIInv, vars, store, Live
<1>3. CASE Assign \/ NotAssigned \/ Fetch \/ FetchFails
  <2>1. /\ patch' \in {patch, None} /\ assigned' \in {patch, assigned}
        /\ fetching' \in {fetching, assigned, None} /\ loaded' = loaded
    BY <1>3 DEF Assign, NotAssigned, Fetch, FetchFails
  <2>2. ATypeOK' /\ NotAhead' /\ AsStored'
    BY <1>2, <2>1 DEF AIInv, ATypeOK, NotAhead, AsStored
  <2> QED
    BY <1>2, <2>2 DEF AIInv
<1>4. CASE Fetched
  <2>1. /\ fetching \in Ref /\ Stored(fetching) \in Bodies /\ Stored(fetching) # None
        /\ UNCHANGED <<patch, assigned>> /\ fetching' = None
    BY <1>4 DEF Fetched, Stored, AIInv, ATypeOK, Ref, IInv, TypeOK, StoreTypes
  <2> DEFINE t == fetching.script
             n == fetching.version
  <2>2. t \in Scripts /\ n \in Versions
    BY <2>1 DEF Ref
  <2>3. loaded' = [loaded EXCEPT ![t][n] = @ \cup {blobs[t][n]}]
    BY <1>4 DEF Fetched, Stored
  <2>4. loaded \in [Scripts -> [Versions -> SUBSET Bodies]]
    BY DEF AIInv, ATypeOK
  <2>5. loaded' \in [Scripts -> [Versions -> SUBSET Bodies]]
    BY <2>1, <2>2, <2>3, <2>4 DEF Stored
  <2>6. \A s \in Scripts, v \in Versions :
          loaded'[s][v] \subseteq loaded[s][v] \cup ({blobs[s][v]} \ {None})
    BY <2>1, <2>2, <2>3, <2>4 DEF Stored
  <2>7. ATypeOK' /\ NotAhead'
    BY <1>2, <2>1, <2>5 DEF AIInv, ATypeOK, NotAhead
  <2>8. AsStored'
    BY <1>2, <2>6 DEF AIInv, AsStored, Live
  <2> QED
    BY <1>2, <2>7, <2>8 DEF AIInv
<1> QED
  BY <1>3, <1>4

\* The invariant of the store and the device together, in every execution.
THEOREM AInductive == ASpec => []AIInv
<1>1. AIInv /\ [ANext]_avars => AIInv'
  <2> SUFFICES ASSUME AIInv, [ANext]_avars PROVE AIInv'
    OBVIOUS
  <2>1. CASE UNCHANGED avars
    BY <2>1, StoreKeeps DEF avars
  <2>2. CASE ANext
    BY <2>2, StoreKeeps, ChooseKeeps, DeviceKeeps DEF ANext
  <2> QED
    BY <2>1, <2>2
<1> QED
  BY <1>1, AssignInit, PTL DEF ASpec

\* The variables of the assignment keep their types.
THEOREM ATyping == ASpec => []ATypeOK
<1>1. AIInv => ATypeOK
  BY DEF AIInv
<1> QED
  BY <1>1, AInductive, PTL

\* A device that is given the latest version of a live script can load it.
THEOREM LatestLoads == ASpec => []LatestCanBeLoaded
<1>1. AIInv => LatestCanBeLoaded
  <2> SUFFICES ASSUME AIInv, NEW ref \in {patch, assigned} \ {None},
                      ref.default, ref.script \in Live
               PROVE  Stored(ref) # None
    BY DEF LatestCanBeLoaded
  <2>1. ref.version \in Versions /\ ref.version <= heads[ref.script]
    BY DEF AIInv, ATypeOK, Ref, NotAhead
  <2>2. heads[ref.script] \in Nat
    BY ScriptStoreAssumption DEF AIInv, IInv, TypeOK, StoreTypes, Live
  <2>3. ref.version \in 1..heads[ref.script]
    BY <2>1, <2>2, ScriptStoreAssumption DEF Versions
  <2> QED
    BY <2>3 DEF AIInv, IInv, HeadComplete, Stored
<1> QED
  BY <1>1, AInductive, PTL

\* A version of a live script is the same program each time it is loaded.
THEOREM LoadsTheSame == ASpec => []SameEveryTime
<1>1. AIInv => SameEveryTime
  <2> SUFFICES ASSUME AIInv, NEW s \in Live, NEW v \in Versions
               PROVE  Cardinality(loaded[s][v]) <= 1
    BY DEF SameEveryTime
  <2>1. loaded[s][v] = {} \/ loaded[s][v] = {blobs[s][v]}
    BY DEF AIInv, AsStored
  <2>2. Cardinality({}) = 0
    BY FS_EmptySet
  <2>3. \A b : Cardinality({b}) = 1
    BY FS_Singleton
  <2>4. CASE loaded[s][v] = {}
    BY <2>4, <2>2
  <2>5. CASE loaded[s][v] = {blobs[s][v]}
    BY <2>5, <2>3
  <2> QED
    BY <2>1, <2>4, <2>5
<1> QED
  BY <1>1, AInductive, PTL
=============================================================================
