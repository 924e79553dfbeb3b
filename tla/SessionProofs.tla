--------------------------- MODULE SessionProofs ---------------------------
(* Proofs about Session, for nonces of any length and any number of        *)
(* messages.                                                               *)
EXTENDS Session, FiniteSetTheorems, TLAPS

\* incNonce keeps every byte in its range.
LEMMA IncType == ASSUME NEW n \in Nonces PROVE IncNonce(n) \in Nonces
<1> DEFINE full == {i \in 1..Bytes : \A j \in i..Bytes : n[j] = Top}
<1>1. ASSUME NEW i \in 1..Bytes, i \notin full, i = Bytes \/ i + 1 \in full
      PROVE  n[i] + 1 \in 0..Top
  <2>1. PICK j \in i..Bytes : n[j] # Top
    BY <1>1
  <2>2. j = i
    BY <1>1, <2>1, SessionAssumption
  <2> QED BY <2>1, <2>2, SessionAssumption DEF Nonces
<1>2. \A i \in 1..Bytes :
        (IF i \in full THEN 0
         ELSE IF i = Bytes \/ i + 1 \in full THEN n[i] + 1 ELSE n[i]) \in 0..Top
  BY <1>1, SessionAssumption DEF Nonces
<1> QED BY <1>2 DEF IncNonce, Nonces

LEMMA StartTypes == ClientStart \in Nonces /\ ServerStart \in Nonces
  BY SessionAssumption DEF ClientStart, ServerStart, Nonces

LEMMA InitInv == Init => IInv
<1> SUFFICES ASSUME Init PROVE IInv
  OBVIOUS
<1>1. TypeOK
  <2>1. <<>> \in Seq(Frames) /\ <<>> \in Seq(Nonces) /\ <<ServerStart>> \in Seq(Nonces)
    BY StartTypes
  <2>2. IncNonce(ServerStart) \in Nonces
    BY StartTypes, IncType
  <2> QED BY <2>1, <2>2, StartTypes DEF Init, TypeOK
<1>2. InStepUp /\ InStepDown
  BY DEF Init, InStepUp, InStepDown
<1>3. LeftoversOnlyIfLate /\ OneOfEach /\ Control /\ Keyed
  BY DEF Init, LeftoversOnlyIfLate, OneOfEach, Control, Keyed
<1> QED BY <1>1, <1>2, <1>3 DEF IInv

-----------------------------------------------------------------------------
(* Types, step by step. *)

LEMMA SealType ==
  ASSUME TypeOK, Seal
  PROVE  server' \in Nonces /\ down' \in Seq(Nonces) /\ sealedDown' \in Seq(Nonces)
  BY IncType DEF TypeOK, Seal

LEMMA CloseType ==
  ASSUME TypeOK, Control, CloseSocket
  PROVE  /\ closed' \in BOOLEAN /\ socket' \in BOOLEAN /\ unsub' \in BOOLEAN
         /\ listeners' \in Nat /\ timers' \in Nat /\ late' \in BOOLEAN
         /\ phase' = phase
<1>1. listeners' \in Nat /\ timers' \in Nat
  BY DEF TypeOK, Control, CloseSocket, CdevClosed
<1>2. late' = TRUE \/ late' = FALSE
  BY DEF CloseSocket, CdevClosed
<1> QED BY <1>1, <1>2 DEF CloseSocket, CdevClosed

LEMMA OpenedType ==
  ASSUME TypeOK, Opened
  PROVE  client' \in Nonces /\ up' \in Seq(Frames)
  BY IncType DEF TypeOK, Opened, Arrives

LEMMA TypeStep == TypeOK /\ Control /\ Next => TypeOK'
<1> SUFFICES ASSUME TypeOK, Control, Next PROVE TypeOK'
  OBVIOUS
<1>1. ASSUME NEW k \in Kinds, DeviceSends(k) PROVE TypeOK'
  BY <1>1, IncType DEF TypeOK, DeviceSends, connection, Frames
<1>2. CASE SendsText
  BY <1>2 DEF TypeOK, SendsText, nonces, connection, Frames, Kinds
<1>3. CASE DeviceReceives
  BY <1>3, IncType DEF TypeOK, DeviceReceives, connection
<1>4. CASE Ignored
  BY <1>4 DEF TypeOK, Ignored, nonces, connection
<1>5. CASE NotBinary
  BY <1>5, CloseType DEF TypeOK, NotBinary, Arrives, nonces
<1>6. CASE BadAuth
  BY <1>6, CloseType, IncType DEF TypeOK, BadAuth, Arrives
<1>7. CASE AuthRefused
  BY <1>7, CloseType, OpenedType DEF TypeOK, AuthRefused
<1>8. CASE Auth
  BY <1>8, OpenedType DEF TypeOK, Auth
<1>9. CASE FromDevice
  BY <1>9, OpenedType, SealType DEF TypeOK, FromDevice, connection
<1>10. CASE Subscribed
  BY <1>10, SealType DEF TypeOK, Subscribed
<1>11. CASE Connected
  BY <1>11 DEF TypeOK, Connected, nonces, wire
<1>12. CASE Command
  BY <1>12, SealType DEF TypeOK, Command, connection
<1>13. CASE SocketCloses
  BY <1>13, CloseType DEF TypeOK, SocketCloses, nonces, wire
<1> QED
  BY <1>1, <1>2, <1>3, <1>4, <1>5, <1>6, <1>7, <1>8, <1>9, <1>10, <1>11, <1>12,
     <1>13 DEF Next

-----------------------------------------------------------------------------
(* The subscription and the timer. *)

LEMMA KeyedStep == TypeOK /\ Keyed /\ Next => Keyed'
<1> SUFFICES ASSUME TypeOK, Keyed, Next PROVE Keyed'
  OBVIOUS
<1>1. hasKey' = hasKey
  BY DEF Next, DeviceSends, SendsText, DeviceReceives, Ignored, NotBinary, BadAuth,
     AuthRefused, Auth, FromDevice, Subscribed, Connected, Command, SocketCloses
<1>2. ASSUME NEW k \in Kinds, DeviceSends(k) PROVE Keyed'
  BY <1>2 DEF TypeOK, Keyed, DeviceSends
<1>3. CASE SendsText
  BY <1>3 DEF TypeOK, Keyed, SendsText
<1>4. CASE up # <<>> /\ up' = Tail(up)
  BY <1>1, <1>4 DEF TypeOK, Keyed
<1>5. CASE up' = up
  BY <1>1, <1>5 DEF Keyed
<1> QED
  BY <1>2, <1>3, <1>4, <1>5
  DEF Next, DeviceReceives, Ignored, NotBinary, BadAuth, AuthRefused, Auth, FromDevice,
      Opened, Arrives, Subscribed, Connected, Command, SocketCloses, wire

\* CloseSocket: what connected() has set up is taken down, and while it still
\* awaits sub nothing can be.
LEMMA CloseControl ==
  ASSUME TypeOK, Control, LeftoversOnlyIfLate, OneOfEach, ~closed, CloseSocket,
         UNCHANGED <<hasKey, gotAuth>>
  PROVE  Control' /\ LeftoversOnlyIfLate' /\ OneOfEach'
  BY DEF TypeOK, Control, LeftoversOnlyIfLate, OneOfEach, CloseSocket, CdevClosed

LEMMA ControlStep ==
  ASSUME TypeOK, Control, Keyed, LeftoversOnlyIfLate, OneOfEach, Next
  PROVE  Control' /\ LeftoversOnlyIfLate' /\ OneOfEach'
<1> DEFINE Same == UNCHANGED <<hasKey, socket, closed, gotAuth, connection, late>>
<1>1. CASE Same
  BY <1>1 DEF Control, LeftoversOnlyIfLate, OneOfEach, connection
<1>2. CASE NotBinary \/ BadAuth \/ AuthRefused \/ SocketCloses
  BY <1>2, CloseControl DEF NotBinary, BadAuth, AuthRefused, SocketCloses, Arrives, Opened
<1>3. CASE Auth
  <2>1. hasKey
    <3>1. up # <<>> /\ up[1].kind = "auth"
      BY <1>3 DEF Auth, Opened, Arrives, TypeOK
    <3>2. 1 \in 1..Len(up)
      BY <3>1 DEF TypeOK
    <3> QED BY <3>1, <3>2 DEF Keyed
  <2> QED
    <3>1. phase = "none" /\ listeners = 0 /\ timers = 0 /\ ~unsub /\ ~closed
      BY <1>3, <2>1 DEF Auth, Opened, Arrives, TypeOK, Control, OneOfEach
    <3>2. /\ gotAuth' /\ phase' = "subscribing" /\ listeners' = 1 /\ timers' = 0
          /\ ~unsub' /\ ~closed' /\ hasKey' /\ (socket' <=> socket)
      BY <1>3, <2>1, <3>1 DEF Auth
    <3>3. socket
      BY <3>1 DEF Control
    <3> QED BY <3>2, <3>3 DEF Control, LeftoversOnlyIfLate, OneOfEach
<1>4. CASE Subscribed
  BY <1>4 DEF Subscribed, TypeOK, Control, LeftoversOnlyIfLate, OneOfEach
<1>5. CASE Connected
  BY <1>5 DEF Connected, TypeOK, Control, LeftoversOnlyIfLate, OneOfEach
<1> QED
  BY <1>1, <1>2, <1>3, <1>4, <1>5
  DEF Next, DeviceSends, SendsText, DeviceReceives, Ignored, FromDevice, Command

-----------------------------------------------------------------------------
(* Nonces in step. *)

\* The first message on the wire is taken off, and the nonce advanced past it.
LEMMA UpTail ==
  ASSUME TypeOK, InStepUp, ~closed, up # <<>>, up' = Tail(up),
         client' = After(up[1]), devSend' = devSend
  PROVE  InStepUp'
<1>1. /\ Len(up) \in Nat /\ Len(up) > 0 /\ Len(up') = Len(up) - 1
      /\ up' \in Seq(Frames)
      /\ \A i \in 1..Len(up') : up'[i] = up[i + 1]
  BY DEF TypeOK
<1>2. \A i \in 1..Len(up) :
        After(up[i]) = IF i = Len(up) THEN devSend ELSE up[i + 1].nonce
  BY DEF InStepUp
<1>3. client' = IF up' = <<>> THEN devSend' ELSE up'[1].nonce
  <2>1. 1 \in 1..Len(up) /\ (up' = <<>> <=> Len(up) = 1)
    BY <1>1
  <2>2. CASE Len(up) = 1
    BY <1>1, <1>2, <2>1, <2>2
  <2>3. CASE Len(up) # 1
    <3>1. up'[1] = up[2]
      BY <1>1, <2>3
    <3>2. After(up[1]) = up[1 + 1].nonce
      BY <1>2, <2>1, <2>3
    <3> QED BY <2>1, <2>3, <3>1, <3>2
  <2> QED BY <2>2, <2>3
<1>4. ASSUME NEW i \in 1..Len(up')
      PROVE  After(up'[i]) = IF i = Len(up') THEN devSend' ELSE up'[i + 1].nonce
  <2>1. i + 1 \in 1..Len(up) /\ up'[i] = up[i + 1]
    BY <1>1
  <2>2. After(up[i + 1]) = IF i + 1 = Len(up) THEN devSend ELSE up[(i + 1) + 1].nonce
    BY <1>2, <2>1
  <2>3. ASSUME i # Len(up') PROVE up'[i + 1] = up[(i + 1) + 1]
    <3>1. Len(up') \in Nat
      BY <1>1
    <3>2. i + 1 \in 1..Len(up')
      BY <2>3, <3>1
    <3> QED BY <1>1, <3>2
  <2>4. i = Len(up') <=> i + 1 = Len(up)
    BY <1>1
  <2> QED BY <2>1, <2>2, <2>3, <2>4
<1> QED BY <1>3, <1>4 DEF InStepUp, After

LEMMA UpAppend ==
  ASSUME TypeOK, InStepUp, NEW f \in Frames, f.nonce = devSend,
         up' = Append(up, f), devSend' = After(f), client' = client, closed' = closed
  PROVE  InStepUp'
<1> SUFFICES ASSUME ~closed PROVE InStepUp'
  BY DEF InStepUp
<1>1. /\ Len(up) \in Nat /\ Len(up') = Len(up) + 1 /\ up' # <<>>
      /\ up'[Len(up')] = f
      /\ \A i \in 1..Len(up) : up'[i] = up[i]
  <2>1. up \in Seq(Frames) /\ up' = Append(up, f)
    BY DEF TypeOK
  <2>2. /\ Len(up) \in Nat /\ Len(up') = Len(up) + 1 /\ up'[Len(up) + 1] = f
        /\ \A i \in 1..Len(up) : up'[i] = up[i]
    BY <2>1
  <2>3. Len(<<>>) = 0
    OBVIOUS
  <2> QED BY <2>2, <2>3
<1>2. client' = up'[1].nonce
  <2>1. CASE up = <<>>
    BY <1>1, <2>1 DEF InStepUp
  <2>2. CASE up # <<>>
    <3>1. 1 \in 1..Len(up)
      BY <2>2 DEF TypeOK
    <3> QED BY <1>1, <2>2, <3>1 DEF InStepUp
  <2> QED BY <2>1, <2>2
<1>3. ASSUME NEW i \in 1..Len(up')
      PROVE  After(up'[i]) = IF i = Len(up') THEN devSend' ELSE up'[i + 1].nonce
  <2>1. CASE i = Len(up')
    BY <1>1, <2>1
  <2>2. CASE i # Len(up')
    <3>1. i \in 1..Len(up) /\ up'[i] = up[i]
      BY <1>1, <2>2
    <3>2. After(up[i]) = IF i = Len(up) THEN devSend ELSE up[i + 1].nonce
      BY <3>1 DEF InStepUp
    <3>3. CASE i = Len(up)
      BY <1>1, <2>2, <3>1, <3>2, <3>3
    <3>4. CASE i # Len(up)
      <4>1. up'[i + 1] = up[i + 1]
        BY <1>1, <3>1, <3>4
      <4> QED BY <2>2, <3>1, <3>2, <3>4, <4>1
    <3> QED BY <3>3, <3>4
  <2> QED BY <2>1, <2>2
<1> QED BY <1>1, <1>2, <1>3 DEF InStepUp, After

LEMMA UpStep ==
  ASSUME TypeOK, InStepUp, Next
  PROVE  InStepUp'
<1>1. ASSUME NEW k \in Kinds \ {"text"}, DeviceSends(k) PROVE InStepUp'
  <2> DEFINE f == [nonce |-> devSend, kind |-> k]
  <2>1. f \in Frames /\ f.nonce = devSend /\ After(f) = IncNonce(devSend)
    BY DEF TypeOK, Frames, After
  <2> QED BY <1>1, <2>1, UpAppend DEF DeviceSends
<1>2. CASE SendsText
  <2> DEFINE f == [nonce |-> devSend, kind |-> "text"]
  <2>1. f \in Frames /\ f.nonce = devSend /\ After(f) = devSend
    BY DEF TypeOK, Frames, After, Kinds
  <2> QED BY <1>2, <2>1, UpAppend DEF SendsText, nonces
<1>3. CASE Auth \/ FromDevice
  <2>1. /\ ~closed /\ up # <<>> /\ up' = Tail(up) /\ devSend' = devSend
        /\ client' = IncNonce(client) /\ up[1].kind # "text"
    BY <1>3 DEF Auth, FromDevice, Opened, Arrives
  <2>2. client' = After(up[1])
    BY <2>1 DEF InStepUp, After
  <2> QED BY <2>1, <2>2, UpTail
<1>4. CASE NotBinary \/ BadAuth \/ AuthRefused \/ SocketCloses
  BY <1>4 DEF NotBinary, BadAuth, AuthRefused, SocketCloses, CloseSocket, InStepUp
<1>5. CASE Ignored
  BY <1>5 DEF Ignored, InStepUp
<1>6. CASE DeviceReceives \/ Subscribed \/ Connected \/ Command
  BY <1>6 DEF DeviceReceives, Subscribed, Connected, Command, nonces, wire, InStepUp, After
<1> QED BY <1>1, <1>2, <1>3, <1>4, <1>5, <1>6 DEF Next

LEMMA DownSeal ==
  ASSUME TypeOK, InStepDown, Seal, devRecv' = devRecv, socket' = socket
  PROVE  InStepDown'
  BY DEF TypeOK, InStepDown, Seal

LEMMA DownStep ==
  ASSUME TypeOK, InStepDown, Next
  PROVE  InStepDown'
<1>1. CASE DeviceReceives
  <2> SUFFICES ASSUME socket PROVE InStepDown'
    BY <1>1 DEF DeviceReceives, InStepDown
  <2>1. /\ Len(down) \in Nat /\ Len(down) > 0 /\ Len(down') = Len(down) - 1
        /\ down' \in Seq(Nonces)
        /\ \A i \in 1..Len(down') : down'[i] = down[i + 1]
        /\ devRecv' = IncNonce(down[1]) /\ server' = server
    BY <1>1 DEF TypeOK, DeviceReceives
  <2>2. \A i \in 1..Len(down) :
          IncNonce(down[i]) = IF i = Len(down) THEN server ELSE down[i + 1]
    BY DEF InStepDown
  <2>3. devRecv' = IF down' = <<>> THEN server' ELSE down'[1]
    <3>1. 1 \in 1..Len(down) /\ (down' = <<>> <=> Len(down) = 1)
      BY <2>1
    <3>2. Len(down) # 1 => down'[1] = down[2]
      BY <2>1
    <3> QED BY <2>1, <2>2, <3>1, <3>2
  <2>4. ASSUME NEW i \in 1..Len(down')
        PROVE  IncNonce(down'[i]) = IF i = Len(down') THEN server' ELSE down'[i + 1]
    <3>1. i + 1 \in 1..Len(down) /\ down'[i] = down[i + 1]
      BY <2>1
    <3>2. IncNonce(down[i + 1]) = IF i + 1 = Len(down) THEN server ELSE down[(i + 1) + 1]
      BY <2>2, <3>1
    <3>3. i # Len(down') => down'[i + 1] = down[(i + 1) + 1]
      BY <2>1
    <3> QED BY <2>1, <3>1, <3>2, <3>3
  <2> QED BY <2>3, <2>4 DEF InStepDown
<1>2. CASE Seal /\ UNCHANGED <<devRecv, socket>>
  BY <1>2, DownSeal
<1>3. CASE UNCHANGED <<down, server, devRecv, socket>>
  BY <1>3 DEF InStepDown
<1>4. CASE CloseSocket
  BY <1>4 DEF CloseSocket, InStepDown
<1> QED
  BY <1>1, <1>2, <1>3, <1>4
  DEF Next, DeviceSends, SendsText, Ignored, NotBinary, BadAuth, AuthRefused, Auth,
      FromDevice, Subscribed, Connected, Command, SocketCloses, nonces, wire

-----------------------------------------------------------------------------
(* No nonce is used twice. *)

\* The natural numbers are well-founded.
LEMMA Least ==
  ASSUME NEW S \in SUBSET Nat, S # {}
  PROVE  \E x \in S : \A y \in S : x <= y
<1>1. PICK x \in S : \A y \in S : ~ (<<y, x>> \in OpToRel(<, Nat))
  BY NatLessThanWellFounded, WFMin
<1>2. OpToRel(<, Nat) = {p \in Nat \X Nat : p[1] < p[2]}
  BY DEF OpToRel
<1>3. \A y \in S : ~(y < x)
  BY <1>1, <1>2
<1> QED BY <1>3

LEMMA FirstDifference ==
  ASSUME NEW m \in Nonces, NEW n \in Nonces, m # n
  PROVE  \E i \in 1..Bytes : m[i] # n[i] /\ \A j \in 1..i - 1 : m[j] = n[j]
<1> DEFINE Differs == {i \in 1..Bytes : m[i] # n[i]}
<1>1. Differs \in SUBSET Nat
  BY SessionAssumption
<1>2. Differs # {}
  <2>1. m = [i \in 1..Bytes |-> m[i]] /\ n = [i \in 1..Bytes |-> n[i]]
    BY Zenon DEF Nonces
  <2> SUFFICES ASSUME Differs = {} PROVE m = n
    OBVIOUS
  <2>2. \A i \in 1..Bytes : m[i] = n[i]
    OBVIOUS
  <2>3. [i \in 1..Bytes |-> m[i]] = [i \in 1..Bytes |-> n[i]]
    BY <2>2, Zenon
  <2> QED BY <2>1, <2>3, Zenon
<1>3. PICK i \in Differs : \A j \in Differs : i <= j
  BY <1>1, <1>2, Least
<1>4. ASSUME NEW j \in 1..i - 1 PROVE m[j] = n[j]
  <2>1. j \in 1..Bytes /\ ~(i <= j)
    BY <1>1, <1>3, SessionAssumption
  <2> QED BY <1>3, <2>1
<1> QED BY <1>3, <1>4

\* The byte that is incremented.
LEMMA Incremented ==
  ASSUME NEW n \in Nonces, \E i \in 1..Bytes : n[i] # Top
  PROVE  \E k \in 1..Bytes :
           /\ n[k] < Top /\ \A i \in k + 1..Bytes : n[i] = Top
           /\ \A i \in 1..Bytes :
                IncNonce(n)[i] = IF i < k THEN n[i] ELSE IF i = k THEN n[k] + 1 ELSE 0
<1> DEFINE Gaps == {Bytes - i : i \in {i \in 1..Bytes : n[i] # Top}}
<1>1. Gaps \in SUBSET Nat /\ Gaps # {}
  BY SessionAssumption
<1>2. PICK g \in Gaps : \A h \in Gaps : g <= h
  BY <1>1, Least
<1>3. PICK k \in 1..Bytes : n[k] # Top /\ g = Bytes - k
  BY <1>2
<1>4. ASSUME NEW i \in k + 1..Bytes PROVE n[i] = Top
  <2>1. i \in 1..Bytes /\ ~(g <= Bytes - i)
    BY <1>3, SessionAssumption
  <2> QED BY <1>2, <2>1
<1>5. n[k] < Top
  BY <1>3, SessionAssumption DEF Nonces
<1> DEFINE full == {i \in 1..Bytes : \A j \in i..Bytes : n[j] = Top}
<1>6. ASSUME NEW i \in 1..Bytes PROVE i \in full <=> i > k
  <2>1. i > k => \A j \in i..Bytes : j \in k + 1..Bytes
    BY SessionAssumption
  <2>2. i <= k => k \in i..Bytes
    BY SessionAssumption
  <2> QED BY <1>3, <1>4, <2>1, <2>2, SessionAssumption
<1>7. ASSUME NEW i \in 1..Bytes
      PROVE  IncNonce(n)[i] = IF i < k THEN n[i] ELSE IF i = k THEN n[k] + 1 ELSE 0
  <2>1. IncNonce(n)[i] = IF i \in full THEN 0
                         ELSE IF i = Bytes \/ i + 1 \in full THEN n[i] + 1 ELSE n[i]
    BY DEF IncNonce
  <2>2. i + 1 \in full <=> i + 1 \in 1..Bytes /\ i + 1 > k
    BY <1>6, SessionAssumption
  <2> HIDE DEF full
  <2> QED BY <1>6, <2>1, <2>2, SessionAssumption
<1> QED BY <1>4, <1>5, <1>7

-----------------------------------------------------------------------------
(* incNonce is an addition. *)

\* A set of numbers that has 0, and the next of each it has, has all.
LEMMA Induction ==
  ASSUME NEW n \in Nat, NEW S, 0 \in S, \A k \in 0..n - 1 : k \in S => k + 1 \in S
  PROVE  \A k \in 0..n : k \in S
<1> DEFINE Missing == (0..n) \ S
<1> SUFFICES ASSUME Missing # {} PROVE FALSE
  OBVIOUS
<1>1. Missing \in SUBSET Nat
  OBVIOUS
<1>2. PICK k \in Missing : \A m \in Missing : k <= m
  BY <1>1, Least
<1>3. k - 1 \in 0..n - 1 /\ k - 1 \notin Missing
  BY <1>2
<1> QED BY <1>2, <1>3

\* The recursion in Counts defines a function.
LEMMA CountsExist ==
  ASSUME NEW n, NEW b \in Nat
  PROVE  \E f : f = [i \in 0..b |-> IF i = 0 THEN 0 ELSE f[i - 1] * (Top + 1) + n[i]]
<1> DEFINE Step(x, i) == x * (Top + 1) + n[i]
           Is(f, k) == f = [i \in 0..k |-> IF i = 0 THEN 0 ELSE Step(f[i - 1], i)]
           Have == {k \in 0..b : \E f : Is(f, k)}
<1> HIDE DEF Step
<1>1. 0 \in Have
  <2>1. Is([i \in 0..0 |-> 0], 0)
    <3>1. \A i \in 0..0 : i = 0
      OBVIOUS
    <3> QED BY <3>1, Zenon
  <2> HIDE DEF Is
  <2> QED BY <2>1
<1>2. ASSUME NEW k \in 0..b - 1, k \in Have PROVE k + 1 \in Have
  <2>1. PICK g : Is(g, k)
    BY <1>2
  <2> DEFINE h == [i \in 0..k + 1 |-> IF i <= k THEN g[i] ELSE Step(g[k], k + 1)]
  <2>2. Is(h, k + 1)
    <3>1. \A i \in 0..k + 1 : h[i] = IF i = 0 THEN 0 ELSE Step(h[i - 1], i)
      <4> SUFFICES ASSUME NEW i \in 0..k + 1
                   PROVE  h[i] = IF i = 0 THEN 0 ELSE Step(h[i - 1], i)
        OBVIOUS
      <4>1. CASE i = 0
        BY <2>1, <4>1
      <4>2. CASE i \in 1..k
        <5>1. h[i] = g[i] /\ h[i - 1] = g[i - 1] /\ i \in 0..k /\ i # 0
          BY <4>2
        <5> QED BY <2>1, <5>1
      <4>3. CASE i = k + 1
        <5>1. h[k + 1] = Step(g[k], k + 1) /\ h[k] = g[k] /\ i - 1 = k /\ i # 0
          BY <4>3
        <5> HIDE DEF h
        <5> QED BY <4>3, <5>1
      <4> QED BY <4>1, <4>2, <4>3
    <3>2. h = [i \in 0..k + 1 |-> h[i]]
      OBVIOUS
    <3> HIDE DEF h
    <3> QED BY <3>1, <3>2, Zenon
  <2>3. k + 1 \in 0..b
    OBVIOUS
  <2> HIDE DEF Is, h
  <2> QED BY <2>2, <2>3
<1>3. b \in Have
  <2> HIDE DEF Have
  <2> QED BY <1>1, <1>2, Induction
<1> QED BY <1>3 DEF Step

LEMMA CountsValue ==
  ASSUME NEW n \in Nonces
  PROVE  /\ Counts(n)[0] = 0
         /\ \A i \in 1..Bytes : Counts(n)[i] = Counts(n)[i - 1] * (Top + 1) + n[i]
         /\ \A i \in 0..Bytes : Counts(n)[i] \in Nat
<1> DEFINE f == Counts(n)
           S == {i \in 0..Bytes : f[i] \in Nat}
<1>1. f = [i \in 0..Bytes |-> IF i = 0 THEN 0 ELSE f[i - 1] * (Top + 1) + n[i]]
  BY CountsExist, SessionAssumption DEF Counts
<1> HIDE DEF f
<1>2. f[0] = 0 /\ \A i \in 1..Bytes : f[i] = f[i - 1] * (Top + 1) + n[i]
  <2> DEFINE Step(x, i) == x * (Top + 1) + n[i]
  <2>1. f = [i \in 0..Bytes |-> IF i = 0 THEN 0 ELSE Step(f[i - 1], i)]
    BY <1>1
  <2> HIDE DEF Step
  <2> HIDE DEF S
  <2>2. /\ 0 \in 0..Bytes
        /\ \A i \in 1..Bytes : i \in 0..Bytes /\ i # 0
    BY SessionAssumption
  <2>3. ASSUME NEW i \in 0..Bytes PROVE f[i] = IF i = 0 THEN 0 ELSE Step(f[i - 1], i)
    BY <2>1, Zenon
  <2>4. f[0] = 0 /\ \A i \in 1..Bytes : f[i] = Step(f[i - 1], i)
    BY <2>2, <2>3
  <2> QED BY <2>4 DEF Step
<1>3. 0 \in S
  BY <1>2, SessionAssumption
<1>4. ASSUME NEW i \in 0..Bytes - 1, i \in S PROVE i + 1 \in S
  <2>1. /\ i + 1 \in 1..Bytes /\ i + 1 \in 0..Bytes /\ (i + 1) - 1 = i
        /\ n[i + 1] \in Nat /\ Top + 1 \in Nat
    BY SessionAssumption DEF Nonces
  <2>2. f[i + 1] = f[i] * (Top + 1) + n[i + 1] /\ f[i] \in Nat
    BY <1>2, <1>4, <2>1
  <2>3. \A x, y, z \in Nat : x * y + z \in Nat
    OBVIOUS
  <2>4. f[i + 1] \in Nat
    BY <2>1, <2>2, <2>3, Zenon
  <2> QED BY <2>1, <2>4
<1>5. \A i \in 0..Bytes : i \in S
  <2> HIDE DEF S
  <2> QED BY <1>3, <1>4, Induction, SessionAssumption
<1> QED BY <1>2, <1>5 DEF f

\* incNonce adds one to the number that a nonce is, whatever carries there are, and
\* only the greatest wraps around.
THEOREM IncrementAdds ==
  ASSUME NEW n \in Nonces
  PROVE  AddsOne(n)
<1> SUFFICES Counts(IncNonce(n))[Bytes] =
               IF \A i \in 1..Bytes : n[i] = Top THEN 0 ELSE Counts(n)[Bytes] + 1
  BY DEF AddsOne
<1> DEFINE next == IncNonce(n)
           v == Counts(n)
           w == Counts(next)
<1>1. next \in Nonces
  BY IncType
<1> HIDE DEF next
<1>2. /\ v[0] = 0 /\ \A i \in 1..Bytes : v[i] = v[i - 1] * (Top + 1) + n[i]
      /\ \A i \in 0..Bytes : v[i] \in Nat
  BY CountsValue
<1>3. /\ w[0] = 0 /\ \A i \in 1..Bytes : w[i] = w[i - 1] * (Top + 1) + next[i]
      /\ \A i \in 0..Bytes : w[i] \in Nat
  BY <1>1, CountsValue
<1> HIDE DEF v, w
<1>4. ASSUME NEW i \in 0..Bytes - 1
      PROVE  /\ i + 1 \in 1..Bytes /\ i + 1 \in 0..Bytes /\ i \in 0..Bytes /\ i \in Nat
             /\ v[i + 1] = v[i] * (Top + 1) + n[i + 1]
             /\ w[i + 1] = w[i] * (Top + 1) + next[i + 1]
             /\ v[i] \in Nat /\ n[i + 1] \in Nat /\ Top \in Nat
  <2>1. /\ i + 1 \in 1..Bytes /\ i + 1 \in 0..Bytes /\ i \in 0..Bytes /\ i \in Nat
        /\ (i + 1) - 1 = i /\ Top \in Nat
    BY SessionAssumption
  <2>2. n[i + 1] \in Nat
    BY <2>1, SessionAssumption DEF Nonces
  <2> QED BY <1>2, <1>3, <2>1, <2>2
<1>5. CASE \A i \in 1..Bytes : n[i] = Top
  <2> DEFINE S == {i \in 0..Bytes : w[i] = 0}
  <2>1. \A i \in 1..Bytes : next[i] = 0
    BY <1>5, SessionAssumption DEF next, IncNonce
  <2>2. 0 \in S
    BY <1>3, SessionAssumption
  <2>3. ASSUME NEW i \in 0..Bytes - 1, i \in S PROVE i + 1 \in S
    <3>1. w[i + 1] = 0 * (Top + 1) + 0
      BY <1>4, <2>1, <2>3
    <3> QED BY <3>1, <1>4
  <2>4. Bytes \in S
    <3> HIDE DEF S
    <3>1. Bytes \in 0..Bytes /\ Bytes \in Nat
      BY SessionAssumption
    <3> QED BY <2>2, <2>3, <3>1, Induction
  <2> QED BY <1>5, <2>4 DEF next, w
<1>6. CASE \E i \in 1..Bytes : n[i] # Top
  <2>1. PICK k \in 1..Bytes :
          /\ n[k] < Top /\ \A i \in k + 1..Bytes : n[i] = Top
          /\ \A i \in 1..Bytes :
               next[i] = IF i < k THEN n[i] ELSE IF i = k THEN n[k] + 1 ELSE 0
    BY <1>6, Incremented DEF next
  <2> DEFINE S == {i \in 0..Bytes : w[i] = IF i < k THEN v[i] ELSE v[i] + 1}
  <2>2. 0 \in S
    BY <1>2, <1>3, SessionAssumption
  <2>3. ASSUME NEW i \in 0..Bytes - 1, i \in S PROVE i + 1 \in S
    <3>1. CASE i + 1 < k
      <4>1. next[i + 1] = n[i + 1] /\ w[i] = v[i]
        BY <1>4, <2>1, <2>3, <3>1
      <4>2. w[i + 1] = v[i + 1]
        BY <1>4, <4>1
      <4> QED BY <1>4, <3>1, <4>2
    <3>2. CASE i + 1 = k
      <4>1. next[i + 1] = n[i + 1] + 1 /\ w[i] = v[i]
        BY <1>4, <2>1, <2>3, <3>2
      <4>2. \A x, y, z \in Nat : x * y + (z + 1) = (x * y + z) + 1
        OBVIOUS
      <4>3. w[i + 1] = v[i + 1] + 1
        BY <1>4, <4>1, <4>2
      <4> QED BY <1>4, <3>2, <4>3
    <3>3. CASE i + 1 > k
      <4>1. next[i + 1] = 0 /\ n[i + 1] = Top /\ w[i] = v[i] + 1
        <5>1. i + 1 \in k + 1..Bytes /\ ~(i < k) /\ ~(i + 1 < k) /\ i + 1 # k
          BY <1>4, <3>3
        <5> QED BY <1>4, <2>1, <2>3, <5>1
      <4>2. \A x, t \in Nat : (x + 1) * (t + 1) + 0 = (x * (t + 1) + t) + 1
        OBVIOUS
      <4>3. w[i + 1] = (v[i] + 1) * (Top + 1) + 0
        BY <1>4, <4>1
      <4>4. w[i + 1] = v[i + 1] + 1
        BY <1>4, <4>1, <4>2, <4>3
      <4> QED BY <1>4, <3>3, <4>4
    <3> QED BY <3>1, <3>2, <3>3, <1>4
  <2>4. Bytes \in S
    <3> HIDE DEF S
    <3>1. Bytes \in 0..Bytes /\ Bytes \in Nat
      BY SessionAssumption
    <3> QED BY <2>2, <2>3, <3>1, Induction
  <2>5. w[Bytes] = v[Bytes] + 1
    BY <2>4
  <2> QED BY <1>6, <2>5 DEF next, v, w
<1> QED BY <1>5, <1>6

\* So it does at every count of an execution.
THEOREM CarriesAdd == Spec => []CarryIsAddition
<1>1. CarryIsAddition
  BY IncrementAdds DEF CarryIsAddition
<1> QED BY <1>1, PTL

-----------------------------------------------------------------------------
(* The order of the nonces. *)

LEMMA BeforeIrreflexive == ASSUME NEW n \in Nonces PROVE ~Before(n, n)
  BY DEF Before, Nonces

\* IncNonce is the next nonce in that order, and there is none between.
THEOREM NextNonce ==
  ASSUME NEW n \in Nonces, \E i \in 1..Bytes : n[i] # Top, NEW m \in Nonces
  PROVE  Before(m, IncNonce(n)) <=> m = n \/ Before(m, n)
<1>1. PICK k \in 1..Bytes :
        /\ n[k] < Top /\ \A i \in k + 1..Bytes : n[i] = Top
        /\ \A i \in 1..Bytes :
             IncNonce(n)[i] = IF i < k THEN n[i] ELSE IF i = k THEN n[k] + 1 ELSE 0
  BY Incremented
<1> DEFINE next == IncNonce(n)
<1>2. /\ \A i \in 1..Bytes : m[i] \in 0..Top /\ n[i] \in 0..Top
      /\ \A i \in 1..k - 1 : next[i] = n[i]
      /\ next[k] = n[k] + 1
      /\ \A i \in k + 1..Bytes : next[i] = 0
      /\ k \in Nat /\ Bytes \in Nat /\ Top \in Nat
  BY <1>1, SessionAssumption DEF Nonces
<1> HIDE DEF next
<1>3. ASSUME Before(m, next) PROVE m = n \/ Before(m, n)
  <2>1. PICK i \in 1..Bytes : m[i] < next[i] /\ \A j \in 1..i - 1 : m[j] = next[j]
    BY <1>3 DEF Before
  <2>2. i <= k
    BY <1>2, <2>1
  <2>3. CASE i < k
    <3>1. m[i] < n[i] /\ \A j \in 1..i - 1 : m[j] = n[j]
      BY <1>2, <2>1, <2>3
    <3> QED BY <3>1 DEF Before
  <2>4. CASE i = k
    <3>1. m[k] <= n[k] /\ \A j \in 1..k - 1 : m[j] = n[j]
      BY <1>2, <2>1, <2>4
    <3>2. SUFFICES ASSUME m # n PROVE Before(m, n)
      OBVIOUS
    <3>3. PICK d \in 1..Bytes : m[d] # n[d] /\ \A j \in 1..d - 1 : m[j] = n[j]
      BY <3>2, FirstDifference
    <3>4. m[d] < n[d]
      <4>1. d >= k
        BY <3>1, <3>3
      <4>2. CASE d = k
        BY <1>2, <3>1, <3>3, <4>2
      <4>3. CASE d > k
        BY <1>1, <1>2, <3>3, <4>3
      <4> QED BY <4>1, <4>2, <4>3
    <3> QED BY <3>3, <3>4 DEF Before
  <2> QED BY <1>2, <2>2, <2>3, <2>4
<1>4. ASSUME m = n PROVE Before(m, next)
  BY <1>2, <1>4 DEF Before
<1>5. ASSUME Before(m, n) PROVE Before(m, next)
  <2>1. PICK i \in 1..Bytes : m[i] < n[i] /\ \A j \in 1..i - 1 : m[j] = n[j]
    BY <1>5 DEF Before
  <2>2. CASE i < k
    <3>1. m[i] < next[i] /\ \A j \in 1..i - 1 : m[j] = next[j]
      BY <1>2, <2>1, <2>2
    <3> QED BY <3>1 DEF Before
  <2>3. CASE i >= k
    <3>1. m[k] < next[k] /\ \A j \in 1..k - 1 : m[j] = next[j]
      BY <1>2, <2>1, <2>3
    <3> QED BY <3>1 DEF Before
  <2> QED BY <1>2, <2>2, <2>3
<1> QED BY <1>3, <1>4, <1>5 DEF next

\* The last nonce of a direction comes after all others.
LEMMA LastNonce ==
  ASSUME NEW m \in Nonces, NEW n \in Nonces, m[1] = n[1],
         \A i \in 2..Bytes : n[i] = Top
  PROVE  m = n \/ Before(m, n)
<1> SUFFICES ASSUME m # n PROVE Before(m, n)
  OBVIOUS
<1>1. PICK i \in 1..Bytes : m[i] # n[i] /\ \A j \in 1..i - 1 : m[j] = n[j]
  BY FirstDifference
<1>2. i \in 2..Bytes
  BY <1>1, SessionAssumption
<1>3. m[i] < n[i]
  BY <1>1, <1>2, SessionAssumption DEF Nonces
<1> QED BY <1>1, <1>3 DEF Before

\* One more message is sealed.
LEMMA SpentStep ==
  ASSUME NEW s \in Seq(Nonces), NEW n \in Nonces, NEW first \in 0..Top,
         Spent(s, n, first), {s[i] : i \in 1..Len(s)} # Counted(first)
  PROVE  Spent(Append(s, n), IncNonce(n), first)
<1> DEFINE t == Append(s, n)
           spent == {s[i] : i \in 1..Len(s)}
<1>1. n[1] = first /\ spent = {m \in Counted(first) : Before(m, n)}
  BY DEF Spent
<1>2. /\ Len(s) \in Nat /\ Len(t) = Len(s) + 1 /\ t[Len(t)] = n
      /\ \A i \in 1..Len(s) : t[i] = s[i] /\ s[i] \in spent
  OBVIOUS
<1>3. \A i, j \in 1..Len(t) : i < j => Before(t[i], t[j])
  <2> SUFFICES ASSUME NEW i \in 1..Len(t), NEW j \in 1..Len(t), i < j
               PROVE  Before(t[i], t[j])
    OBVIOUS
  <2>1. i \in 1..Len(s)
    BY <1>2
  <2>2. CASE j = Len(t)
    BY <1>1, <1>2, <2>1, <2>2
  <2>3. CASE j # Len(t)
    <3>1. j \in 1..Len(s)
      BY <1>2, <2>3
    <3> QED BY <1>2, <2>1, <3>1 DEF Spent
  <2> QED BY <2>2, <2>3
<1>4. {t[i] : i \in 1..Len(t)} = spent \cup {n}
  <2>1. ASSUME NEW i \in 1..Len(t) PROVE t[i] \in spent \cup {n}
    BY <1>2
  <2>2. ASSUME NEW x \in spent \cup {n} PROVE \E i \in 1..Len(t) : x = t[i]
    <3>1. Len(t) \in 1..Len(t) /\ \A i \in 1..Len(s) : i \in 1..Len(t)
      BY <1>2
    <3> QED BY <1>2, <3>1
  <2> HIDE DEF t, spent
  <2> QED BY <2>1, <2>2
<1> HIDE DEF t, spent
<1>5. CASE \E i \in 2..Bytes : n[i] # Top
  <2>1. PICK i \in 2..Bytes : n[i] # Top
    BY <1>5
  <2>2. i \in 1..Bytes /\ \E h \in 1..Bytes : n[h] # Top
    BY <2>1, SessionAssumption
  <2>3. IncNonce(n)[1] = first
    <3>1. PICK k \in 1..Bytes :
            /\ n[k] < Top /\ \A h \in k + 1..Bytes : n[h] = Top
            /\ \A h \in 1..Bytes :
                 IncNonce(n)[h] = IF h < k THEN n[h] ELSE IF h = k THEN n[k] + 1 ELSE 0
      BY <2>2, Incremented
    <3>2. i <= k
      BY <2>1, <3>1, SessionAssumption
    <3>3. 1 \in 1..Bytes /\ 1 < k
      BY <3>2, SessionAssumption
    <3> QED BY <1>1, <3>1, <3>3
  <2>4. \A m \in Counted(first) : Before(m, IncNonce(n)) <=> m = n \/ Before(m, n)
    BY <2>2, NextNonce DEF Counted
  <2>5. n \in Counted(first)
    BY <1>1 DEF Counted
  <2>6. spent \cup {n} = {m \in Counted(first) : Before(m, IncNonce(n))}
    BY <1>1, <2>4, <2>5
  <2> QED BY <1>3, <1>4, <2>3, <2>6 DEF Spent, t
<1>6. CASE \A i \in 2..Bytes : n[i] = Top
  <2>1. \A m \in Counted(first) : m = n \/ Before(m, n)
    BY <1>1, <1>6, LastNonce DEF Counted
  <2>2. n \in Counted(first)
    BY <1>1 DEF Counted
  <2>3. spent \cup {n} = Counted(first)
    BY <1>1, <2>1, <2>2
  <2> QED BY <1>3, <1>4, <2>3 DEF Spent, t
<1> QED BY <1>5, <1>6

\* How many messages a direction can seal: all bytes but the first count.
Capacity == Cardinality([2..Bytes -> 0..Top])

LEMMA NotAllSpent ==
  ASSUME NEW s \in Seq(Nonces), Len(s) < MaxFrames, MaxFrames <= Capacity,
         NEW first \in 0..Top
  PROVE  {s[i] : i \in 1..Len(s)} # Counted(first)
<1> SUFFICES ASSUME {s[i] : i \in 1..Len(s)} = Counted(first) PROVE FALSE
  OBVIOUS
<1> DEFINE rest == [i \in 1..Len(s) |-> [j \in 2..Bytes |-> s[i][j]]]
<1>1. rest \in [1..Len(s) -> [2..Bytes -> 0..Top]]
  BY SessionAssumption DEF Nonces
<1>2. ASSUME NEW d \in [2..Bytes -> 0..Top]
      PROVE  \E i \in 1..Len(s) : rest[i] = d
  <2> DEFINE n == [j \in 1..Bytes |-> IF j = 1 THEN first ELSE d[j]]
  <2>1. n \in Nonces /\ n[1] = first
    BY SessionAssumption DEF Nonces
  <2>2. PICK i \in 1..Len(s) : s[i] = n
    BY <2>1 DEF Counted
  <2>3. rest[i] = d
    BY <2>2, SessionAssumption
  <2> QED BY <2>3
<1>3. rest \in Surjection(1..Len(s), [2..Bytes -> 0..Top])
  BY <1>1, <1>2 DEF Surjection
<1>4. ExistsSurjection(1..Len(s), [2..Bytes -> 0..Top])
  BY <1>3 DEF ExistsSurjection
<1>5. Len(s) \in Nat
  OBVIOUS
<1>6. Capacity <= Len(s)
  BY <1>4, <1>5, FS_SurjCardinalityBound DEF Capacity
<1>7. Capacity \in Nat
  BY <1>4, <1>5, FS_NatSurjection, FS_CardinalityType DEF Capacity
<1> QED BY <1>5, <1>6, <1>7, SessionAssumption

LEMMA SpentInit == Init => SpentInv
<1> SUFFICES ASSUME Init PROVE SpentInv
  OBVIOUS
<1>1. ASSUME NEW n \in Nonces, NEW first \in 0..Top,
             n = [i \in 1..Bytes |-> IF i = 1 THEN first ELSE 0]
      PROVE  Spent(<<>>, n, first)
  <2>1. n[1] = first /\ \A i \in 2..Bytes : n[i] = 0
    BY <1>1, SessionAssumption
  <2>2. ASSUME NEW m \in Counted(first), Before(m, n) PROVE FALSE
    <3>1. PICK i \in 1..Bytes : m[i] < n[i]
      BY <2>2 DEF Before
    <3>2. m[1] = first /\ m[i] \in Nat
      BY DEF Counted, Nonces
    <3> QED BY <2>1, <3>1, <3>2, SessionAssumption
  <2>3. {m \in Counted(first) : Before(m, n)} = {}
    BY <2>2
  <2>4. {<<>>[i] : i \in 1..Len(<<>>)} = {} /\ 1..Len(<<>>) = {}
    OBVIOUS
  <2> QED BY <2>1, <2>3, <2>4 DEF Spent
<1>2. Spent(<<>>, ClientStart, 1)
  BY <1>1, StartTypes, SessionAssumption DEF ClientStart
<1>3. Spent(<<>>, ServerStart, 2)
  BY <1>1, StartTypes, SessionAssumption DEF ServerStart
<1>4. Spent(<<ServerStart>>, IncNonce(ServerStart), 2)
  <2>1. ServerStart \in Counted(2)
    BY StartTypes, SessionAssumption DEF Counted, ServerStart
  <2>2. {<<>>[i] : i \in 1..Len(<<>>)} # Counted(2)
    BY <2>1
  <2>3. <<>> \in Seq(Nonces) /\ 2 \in 0..Top /\ Append(<<>>, ServerStart) = <<ServerStart>>
    BY SessionAssumption
  <2> QED BY <1>3, <2>2, <2>3, SpentStep, StartTypes
<1> QED BY <1>2, <1>4 DEF Init, SpentInv

\* Both sides seal with the nonce they have, and then with the next one.
LEMMA SpentNext ==
  ASSUME TypeOK, SpentInv, [Next]_vars, MaxFrames <= Capacity
  PROVE  SpentInv'
<1>1. ASSUME UNCHANGED <<sealedUp, devSend>>
      PROVE  Spent(sealedUp, devSend, 1)'
  BY <1>1 DEF SpentInv, Spent, Before
<1>2. ASSUME UNCHANGED <<sealedDown, server>>
      PROVE  Spent(sealedDown, server, 2)'
  BY <1>2 DEF SpentInv, Spent, Before
<1>3. ASSUME NEW k \in Kinds, DeviceSends(k)
      PROVE  Spent(sealedUp, devSend, 1)'
  <2>1. sealedUp \in Seq(Nonces) /\ devSend \in Nonces /\ 1 \in 0..Top
    BY SessionAssumption DEF TypeOK
  <2>2. {sealedUp[i] : i \in 1..Len(sealedUp)} # Counted(1)
    BY <1>3, <2>1, NotAllSpent DEF DeviceSends
  <2>3. Spent(Append(sealedUp, devSend), IncNonce(devSend), 1)
    BY <2>1, <2>2, SpentStep DEF SpentInv
  <2> QED BY <1>3, <2>3 DEF DeviceSends
<1>4. ASSUME Seal, Len(sealedDown) < MaxFrames
      PROVE  Spent(sealedDown, server, 2)'
  <2>1. sealedDown \in Seq(Nonces) /\ server \in Nonces /\ 2 \in 0..Top
    BY SessionAssumption DEF TypeOK
  <2>2. {sealedDown[i] : i \in 1..Len(sealedDown)} # Counted(2)
    BY <1>4, <2>1, NotAllSpent
  <2>3. Spent(Append(sealedDown, server), IncNonce(server), 2)
    BY <2>1, <2>2, SpentStep DEF SpentInv
  <2> QED BY <1>4, <2>3 DEF Seal
<1>5. \/ \E k \in Kinds : DeviceSends(k) /\ UNCHANGED <<sealedDown, server>>
      \/ UNCHANGED <<sealedUp, devSend, sealedDown, server>>
      \/ Seal /\ Len(sealedDown) < MaxFrames /\ UNCHANGED <<sealedUp, devSend>>
  BY DEF Next, vars, DeviceSends, SendsText, DeviceReceives, Ignored, NotBinary, BadAuth,
     AuthRefused, Auth, FromDevice, Subscribed, Connected, Command, SocketCloses,
     nonces, wire
<1> QED BY <1>1, <1>2, <1>3, <1>4, <1>5 DEF SpentInv

\* What was sealed in order was sealed once, and the first byte tells the
\* directions apart.
LEMMA SpentOnce == TypeOK /\ SpentInv => NonceOnce
<1> SUFFICES ASSUME TypeOK, SpentInv PROVE NonceOnce
  OBVIOUS
<1>1. ASSUME NEW s \in Seq(Nonces), NEW n \in Nonces, NEW first \in 0..Top, Spent(s, n, first)
      PROVE  /\ \A i, j \in 1..Len(s) : s[i] = s[j] => i = j
             /\ \A i \in 1..Len(s) : s[i][1] = first
  <2>1. \A i \in 1..Len(s) : s[i] \in Nonces /\ s[i] \in Counted(first)
    BY <1>1 DEF Spent
  <2>2. \A i, j \in 1..Len(s) : i < j => s[i] # s[j]
    BY <1>1, <2>1, BeforeIrreflexive DEF Spent
  <2>3. \A i, j \in 1..Len(s) : i = j \/ i < j \/ j < i
    OBVIOUS
  <2> QED BY <2>1, <2>2, <2>3 DEF Counted
<1>2. /\ \A i, j \in 1..Len(sealedUp) : sealedUp[i] = sealedUp[j] => i = j
      /\ \A i \in 1..Len(sealedUp) : sealedUp[i][1] = 1
  BY <1>1, SessionAssumption DEF TypeOK, SpentInv
<1>3. /\ \A i, j \in 1..Len(sealedDown) : sealedDown[i] = sealedDown[j] => i = j
      /\ \A i \in 1..Len(sealedDown) : sealedDown[i][1] = 2
  BY <1>1, SessionAssumption DEF TypeOK, SpentInv
<1>4. \A i \in 1..Len(sealedUp), j \in 1..Len(sealedDown) : sealedUp[i] # sealedDown[j]
  BY <1>2, <1>3
<1> QED BY <1>2, <1>3, <1>4 DEF NonceOnce

-----------------------------------------------------------------------------
(* Theorems. *)

LEMMA Step == IInv /\ [Next]_vars => IInv'
<1>1. IInv /\ Next => IInv'
  BY TypeStep, KeyedStep, ControlStep, UpStep, DownStep DEF IInv
<1>2. IInv /\ UNCHANGED vars => IInv'
  <2> SUFFICES ASSUME IInv, UNCHANGED vars PROVE IInv'
    OBVIOUS
  <2>1. TypeOK'
    BY DEF IInv, vars, nonces, wire, connection, TypeOK
  <2>2. InStepUp'
    BY DEF IInv, vars, nonces, wire, connection, InStepUp, After
  <2>3. InStepDown'
    BY DEF IInv, vars, nonces, wire, connection, InStepDown
  <2>4. LeftoversOnlyIfLate' /\ OneOfEach' /\ Control' /\ Keyed'
    BY DEF IInv, vars, nonces, wire, connection, LeftoversOnlyIfLate, OneOfEach, Control, Keyed
  <2> QED BY <2>1, <2>2, <2>3, <2>4 DEF IInv
<1> QED BY <1>1, <1>2

\* The invariant of a session.
THEOREM Inductive == Spec => []IInv
<1> QED BY InitInv, Step, PTL DEF Spec

\* Every variable of the session keeps its type.
THEOREM Typing == Spec => []TypeOK
<1>1. IInv => TypeOK
  BY DEF IInv
<1> QED BY <1>1, Inductive, PTL

\* What each side opens next was sealed with the nonce it expects.
THEOREM NoncesInStep == Spec => []InStep
<1>1. IInv => InStep
  BY DEF IInv, InStep
<1> QED
  BY <1>1, Inductive, PTL

\* A subscription or a timer outlives its connection only if closed() ran
\* while connected() awaited sub.
THEOREM Leftovers == Spec => []LeftoversOnlyIfLate
<1>1. IInv => LeftoversOnlyIfLate
  BY DEF IInv
<1> QED BY <1>1, Inductive, PTL

\* At most one subscription and one timer, for a device with the key.
THEOREM AtMostOne == Spec => []OneOfEach
<1>1. IInv => OneOfEach
  BY DEF IInv
<1> QED BY <1>1, Inductive, PTL

\* "bad auth" is never the answer to a message sealed with the key.
THEOREM HonestIsHeard == Spec => HonestHeard
<1>1. IInv /\ BadAuth => Head(up).kind = "foreign"
  BY DEF IInv, InStepUp, BadAuth, Arrives
<1>2. IInv /\ [Next]_vars => [BadAuth => Head(up).kind = "foreign"]_vars
  BY <1>1
<1> QED BY <1>2, Inductive, PTL DEF Spec, HonestHeard

\* No nonce is used twice, in either direction or in both, as long as no side
\* seals more messages than all bytes but the first can count.
THEOREM NoncesUsedOnce ==
  ASSUME MaxFrames <= Capacity
  PROVE  Spec => []NonceOnce
<1>1. TypeOK /\ SpentInv /\ [Next]_vars => SpentInv'
  BY SpentNext
<1> QED BY SpentInit, <1>1, SpentOnce, Typing, PTL DEF Spec
=============================================================================
