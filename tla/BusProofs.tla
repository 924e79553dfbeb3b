----------------------------- MODULE BusProofs -----------------------------
(* Proofs about Bus, for any number of callers and connections, and about *)
(* Forwarding, whose sockets publish and listen on it, for any number of   *)
(* viewers.                                                                *)
EXTENDS Bus, Forwarding, TLAPS

LEMMA InitInv == Init => IInv
  BY BusAssumption DEF Init, IInv, TypeOK, Reached, NoStaleWaiter, LostUnheard, PCs, Kinds

\* What each action does to the invariant; conns first.
LEMMA ConnStep ==
  ASSUME IInv, NEW c \in Conns, Subscribe(c) \/ Break(c) \/ Unsubscribe(c)
  PROVE  IInv'
  BY BusAssumption
  DEF IInv, TypeOK, Reached, NoStaleWaiter, LostUnheard, Subscribe, Break,
      Unsubscribe, conns, publication

LEMMA PublishStep ==
  ASSUME IInv, NEW p \in Callers, NEW k \in Kinds, Publish(p, k)
  PROVE  IInv'
<1>1. TypeOK'
  BY BusAssumption DEF IInv, TypeOK, Publish, PCs, Kinds
<1>2. Reached' /\ NoStaleWaiter' /\ LostUnheard'
  BY DEF IInv, TypeOK, Reached, NoStaleWaiter, LostUnheard, Publish
<1>3. \A q \in Callers :
        /\ pc'[q] = "publishing" =>
             handled'[q] \subseteq target'[q] \ refused'[q] /\ refused'[q] \subseteq target'[q]
        /\ pc'[q] # "answered" => "waiting" \notin heard'[q] /\ result'[q] = "none"
  BY DEF IInv, TypeOK, Publish
<1> QED BY <1>1, <1>2, <1>3 DEF IInv

LEMMA HandlerStep ==
  ASSUME IInv, NEW p \in Callers, NEW c \in Conns, Handled(p, c) \/ Rejected(p, c)
  PROVE  IInv'
<1>1. TypeOK'
  BY DEF IInv, TypeOK, Handled, Rejected, Pending, conns
<1>2. Reached' /\ NoStaleWaiter' /\ LostUnheard'
  BY DEF IInv, TypeOK, Reached, NoStaleWaiter, LostUnheard, Handled, Rejected, conns
<1>3. \A q \in Callers :
        /\ pc'[q] = "publishing" =>
             handled'[q] \subseteq target'[q] \ refused'[q] /\ refused'[q] \subseteq target'[q]
        /\ pc'[q] # "answered" => "waiting" \notin heard'[q] /\ result'[q] = "none"
  BY DEF IInv, TypeOK, Handled, Rejected, Pending, conns
<1> QED BY <1>1, <1>2, <1>3 DEF IInv

\* All targets have called done, so none was refused.
LEMMA PublishedStep ==
  ASSUME IInv, NEW p \in Callers, Published(p)
  PROVE  IInv'
<1>1. TypeOK'
  BY DEF IInv, TypeOK, Published, PCs, conns, publication
<1>2. refused[p] = {}
  BY DEF IInv, TypeOK, Published
<1>3. Reached' /\ NoStaleWaiter' /\ LostUnheard'
  BY <1>2 DEF IInv, TypeOK, Reached, NoStaleWaiter, LostUnheard, Published, conns, publication
<1>4. \A q \in Callers :
        /\ pc'[q] = "publishing" =>
             handled'[q] \subseteq target'[q] \ refused'[q] /\ refused'[q] \subseteq target'[q]
        /\ pc'[q] # "answered" => "waiting" \notin heard'[q] /\ result'[q] = "none"
  BY <1>2 DEF IInv, TypeOK, Published, conns, publication
<1> QED BY <1>1, <1>3, <1>4 DEF IInv

LEMMA PongStep ==
  ASSUME IInv, NEW c \in Conns, Pong(c)
  PROVE  IInv'
<1>1. TypeOK'
  BY BusAssumption DEF IInv, TypeOK, Pong, Overheard, PCs, publication
<1>2. Reached' /\ NoStaleWaiter' /\ LostUnheard'
  BY DEF IInv, TypeOK, Reached, NoStaleWaiter, LostUnheard, Pong, Overheard, publication
<1>3. \A q \in Callers :
        /\ pc'[q] = "publishing" =>
             handled'[q] \subseteq target'[q] \ refused'[q] /\ refused'[q] \subseteq target'[q]
        /\ pc'[q] # "answered" => "waiting" \notin heard'[q] /\ result'[q] = "none"
  BY DEF IInv, TypeOK, NoStaleWaiter, Pong, Overheard, publication
<1> QED BY <1>1, <1>2, <1>3 DEF IInv

LEMMA TimeoutStep ==
  ASSUME IInv, NEW p \in Callers, Timeout(p)
  PROVE  IInv'
  BY DEF IInv, TypeOK, Reached, NoStaleWaiter, LostUnheard, Timeout, PCs, conns, publication

LEMMA Step == IInv /\ [Next]_vars => IInv'
<1> SUFFICES ASSUME IInv, [Next]_vars PROVE IInv'
  OBVIOUS
<1>1. CASE \E c \in Conns : Subscribe(c) \/ Break(c) \/ Unsubscribe(c) \/ Pong(c)
  BY <1>1, ConnStep, PongStep
<1>2. CASE \E p \in Callers :
             \/ \E k \in Kinds : Publish(p, k)
             \/ \E c \in Conns : Handled(p, c) \/ Rejected(p, c)
             \/ Published(p) \/ Timeout(p)
  BY <1>2, PublishStep, HandlerStep, PublishedStep, TimeoutStep
<1>3. CASE UNCHANGED vars
  BY <1>3 DEF vars, conns, publication, IInv, TypeOK, Reached, NoStaleWaiter, LostUnheard
<1> QED BY <1>1, <1>2, <1>3 DEF Next

\* The invariant of the bus and of pingDevice.
THEOREM Inductive == Spec => []IInv
<1> QED BY InitInv, Step, PTL DEF Spec

\* Every variable of the bus keeps its type.
THEOREM Typing == Spec => []TypeOK
<1>1. IInv => TypeOK
  BY DEF IInv
<1> QED BY <1>1, Inductive, PTL

\* pub resolves only when every connection of the moment of the emit has
\* handled the message.
THEOREM PublicationReaches == Spec => []Reached
<1>1. IInv => Reached
  BY DEF IInv
<1> QED BY <1>1, Inductive, PTL

\* until removes its listener however it ends.
THEOREM WaitersClean == Spec => []NoStaleWaiter
<1>1. IInv => NoStaleWaiter
  BY DEF IInv
<1> QED BY <1>1, Inductive, PTL

\* A pong that comes while pings wait reaches all of them.
THEOREM PongAnswersAll == Spec => []LostUnheard
<1>1. IInv => LostUnheard
  BY DEF IInv
<1> QED BY <1>1, Inductive, PTL

-----------------------------------------------------------------------------
(* The forwarding sockets, for any number of viewers. *)

LEMMA ForwardingInit == FInit => FIInv
  BY DEF FInit, FIInv, FTypeOK, Awaiting, StreamsForSomeone, NoListenerLeft

\* Both bits are off, so the first conjunct has nothing to say; the others
\* are about the viewer that closes.
LEMMA CloseStep ==
  ASSUME FIInv, NEW v \in Viewers,
    Refuse(v) \/ NotConnected(v) \/ SocketCloses(v)
  PROVE  FIInv'
<1>1. CloseIt(v) /\ UNCHANGED <<up, timer, early>>
  BY DEF Refuse, NotConnected, SocketCloses
<1>2. mask' = {}
  BY <1>1 DEF CloseIt, SetFwd, FIInv, FTypeOK
<1>3. FTypeOK' /\ StreamsForSomeone' /\ NoListenerLeft'
  BY <1>1, <1>2 DEF CloseIt, Goto, FIInv, FTypeOK, StreamsForSomeone,
    NoListenerLeft
<1> QED
  BY <1>1, <1>2, <1>3 DEF CloseIt, Goto, FIInv, FTypeOK

\* The viewer that asks is the witness for its bits; the witnesses of the
\* other bits are left alone.
LEMMA AskStep ==
  ASSUME FIInv, NEW v \in Viewers, Answered(v) \/ EnableFwd(v)
  PROVE  FIInv'
<1>1. FTypeOK'
  BY DEF FIInv, FTypeOK, Answered, EnableFwd, Goto, SetFwd, Wants,
    Bits, Awaiting
<1>2. StreamsForSomeone'
  <2>1. CASE Answered(v)
    <3>1. v \in socket' \cup early' /\ v \in timer' \ closed'
      BY <2>1 DEF FIInv, FTypeOK, Answered
    <3> QED BY <2>1, <3>1 DEF FIInv, FTypeOK, StreamsForSomeone,
      Answered, SetFwd, Wants
  <2>2. CASE EnableFwd(v) /\ v \in closed
    <3>1. mask' = mask /\ v \notin timer \ closed
      BY <2>2 DEF EnableFwd
    <3>2. timer' \ closed' = timer \ closed
      BY <2>2 DEF EnableFwd
    <3>3. socket' = socket /\ early' = early
      BY <2>2 DEF EnableFwd
    <3> QED BY <3>1, <3>2, <3>3 DEF FIInv, StreamsForSomeone, Wants
  <2>3. CASE EnableFwd(v) /\ v \notin closed
    BY <2>3 DEF FIInv, FTypeOK, StreamsForSomeone, EnableFwd, SetFwd, Wants
  <2> QED BY <2>1, <2>2, <2>3
<1>3. NoListenerLeft'
  BY DEF FIInv, FTypeOK, NoListenerLeft, Answered, EnableFwd
<1>4. mask' # {} => up'
  BY DEF FIInv, FTypeOK, Answered, EnableFwd, SetFwd
<1> QED
  BY <1>1, <1>2, <1>3, <1>4 DEF FIInv, Answered, EnableFwd, Goto, FTypeOK

LEMMA QuietStep ==
  ASSUME FIInv, NEW v \in Viewers,
         NoDevice(v) \/ Accept(v) \/ Subscribed(v) \/ ClosesEarly(v) \/ Opens(v)
  PROVE  FIInv'
<1>1. mask' = mask /\ up' = up /\ timer' = timer /\ listening' = listening
  BY DEF NoDevice, Accept, Subscribed, ClosesEarly, Opens, device
<1>2. FTypeOK'
  BY <1>1 DEF FIInv, FTypeOK, NoDevice, Accept, Subscribed,
    ClosesEarly, Opens, Goto, Awaiting
<1>3. \A w \in timer \ closed :
        /\ w \in timer' \ closed'
        /\ w \in socket \cup early => w \in socket' \cup early'
  BY DEF FIInv, NoDevice, Accept, Subscribed, ClosesEarly, Opens
<1>4. StreamsForSomeone'
  BY <1>1, <1>3 DEF FIInv, StreamsForSomeone, Wants
<1>5. NoListenerLeft'
  BY <1>1 DEF FIInv, NoListenerLeft, NoDevice, Accept, Subscribed,
    ClosesEarly, Opens
<1> QED
  BY <1>1, <1>2, <1>4, <1>5
  DEF FIInv, FTypeOK, NoDevice, Accept, Subscribed, ClosesEarly,
    Opens, Goto, Awaiting

LEMMA ForwardingStep == FIInv /\ [FNext]_fvars => FIInv'
<1> SUFFICES ASSUME FIInv, [FNext]_fvars PROVE FIInv'
  OBVIOUS
<1>1. CASE Connect \/ Disconnect
  BY <1>1 DEF FIInv, FTypeOK, StreamsForSomeone, NoListenerLeft,
    Connect, Disconnect, viewer
<1>2. CASE \E v \in Viewers :
       \/ NoDevice(v) \/ Refuse(v) \/ Accept(v) \/ NotConnected(v) \/ Answered(v)
       \/ Subscribed(v) \/ EnableFwd(v) \/ SocketCloses(v) \/ ClosesEarly(v)
       \/ Opens(v)
  BY <1>2, CloseStep, AskStep, QuietStep
<1>3. CASE UNCHANGED fvars
  BY <1>3 DEF fvars, device, viewer, FIInv, FTypeOK,
    StreamsForSomeone, NoListenerLeft, Wants
<1> QED BY <1>1, <1>2, <1>3 DEF FNext

\* The invariant of the forwarding sockets.
THEOREM ForwardingInductive == FSpec => []FIInv
<1> QED BY ForwardingInit, ForwardingStep, PTL DEF FSpec

\* Every variable keeps its type.
THEOREM ForwardingTyping == FSpec => []FTypeOK
<1>1. FIInv => FTypeOK
  BY DEF FIInv
<1> QED BY <1>1, ForwardingInductive, PTL

\* The device streams only what some viewer with a running timer wants, and
\* that viewer is there, or its socket closed while it was being set up.
THEOREM StreamingWanted == FSpec => []StreamsForSomeone
<1>1. FIInv => StreamsForSomeone
  BY DEF FIInv
<1> QED BY <1>1, ForwardingInductive, PTL

\* No listener is left of a viewer that has gone, with the same exception.
THEOREM ListenersEnd == FSpec => []NoListenerLeft
<1>1. FIInv => NoListenerLeft
  BY DEF FIInv
<1> QED BY <1>1, ForwardingInductive, PTL
=============================================================================
