----------------------------- MODULE Exceptions -----------------------------
(***************************************************************************)
(* The exception reports of one connection: the ExceptionReport case of    *)
(* fromDevice, fastTick and parseException of src/src/wssk.ts.             *)
(*                                                                         *)
(* The lines of a report come in packets.  fastTick runs every 272 ms,     *)
(* also while an earlier one still awaits parseException (which may read a *)
(* script from storage) or the notification.  When no packet has come      *)
(* between two of them, the lines are reported.                            *)
(*                                                                         *)
(* A line is its number; buffers and arrays are compared by identity, so   *)
(* they have one.                                                          *)
(***************************************************************************)
EXTENDS Naturals, Sequences, FiniteSets

CONSTANTS
  Ticks,      \* bound: calls of fastTick at the same time
  MaxLines,   \* bound: lines the device sends
  MaxPackets  \* bound: packets

ASSUME ExceptionsAssumption == MaxLines \in Nat /\ MaxPackets \in Nat

VARIABLES
  exnBuffer,      \* the number of the packet that left it, 0 for null
  lastExnBuffer,  \* exnBuffer at the end of the last fastTick
  partial,        \* is exnBuffer the start of a line, not empty?
  arrays,         \* every array of lines there has been
  exnLines,       \* the index of the one in use, 0 for null
  pc, logs,       \* what each fastTick awaits, and the index of its array
  open,           \* has the connection not been closed?
  lines,          \* lines that have gone to an array
  packets,        \* packets so far
  reports,        \* history: the reports notified
  late,           \* history: lines whose array a tick had already left
  overlapped      \* history: has a tick parsed while another awaited?

buffers == <<exnBuffer, lastExnBuffer, partial>>
input == <<lines, packets>>
history == <<late, overlapped>>
vars == <<buffers, arrays, exnLines, pc, logs, open, input, reports, history>>

\* The last line that the device has begun to send.
Begun == IF partial THEN lines + 1 ELSE lines

TypeOK ==
  /\ exnBuffer \in 0..MaxPackets /\ lastExnBuffer \in 0..MaxPackets
  /\ partial \in BOOLEAN
  /\ arrays \in Seq(Seq(1..lines))
  /\ exnLines \in 0..Len(arrays)
  /\ pc \in [Ticks -> {"free", "parse", "notify"}]
  /\ logs \in [Ticks -> 0..Len(arrays)]
  /\ open \in BOOLEAN
  /\ lines \in 0..MaxLines /\ Begun <= MaxLines /\ packets \in 0..MaxPackets
  /\ reports \in Seq(Seq(1..lines))
  /\ late \subseteq 1..lines /\ overlapped \in BOOLEAN

Init ==
  /\ exnBuffer = 0 /\ lastExnBuffer = 0 /\ partial = FALSE
  /\ arrays = <<>> /\ exnLines = 0
  /\ pc = [t \in Ticks |-> "free"] /\ logs = [t \in Ticks |-> 0]
  /\ open = TRUE /\ lines = 0 /\ packets = 0 /\ reports = <<>>
  /\ late = {} /\ overlapped = FALSE

Elements(s) == {s[i] : i \in DOMAIN s}

\* Lines that go to the array are reported by a tick that has not read it yet;
\* if there is none, the next tick to end throws them away.
TooLate(array) ==
  /\ \E t \in Ticks : pc[t] # "free"
  /\ ~\E t \in Ticks : pc[t] = "parse" /\ logs[t] = array

-----------------------------------------------------------------------------
\* exnLines.push(...new), or a new array.
Push(new) ==
  IF exnLines # 0
  THEN arrays' = [arrays EXCEPT ![exnLines] = @ \o new] /\ UNCHANGED exnLines
  ELSE arrays' = Append(arrays, new) /\ exnLines' = Len(arrays) + 1

\* n lines end in a packet, the first of which exnBuffer may have begun; what
\* is after them is left in exnBuffer.
ExceptionReport(n, rest) ==
  LET new == [i \in 1..n |-> lines + i] IN
  /\ open /\ packets < MaxPackets
  /\ n = 0 /\ partial => rest
  /\ lines' = lines + n /\ partial' = rest /\ Begun' <= MaxLines
  /\ packets' = packets + 1
  /\ exnBuffer' = packets + 1
  /\ Push(new)
  /\ late' = IF TooLate(exnLines') THEN late \cup Elements(new) ELSE late
  /\ UNCHANGED <<lastExnBuffer, pc, logs, open, reports, overlapped>>

-----------------------------------------------------------------------------
(* fastTick. *)

Stable == exnBuffer # 0 /\ lastExnBuffer = exnBuffer

\* Mutant: lastExnBuffer is only set after a report.
WaitForgets ==
  /\ open /\ ~Stable /\ lastExnBuffer # exnBuffer
  /\ UNCHANGED vars

\* There is no report, or a packet has come since the last tick.
Wait ==
  /\ open /\ ~Stable /\ lastExnBuffer # exnBuffer
  /\ lastExnBuffer' = exnBuffer
  /\ UNCHANGED <<exnBuffer, partial, arrays, exnLines, pc, logs, open, input, reports, history>>

\* Mutant: a line without an end is dropped.
FlushNothing == UNCHANGED <<arrays, exnLines>>

\* A line whose end has not come counts as one.
Flush == IF partial THEN Push(<<lines + 1>>) ELSE UNCHANGED <<arrays, exnLines>>

Nonempty(a, array) == array # 0 /\ a[array] # <<>>

\* The device has been silent: parseException is called with the array.
Report(t) ==
  /\ open /\ Stable /\ pc[t] = "free"
  /\ Flush
  /\ exnBuffer' = 0 /\ partial' = FALSE /\ lines' = Begun
  /\ Nonempty(arrays', exnLines')
  /\ pc' = [pc EXCEPT ![t] = "parse"]
  /\ logs' = [logs EXCEPT ![t] = exnLines']
  /\ overlapped' = (overlapped \/ \E u \in Ticks : pc[u] # "free")
  /\ UNCHANGED <<lastExnBuffer, open, packets, reports, late>>

\* There was nothing in the report.
Empty ==
  /\ open /\ Stable /\ ~partial /\ ~Nonempty(arrays, exnLines)
  /\ exnBuffer' = 0 /\ lastExnBuffer' = 0
  /\ UNCHANGED <<partial, arrays, exnLines, pc, logs, open, input, reports, history>>

\* parseException has looked for the script, and now reads the array.
Parsed(t) ==
  /\ pc[t] = "parse"
  /\ reports' = Append(reports, arrays[logs[t]])
  /\ pc' = [pc EXCEPT ![t] = "notify"]
  /\ UNCHANGED <<buffers, arrays, exnLines, logs, open, input, history>>

\* Mutant: the lines are kept.
NotifiedKeeps(t) ==
  /\ pc[t] = "notify"
  /\ lastExnBuffer' = exnBuffer
  /\ pc' = [pc EXCEPT ![t] = "free"]
  /\ logs' = [logs EXCEPT ![t] = 0]
  /\ UNCHANGED <<exnBuffer, partial, arrays, exnLines, open, input, reports, history>>

\* The notification has been heard; whatever array it is, it goes.
Notified(t) ==
  /\ pc[t] = "notify"
  /\ exnLines' = 0
  /\ lastExnBuffer' = exnBuffer
  /\ pc' = [pc EXCEPT ![t] = "free"]
  /\ logs' = [logs EXCEPT ![t] = 0]
  /\ UNCHANGED <<exnBuffer, partial, arrays, open, input, reports, history>>

-----------------------------------------------------------------------------
\* closed() clears the interval; the ticks that await go on.
Close ==
  /\ open /\ open' = FALSE
  /\ UNCHANGED <<buffers, arrays, exnLines, pc, logs, input, reports, history>>

Next ==
  \/ \E n \in 0..MaxLines, rest \in BOOLEAN : ExceptionReport(n, rest)
  \/ Wait \/ Empty \/ Close
  \/ \E t \in Ticks : Report(t) \/ Parsed(t) \/ Notified(t)

Spec == Init /\ [][Next]_vars

\* The interval fires, storage answers, and no subscriber fails.
FairSpec ==
  /\ Spec
  /\ WF_vars(Wait) /\ WF_vars(Empty)
  /\ WF_vars(\E t \in Ticks : Report(t))
  /\ \A t \in Ticks : WF_vars(Parsed(t)) /\ WF_vars(Notified(t))

-----------------------------------------------------------------------------
(* Properties. *)

IsReported(n) == \E i \in DOMAIN reports : n \in Elements(reports[i])

\* A line is reported, or it will be by a tick that has begun or by the next;
\* the only ones lost came after a tick that awaits had read their array.
LostOnlyIfLate ==
  \A n \in (1..lines) \ late :
    \/ IsReported(n)
    \/ exnLines # 0 /\ n \in Elements(arrays[exnLines])
    \/ \E t \in Ticks : pc[t] = "parse" /\ n \in Elements(arrays[logs[t]])

Increasing(s) == \A j, k \in DOMAIN s : j < k => s[j] < s[k]

\* The lines of a report are in order; and unless two ticks overlap, they come
\* after those of all earlier reports, so none is reported twice.
ReportedInOrder ==
  /\ \A i \in DOMAIN reports : Increasing(reports[i])
  /\ ~overlapped =>
       \A i, j \in DOMAIN reports : i < j =>
         \A m \in Elements(reports[i]), n \in Elements(reports[j]) : m < n

\* When the device is silent, what it sent is reported.
Reported ==
  \A n \in 1..MaxLines : n <= Begun ~> IsReported(n) \/ n \in late \/ ~open

\* The lines of the array in use have been read, or will be, by those ticks
\* that await and will put it away.
InUse ==
  exnLines # 0 /\ (\E t \in Ticks : pc[t] # "free") =>
    \A n \in Elements(arrays[exnLines]) \ late :
      IsReported(n) \/ \E t \in Ticks : pc[t] = "parse" /\ logs[t] = exnLines

Parsing == \A t \in Ticks : pc[t] # "free" => logs[t] # 0

\* Lines go to an array in their order; ticks that do not overlap read each
\* array but once.
Arrays ==
  /\ \A a \in DOMAIN arrays : Increasing(arrays[a])
  /\ ~overlapped =>
       /\ \A t \in Ticks : pc[t] = "parse" => logs[t] = exnLines
       /\ \A t, u \in Ticks : pc[t] # "free" /\ pc[u] # "free" => t = u
       /\ exnLines # 0 /\ (\A t \in Ticks : pc[t] # "notify") =>
            \A m \in 1..lines, n \in Elements(arrays[exnLines]) : IsReported(m) => m < n

IInv == TypeOK /\ LostOnlyIfLate /\ ReportedInOrder /\ InUse /\ Parsing /\ Arrays
=============================================================================
