-------------------------- MODULE ExceptionsProofs --------------------------
(* Proofs about Exceptions, for any number of ticks that overlap and any   *)
(* number of lines; and about Lines, for texts of any length in any        *)
(* packets.                                                                *)
EXTENDS MCExceptions, SequenceTheorems, NaturalsInduction,
        WellFoundedInduction, TLAPS

-----------------------------------------------------------------------------
(* Sequences of lines. *)

LEMMA ConcatFacts ==
  ASSUME NEW S, NEW s \in Seq(S), NEW t \in Seq(S)
  PROVE  /\ s \o t \in Seq(S) /\ Len(s \o t) = Len(s) + Len(t)
         /\ \A i \in 1..Len(s) : (s \o t)[i] = s[i]
         /\ \A i \in 1..Len(t) : (s \o t)[Len(s) + i] = t[i]
         /\ Elements(s \o t) = Elements(s) \cup Elements(t)
<1>1. /\ s \o t \in Seq(S) /\ Len(s \o t) = Len(s) + Len(t)
      /\ Len(s) \in Nat /\ Len(t) \in Nat
      /\ \A i \in 1..Len(s) : (s \o t)[i] = s[i]
  OBVIOUS
<1>2. \A i \in 1..Len(t) : (s \o t)[Len(s) + i] = t[i]
  OBVIOUS
<1>3. \A i \in (Len(s) + 1)..(Len(s) + Len(t)) : (s \o t)[i] = t[i - Len(s)]
  OBVIOUS
<1>4. Elements(s \o t) \subseteq Elements(s) \cup Elements(t)
  <2> SUFFICES ASSUME NEW i \in 1..(Len(s) + Len(t))
               PROVE  (s \o t)[i] \in Elements(s) \cup Elements(t)
    BY <1>1 DEF Elements
  <2>1. CASE i \in 1..Len(s)
    BY <2>1, <1>1 DEF Elements
  <2>2. CASE i \notin 1..Len(s)
    <3>1. i \in (Len(s) + 1)..(Len(s) + Len(t)) /\ i - Len(s) \in 1..Len(t)
      BY <2>2, <1>1
    <3> QED BY <3>1, <1>3 DEF Elements
  <2> QED BY <2>1, <2>2
<1>5. Elements(s) \subseteq Elements(s \o t)
  BY <1>1 DEF Elements
<1>6. Elements(t) \subseteq Elements(s \o t)
  <2> SUFFICES ASSUME NEW i \in 1..Len(t) PROVE t[i] \in Elements(s \o t)
    BY DEF Elements
  <2>1. Len(s) + i \in 1..Len(s \o t)
    BY <1>1
  <2> QED BY <2>1, <1>2 DEF Elements
<1> QED BY <1>1, <1>2, <1>4, <1>5, <1>6

LEMMA ElementsType == ASSUME NEW S, NEW s \in Seq(S) PROVE Elements(s) \subseteq S
  BY DEF Elements

\* Lines after the last one keep a sequence increasing.
LEMMA ConcatIncreasing ==
  ASSUME NEW k \in Nat, NEW m \in Nat, NEW s \in Seq(1..k), NEW t \in Seq((k + 1)..m),
         Increasing(s), Increasing(t)
  PROVE  Increasing(s \o t)
<1> DEFINE a == Len(s)
           b == Len(t)
           f == s \o t
<1>1. s \in Seq(Nat) /\ t \in Seq(Nat)
  OBVIOUS
<1>2. /\ DOMAIN f = 1..(a + b) /\ a \in Nat /\ b \in Nat
      /\ \A i \in 1..a : f[i] = s[i] /\ s[i] \in 1..k
      /\ \A i \in 1..b : f[a + i] = t[i]
      /\ \A i \in 1..b : t[i] \in (k + 1)..m
  BY <1>1, ConcatFacts
<1>3. \A i \in (a + 1)..(a + b) : f[i] = t[i - a] /\ i - a \in 1..b
  BY <1>2
<1>4. /\ \A i, j \in 1..a : i < j => s[i] < s[j]
      /\ \A i, j \in 1..b : i < j => t[i] < t[j]
  <2>1. DOMAIN s = 1..a /\ DOMAIN t = 1..b
    OBVIOUS
  <2> HIDE DEF a, b, f
  <2> QED BY <2>1 DEF Increasing
<1> HIDE DEF a, b, f
<1>5. ASSUME NEW i \in 1..(a + b), NEW j \in 1..(a + b), i < j
      PROVE  f[i] < f[j]
  <2>1. CASE j <= a
    BY <2>1, <1>2, <1>4, <1>5
  <2>2. CASE i > a
    <3>1. i - a \in 1..b /\ j - a \in 1..b /\ i - a < j - a
      BY <2>2, <1>2, <1>5
    <3>2. t[i - a] < t[j - a]
      BY <3>1, <1>4
    <3>3. i \in (a + 1)..(a + b) /\ j \in (a + 1)..(a + b)
      BY <2>2, <1>2, <1>5
    <3> QED BY <3>2, <3>3, <1>3
  <2>3. CASE i <= a /\ j > a
    <3>1. f[i] \in 1..k
      BY <2>3, <1>2
    <3>2. f[j] \in (k + 1)..m
      <4>1. j \in (a + 1)..(a + b)
        BY <2>3, <1>2
      <4> QED BY <4>1, <1>2, <1>3
    <3> QED BY <3>1, <3>2
  <2> QED BY <2>1, <2>2, <2>3, <1>2
<1>6. Increasing(f)
  BY <1>2, <1>5 DEF Increasing
<1> QED BY <1>6 DEF f

-----------------------------------------------------------------------------
(* Lines that go to the array in use. *)

LEMMA PushFacts ==
  ASSUME NEW k \in Nat, NEW m \in Nat, k <= m,
         arrays \in Seq(Seq(1..k)), exnLines \in 0..Len(arrays),
         \A a \in DOMAIN arrays : Increasing(arrays[a]),
         NEW new \in Seq((k + 1)..m), Increasing(new), Push(new)
  PROVE  /\ arrays' \in Seq(Seq(1..m)) /\ exnLines' \in 1..Len(arrays')
         /\ Len(arrays) <= Len(arrays')
         /\ exnLines # 0 => exnLines' = exnLines
         /\ \A a \in 1..Len(arrays) : Elements(arrays[a]) \subseteq Elements(arrays'[a])
         /\ Elements(arrays'[exnLines']) =
              Elements(new) \cup (IF exnLines = 0 THEN {} ELSE Elements(arrays[exnLines]))
         /\ \A a \in DOMAIN arrays' : Increasing(arrays'[a])
<1>1. arrays \in Seq(Seq(1..m)) /\ new \in Seq(1..m) /\ Len(arrays) \in Nat
  OBVIOUS
<1>2. CASE exnLines # 0
  <2>1. exnLines \in 1..Len(arrays) /\ arrays[exnLines] \in Seq(1..m) /\ arrays[exnLines] \in Seq(1..k)
    BY <1>1, <1>2
  <2>2. arrays' = [arrays EXCEPT ![exnLines] = arrays[exnLines] \o new] /\ exnLines' = exnLines
    BY <1>2 DEF Push
  <2>3. /\ arrays[exnLines] \o new \in Seq(1..m)
        /\ Elements(arrays[exnLines] \o new) = Elements(arrays[exnLines]) \cup Elements(new)
    BY <1>1, <2>1, ConcatFacts
  <2>4. Increasing(arrays[exnLines] \o new)
    BY <2>1, ConcatIncreasing
  <2> DEFINE grown == arrays[exnLines] \o new
  <2>5. /\ arrays' \in Seq(Seq(1..m)) /\ Len(arrays') = Len(arrays)
        /\ arrays'[exnLines] = arrays[exnLines] \o new
        /\ \A a \in 1..Len(arrays) : a # exnLines => arrays'[a] = arrays[a]
    <3>1. grown \in Seq(1..m) /\ arrays' = [arrays EXCEPT ![exnLines] = grown]
      BY <2>2, <2>3
    <3> HIDE DEF grown
    <3>2. /\ arrays' \in Seq(Seq(1..m)) /\ Len(arrays') = Len(arrays)
          /\ arrays'[exnLines] = grown
          /\ \A a \in 1..Len(arrays) : a # exnLines => arrays'[a] = arrays[a]
      BY <1>1, <2>1, <3>1
    <3> QED BY <3>2 DEF grown
  <2> QED BY <1>1, <1>2, <2>1, <2>2, <2>3, <2>4, <2>5
<1>3. CASE exnLines = 0
  <2>1. arrays' = Append(arrays, new) /\ exnLines' = Len(arrays) + 1
    BY <1>3 DEF Push
  <2>2. /\ arrays' \in Seq(Seq(1..m)) /\ Len(arrays') = Len(arrays) + 1
        /\ arrays'[Len(arrays) + 1] = new
        /\ \A a \in 1..Len(arrays) : arrays'[a] = arrays[a]
    BY <1>1, <2>1
  <2>3. DOMAIN arrays' = 1..(Len(arrays) + 1) /\ DOMAIN arrays = 1..Len(arrays)
    BY <2>2, <1>1
  <2>4. ASSUME NEW a \in DOMAIN arrays' PROVE Increasing(arrays'[a])
    <3>1. CASE a = Len(arrays) + 1
      <4>1. arrays'[a] = new
        BY <3>1, <2>2
      <4> QED BY <4>1
    <3>2. CASE a # Len(arrays) + 1
      <4>1. a \in DOMAIN arrays /\ arrays'[a] = arrays[a]
        BY <3>2, <2>2, <2>3, <1>1
      <4> QED BY <4>1
    <3> QED BY <3>1, <3>2
  <2> QED BY <1>1, <1>3, <2>1, <2>2, <2>4
<1> QED BY <1>2, <1>3

LEMMA InitInv == Init => IInv
<1> SUFFICES ASSUME Init PROVE IInv
  OBVIOUS
<1>1. 0 \in 0..MaxPackets /\ 0 \in 0..MaxLines /\ 0 <= MaxLines
  BY ExceptionsAssumption
<1>2. Len(arrays) = 0 /\ DOMAIN arrays = {} /\ DOMAIN reports = {} /\ 1..lines = {}
  BY DEF Init
<1>3. TypeOK
  <2>1. <<>> \in Seq(Seq(1..0)) /\ Len(<<>>) = 0 /\ 0 \in 0..0
    OBVIOUS
  <2> QED BY <1>1, <2>1 DEF Init, TypeOK, Begun
<1>4. LostOnlyIfLate /\ ReportedInOrder /\ InUse /\ Parsing /\ Arrays
  BY <1>2 DEF Init, LostOnlyIfLate, ReportedInOrder, InUse, Parsing, Arrays
<1> QED BY <1>3, <1>4 DEF IInv

-----------------------------------------------------------------------------
(* The steps of a tick that leave the arrays alone. *)

LEMMA WaitStep ==
  ASSUME IInv, Wait \/ Empty \/ Close
  PROVE  IInv'
<1>1. /\ UNCHANGED <<partial, arrays, exnLines, pc, logs, input, reports, history>>
      /\ exnBuffer' \in 0..MaxPackets /\ lastExnBuffer' \in 0..MaxPackets
      /\ open' \in BOOLEAN
  <2>0. 0 \in 0..MaxPackets
    BY ExceptionsAssumption
  <2>1. CASE Wait
    BY <2>1 DEF IInv, TypeOK, Wait, input, history
  <2>2. CASE Empty
    BY <2>0, <2>2 DEF IInv, TypeOK, Empty, input, history
  <2>3. CASE Close
    BY <2>3 DEF IInv, TypeOK, Close, buffers, input, history
  <2> QED BY <2>1, <2>2, <2>3
<1>2. TypeOK'
  BY <1>1 DEF IInv, TypeOK, Begun, input, history
<1>3. LostOnlyIfLate' /\ ReportedInOrder' /\ InUse' /\ Parsing' /\ Arrays'
  BY <1>1
  DEF IInv, LostOnlyIfLate, ReportedInOrder, InUse, Parsing, Arrays, IsReported, input, history
<1> QED BY <1>2, <1>3 DEF IInv

\* A tick reads its array, which is not lost then.
LEMMA ParsedStep ==
  ASSUME IInv, NEW t \in Ticks, Parsed(t)
  PROVE  IInv'
<1> DEFINE x == arrays[logs[t]]
<1>1. /\ logs[t] \in 1..Len(arrays) /\ x \in Seq(1..lines) /\ Increasing(x)
      /\ DOMAIN arrays = 1..Len(arrays)
  BY DEF IInv, TypeOK, Parsing, Arrays, Parsed
<1>2. /\ reports' = Append(reports, x) /\ pc' = [pc EXCEPT ![t] = "notify"] /\ pc[t] = "parse"
      /\ UNCHANGED <<exnBuffer, lastExnBuffer, partial, arrays, exnLines, logs, open,
                     lines, packets, late, overlapped>>
  BY DEF Parsed, buffers, input, history
<1>3. /\ reports' \in Seq(Seq(1..lines)) /\ Len(reports') = Len(reports) + 1 /\ Len(reports) \in Nat
      /\ DOMAIN reports = 1..Len(reports) /\ DOMAIN reports' = 1..(Len(reports) + 1)
      /\ \A i \in 1..Len(reports) : reports'[i] = reports[i] /\ reports[i] \in Seq(1..lines)
      /\ reports'[Len(reports) + 1] = x
  <2>1. reports \in Seq(Seq(1..lines))
    BY DEF IInv, TypeOK
  <2> HIDE DEF x
  <2> QED BY <1>1, <1>2, <2>1
<1> HIDE DEF x
<1>4. TypeOK'
  BY <1>2, <1>3 DEF IInv, TypeOK, Begun
<1>5. ASSUME NEW n PROVE IsReported(n)' <=> IsReported(n) \/ n \in Elements(x)
  <2>1. Len(reports) + 1 \in DOMAIN reports' /\ DOMAIN reports \subseteq DOMAIN reports'
    BY <1>3
  <2>2. \A i \in DOMAIN reports' : i \in DOMAIN reports \/ i = Len(reports) + 1
    BY <1>3
  <2>3. IsReported(n)' <=> \E i \in DOMAIN reports' : n \in Elements(reports'[i])
    BY DEF IsReported, Elements
  <2> QED BY <2>1, <2>2, <2>3, <1>3 DEF IsReported
<1>6. LostOnlyIfLate'
  BY <1>2, <1>5 DEF IInv, TypeOK, LostOnlyIfLate, x
<1>7. InUse'
  BY <1>2, <1>5 DEF IInv, TypeOK, InUse, x
<1>8. Parsing'
  BY <1>2 DEF IInv, TypeOK, Parsing
<1>9. ReportedInOrder'
  <2>1. \A i \in DOMAIN reports' : Increasing(reports'[i])
    BY <1>1, <1>3 DEF IInv, ReportedInOrder
  <2>2. ASSUME ~overlapped,
               NEW i \in 1..(Len(reports) + 1), NEW j \in 1..(Len(reports) + 1), i < j,
               NEW m \in Elements(reports'[i]), NEW n \in Elements(reports'[j])
        PROVE  m < n
    <3>1. i \in 1..Len(reports) /\ reports'[i] = reports[i] /\ m \in 1..lines
      <4>1. i \in 1..Len(reports)
        BY <1>3, <2>2
      <4>2. reports'[i] = reports[i] /\ reports[i] \in Seq(1..lines)
        BY <1>3, <4>1
      <4>3. Elements(reports[i]) \subseteq 1..lines
        BY <4>2, ElementsType
      <4> QED BY <4>1, <4>2, <4>3, <2>2
    <3>2. CASE j \in 1..Len(reports)
      BY <3>1, <3>2, <1>3, <2>2 DEF IInv, ReportedInOrder
    <3>3. CASE j = Len(reports) + 1
      <4>1. IsReported(m)
        BY <3>1, <1>3 DEF IsReported
      <4>2. x = arrays[exnLines] /\ exnLines # 0 /\ \A u \in Ticks : pc[u] # "notify"
        BY <1>1, <1>2, <2>2 DEF IInv, Arrays, Parsing, x
      <4>3. n \in Elements(arrays[exnLines])
        BY <3>3, <4>2, <1>3
      <4> QED BY <3>1, <4>1, <4>2, <4>3, <2>2 DEF IInv, Arrays
    <3> QED BY <3>2, <3>3
  <2> QED BY <2>1, <2>2, <1>2, <1>3 DEF ReportedInOrder
<1>10. Arrays'
  <2>1. ~overlapped =>
          /\ \A u \in Ticks : pc'[u] = "parse" => logs'[u] = exnLines'
          /\ \A u, v \in Ticks : pc'[u] # "free" /\ pc'[v] # "free" => u = v
    BY <1>2 DEF IInv, TypeOK, Arrays
  <2>2. pc'[t] = "notify"
    BY <1>2 DEF IInv, TypeOK
  <2> QED BY <1>2, <2>1, <2>2 DEF IInv, Arrays
<1> QED BY <1>4, <1>6, <1>7, <1>8, <1>9, <1>10 DEF IInv

\* Whatever array is in use is put away: all its lines have been read, or some
\* tick will read them, or they are late.
LEMMA NotifiedStep ==
  ASSUME IInv, NEW t \in Ticks, Notified(t)
  PROVE  IInv'
<1>1. /\ pc[t] = "notify" /\ pc' = [pc EXCEPT ![t] = "free"] /\ logs' = [logs EXCEPT ![t] = 0]
      /\ exnLines' = 0 /\ lastExnBuffer' = exnBuffer
      /\ UNCHANGED <<exnBuffer, partial, arrays, open, lines, packets, reports, late, overlapped>>
  BY DEF Notified, input, history
<1>2. TypeOK'
  BY <1>1 DEF IInv, TypeOK, Begun
<1>3. LostOnlyIfLate'
  <2> SUFFICES ASSUME NEW n \in (1..lines) \ late, ~IsReported(n)
               PROVE  \E u \in Ticks : pc'[u] = "parse" /\ n \in Elements(arrays[logs'[u]])
    BY <1>1 DEF LostOnlyIfLate, IsReported
  <2>1. \E u \in Ticks : pc[u] = "parse" /\ n \in Elements(arrays[logs[u]])
    BY <1>1 DEF IInv, LostOnlyIfLate, InUse
  <2> QED BY <1>1, <2>1 DEF IInv, TypeOK
<1>4. ReportedInOrder' /\ InUse' /\ Parsing'
  BY <1>1 DEF IInv, TypeOK, ReportedInOrder, InUse, Parsing
<1>5. Arrays'
  BY <1>1 DEF IInv, TypeOK, Arrays
<1> QED BY <1>2, <1>3, <1>4, <1>5 DEF IInv

-----------------------------------------------------------------------------
(* Packets, and the tick that begins a report. *)

\* Reported lines are lines that have gone to an array.
LEMMA ReportedLines ==
  ASSUME TypeOK, NEW n, IsReported(n)
  PROVE  n \in 1..lines
<1>1. PICK i \in DOMAIN reports : n \in Elements(reports[i])
  BY DEF IsReported
<1>2. reports[i] \in Seq(1..lines)
  BY DEF TypeOK
<1> QED BY <1>1, <1>2, ElementsType

LEMMA ArrayLines ==
  ASSUME TypeOK, NEW a \in 1..Len(arrays)
  PROVE  Elements(arrays[a]) \subseteq 1..lines
<1>1. arrays[a] \in Seq(1..lines)
  BY DEF TypeOK
<1> QED BY <1>1, ElementsType

\* What remains true when lines go to the array in use.
LEMMA PushKeeps ==
  ASSUME IInv, NEW new \in Seq((lines + 1)..lines'), Increasing(new), Push(new),
         lines' \in Nat, lines <= lines', UNCHANGED <<reports, overlapped>>
  PROVE  /\ arrays' \in Seq(Seq(1..lines')) /\ reports' \in Seq(Seq(1..lines'))
         /\ exnLines' \in 1..Len(arrays')
         /\ \A t \in Ticks : logs[t] \in 0..Len(arrays')
         /\ exnLines # 0 => exnLines' = exnLines
         /\ \A a \in 1..Len(arrays) : Elements(arrays[a]) \subseteq Elements(arrays'[a])
         /\ Elements(arrays'[exnLines']) =
              Elements(new) \cup (IF exnLines = 0 THEN {} ELSE Elements(arrays[exnLines]))
         /\ \A a \in DOMAIN arrays' : Increasing(arrays'[a])
         /\ ~overlapped /\ (\A t \in Ticks : pc[t] # "notify") =>
              \A m \in 1..lines', n \in Elements(arrays'[exnLines']) : IsReported(m) => m < n
<1>1. /\ lines \in Nat /\ arrays \in Seq(Seq(1..lines)) /\ exnLines \in 0..Len(arrays)
      /\ reports \in Seq(Seq(1..lines)) /\ logs \in [Ticks -> 0..Len(arrays)]
      /\ \A a \in DOMAIN arrays : Increasing(arrays[a])
  BY DEF IInv, TypeOK, Arrays
<1>2. /\ arrays' \in Seq(Seq(1..lines')) /\ exnLines' \in 1..Len(arrays')
      /\ Len(arrays) <= Len(arrays')
      /\ exnLines # 0 => exnLines' = exnLines
      /\ \A a \in 1..Len(arrays) : Elements(arrays[a]) \subseteq Elements(arrays'[a])
      /\ Elements(arrays'[exnLines']) =
           Elements(new) \cup (IF exnLines = 0 THEN {} ELSE Elements(arrays[exnLines]))
      /\ \A a \in DOMAIN arrays' : Increasing(arrays'[a])
  BY <1>1, PushFacts
<1>3. reports' \in Seq(Seq(1..lines'))
  BY <1>1
<1>4. \A t \in Ticks : logs[t] \in 0..Len(arrays')
  BY <1>1, <1>2
<1>5. ASSUME ~overlapped, \A t \in Ticks : pc[t] # "notify",
             NEW m \in 1..lines', NEW n \in Elements(arrays'[exnLines']), IsReported(m)
      PROVE  m < n
  <2>1. m \in 1..lines
    BY <1>5, ReportedLines DEF IInv
  <2>2. CASE n \in Elements(new)
    <3>1. n \in (lines + 1)..lines'
      BY <2>2, ElementsType
    <3> QED BY <2>1, <3>1, <1>1
  <2>3. CASE exnLines # 0 /\ n \in Elements(arrays[exnLines])
    BY <2>1, <2>3, <1>5 DEF IInv, Arrays
  <2> QED BY <2>2, <2>3, <1>2, <1>5
<1> QED BY <1>2, <1>3, <1>4, <1>5

LEMMA PacketStep ==
  ASSUME IInv, NEW n \in 0..MaxLines, NEW rest \in BOOLEAN, ExceptionReport(n, rest)
  PROVE  IInv'
<1> DEFINE new == [i \in 1..n |-> lines + i]
<1>1. /\ lines' = lines + n /\ partial' = rest /\ Begun' <= MaxLines
      /\ lines \in Nat /\ n \in Nat /\ lines' \in Nat /\ lines <= lines'
      /\ packets' \in 0..MaxPackets /\ exnBuffer' \in 0..MaxPackets
      /\ Push(new)
      /\ late' = IF TooLate(exnLines') THEN late \cup Elements(new) ELSE late
      /\ UNCHANGED <<lastExnBuffer, pc, logs, open, reports, overlapped>>
  BY ExceptionsAssumption DEF ExceptionReport, IInv, TypeOK
<1>2. new \in Seq((lines + 1)..lines') /\ Increasing(new)
  BY <1>1 DEF Increasing
<1>3. Elements(new) = (lines + 1)..lines'
  <2>1. \A k \in (lines + 1)..lines' : k - lines \in 1..n /\ new[k - lines] = k
    BY <1>1
  <2>2. \A i \in 1..n : new[i] \in (lines + 1)..lines'
    BY <1>1
  <2> QED BY <2>1, <2>2 DEF Elements
<1> HIDE DEF new
<1>4. /\ arrays' \in Seq(Seq(1..lines')) /\ reports' \in Seq(Seq(1..lines'))
      /\ exnLines' \in 1..Len(arrays')
      /\ \A t \in Ticks : logs[t] \in 0..Len(arrays')
      /\ exnLines # 0 => exnLines' = exnLines
      /\ \A a \in 1..Len(arrays) : Elements(arrays[a]) \subseteq Elements(arrays'[a])
      /\ Elements(arrays'[exnLines']) =
           Elements(new) \cup (IF exnLines = 0 THEN {} ELSE Elements(arrays[exnLines]))
      /\ \A a \in DOMAIN arrays' : Increasing(arrays'[a])
      /\ ~overlapped /\ (\A t \in Ticks : pc[t] # "notify") =>
           \A m \in 1..lines', k \in Elements(arrays'[exnLines']) : IsReported(m) => m < k
  BY <1>1, <1>2, PushKeeps
<1>5. TypeOK'
  <2>1. lines' \in 0..MaxLines
    BY <1>1, ExceptionsAssumption DEF Begun
  <2>2. late' \subseteq 1..lines'
    <3>1. late \subseteq 1..lines' /\ Elements(new) \subseteq 1..lines'
      BY <1>1, <1>3 DEF IInv, TypeOK
    <3> QED BY <3>1, <1>1
  <2>3. logs' \in [Ticks -> 0..Len(arrays')]
    BY <1>1, <1>4 DEF IInv, TypeOK
  <2>4. partial' \in BOOLEAN /\ Begun' <= MaxLines
    BY <1>1
  <2>5. exnLines' \in 0..Len(arrays')
    BY <1>4
  <2>6. /\ lastExnBuffer' \in 0..MaxPackets /\ pc' \in [Ticks -> {"free", "parse", "notify"}]
        /\ open' \in BOOLEAN /\ overlapped' \in BOOLEAN
    BY <1>1 DEF IInv, TypeOK
  <2> QED BY <1>1, <1>4, <2>1, <2>2, <2>3, <2>4, <2>5, <2>6 DEF TypeOK
<1>6. late \subseteq late' /\ (\A k : IsReported(k)' <=> IsReported(k))
  BY <1>1 DEF IsReported
<1>7. LostOnlyIfLate'
  <2> SUFFICES ASSUME NEW k \in (1..lines') \ late'
               PROVE  \/ IsReported(k)
                      \/ k \in Elements(arrays'[exnLines'])
                      \/ \E t \in Ticks : pc[t] = "parse" /\ k \in Elements(arrays'[logs[t]])
    BY <1>1, <1>4, <1>6 DEF LostOnlyIfLate
  <2>1. CASE k \in 1..lines
    <3>1. \/ IsReported(k)
          \/ exnLines # 0 /\ k \in Elements(arrays[exnLines])
          \/ \E t \in Ticks : pc[t] = "parse" /\ k \in Elements(arrays[logs[t]])
      BY <2>1, <1>6 DEF IInv, LostOnlyIfLate
    <3>2. \A t \in Ticks : pc[t] = "parse" => logs[t] \in 1..Len(arrays)
      BY DEF IInv, TypeOK, Parsing
    <3> QED BY <3>1, <3>2, <1>4
  <2>2. CASE k \in (lines + 1)..lines'
    BY <2>2, <1>3, <1>4
  <2> QED BY <2>1, <2>2, <1>1
<1>8. InUse'
  <2> SUFFICES ASSUME \E t \in Ticks : pc[t] # "free",
                      NEW k \in Elements(arrays'[exnLines']) \ late'
               PROVE  IsReported(k) \/ \E t \in Ticks : pc[t] = "parse" /\ logs[t] = exnLines'
    BY <1>1, <1>6 DEF InUse
  <2>1. CASE k \in Elements(new)
    BY <2>1, <1>1 DEF TooLate
  <2>2. CASE exnLines # 0 /\ k \in Elements(arrays[exnLines])
    BY <2>2, <1>4, <1>6 DEF IInv, InUse
  <2> QED BY <2>1, <2>2, <1>4
<1>9. ReportedInOrder' /\ Parsing'
  BY <1>1 DEF IInv, ReportedInOrder, Parsing
<1>10. Arrays'
  <2>1. \A t \in Ticks : pc[t] = "parse" => logs[t] # 0
    BY DEF IInv, Parsing
  <2> QED BY <1>1, <1>4, <1>6, <2>1 DEF IInv, Arrays
<1> QED BY <1>5, <1>7, <1>8, <1>9, <1>10 DEF IInv

\* A tick begins: its array holds all lines of the report so far.
LEMMA ReportStep ==
  ASSUME IInv, NEW t \in Ticks, Report(t)
  PROVE  IInv'
<1>1. /\ pc[t] = "free" /\ Flush /\ exnBuffer' = 0 /\ partial' = FALSE /\ lines' = Begun
      /\ exnLines' # 0
      /\ pc' = [pc EXCEPT ![t] = "parse"] /\ logs' = [logs EXCEPT ![t] = exnLines']
      /\ overlapped' = (overlapped \/ \E u \in Ticks : pc[u] # "free")
      /\ UNCHANGED <<lastExnBuffer, open, packets, reports, late>>
  BY DEF Report, Nonempty
<1>2. /\ lines \in Nat /\ lines' \in Nat /\ lines <= lines' /\ lines' <= MaxLines
      /\ partial => lines' = lines + 1
      /\ ~partial => lines' = lines /\ arrays' = arrays /\ exnLines' = exnLines
  BY <1>1 DEF IInv, TypeOK, Begun, Flush
<1>3. /\ arrays' \in Seq(Seq(1..lines')) /\ reports' \in Seq(Seq(1..lines'))
      /\ exnLines' \in 1..Len(arrays')
      /\ \A u \in Ticks : logs[u] \in 0..Len(arrays')
      /\ exnLines # 0 => exnLines' = exnLines
      /\ \A a \in 1..Len(arrays) : Elements(arrays[a]) \subseteq Elements(arrays'[a])
      /\ exnLines # 0 => Elements(arrays[exnLines]) \subseteq Elements(arrays'[exnLines'])
      /\ \A k \in (lines + 1)..lines' : k \in Elements(arrays'[exnLines'])
      /\ \A a \in DOMAIN arrays' : Increasing(arrays'[a])
      /\ ~overlapped /\ (\A u \in Ticks : pc[u] # "notify") =>
           \A m \in 1..lines', k \in Elements(arrays'[exnLines']) : IsReported(m) => m < k
  <2>1. CASE ~partial
    BY <1>1, <1>2, <2>1 DEF IInv, TypeOK, Arrays
  <2>2. CASE partial
    <3> DEFINE new == <<lines + 1>>
    <3>1. new \in Seq((lines + 1)..lines') /\ Increasing(new)
      BY <1>2, <2>2 DEF Increasing
    <3>2. \A k \in (lines + 1)..lines' : k \in Elements(new)
      BY <1>2, <2>2 DEF Elements
    <3>3. Push(new) /\ UNCHANGED reports
      BY <1>1, <2>2 DEF Flush
    <3> HIDE DEF new
    <3>4. exnLines \in 0..Len(arrays)
      BY DEF IInv, TypeOK
    <3>5. /\ arrays' \in Seq(Seq(1..lines')) /\ exnLines' \in 1..Len(arrays')
          /\ Len(arrays) <= Len(arrays')
          /\ exnLines # 0 => exnLines' = exnLines
          /\ \A a \in 1..Len(arrays) : Elements(arrays[a]) \subseteq Elements(arrays'[a])
          /\ Elements(arrays'[exnLines']) =
               Elements(new) \cup (IF exnLines = 0 THEN {} ELSE Elements(arrays[exnLines]))
          /\ \A a \in DOMAIN arrays' : Increasing(arrays'[a])
      <4>1. arrays \in Seq(Seq(1..lines)) /\ \A a \in DOMAIN arrays : Increasing(arrays[a])
        BY DEF IInv, TypeOK, Arrays
      <4> QED BY <1>2, <3>1, <3>3, <3>4, <4>1, PushFacts
    <3>6. reports' \in Seq(Seq(1..lines'))
      BY <1>2, <3>3 DEF IInv, TypeOK
    <3>7. \A u \in Ticks : logs[u] \in 0..Len(arrays')
      BY <3>5 DEF IInv, TypeOK
    <3>8. ASSUME ~overlapped, \A u \in Ticks : pc[u] # "notify",
                 NEW m \in 1..lines', NEW k \in Elements(arrays'[exnLines']), IsReported(m)
          PROVE  m < k
      <4>1. m \in 1..lines
        BY <3>8, ReportedLines DEF IInv
      <4>2. CASE k \in Elements(new)
        <5>1. k \in (lines + 1)..lines'
          BY <3>1, <4>2, ElementsType
        <5> QED BY <4>1, <5>1, <1>2
      <4>3. CASE exnLines # 0 /\ k \in Elements(arrays[exnLines])
        BY <3>8, <4>1, <4>3 DEF IInv, Arrays
      <4> QED BY <3>5, <3>8, <4>2, <4>3
    <3> QED BY <3>2, <3>5, <3>6, <3>7, <3>8
  <2> QED BY <2>1, <2>2 DEF IInv, TypeOK
<1>4. TypeOK'
  <2>1. lines' \in 0..MaxLines /\ 0 \in 0..MaxPackets
    BY <1>2, ExceptionsAssumption
  <2>2. late' \subseteq 1..lines'
    BY <1>1, <1>2 DEF IInv, TypeOK
  <2>3. logs' \in [Ticks -> 0..Len(arrays')]
    BY <1>1, <1>3 DEF IInv, TypeOK
  <2>4. partial' = FALSE /\ partial' \in BOOLEAN /\ Begun' <= MaxLines
    BY <1>1, <1>2 DEF Begun
  <2>5. exnLines' \in 0..Len(arrays')
    BY <1>3
  <2>6. /\ lastExnBuffer' \in 0..MaxPackets /\ exnBuffer' \in 0..MaxPackets
        /\ pc' \in [Ticks -> {"free", "parse", "notify"}]
        /\ open' \in BOOLEAN /\ packets' \in 0..MaxPackets
    BY <1>1, <2>1 DEF IInv, TypeOK
  <2>7. overlapped' \in BOOLEAN
    BY <1>1 DEF IInv, TypeOK
  <2> QED BY <1>3, <2>1, <2>2, <2>3, <2>4, <2>5, <2>6, <2>7 DEF TypeOK
<1>5. \A k : IsReported(k)' <=> IsReported(k)
  BY <1>1 DEF IsReported
<1>6. logs'[t] = exnLines' /\ pc'[t] = "parse"
      /\ \A u \in Ticks : u # t => logs'[u] = logs[u] /\ pc'[u] = pc[u]
  BY <1>1 DEF IInv, TypeOK
<1>7. \A u \in Ticks : pc[u] = "parse" => logs[u] \in 1..Len(arrays)
  BY DEF IInv, TypeOK, Parsing
<1>8. LostOnlyIfLate'
  <2> SUFFICES ASSUME NEW k \in (1..lines') \ late, ~IsReported(k)
               PROVE  \/ k \in Elements(arrays'[exnLines'])
                      \/ \E u \in Ticks : pc'[u] = "parse" /\ k \in Elements(arrays'[logs'[u]])
    BY <1>1, <1>5 DEF LostOnlyIfLate
  <2>1. CASE k \in 1..lines
    <3>1. \/ exnLines # 0 /\ k \in Elements(arrays[exnLines])
          \/ \E u \in Ticks : pc[u] = "parse" /\ k \in Elements(arrays[logs[u]])
      BY <2>1 DEF IInv, LostOnlyIfLate
    <3> QED BY <1>1, <1>3, <1>6, <1>7, <3>1
  <2>2. CASE k \in (lines + 1)..lines'
    BY <2>2, <1>3
  <2> QED BY <2>1, <2>2, <1>2
<1>9. InUse' /\ Parsing'
  BY <1>1, <1>6 DEF IInv, InUse, Parsing
<1>10. ReportedInOrder'
  BY <1>1 DEF IInv, ReportedInOrder
<1>11. Arrays'
  <2> SUFFICES ASSUME ~overlapped'
               PROVE  /\ \A u \in Ticks : pc'[u] = "parse" => logs'[u] = exnLines'
                      /\ \A u, v \in Ticks : pc'[u] # "free" /\ pc'[v] # "free" => u = v
                      /\ \A m \in 1..lines', k \in Elements(arrays'[exnLines']) :
                           IsReported(m) => m < k
    BY <1>3, <1>5 DEF Arrays
  <2>1. ~overlapped /\ \A u \in Ticks : pc[u] = "free"
    BY <1>1
  <2> QED BY <1>3, <1>6, <2>1
<1> QED BY <1>4, <1>8, <1>9, <1>10, <1>11 DEF IInv

-----------------------------------------------------------------------------
(* Theorems. *)

LEMMA NextStep == IInv /\ [Next]_vars => IInv'
<1> SUFFICES ASSUME IInv, [Next]_vars PROVE IInv'
  OBVIOUS
<1>1. CASE UNCHANGED vars
  BY <1>1
  DEF vars, buffers, input, history, IInv, TypeOK, Begun, LostOnlyIfLate, ReportedInOrder,
      InUse, Parsing, Arrays, IsReported
<1>2. CASE Next
  BY <1>2, PacketStep, WaitStep, ReportStep, ParsedStep, NotifiedStep DEF Next
<1> QED BY <1>1, <1>2

\* The invariant of the lines, the arrays and the ticks that overlap.
THEOREM Inductive == Spec => []IInv
<1> QED BY InitInv, NextStep, PTL DEF Spec

\* Every variable keeps its type.
THEOREM Typing == Spec => []TypeOK
<1>1. IInv => TypeOK
  BY DEF IInv
<1> QED BY <1>1, Inductive, PTL

\* Every line is reported or waits for a tick, but for those that come in
\* while a tick awaits that has read their array.
THEOREM LostIsLate == Spec => []LostOnlyIfLate
<1>1. IInv => LostOnlyIfLate
  BY DEF IInv
<1> QED BY <1>1, Inductive, PTL

\* Reports are in order, and without overlapping ticks nothing is repeated.
THEOREM ReportsInOrder == Spec => []ReportedInOrder
<1>1. IInv => ReportedInOrder
  BY DEF IInv
<1> QED BY <1>1, Inductive, PTL

-----------------------------------------------------------------------------
(* Lines.  Induction over numbers: there is a least one that does not do.  *)

\* Every set of numbers has a least one.
LEMMA Least ==
  ASSUME NEW S \in SUBSET Nat, S # {}
  PROVE  \E x \in S : \A y \in S : x <= y
<1>1. PICK x \in S : \A y \in S : ~ (<<y, x>> \in OpToRel(<, Nat))
  BY NatLessThanWellFounded, WFMin
<1>2. OpToRel(<, Nat) = {p \in Nat \X Nat : p[1] < p[2]}
  BY DEF OpToRel
<1>3. \A y \in S : ~(y < x)
  BY <1>1, <1>2
<1> QED BY <1>3

\* A set of numbers that has 0, and the next of each it has, has all.
LEMMA Induction ==
  ASSUME NEW n \in Nat, NEW S, 0 \in S, \A k \in 0..n - 1 : k \in S => k + 1 \in S
  PROVE  \A k \in 0..n : k \in S
<1> DEFINE Missing == (0..n) \ S
<1> SUFFICES ASSUME Missing # {} PROVE FALSE
  OBVIOUS
<1>1. Missing \in SUBSET Nat
  OBVIOUS
<1>2. PICK k \in Missing : \A m \in Missing : k <= m
  BY <1>1, Least
<1>3. k - 1 \in 0..n - 1 /\ k - 1 \notin Missing
  BY <1>2
<1> QED BY <1>2, <1>3

-----------------------------------------------------------------------------
(* The recursive functions. *)

LEMMA TurnsExist ==
  ASSUME NEW s, NEW text, NEW n \in Nat
  PROVE  \E f : f = [i \in 0..n |-> IF i = 0 THEN s ELSE NextByte(f[i - 1], text[i])]
<1> DEFINE Is(f, k) == f = [i \in 0..k |-> IF i = 0 THEN s ELSE NextByte(f[i - 1], text[i])]
           Have == {k \in 0..n : \E f : Is(f, k)}
<1>1. 0 \in Have
  <2>1. Is([i \in 0..0 |-> s], 0)
    <3>1. \A i \in 0..0 : i = 0
      OBVIOUS
    <3> QED BY <3>1, Zenon
  <2> HIDE DEF Is
  <2> QED BY <2>1
<1>2. ASSUME NEW k \in 0..n - 1, k \in Have PROVE k + 1 \in Have
  <2>1. PICK g : Is(g, k)
    BY <1>2
  <2> DEFINE h == [i \in 0..k + 1 |-> IF i <= k THEN g[i] ELSE NextByte(g[k], text[k + 1])]
  <2>2. Is(h, k + 1)
    <3>1. \A i \in 0..k + 1 : h[i] = IF i = 0 THEN s ELSE NextByte(h[i - 1], text[i])
      <4> SUFFICES ASSUME NEW i \in 0..k + 1
                   PROVE  h[i] = IF i = 0 THEN s ELSE NextByte(h[i - 1], text[i])
        OBVIOUS
      <4>1. CASE i = 0
        BY <2>1, <4>1
      <4>2. CASE i \in 1..k
        <5>1. h[i] = g[i] /\ h[i - 1] = g[i - 1] /\ i \in 0..k /\ i # 0
          BY <4>2
        <5> QED BY <2>1, <5>1
      <4>3. CASE i = k + 1
        <5>1. h[k + 1] = NextByte(g[k], text[k + 1]) /\ h[k] = g[k] /\ i - 1 = k /\ i # 0
          BY <4>3
        <5> HIDE DEF h
        <5> QED BY <4>3, <5>1
      <4> QED BY <4>1, <4>2, <4>3
    <3>2. h = [i \in 0..k + 1 |-> h[i]]
      OBVIOUS
    <3> HIDE DEF h
    <3> QED BY <3>1, <3>2, Zenon
  <2>3. k + 1 \in 0..n
    OBVIOUS
  <2> HIDE DEF Is, h
  <2> QED BY <2>2, <2>3
<1>3. n \in Have
  <2> HIDE DEF Have
  <2> QED BY <1>1, <1>2, Induction
<1> QED BY <1>3

LEMMA TurnsValue ==
  ASSUME NEW s, NEW text, Len(text) \in Nat
  PROVE  /\ Turns(s, text)[0] = s
         /\ \A i \in 1..Len(text) : Turns(s, text)[i] = NextByte(Turns(s, text)[i - 1], text[i])
<1> DEFINE f == Turns(s, text)
<1>1. f = [i \in 0..Len(text) |-> IF i = 0 THEN s ELSE NextByte(f[i - 1], text[i])]
  BY TurnsExist DEF Turns
<1> HIDE DEF f
<1>2. f[0] = s /\ \A i \in 1..Len(text) : f[i] = NextByte(f[i - 1], text[i])
  BY <1>1
<1> QED BY <1>2 DEF f

LEMMA ReceivedExist ==
  ASSUME NEW pk, NEW n \in Nat
  PROVE  \E f : f = [i \in 0..n |-> IF i = 0 THEN [logBuffer |-> <<>>, logs |-> <<>>]
                                     ELSE Dmesg(f[i - 1], pk[i])]
<1> DEFINE none == [logBuffer |-> <<>>, logs |-> <<>>]
           Is(f, k) == f = [i \in 0..k |-> IF i = 0 THEN none ELSE Dmesg(f[i - 1], pk[i])]
           Have == {k \in 0..n : \E f : Is(f, k)}
<1> HIDE DEF none
<1>1. 0 \in Have
  <2>1. Is([i \in 0..0 |-> none], 0)
    <3>1. \A i \in 0..0 : i = 0
      OBVIOUS
    <3> QED BY <3>1, Zenon
  <2> HIDE DEF Is
  <2> QED BY <2>1
<1>2. ASSUME NEW k \in 0..n - 1, k \in Have PROVE k + 1 \in Have
  <2>1. PICK g : Is(g, k)
    BY <1>2
  <2> DEFINE h == [i \in 0..k + 1 |-> IF i <= k THEN g[i] ELSE Dmesg(g[k], pk[k + 1])]
  <2>2. Is(h, k + 1)
    <3>1. \A i \in 0..k + 1 : h[i] = IF i = 0 THEN none ELSE Dmesg(h[i - 1], pk[i])
      <4> SUFFICES ASSUME NEW i \in 0..k + 1
                   PROVE  h[i] = IF i = 0 THEN none ELSE Dmesg(h[i - 1], pk[i])
        OBVIOUS
      <4>1. CASE i = 0
        BY <2>1, <4>1
      <4>2. CASE i \in 1..k
        <5>1. h[i] = g[i] /\ h[i - 1] = g[i - 1] /\ i \in 0..k /\ i # 0
          BY <4>2
        <5> QED BY <2>1, <5>1
      <4>3. CASE i = k + 1
        <5>1. h[k + 1] = Dmesg(g[k], pk[k + 1]) /\ h[k] = g[k] /\ i - 1 = k /\ i # 0
          BY <4>3
        <5> HIDE DEF h
        <5> QED BY <4>3, <5>1
      <4> QED BY <4>1, <4>2, <4>3
    <3>2. h = [i \in 0..k + 1 |-> h[i]]
      OBVIOUS
    <3> HIDE DEF h
    <3> QED BY <3>1, <3>2, Zenon
  <2>3. k + 1 \in 0..n
    OBVIOUS
  <2> HIDE DEF Is, h
  <2> QED BY <2>2, <2>3
<1>3. n \in Have
  <2> HIDE DEF Have
  <2> QED BY <1>1, <1>2, Induction
<1> QED BY <1>3 DEF none

LEMMA ReceivedValue ==
  ASSUME NEW pk, Len(pk) \in Nat
  PROVE  /\ Received(pk)[0] = [logBuffer |-> <<>>, logs |-> <<>>]
         /\ \A i \in 1..Len(pk) : Received(pk)[i] = Dmesg(Received(pk)[i - 1], pk[i])
<1> DEFINE f == Received(pk)
           none == [logBuffer |-> <<>>, logs |-> <<>>]
<1>1. f = [i \in 0..Len(pk) |-> IF i = 0 THEN none ELSE Dmesg(f[i - 1], pk[i])]
  BY ReceivedExist DEF Received
<1> HIDE DEF f, none
<1>2. f[0] = none /\ \A i \in 1..Len(pk) : f[i] = Dmesg(f[i - 1], pk[i])
  BY <1>1
<1> QED BY <1>2 DEF f, none

LEMMA TextExist ==
  ASSUME NEW pk, NEW n \in Nat
  PROVE  \E f : f = [i \in 0..n |-> IF i = 0 THEN <<>> ELSE f[i - 1] \o pk[i]]
<1> DEFINE Is(f, k) == f = [i \in 0..k |-> IF i = 0 THEN <<>> ELSE f[i - 1] \o pk[i]]
           Have == {k \in 0..n : \E f : Is(f, k)}
<1>1. 0 \in Have
  <2>1. Is([i \in 0..0 |-> <<>>], 0)
    <3>1. \A i \in 0..0 : i = 0
      OBVIOUS
    <3> QED BY <3>1, Zenon
  <2> HIDE DEF Is
  <2> QED BY <2>1
<1>2. ASSUME NEW k \in 0..n - 1, k \in Have PROVE k + 1 \in Have
  <2>1. PICK g : Is(g, k)
    BY <1>2
  <2> DEFINE h == [i \in 0..k + 1 |-> IF i <= k THEN g[i] ELSE g[k] \o pk[k + 1]]
  <2>2. Is(h, k + 1)
    <3>1. \A i \in 0..k + 1 : h[i] = IF i = 0 THEN <<>> ELSE h[i - 1] \o pk[i]
      <4> SUFFICES ASSUME NEW i \in 0..k + 1
                   PROVE  h[i] = IF i = 0 THEN <<>> ELSE h[i - 1] \o pk[i]
        OBVIOUS
      <4>1. CASE i = 0
        BY <2>1, <4>1
      <4>2. CASE i \in 1..k
        <5>1. h[i] = g[i] /\ h[i - 1] = g[i - 1] /\ i \in 0..k /\ i # 0
          BY <4>2
        <5> QED BY <2>1, <5>1
      <4>3. CASE i = k + 1
        <5>1. h[k + 1] = g[k] \o pk[k + 1] /\ h[k] = g[k] /\ i - 1 = k /\ i # 0
          BY <4>3
        <5> HIDE DEF h
        <5> QED BY <4>3, <5>1
      <4> QED BY <4>1, <4>2, <4>3
    <3>2. h = [i \in 0..k + 1 |-> h[i]]
      OBVIOUS
    <3> HIDE DEF h
    <3> QED BY <3>1, <3>2, Zenon
  <2>3. k + 1 \in 0..n
    OBVIOUS
  <2> HIDE DEF Is, h
  <2> QED BY <2>2, <2>3
<1>3. n \in Have
  <2> HIDE DEF Have
  <2> QED BY <1>1, <1>2, Induction
<1> QED BY <1>3

LEMMA TextValue ==
  ASSUME NEW pk, Len(pk) \in Nat
  PROVE  /\ Text(pk)[0] = <<>>
         /\ \A i \in 1..Len(pk) : Text(pk)[i] = Text(pk)[i - 1] \o pk[i]
<1> DEFINE f == Text(pk)
<1>1. f = [i \in 0..Len(pk) |-> IF i = 0 THEN <<>> ELSE f[i - 1] \o pk[i]]
  BY TextExist DEF Text
<1> HIDE DEF f
<1>2. f[0] = <<>> /\ \A i \in 1..Len(pk) : f[i] = f[i - 1] \o pk[i]
  BY <1>1
<1> QED BY <1>2 DEF f
-----------------------------------------------------------------------------
(* One more byte of a text. *)

\* What Append does, and to the parts of a sequence.
LEMMA AppendFacts ==
  ASSUME NEW S, NEW t \in Seq(S), NEW b \in S
  PROVE  /\ Append(t, b) \in Seq(S) /\ Len(t) \in Nat /\ Len(Append(t, b)) = Len(t) + 1
         /\ \A i \in 1..Len(t) : Append(t, b)[i] = t[i]
         /\ Append(t, b)[Len(t) + 1] = b
         /\ \A i \in 1..Len(t) : t[i] \in S
  OBVIOUS

LEMMA SubSeqAppend ==
  ASSUME NEW t \in Seq(Bytes), NEW b \in Bytes, NEW i \in 1..Len(t), NEW j \in 1..Len(t)
  PROVE  SubSeq(Append(t, b), i, j) = SubSeq(t, i, j)
<1>1. t \o <<b>> = Append(t, b) /\ <<b>> \in Seq(Bytes)
  OBVIOUS
<1> QED BY <1>1, SubSeqOfConcat1

\* What no end of line follows makes no line.
LEMMA StretchesSame ==
  ASSUME NEW t \in Seq(Bytes), NEW b \in Bytes,
         b = NL => Len(t) = 0 \/ t[Len(t)] = NL
  PROVE  Stretches(Append(t, b)) = Stretches(t)
<1> DEFINE u == Append(t, b)
           n == Len(t)
<1>1. /\ n \in Nat /\ Len(u) = n + 1 /\ u[n + 1] = b
      /\ \A i \in 1..n : u[i] = t[i]
  BY AppendFacts
<1>2. ASSUME NEW e \in (1..n) \X (1..n) PROVE e \in Stretches(u) <=> e \in Stretches(t)
  <2>1. e[1] \in 1..n /\ e[2] \in 1..n
    OBVIOUS
  <2>2. CASE e[1] <= e[2] /\ e[2] < n
    <3>1. /\ e[2] + 1 \in 1..n
          /\ e[1] = 1 \/ e[1] - 1 \in 1..n
          /\ \A k \in e[1]..e[2] : k \in 1..n
      BY <2>1, <2>2, <1>1
    <3>2. /\ u[e[2] + 1] = t[e[2] + 1]
          /\ e[1] # 1 => u[e[1] - 1] = t[e[1] - 1]
          /\ \A k \in e[1]..e[2] : u[k] = t[k]
      BY <3>1, <1>1
    <3>3. /\ e \in (1..Len(u)) \X (1..Len(u)) /\ e[2] < Len(u)
      BY <1>1, <2>1, <2>2
    <3> HIDE DEF u
    <3> QED BY <3>2, <3>3, <2>2 DEF Stretches
  <2>3. CASE e[2] = n
    <3>1. e \notin Stretches(t)
      BY <2>3, <1>1 DEF Stretches
    <3>2. ASSUME e \in Stretches(u) PROVE FALSE
      <4>1. u[n + 1] = NL /\ (\A k \in e[1]..e[2] : u[k] # NL) /\ e[1] <= e[2]
        BY <3>2, <2>3 DEF Stretches
      <4>2. n \in e[1]..e[2] /\ n \in 1..n
        BY <4>1, <2>1, <2>3, <1>1
      <4>3. t[n] # NL /\ n # 0
        BY <4>1, <4>2, <1>1
      <4> QED BY <4>1, <4>3, <1>1
    <3> QED BY <3>1, <3>2
  <2>4. CASE ~(e[1] <= e[2])
    BY <2>4 DEF Stretches
  <2>5. e[2] < n \/ e[2] = n
    BY <2>1, <1>1
  <2> QED BY <2>2, <2>3, <2>4, <2>5
<1>3. ASSUME NEW e \in Stretches(u) PROVE e \in (1..n) \X (1..n)
  <2>1. /\ e \in (1..n + 1) \X (1..n + 1) /\ e[1] <= e[2] /\ e[2] < n + 1
    BY <1>1 DEF Stretches
  <2>2. e[1] \in 1..n /\ e[2] \in 1..n /\ e = <<e[1], e[2]>>
    BY <2>1, <1>1
  <2> QED BY <2>2
<1>4. Stretches(t) \subseteq (1..n) \X (1..n)
  BY DEF Stretches
<1> HIDE DEF u, n
<1>5. Stretches(u) = Stretches(t)
  BY <1>2, <1>3, <1>4
<1> QED BY <1>5 DEF u

\* An end of line makes one of the rest.
LEMMA StretchesNew ==
  ASSUME NEW t \in Seq(Bytes), NEW m \in 0..Len(t) - 1, NL \in Bytes,
         \A i \in m + 1..Len(t) : t[i] # NL,
         m = 0 \/ t[m] = NL
  PROVE  Stretches(Append(t, NL)) = Stretches(t) \cup {<<m + 1, Len(t)>>}
<1> DEFINE u == Append(t, NL)
           n == Len(t)
<1>1. /\ n \in Nat /\ Len(u) = n + 1 /\ u[n + 1] = NL
      /\ \A i \in 1..n : u[i] = t[i]
      /\ m \in Nat /\ m < n
  BY AppendFacts
<1>2. <<m + 1, n>> \in Stretches(u)
  <2>1. <<m + 1, n>> \in (1..Len(u)) \X (1..Len(u)) /\ m + 1 <= n /\ n < Len(u)
    BY <1>1
  <2>2. \A k \in m + 1..n : u[k] # NL
    <3>1. \A k \in m + 1..n : k \in 1..n
      BY <1>1
    <3> QED BY <3>1, <1>1
  <2>3. m + 1 = 1 \/ u[(m + 1) - 1] = NL
    <3>1. m = 0 \/ m \in 1..n
      BY <1>1
    <3>2. (m + 1) - 1 = m
      BY <1>1
    <3> QED BY <3>1, <3>2, <1>1
  <2> HIDE DEF u, n
  <2> QED BY <2>1, <2>2, <2>3, <1>1 DEF Stretches
<1>3. ASSUME NEW e \in (1..n) \X (1..n), e[2] # n
      PROVE  e \in Stretches(u) <=> e \in Stretches(t)
  <2>1. e[1] \in 1..n /\ e[2] \in 1..n
    OBVIOUS
  <2>2. CASE e[1] <= e[2]
    <3>1. /\ e[2] + 1 \in 1..n /\ e[2] < n
          /\ e[1] = 1 \/ e[1] - 1 \in 1..n
          /\ \A k \in e[1]..e[2] : k \in 1..n
      BY <2>1, <2>2, <1>1, <1>3
    <3>2. /\ u[e[2] + 1] = t[e[2] + 1]
          /\ e[1] # 1 => u[e[1] - 1] = t[e[1] - 1]
          /\ \A k \in e[1]..e[2] : u[k] = t[k]
      BY <3>1, <1>1
    <3>3. /\ e \in (1..Len(u)) \X (1..Len(u)) /\ e[2] < Len(u)
      BY <1>1, <2>1, <3>1
    <3> HIDE DEF u
    <3> QED BY <3>1, <3>2, <3>3, <2>2 DEF Stretches
  <2>3. CASE ~(e[1] <= e[2])
    BY <2>3 DEF Stretches
  <2> QED BY <2>2, <2>3
<1>4. ASSUME NEW e \in Stretches(u), e[2] = n PROVE e = <<m + 1, n>>
  <2>1. /\ e \in (1..n + 1) \X (1..n + 1) /\ e[1] <= n
        /\ \A k \in e[1]..n : u[k] # NL
        /\ e[1] = 1 \/ u[e[1] - 1] = NL
    BY <1>1, <1>4 DEF Stretches
  <2>2. ~(e[1] <= m)
    <3> SUFFICES ASSUME e[1] <= m PROVE FALSE
      OBVIOUS
    <3>1. m \in e[1]..n /\ m \in 1..n /\ m # 0
      BY <2>1, <1>1
    <3>2. u[m] # NL /\ u[m] = t[m]
      BY <3>1, <2>1, <1>1
    <3> QED BY <3>1, <3>2
  <2>3. ~(e[1] > m + 1)
    <3> SUFFICES ASSUME e[1] > m + 1 PROVE FALSE
      OBVIOUS
    <3>1. e[1] # 1 /\ e[1] - 1 \in m + 1..n /\ e[1] - 1 \in 1..n
      BY <2>1, <1>1
    <3>2. u[e[1] - 1] = NL /\ u[e[1] - 1] = t[e[1] - 1]
      BY <3>1, <2>1, <1>1
    <3> QED BY <3>1, <3>2
  <2>4. e[1] = m + 1 /\ e = <<e[1], e[2]>>
    BY <2>1, <2>2, <2>3, <1>1
  <2> QED BY <2>4, <1>4
<1>5. ASSUME NEW e \in Stretches(u) PROVE e \in (1..n) \X (1..n)
  <2>1. /\ e \in (1..n + 1) \X (1..n + 1) /\ e[1] <= e[2] /\ e[2] < n + 1
    BY <1>1 DEF Stretches
  <2>2. e[1] \in 1..n /\ e[2] \in 1..n /\ e = <<e[1], e[2]>>
    BY <2>1, <1>1
  <2> QED BY <2>2
<1>6. ASSUME NEW e \in Stretches(t) PROVE e \in (1..n) \X (1..n) /\ e[2] # n
  BY <1>1 DEF Stretches
<1> HIDE DEF u, n
<1>7. Stretches(u) = Stretches(t) \cup {<<m + 1, n>>}
  BY <1>2, <1>3, <1>4, <1>5, <1>6
<1> QED BY <1>7 DEF u, n
LEMMA StretchIn ==
  ASSUME NEW t, NEW e \in Stretches(t)
  PROVE  e[1] \in 1..Len(t) /\ e[2] \in 1..Len(t) /\ e[2] < Len(t) /\ t[e[2] + 1] = NL
  BY DEF Stretches

LEMMA LinesSame ==
  ASSUME NEW t \in Seq(Bytes), NEW b \in Bytes, NEW ls \in Seq(Seq(Bytes)),
         AreLinesOf(ls, t), Stretches(Append(t, b)) = Stretches(t)
  PROVE  AreLinesOf(ls, Append(t, b))
<1> DEFINE u == Append(t, b)
<1>1. PICK at \in [1..Len(ls) -> Stretches(t)] :
        /\ \A e \in Stretches(t) : \E i \in 1..Len(ls) : at[i] = e
        /\ \A i, j \in 1..Len(ls) : i < j => at[i][2] < at[j][1]
        /\ \A i \in 1..Len(ls) : ls[i] = SubSeq(t, at[i][1], at[i][2])
  BY DEF AreLinesOf
<1>2. ASSUME NEW i \in 1..Len(ls) PROVE SubSeq(u, at[i][1], at[i][2]) = SubSeq(t, at[i][1], at[i][2])
  <2>1. at[i] \in Stretches(t)
    BY <1>1
  <2>2. at[i][1] \in 1..Len(t) /\ at[i][2] \in 1..Len(t)
    BY <2>1, StretchIn
  <2> QED BY <2>2, SubSeqAppend
<1>3. Stretches(u) = Stretches(t)
  OBVIOUS
<1> HIDE DEF u
<1>4. /\ at \in [1..Len(ls) -> Stretches(u)]
      /\ \A e \in Stretches(u) : \E i \in 1..Len(ls) : at[i] = e
      /\ \A i \in 1..Len(ls) : ls[i] = SubSeq(u, at[i][1], at[i][2])
  BY <1>1, <1>2, <1>3
<1>5. AreLinesOf(ls, u)
  BY <1>1, <1>4, Zenon DEF AreLinesOf
<1> QED BY <1>5 DEF u

LEMMA LinesMore ==
  ASSUME NEW t \in Seq(Bytes), NEW m \in 0..Len(t) - 1, NL \in Bytes,
         NEW ls \in Seq(Seq(Bytes)), AreLinesOf(ls, t),
         \A i \in m + 1..Len(t) : t[i] # NL,
         m = 0 \/ t[m] = NL,
         NEW rest \in Seq(Bytes), rest = SubSeq(t, m + 1, Len(t))
  PROVE  AreLinesOf(Append(ls, rest), Append(t, NL))
<1> DEFINE u == Append(t, NL)
           new == Append(ls, rest)
           k == Len(ls)
           last == <<m + 1, Len(t)>>
<1>1. PICK at \in [1..k -> Stretches(t)] :
        /\ \A e \in Stretches(t) : \E i \in 1..k : at[i] = e
        /\ \A i, j \in 1..k : i < j => at[i][2] < at[j][1]
        /\ \A i \in 1..k : ls[i] = SubSeq(t, at[i][1], at[i][2])
  BY DEF AreLinesOf
<1>2. /\ k \in Nat /\ Len(new) = k + 1
      /\ \A i \in 1..k : new[i] = ls[i]
      /\ new[k + 1] = rest
  BY AppendFacts
<1>3. Stretches(u) = Stretches(t) \cup {last}
  BY StretchesNew
<1>4. \A i \in 1..k : SubSeq(u, at[i][1], at[i][2]) = SubSeq(t, at[i][1], at[i][2])
  <2> SUFFICES ASSUME NEW i \in 1..k
               PROVE  SubSeq(u, at[i][1], at[i][2]) = SubSeq(t, at[i][1], at[i][2])
    OBVIOUS
  <2>1. at[i] \in Stretches(t)
    BY <1>1
  <2>2. at[i][1] \in 1..Len(t) /\ at[i][2] \in 1..Len(t)
    BY <2>1, StretchIn
  <2> QED BY <2>2, SubSeqAppend
<1>5. rest = SubSeq(u, last[1], last[2])
  <2>1. Len(t) \in Nat /\ m + 1 \in 1..Len(t) /\ Len(t) \in 1..Len(t)
    BY AppendFacts
  <2>2. SubSeq(u, m + 1, Len(t)) = SubSeq(t, m + 1, Len(t))
    BY <2>1, SubSeqAppend
  <2> QED BY <2>2
<1>6. \A i \in 1..k : at[i][2] < last[1]
  <2> SUFFICES ASSUME NEW i \in 1..k PROVE at[i][2] < m + 1
    OBVIOUS
  <2>1. at[i] \in Stretches(t)
    BY <1>1
  <2>2. at[i][2] \in 1..Len(t) /\ at[i][2] < Len(t) /\ t[at[i][2] + 1] = NL
    BY <2>1, StretchIn
  <2>3. at[i][2] + 1 \notin m + 1..Len(t)
    BY <2>2
  <2> QED BY <2>2, <2>3, AppendFacts
<1> DEFINE more == [i \in 1..k + 1 |-> IF i <= k THEN at[i] ELSE last]
<1>7. /\ \A i \in 1..k : i \in 1..k + 1 /\ more[i] = at[i]
      /\ k + 1 \in 1..k + 1 /\ more[k + 1] = last
      /\ \A i \in 1..k + 1 : i \in 1..k \/ i = k + 1
  BY <1>2
<1> HIDE DEF u, new, last, more, k
<1>8. more \in [1..k + 1 -> Stretches(u)]
  <2>1. \A i \in 1..k + 1 : more[i] \in Stretches(u)
    BY <1>1, <1>3, <1>7
  <2> QED BY <2>1 DEF more
<1>9. \A e \in Stretches(u) : \E i \in 1..k + 1 : more[i] = e
  BY <1>1, <1>3, <1>7, Zenon
<1>10. \A i, j \in 1..k + 1 : i < j => more[i][2] < more[j][1]
  <2> SUFFICES ASSUME NEW i \in 1..k + 1, NEW j \in 1..k + 1, i < j
               PROVE  more[i][2] < more[j][1]
    OBVIOUS
  <2>1. i \in 1..k
    BY <1>2
  <2>2. CASE j \in 1..k
    BY <2>1, <2>2, <1>1, <1>7
  <2>3. CASE j = k + 1
    BY <2>1, <2>3, <1>6, <1>7
  <2> QED BY <2>2, <2>3, <1>7
<1>11. \A i \in 1..k + 1 : new[i] = SubSeq(u, more[i][1], more[i][2])
  <2>1. ASSUME NEW i \in 1..k PROVE new[i] = SubSeq(u, more[i][1], more[i][2])
    <3>1. new[i] = SubSeq(t, at[i][1], at[i][2]) /\ more[i] = at[i]
      BY <1>1, <1>2, <1>7
    <3> QED BY <3>1, <1>4, Zenon
  <2>2. new[k + 1] = SubSeq(u, more[k + 1][1], more[k + 1][2])
    BY <1>2, <1>5, <1>7, Zenon
  <2> QED BY <2>1, <2>2, <1>7, Zenon
<1>12. AreLinesOf(new, u)
  <2>1. /\ more \in [1..Len(new) -> Stretches(u)]
        /\ \A e \in Stretches(u) : \E i \in 1..Len(new) : more[i] = e
        /\ \A i, j \in 1..Len(new) : i < j => more[i][2] < more[j][1]
        /\ \A i \in 1..Len(new) : new[i] = SubSeq(u, more[i][1], more[i][2])
    BY <1>2, <1>8, <1>9, <1>10, <1>11
  <2> QED BY <2>1, Zenon DEF AreLinesOf
<1> QED BY <1>12 DEF new, u

\* What the rest is, by where it begins.
LEMMA RestBegins ==
  ASSUME NEW t \in Seq(Bytes), NEW rest \in Seq(Bytes)
  PROVE  IsRestOf(rest, t) <=>
           \E m \in 0..Len(t) :
             /\ Len(rest) = Len(t) - m
             /\ \A i \in 1..Len(rest) : rest[i] = t[m + i]
             /\ \A i \in m + 1..Len(t) : t[i] # NL
             /\ m = 0 \/ t[m] = NL
<1>1. Len(t) \in Nat /\ Len(rest) \in Nat /\ \A i \in 1..Len(t) : t[i] \in Bytes
  BY AppendFacts
<1>2. ASSUME NEW m \in 0..Len(t), Len(rest) = Len(t) - m
      PROVE  /\ rest = SubSeq(t, m + 1, Len(t)) <=> \A i \in 1..Len(rest) : rest[i] = t[m + i]
             /\ (\A i \in 1..Len(rest) : rest[i] = t[m + i]) =>
                  ((\A i \in 1..Len(rest) : rest[i] # NL) <=> \A i \in m + 1..Len(t) : t[i] # NL)
  <2> DEFINE part == SubSeq(t, m + 1, Len(t))
  <2>1. /\ m + 1 \in Int /\ Len(t) \in Int
        /\ \A i \in m + 1..Len(t) : t[i] \in Bytes
    BY <1>1
  <2>2. /\ part \in Seq(Bytes)
        /\ Len(part) = IF m + 1 <= Len(t) THEN Len(t) - (m + 1) + 1 ELSE 0
        /\ \A i \in 1..Len(t) - (m + 1) + 1 : part[i] = t[(m + 1) + i - 1]
    BY <2>1, SubSeqProperties
  <2>3. /\ Len(part) = Len(rest)
        /\ Len(t) - (m + 1) + 1 = Len(rest)
        /\ \A i \in 1..Len(rest) : (m + 1) + i - 1 = m + i
    BY <2>2, <1>1, <1>2
  <2>4. \A i \in 1..Len(rest) : part[i] = t[m + i]
    BY <2>2, <2>3
  <2> HIDE DEF part
  <2>5. part = rest <=> \A i \in 1..Len(rest) : rest[i] = t[m + i]
    <3>1. ASSUME part = rest PROVE \A i \in 1..Len(rest) : rest[i] = t[m + i]
      BY <2>4, <3>1
    <3>2. ASSUME \A i \in 1..Len(rest) : rest[i] = t[m + i] PROVE part = rest
      <4>1. part \in Seq(Bytes) /\ Len(part) = Len(rest)
            /\ \A i \in 1..Len(part) : part[i] = rest[i]
        BY <2>2, <2>3, <2>4, <3>2
      <4> QED BY <4>1, SeqEqual, Zenon
    <3> QED BY <3>1, <3>2
  <2>6. \A i \in m + 1..Len(t) : i - m \in 1..Len(rest) /\ m + (i - m) = i
    BY <1>1, <1>2
  <2>7. \A i \in 1..Len(rest) : m + i \in m + 1..Len(t)
    BY <1>1, <1>2
  <2>8. (\A i \in 1..Len(rest) : rest[i] = t[m + i]) =>
          ((\A i \in 1..Len(rest) : rest[i] # NL) <=> \A i \in m + 1..Len(t) : t[i] # NL)
    BY <2>6, <2>7
  <2> QED BY <2>5, <2>8 DEF part
<1>3. ASSUME IsRestOf(rest, t)
      PROVE  \E m \in 0..Len(t) :
               /\ Len(rest) = Len(t) - m
               /\ \A i \in 1..Len(rest) : rest[i] = t[m + i]
               /\ \A i \in m + 1..Len(t) : t[i] # NL
               /\ m = 0 \/ t[m] = NL
  <2>1. /\ Len(rest) <= Len(t) /\ rest = SubSeq(t, (Len(t) - Len(rest)) + 1, Len(t))
        /\ \A i \in 1..Len(rest) : rest[i] # NL
        /\ Len(t) - Len(rest) = 0 \/ t[Len(t) - Len(rest)] = NL
    BY <1>3 DEF IsRestOf
  <2>2. Len(t) - Len(rest) \in 0..Len(t) /\ Len(rest) = Len(t) - (Len(t) - Len(rest))
    BY <1>1, <2>1
  <2> QED BY <1>2, <2>1, <2>2
<1>4. ASSUME NEW m \in 0..Len(t),
             /\ Len(rest) = Len(t) - m
             /\ \A i \in 1..Len(rest) : rest[i] = t[m + i]
             /\ \A i \in m + 1..Len(t) : t[i] # NL
             /\ m = 0 \/ t[m] = NL
      PROVE  IsRestOf(rest, t)
  <2>1. Len(t) - Len(rest) = m /\ Len(rest) <= Len(t)
    BY <1>1, <1>4
  <2>2. rest = SubSeq(t, m + 1, Len(t)) /\ \A i \in 1..Len(rest) : rest[i] # NL
    BY <1>2, <1>4
  <2> QED BY <1>4, <2>1, <2>2 DEF IsRestOf
<1> QED BY <1>3, <1>4
\* The lines and the rest are those of the text.
Keeps(ls, rest, t) ==
  /\ ls \in Seq(Seq(Bytes)) /\ rest \in Seq(Bytes) /\ t \in Seq(Bytes)
  /\ AreLinesOf(ls, t) /\ IsRestOf(rest, t)

\* The three cases of NextByte.
LEMMA ByteKeeps ==
  ASSUME NEW ls, NEW rest, NEW t, Keeps(ls, rest, t), NEW b \in Bytes
  PROVE  Keeps(IF b = NL /\ rest # <<>> THEN Append(ls, rest) ELSE ls,
               IF b = NL THEN <<>> ELSE Append(rest, b), Append(t, b))
<1>1. /\ ls \in Seq(Seq(Bytes)) /\ rest \in Seq(Bytes) /\ t \in Seq(Bytes)
      /\ AreLinesOf(ls, t) /\ IsRestOf(rest, t)
  BY DEF Keeps
<1>2. PICK m \in 0..Len(t) :
        /\ Len(rest) = Len(t) - m
        /\ \A i \in 1..Len(rest) : rest[i] = t[m + i]
        /\ \A i \in m + 1..Len(t) : t[i] # NL
        /\ m = 0 \/ t[m] = NL
  BY <1>1, RestBegins
<1> DEFINE u == Append(t, b)
<1>3. /\ Len(t) \in Nat /\ u \in Seq(Bytes) /\ Len(u) = Len(t) + 1 /\ u[Len(t) + 1] = b
      /\ \A i \in 1..Len(t) : u[i] = t[i]
  BY <1>1, AppendFacts
<1>4. CASE b # NL
  <2> DEFINE more == Append(rest, b)
  <2>1. /\ Len(rest) \in Nat /\ more \in Seq(Bytes) /\ Len(more) = Len(rest) + 1
        /\ more[Len(rest) + 1] = b
        /\ \A i \in 1..Len(rest) : more[i] = rest[i]
    BY <1>1, AppendFacts
  <2>2. AreLinesOf(ls, u)
    BY <1>1, <1>4, StretchesSame, LinesSame
  <2> HIDE DEF u, more
  <2>3. IsRestOf(more, u)
    <3>1. m \in 0..Len(u) /\ Len(more) = Len(u) - m
      BY <1>2, <1>3, <2>1
    <3>2. \A i \in 1..Len(more) : more[i] = u[m + i]
      <4> SUFFICES ASSUME NEW i \in 1..Len(more) PROVE more[i] = u[m + i]
        OBVIOUS
      <4>1. CASE i \in 1..Len(rest)
        <5>1. m + i \in 1..Len(t)
          BY <1>2, <1>3, <4>1
        <5> QED BY <1>2, <1>3, <2>1, <4>1, <5>1
      <4>2. CASE i = Len(rest) + 1
        <5>1. m + i = Len(t) + 1
          BY <1>2, <1>3, <2>1, <4>2
        <5> QED BY <1>3, <2>1, <4>2, <5>1
      <4> QED BY <4>1, <4>2, <2>1
    <3>3. \A i \in m + 1..Len(u) : u[i] # NL
      <4>1. \A i \in m + 1..Len(u) : (i \in m + 1..Len(t) /\ i \in 1..Len(t)) \/ i = Len(t) + 1
        BY <1>3
      <4> QED BY <4>1, <1>2, <1>3, <1>4
    <3>4. m = 0 \/ u[m] = NL
      <4>1. m = 0 \/ m \in 1..Len(t)
        BY <1>3
      <4> QED BY <4>1, <1>2, <1>3
    <3> QED BY <1>3, <2>1, <3>1, <3>2, <3>3, <3>4, RestBegins
  <2> QED BY <1>1, <1>3, <1>4, <2>1, <2>2, <2>3 DEF Keeps, u, more
<1>5. CASE b = NL
  <2>1. IsRestOf(<<>>, u)
    <3>1. <<>> \in Seq(Bytes) /\ Len(<<>>) = 0
      OBVIOUS
    <3> HIDE DEF u
    <3>2. /\ Len(u) \in 0..Len(u) /\ 0 = Len(u) - Len(u)
          /\ \A i \in 1..0 : <<>>[i] = u[Len(u) + i]
          /\ \A i \in Len(u) + 1..Len(u) : u[i] # NL
          /\ u[Len(u)] = NL
      BY <1>3, <1>5
    <3> QED BY <3>1, <3>2, <1>3, RestBegins
  <2>2. CASE rest = <<>>
    <3>1. m = Len(t)
      BY <1>2, <1>3, <2>2
    <3>2. Len(t) = 0 \/ t[Len(t)] = NL
      BY <1>2, <3>1
    <3>3. AreLinesOf(ls, u)
      BY <1>1, <3>2, StretchesSame, LinesSame
    <3> HIDE DEF u
    <3> QED BY <1>1, <1>3, <1>5, <2>1, <2>2, <3>3 DEF Keeps, u
  <2>3. CASE rest # <<>>
    <3>1. m \in 0..Len(t) - 1
      <4>1. Len(rest) # 0 /\ Len(rest) \in Nat
        <5>1. rest \in Seq(Bytes) /\ rest # <<>>
          BY <1>1, <2>3
        <5>2. Len(rest) \in Nat \ {0}
          BY <5>1, EmptySeq, Zenon
        <5> QED BY <5>2
      <4>2. \A n, l \in Nat : \A k \in 0..n : l # 0 /\ l = n - k => k \in 0..n - 1
        OBVIOUS
      <4>3. Len(t) \in Nat /\ m \in 0..Len(t) /\ Len(rest) = Len(t) - m
        BY <1>2, <1>3
      <4> QED BY <4>1, <4>2, <4>3, Zenon
    <3>2. rest = SubSeq(t, m + 1, Len(t))
      <4>1. Len(t) - Len(rest) = m
        BY <1>2, <1>3
      <4> QED BY <1>1, <4>1 DEF IsRestOf
    <3>3. AreLinesOf(Append(ls, rest), u)
      BY <1>1, <1>2, <1>5, <3>1, <3>2, LinesMore
    <3>4. Append(ls, rest) \in Seq(Seq(Bytes)) /\ <<>> \in Seq(Bytes)
      BY <1>1
    <3> HIDE DEF u
    <3> QED BY <1>3, <1>5, <2>1, <2>3, <3>3, <3>4 DEF Keeps, u
  <2> QED BY <2>2, <2>3
<1> QED BY <1>4, <1>5

-----------------------------------------------------------------------------
(* One more packet. *)

\* The rest is taken up again: it has no end of line.
LEMMA RestAgain ==
  ASSUME NEW rest \in Seq(Bytes), NEW p \in Seq(Bytes),
         \A i \in 1..Len(rest) : rest[i] # NL
  PROVE  Turns(Nothing, rest \o p)[Len(rest)] = [buf |-> rest, lines |-> <<>>]
<1> DEFINE turns == Turns(Nothing, rest \o p)
           S == {k \in 0..Len(rest) : turns[k] = [buf |-> SubSeq(rest, 1, k), lines |-> <<>>]}
<1>1. /\ rest \o p \in Seq(Bytes) /\ Len(rest \o p) = Len(rest) + Len(p)
      /\ Len(rest) \in Nat /\ Len(p) \in Nat
      /\ \A i \in 1..Len(rest) : (rest \o p)[i] = rest[i]
  BY ConcatProperties, LenProperties
<1>2. /\ turns[0] = Nothing
      /\ \A i \in 1..Len(rest) + Len(p) : turns[i] = NextByte(turns[i - 1], (rest \o p)[i])
  <2> DEFINE all == rest \o p
  <2>1. Len(all) \in Nat /\ Len(all) = Len(rest) + Len(p)
    BY <1>1
  <2> HIDE DEF all
  <2>2. /\ Turns(Nothing, all)[0] = Nothing
        /\ \A i \in 1..Len(all) :
             Turns(Nothing, all)[i] = NextByte(Turns(Nothing, all)[i - 1], all[i])
    BY <2>1, TurnsValue
  <2> QED BY <2>1, <2>2 DEF all
<1> HIDE DEF turns
<1>3. 0 \in S
  <2>1. SubSeq(rest, 1, 0) = <<>>
    BY SubSeqEmpty
  <2> QED BY <1>1, <1>2, <2>1 DEF Nothing
<1>4. ASSUME NEW k \in 0..Len(rest) - 1, k \in S PROVE k + 1 \in S
  <2>1. /\ k + 1 \in 1..Len(rest) /\ k + 1 \in 1..Len(rest) + Len(p) /\ (k + 1) - 1 = k
        /\ k + 1 \in 0..Len(rest) /\ 1 \in 1..Len(rest) /\ k + 1 \in 1..Len(rest)
    BY <1>1
  <2>2. turns[k + 1] = NextByte([buf |-> SubSeq(rest, 1, k), lines |-> <<>>], rest[k + 1])
    BY <1>1, <1>2, <1>4, <2>1
  <2>3. turns[k + 1] = [buf |-> Append(SubSeq(rest, 1, k), rest[k + 1]), lines |-> <<>>]
    BY <2>1, <2>2 DEF NextByte
  <2>4. SubSeq(rest, 1, k + 1) = SubSeq(rest, 1, (k + 1) - 1) \o <<rest[k + 1]>>
    BY <2>1, SubSeqRecursiveSecond
  <2>5. SubSeq(rest, 1, k) \in Seq(Bytes) /\ rest[k + 1] \in Bytes
    <3>1. \A i \in 1..k : rest[i] \in Bytes
      BY <1>1
    <3>2. 1 \in Int /\ k \in Int
      BY <1>1
    <3> QED BY <2>1, <3>1, <3>2, SubSeqProperties
  <2>6. Append(SubSeq(rest, 1, k), rest[k + 1]) = SubSeq(rest, 1, k) \o <<rest[k + 1]>>
    <3> DEFINE q == SubSeq(rest, 1, k)
    <3>1. q \in Seq(Bytes)
      BY <2>5
    <3> HIDE DEF q
    <3>2. Append(q, rest[k + 1]) = q \o <<rest[k + 1]>>
      BY <3>1, <2>5
    <3> QED BY <3>2 DEF q
  <2> QED BY <2>1, <2>3, <2>4, <2>6
<1>5. Len(rest) \in S
  <2> HIDE DEF S
  <2>1. Len(rest) \in 0..Len(rest)
    BY <1>1
  <2> QED BY <1>1, <1>3, <1>4, <2>1, Induction
<1>6. SubSeq(rest, 1, Len(rest)) = rest
  BY SubSeqFull
<1> QED BY <1>5, <1>6 DEF turns

LEMMA PrefixGrows ==
  ASSUME NEW t \in Seq(Bytes), NEW p \in Seq(Bytes), NEW i \in 1..Len(p)
  PROVE  /\ p[i] \in Bytes
         /\ t \o SubSeq(p, 1, i) = Append(t \o SubSeq(p, 1, i - 1), p[i])
<1> DEFINE q == SubSeq(p, 1, i - 1)
<1>1. Len(p) \in Nat /\ 1 \in 1..Len(p) /\ i \in 1..Len(p) /\ 1 \in Int /\ i - 1 \in Int
  OBVIOUS
<1>2. SubSeq(p, 1, i) = q \o <<p[i]>>
  BY <1>1, SubSeqRecursiveSecond
<1>3. \A j \in 1..Len(p) : p[j] \in Bytes
  OBVIOUS
<1>4. q \in Seq(Bytes)
  <2>1. \A j \in 1..i - 1 : p[j] \in Bytes
    BY <1>1, <1>3
  <2> QED BY <1>1, <2>1, SubSeqProperties
<1> HIDE DEF q
<1>5. <<p[i]>> \in Seq(Bytes) /\ t \o q \in Seq(Bytes)
  BY <1>3, <1>4
<1>6. t \o (q \o <<p[i]>>) = (t \o q) \o <<p[i]>>
  BY <1>4, <1>5, ConcatAssociative
<1>7. Append(t \o q, p[i]) = (t \o q) \o <<p[i]>>
  <2> DEFINE v == t \o q
  <2>1. v \in Seq(Bytes)
    BY <1>5
  <2> HIDE DEF v
  <2>2. Append(v, p[i]) = v \o <<p[i]>>
    BY <2>1, <1>3
  <2> QED BY <2>2 DEF v
<1> QED BY <1>2, <1>3, <1>6, <1>7 DEF q

\* One packet more: what is known of the text so far, of that text and the packet.
LEMMA PacketKeeps ==
  ASSUME NEW ls, NEW rest, NEW t, Keeps(ls, rest, t), NEW p \in Seq(Bytes)
  PROVE  LET split == splitLines(rest, p) IN Keeps(ls \o split.lines, split.buf, t \o p)
<1>1. /\ ls \in Seq(Seq(Bytes)) /\ rest \in Seq(Bytes) /\ t \in Seq(Bytes)
      /\ \A i \in 1..Len(rest) : rest[i] # NL
  BY DEF Keeps, IsRestOf
<1> DEFINE all == rest \o p
           turns == Turns(Nothing, all)
           n == Len(rest)
           Good(s, v) == /\ s = [buf |-> s.buf, lines |-> s.lines]
                         /\ s.lines \in Seq(Seq(Bytes))
                         /\ Keeps(ls \o s.lines, s.buf, v)
           S == {i \in 0..Len(p) : Good(turns[n + i], t \o SubSeq(p, 1, i))}
<1>2. /\ all \in Seq(Bytes) /\ Len(all) = n + Len(p)
      /\ n \in Nat /\ Len(p) \in Nat
      /\ \A i \in 1..n + Len(p) : all[i] = IF i <= n THEN rest[i] ELSE p[i - n]
  BY <1>1, ConcatProperties, LenProperties
<1>3. turns[n] = [buf |-> rest, lines |-> <<>>]
  BY <1>1, RestAgain
<1> HIDE DEF all
<1>4. \A i \in 1..n + Len(p) : turns[i] = NextByte(turns[i - 1], all[i])
  <2>1. Len(all) \in Nat
    BY <1>2
  <2>2. \A i \in 1..Len(all) : turns[i] = NextByte(turns[i - 1], all[i])
    BY <2>1, TurnsValue
  <2> HIDE DEF turns
  <2> QED BY <1>2, <2>2
<1> HIDE DEF turns, Good, n
<1>5. 0 \in S
  <2>1. t \o SubSeq(p, 1, 0) = t
    <3>1. SubSeq(p, 1, 0) = <<>>
      BY SubSeqEmpty
    <3> QED BY <1>1, <3>1, ConcatEmptySeq
  <2>2. ls \o <<>> = ls /\ <<>> \in Seq(Seq(Bytes))
    BY <1>1
  <2>3. turns[n + 0] = [buf |-> rest, lines |-> <<>>]
    BY <1>2, <1>3
  <2>4. Good([buf |-> rest, lines |-> <<>>], t)
    BY <2>2 DEF Good
  <2>5. 0 \in 0..Len(p) /\ Good(turns[n + 0], t \o SubSeq(p, 1, 0))
    <3>1. 0 \in 0..Len(p)
      BY <1>2
    <3>2. Good(turns[n + 0], t \o SubSeq(p, 1, 0))
      BY <2>1, <2>3, <2>4, Zenon
    <3> QED BY <3>1, <3>2
  <2> QED BY <2>5, Zenon
<1>6. ASSUME NEW i \in 0..Len(p) - 1, i \in S PROVE i + 1 \in S
  <2> DEFINE s == turns[n + i]
             v == t \o SubSeq(p, 1, i)
             b == p[i + 1]
             next == turns[n + (i + 1)]
  <2>1. Good(s, v)
    BY <1>6
  <2>2. b \in Bytes /\ t \o SubSeq(p, 1, i + 1) = Append(v, b)
    <3>1. i + 1 \in 1..Len(p) /\ (i + 1) - 1 = i
      BY <1>2
    <3> QED BY <1>1, <3>1, PrefixGrows
  <2>3. next = NextByte(s, b)
    <3>1. /\ n + (i + 1) \in 1..n + Len(p) /\ (n + (i + 1)) - 1 = n + i
          /\ ~(n + (i + 1) <= n) /\ (n + (i + 1)) - n = i + 1
      BY <1>2
    <3> QED BY <1>2, <1>4, <3>1
  <2> HIDE DEF s, v, b, next
  <2>4. Good(next, Append(v, b))
    <3>1. /\ s = [buf |-> s.buf, lines |-> s.lines]
          /\ s.lines \in Seq(Seq(Bytes)) /\ s.buf \in Seq(Bytes)
          /\ Keeps(ls \o s.lines, s.buf, v)
      BY <2>1 DEF Good, Keeps
    <3>2. Keeps(IF b = NL /\ s.buf # <<>> THEN Append(ls \o s.lines, s.buf) ELSE ls \o s.lines,
                IF b = NL THEN <<>> ELSE Append(s.buf, b), Append(v, b))
      BY <2>2, <3>1, ByteKeeps
    <3>3. CASE b # NL
      <4>1. next = [buf |-> Append(s.buf, b), lines |-> s.lines]
        BY <2>3, <3>3 DEF NextByte
      <4> QED BY <3>1, <3>2, <3>3, <4>1 DEF Good
    <3>4. CASE b = NL /\ s.buf = <<>>
      <4>1. next = [buf |-> <<>>, lines |-> s.lines]
        BY <2>3, <3>4 DEF NextByte
      <4> QED BY <3>1, <3>2, <3>4, <4>1 DEF Good
    <3>5. CASE b = NL /\ s.buf # <<>>
      <4> DEFINE more == Append(s.lines, s.buf)
      <4>1. next = [buf |-> <<>>, lines |-> more]
        BY <2>3, <3>5 DEF NextByte
      <4>2. more \in Seq(Seq(Bytes)) /\ ls \o more = Append(ls \o s.lines, s.buf)
        <5> DEFINE x == s.lines
                   y == s.buf
        <5>1. x \in Seq(Seq(Bytes)) /\ y \in Seq(Bytes) /\ ls \in Seq(Seq(Bytes))
          BY <1>1, <3>1
        <5> HIDE DEF x, y
        <5>2. Append(x, y) \in Seq(Seq(Bytes)) /\ ls \o Append(x, y) = Append(ls \o x, y)
          BY <5>1
        <5> QED BY <5>2 DEF x, y
      <4> HIDE DEF more
      <4> QED BY <3>2, <3>5, <4>1, <4>2 DEF Good
    <3> QED BY <3>3, <3>4, <3>5
  <2>5. i + 1 \in 0..Len(p)
    BY <1>2
  <2> QED BY <2>2, <2>4, <2>5 DEF next
<1>7. Len(p) \in S
  <2> HIDE DEF S
  <2>1. Len(p) \in 0..Len(p)
    BY <1>2
  <2> QED BY <1>2, <1>5, <1>6, <2>1, Induction
<1>8. SubSeq(p, 1, Len(p)) = p
  BY SubSeqFull
<1>9. Good(turns[Len(all)], t \o p)
  BY <1>2, <1>7, <1>8
<1> QED BY <1>9 DEF Good, turns, all, splitLines, Loop

-----------------------------------------------------------------------------
(* All packets. *)

LEMMA NothingKept == Keeps(<<>>, <<>>, <<>>)
<1>1. <<>> \in Seq(Bytes) /\ <<>> \in Seq(Seq(Bytes)) /\ Len(<<>>) = 0
  OBVIOUS
<1>2. Stretches(<<>>) = {}
  BY DEF Stretches
<1>3. AreLinesOf(<<>>, <<>>)
  <2>1. <<>> \in [1..0 -> Stretches(<<>>)] /\ 1..0 = {}
    BY <1>2
  <2> QED BY <1>1, <1>2, <2>1 DEF AreLinesOf
<1>4. IsRestOf(<<>>, <<>>)
  <2>1. 0 \in 0..0 /\ 0 = 0 - 0 /\ 1..0 = {} /\ 0 + 1..0 = {}
    OBVIOUS
  <2> QED BY <1>1, <2>1, RestBegins
<1> QED BY <1>1, <1>3, <1>4 DEF Keeps

LEMMA AllKept ==
  ASSUME NEW n \in Nat, NEW pk \in [1..n -> Seq(Bytes)]
  PROVE  Keeps(Received(pk)[n].logs, Received(pk)[n].logBuffer, Text(pk)[n])
<1> DEFINE r == Received(pk)
           x == Text(pk)
           S == {i \in 0..n : Keeps(r[i].logs, r[i].logBuffer, x[i])}
<1>1. Len(pk) = n
  OBVIOUS
<1>2. /\ r[0] = [logBuffer |-> <<>>, logs |-> <<>>]
      /\ \A i \in 1..n : r[i] = Dmesg(r[i - 1], pk[i])
      /\ x[0] = <<>>
      /\ \A i \in 1..n : x[i] = x[i - 1] \o pk[i]
  BY <1>1, ReceivedValue, TextValue
<1> HIDE DEF r, x
<1>3. 0 \in S
  BY <1>2, NothingKept
<1>4. ASSUME NEW i \in 0..n - 1, i \in S PROVE i + 1 \in S
  <2>1. i + 1 \in 1..n /\ (i + 1) - 1 = i /\ i + 1 \in 0..n
    OBVIOUS
  <2>2. r[i + 1] = Dmesg(r[i], pk[i + 1]) /\ x[i + 1] = x[i] \o pk[i + 1]
    BY <1>2, <2>1
  <2>3. pk[i + 1] \in Seq(Bytes) /\ Keeps(r[i].logs, r[i].logBuffer, x[i])
    BY <1>4, <2>1
  <2> DEFINE split == splitLines(r[i].logBuffer, pk[i + 1])
  <2>4. Keeps(r[i].logs \o split.lines, split.buf, x[i] \o pk[i + 1])
    BY <2>3, PacketKeeps
  <2>5. /\ r[i + 1].logs = r[i].logs \o split.lines
        /\ r[i + 1].logBuffer = split.buf
    <3>1. r[i + 1] = [logBuffer |-> split.buf, logs |-> r[i].logs \o split.lines]
      BY <2>2, Zenon DEF Dmesg
    <3> HIDE DEF split, S
    <3> DEFINE new == r[i + 1]
    <3>2. new = [logBuffer |-> split.buf, logs |-> r[i].logs \o split.lines]
      BY <3>1
    <3> HIDE DEF new
    <3>3. new.logs = r[i].logs \o split.lines /\ new.logBuffer = split.buf
      BY <3>2
    <3> QED BY <3>3 DEF new
  <2> HIDE DEF split
  <2> QED BY <2>1, <2>2, <2>4, <2>5
<1>5. n \in S
  <2> HIDE DEF S
  <2>1. n \in 0..n
    OBVIOUS
  <2> QED BY <1>3, <1>4, <2>1, Induction
<1> QED BY <1>5 DEF r, x

\* However a text is cut into packets, its lines are notified, all and once and in
\* order, and what is after the last of them is kept (splitLines across calls of
\* fromDevice).
THEOREM LinesAreKept == LinesKept
<1>1. Payloads \subseteq Seq(Bytes)
  <2>1. \A k \in 0..MaxPayload : k \in Nat
    BY LinesAssumption
  <2> QED BY <2>1, SeqDef DEF Payloads
<1> SUFFICES ASSUME NEW k \in 0..MaxDmesg, NEW pk \in [1..k -> Payloads]
             PROVE  /\ AreLinesOf(Received(pk)[k].logs, Text(pk)[k])
                    /\ IsRestOf(Received(pk)[k].logBuffer, Text(pk)[k])
  BY DEF LinesKept
<1>2. k \in Nat /\ pk \in [1..k -> Seq(Bytes)]
  BY <1>1, LinesAssumption
<1> QED BY <1>2, AllKept DEF Keeps

\* So it does not matter to any execution where its texts are cut.
THEOREM CutsNeverMatter == Spec => []CutsDoNotMatter
<1>1. CutsDoNotMatter
  BY LinesAreKept DEF CutsDoNotMatter
<1> QED BY <1>1, PTL
=============================================================================
