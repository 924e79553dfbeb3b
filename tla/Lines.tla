------------------------------- MODULE Lines --------------------------------
(***************************************************************************)
(* The log lines of a device: splitLines and the Dmesg case of fromDevice, *)
(* src/src/wssk.ts.                                                        *)
(*                                                                         *)
(* A device sends text in packets that are cut anywhere.  What is notified *)
(* is lines, without those that are empty.                                 *)
(***************************************************************************)
EXTENDS Naturals, Sequences

CONSTANTS
  Bytes,      \* the bytes of a text
  NL,         \* 10, the end of a line
  MaxPayload, \* bound: bytes of a packet
  MaxDmesg    \* bound: packets

ASSUME LinesAssumption == NL \in Bytes /\ MaxPayload \in Nat /\ MaxDmesg \in Nat

Payloads == UNION {[1..k -> Bytes] : k \in 0..MaxPayload}

\* One turn of the loop: buf from beg to i, and the lines so far.
NextByte(s, b) ==
  IF b = NL
  THEN [buf |-> <<>>, lines |-> IF s.buf = <<>> THEN s.lines ELSE Append(s.lines, s.buf)]
  ELSE [buf |-> Append(s.buf, b), lines |-> s.lines]

\* The loop, from s on: what it has after each byte.
Turns(s, text) ==
  LET turns[i \in 0..Len(text)] ==
        IF i = 0 THEN s ELSE NextByte(turns[i - 1], text[i])
  IN  turns

Loop(s, text) == Turns(s, text)[Len(text)]

Nothing == [buf |-> <<>>, lines |-> <<>>]

\* Mutant: what the last packet left is forgotten.
splitLinesAlone(prevBuf, buf) == Loop(Nothing, buf)

splitLines(prevBuf, buf) == Loop(Nothing, prevBuf \o buf)

\* A Dmesg packet: the lines go to the sinks, the rest waits for the next.
Dmesg(conn, packet) ==
  LET split == splitLines(conn.logBuffer, packet) IN
  [logBuffer |-> split.buf, logs |-> conn.logs \o split.lines]

\* A connection after each of its packets; it begins with no logBuffer.
Received(packets) ==
  LET received[i \in 0..Len(packets)] ==
        IF i = 0 THEN [logBuffer |-> <<>>, logs |-> <<>>]
        ELSE Dmesg(received[i - 1], packets[i])
  IN  received

-----------------------------------------------------------------------------
(* What it promises. *)

\* What the device has sent after each packet.
Text(packets) ==
  LET text[i \in 0..Len(packets)] ==
        IF i = 0 THEN <<>> ELSE text[i - 1] \o packets[i]
  IN  text

\* Stretches of a text without an end of line, which have one (or the start of
\* the text) before them, and one after them.
Stretches(t) ==
  {e \in (1..Len(t)) \X (1..Len(t)) :
     /\ e[1] <= e[2] /\ e[2] < Len(t)
     /\ \A k \in e[1]..e[2] : t[k] # NL
     /\ e[1] = 1 \/ t[e[1] - 1] = NL
     /\ t[e[2] + 1] = NL}

\* The lines are those stretches, all and once and in order.
AreLinesOf(lines, t) ==
  \E at \in [1..Len(lines) -> Stretches(t)] :
    /\ \A e \in Stretches(t) : \E i \in 1..Len(lines) : at[i] = e
    /\ \A i, j \in 1..Len(lines) : i < j => at[i][2] < at[j][1]
    /\ \A i \in 1..Len(lines) : lines[i] = SubSeq(t, at[i][1], at[i][2])

\* The rest is what is after the last end of line.
IsRestOf(rest, t) ==
  LET n == Len(t) - Len(rest) IN
  /\ Len(rest) <= Len(t) /\ rest = SubSeq(t, n + 1, Len(t))
  /\ \A i \in 1..Len(rest) : rest[i] # NL
  /\ n = 0 \/ t[n] = NL

\* However a text is cut into packets, its lines are notified, all and once
\* and in order, and its end is kept (splitLines, across calls).
LinesKept ==
  \A k \in 0..MaxDmesg : \A packets \in [1..k -> Payloads] :
    /\ AreLinesOf(Received(packets)[k].logs, Text(packets)[k])
    /\ IsRestOf(Received(packets)[k].logBuffer, Text(packets)[k])
=============================================================================
