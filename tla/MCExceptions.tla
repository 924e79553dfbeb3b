---------------------------- MODULE MCExceptions ----------------------------
(* Exceptions and Lines together, with small instances for TLC.            *)
EXTENDS Exceptions, Lines

\* Wherever a text is cut into packets, its lines are kept (splitLines, which reports
\* and logs share).  It is about no state, so TLC does it once.
CutsDoNotMatter == packets = 0 => LinesKept
=============================================================================
