\* Up to five lines in four packets, two ticks that may overlap; and every text
\* in up to three packets of up to three bytes.
SPECIFICATION FairSpec
CONSTANTS
  Ticks = {t1, t2}
  MaxLines = 5
  MaxPackets = 4
  Bytes = {NL, a, b}
  NL = NL
  MaxPayload = 3
  MaxDmesg = 3
INVARIANTS LostOnlyIfLate ReportedInOrder CutsDoNotMatter
PROPERTY Reported
\* The device sends a bounded text.
CHECK_DEADLOCK FALSE
