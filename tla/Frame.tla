-------------------------------- MODULE Frame --------------------------------
(***************************************************************************)
(* The websocket codec, internal/websocketx/websocketx.go: the length in   *)
(* the header and the mask.  A frame keeps its header after the opcode as  *)
(* bytes; its payload is a message and whether it is readable as it is.    *)
(* Lengths stay below 2^31: the higher bytes of the long form are zero.    *)
(***************************************************************************)
EXTENDS Naturals, Sequences

MaxLength == 2147483647

\* byte(n >> 8 * k).
Weight == <<1, 256, 65536, 16777216>>
Byte(n, k) == IF k > 3 THEN 0 ELSE (n \div Weight[k + 1]) % 256

\* Slip: the two bytes of a length in little-endian order (CarriesUp).
SlipHeader(n, masked) ==
  LET bit == IF masked THEN 128 ELSE 0
  IN  IF n < 126 THEN <<bit + n>>
      ELSE IF n <= 65535 THEN <<bit + 126, Byte(n, 0), Byte(n, 1)>>
      ELSE <<bit + 127>> \o [i \in 1..8 |-> Byte(n, 8 - i)]

\* writeFrame: one byte up to 125, then two or eight more.
Header(n, masked) ==
  LET bit == IF masked THEN 128 ELSE 0
  IN  CASE n < 126 -> <<bit + n>>
        [] n >= 126 /\ n <= 65535 -> <<bit + 126, Byte(n, 1), Byte(n, 0)>>
        [] OTHER -> <<bit + 127>> \o [i \in 1..8 |-> Byte(n, 8 - i)]

\* ReadFrame: the same in reverse.
Masked(header) == header[1] >= 128
Long(header) ==          \* the bytes so far, one after the other
  LET value[i \in 1..9] == IF i = 1 THEN 0 ELSE value[i - 1] * 256 + header[i]
  IN  value
PayloadLength(header) ==
  LET short == header[1] % 128
  IN  CASE short < 126 -> short
        [] short = 126 -> header[2] * 256 + header[3]
        [] OTHER -> Long(header)[9]

Written(op, n, size, masked) ==
  [op |-> op, n |-> n, header |-> Header(size, masked), plain |-> ~masked]
\* XOR with the key once more makes a masked payload readable.
Message(frame) ==
  [op |-> frame.op, n |-> frame.n, size |-> PayloadLength(frame.header),
   plain |-> frame.plain # Masked(frame.header)]
=============================================================================
