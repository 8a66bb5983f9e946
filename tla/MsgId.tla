------------------------------- MODULE MsgId --------------------------------
(***************************************************************************)
(* The format of message ids: GenMsgID and UnpackMsgId of src/pkg/utils.go *)
(* and the numbers of newSequenceNumGenerator (src/pkg/connection.go).     *)
(*                                                                         *)
(* A message id is its ten bytes; the hexadecimal strings of the code and  *)
(* these bytes are one to one.                                             *)
(***************************************************************************)
EXTENDS Integers, Sequences

\* How many sequence numbers there are; a code has six digits as well.
NumMod == 1000000
SixDigits == 0..(NumMod - 1)

\* The three bytes of the six hexadecimal digits of %06x, and the bytes of a
\* time <<month, day, hour, minute>> in decimal digits, two to a byte.
Hex3(n) == <<n \div 65536, (n \div 256) % 256, n % 256>>
BcdByte(n) == 16 * (n \div 10) + (n % 10)
BcdTime(t) == [i \in 1..4 |-> BcdByte(t[i])]

\* GenMsgID: the number fields with %06x, the time with %02d.  The faulty one
\* formats the sequence number with %04x.
GenMsgID_faulty(sp, t, n) == Hex3(sp) \o BcdTime(t) \o <<n \div 256, n % 256>>
GenMsgID(sp, t, n) == Hex3(sp) \o BcdTime(t) \o Hex3(n)

\* UnpackMsgId, back to the fields.
FromHex3(b) == 65536 * b[1] + 256 * b[2] + b[3]
FromBcd(b) == 10 * (b \div 16) + (b % 16)
UnpackMsgId(id) ==
  [sp |-> FromHex3(SubSeq(id, 1, 3)),
   time |-> [i \in 1..4 |-> FromBcd(id[3 + i])],
   num |-> FromHex3(SubSeq(id, 8, 10))]

\* The generator's step; the faulty one never hands out the last number.
Bump_faulty(n) == (n + 1) % (NumMod - 1)
Bump(n) == (n + 1) % NumMod
=============================================================================
