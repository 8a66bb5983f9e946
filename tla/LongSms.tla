------------------------------ MODULE LongSms -------------------------------
(***************************************************************************)
(* SplitLongSms and GetMsgPkgs of src/pkg/utils.go: how a text is cut into *)
(* the parts that go out as submit requests of their own.                  *)
(*                                                                         *)
(* A text is its number of bytes; the content of a part is the slice       *)
(* from..to of it behind the user data header udh (empty when the text     *)
(* fits in one part).  Bytes are 0..255.                                   *)
(***************************************************************************)
EXTENDS Integers, Sequences

SmsLength == 140
SmsHeaderLength == 6
SmsBodyLen == SmsLength - SmsHeaderLength
Byte(n) == n % 256

\* math.Ceil of the quotient of len and the length of a body.
NumParts_faulty(len) == IF len > SmsLength THEN len \div SmsBodyLen ELSE 1
NumParts(len) == IF len > SmsLength
                 THEN (len + SmsBodyLen - 1) \div SmsBodyLen
                 ELSE 1

\* Where the body of a part ends: the end of the text cuts the last one short.
EndOfPart_faulty(len, i) == i * SmsBodyLen
EndOfPart(len, i) == IF i * SmsBodyLen > len THEN len ELSE i * SmsBodyLen

\* SplitLongSms of a text, with the reference TpUdhiSeq had.  Every chunk is
\* appended to the header literal, whose capacity is its length: each append
\* allocates, so no two chunks share their bytes.
SplitLongSms(len, ref) ==
  IF NumParts(len) = 1
  THEN << [udh |-> <<>>, from |-> 0, to |-> len] >>
  ELSE [i \in 1..NumParts(len) |->
         [udh  |-> <<5, 0, 3, ref, Byte(NumParts(len)), Byte(i)>>,
          from |-> (i - 1) * SmsBodyLen,
          to   |-> EndOfPart(len, i)]]

ChunkLen(c) == Len(c.udh) + (c.to - c.from)

\* GetMsgPkgs: the submit request of chunk i, with its four options TP_pid,
\* TP_udhi, PkTotal and PkNumber of one byte each.
PartPkg(chunks, i) ==
  [chunk |-> chunks[i], MsgLength |-> Byte(ChunkLen(chunks[i])),
   udhi |-> Len(chunks) > 1,
   PkTotal |-> Byte(Len(chunks)), PkNumber |-> Byte(i)]
GetMsgPkgs(len, ref) ==
  LET chunks == SplitLongSms(len, ref)
  IN [i \in 1..Len(chunks) |-> PartPkg(chunks, i)]

\* The length SmgpSubmitReqPkt.Pack announces for such a request (submit.go:40)
\* and the most the receiver takes (packet.go:12).
SubmitLen(dests, msgLength, options) ==
  12 + 114 + dests * 21 + msgLength + options
FourOptions == 4 * (2 + 2 + 1)
PacketMax == 2477
=============================================================================
