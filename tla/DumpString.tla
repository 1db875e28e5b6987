----------------------------- MODULE DumpString -----------------------------
(***************************************************************************)
(* EncodeDumpString and DecodeDumpString of src/wallet/wallet.cpp: the     *)
(* escaping of labels in the file dumpwallet writes and importwallet       *)
(* reads.  A string is a sequence of bytes 0..255.  std::string's char is  *)
(* signed on the platforms the node is built for, and the hex decoder      *)
(* computes with it, so its arithmetic is modelled on the signed value.    *)
(* The operations are calls of a pure function: call holds the argument,   *)
(* ret the result.                                                         *)
(***************************************************************************)
EXTENDS Integers, Sequences, SequencesExt, Bitwise

CONSTANTS
  Chars,      \* the byte values strings are made of
  MaxStrLen   \* the longest string passed

VARIABLES call, ret

dvars == <<call, ret>>

NoRet == [status |-> "none"]

Percent == 37  \* '%'
Zero == 48     \* '0'

\* HexStr of one byte: two lowercase hex digits
HexDigit(v) == IF v < 10 THEN Zero + v ELSE 97 + v - 10
HexStr(c) == <<HexDigit(c \div 16), HexDigit(c % 16)>>

\* EncodeDumpString: every byte <= 32, >= 128 or '%' as '%' and its hex
EncodeDumpString(str) ==
  FoldLeft(LAMBDA acc, c : IF c <= 32 \/ c >= 128 \/ c = Percent
                           THEN acc \o (<<Percent>> \o HexStr(c))
                           ELSE Append(acc, c),
           <<>>, str)

\* the value of a char: signed, as std::string holds it
SignedChar(c) == IF c >= 128 THEN c - 256 ELSE c

\* (ch >> 6) * 9 + ((ch - '0') & 15): the nibble of a hex digit, with an
\* arithmetic shift of the signed char
NibbleDigitsOnly(c) == (SignedChar(c) - Zero) % 16
Nibble(c) == (SignedChar(c) \div 64) * 9 + ((SignedChar(c) - Zero) % 16)

\* c = (hi << 4) | lo, stored in an unsigned char: the low 8 bits
DecodeByte(c1, c2) == ((Nibble(c1) * 16) % 256) | (Nibble(c2) % 256)

\* DecodeDumpString: a '%' with two bytes after it stands for the byte
\* they spell; pos skips them
RECURSIVE DecodeFrom(_, _)
DecodeFrom(str, pos) ==
  IF pos > Len(str) THEN <<>>
  ELSE IF str[pos] = Percent /\ pos + 2 <= Len(str)
  THEN <<DecodeByte(str[pos + 1], str[pos + 2])>> \o DecodeFrom(str, pos + 3)
  ELSE <<str[pos]>> \o DecodeFrom(str, pos + 1)

DecodeDumpString(str) == DecodeFrom(str, 1)

-----------------------------------------------------------------------------
Calls == [op : {"EncodeDumpString", "DecodeDumpString"}, str : SeqOf(Chars, MaxStrLen)]

Init == call \in Calls /\ ret = NoRet

\* dumpwallet: the label of a key is written through EncodeDumpString
Encode ==
  /\ call.op = "EncodeDumpString" /\ ret = NoRet
  /\ ret' = [status |-> "ok", str |-> EncodeDumpString(call.str)]
  /\ UNCHANGED call

\* importwallet: a "label=" field is read through DecodeDumpString
Decode ==
  /\ call.op = "DecodeDumpString" /\ ret = NoRet
  /\ ret' = [status |-> "ok", str |-> DecodeDumpString(call.str)]
  /\ UNCHANGED call

Next == Encode \/ Decode

Spec == Init /\ [][Next]_dvars

-----------------------------------------------------------------------------
\* A label written by dumpwallet is read back unchanged by importwallet:
\* the encoding holds no byte that ends a field (space, newline, control
\* bytes) or that is not ASCII, and DecodeDumpString gives back every byte,
\* '%', the hex letters and the bytes >= 128 included.
DumpStringRoundTrip ==
  (call.op = "EncodeDumpString" /\ ret # NoRet) =>
    /\ \A i \in 1..Len(ret.str) : 32 < ret.str[i] /\ ret.str[i] < 128
    /\ DecodeDumpString(ret.str) = call.str
====
