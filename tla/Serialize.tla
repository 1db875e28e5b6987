------------------------------ MODULE Serialize ------------------------------
(***************************************************************************)
(* The integer encodings of src/serialize.h: VarInt (WriteVarInt,          *)
(* ReadVarInt, GetSizeOfVarInt for an unsigned type of W bits) and         *)
(* CompactSize (WriteCompactSize, ReadCompactSize, GetSizeOfCompactSize    *)
(* of a uint64_t).  A byte stream is a sequence of numbers 0..255; a read  *)
(* that runs past its end fails ("eof"), as the stream's read throws.      *)
(* Bit operations are modelled by their arithmetic: n & 0x7F is n % 128,   *)
(* n >> 7 is n \div 128, and an assignment to I is taken modulo 2^W.      *)
(*                                                                         *)
(* One call is one step: Init picks the call and its argument, the action  *)
(* of the wrapper (CVarInt, CCompactSize) returns the result.              *)
(***************************************************************************)
EXTENDS Integers, Sequences, SequencesExt

CONSTANTS
  W,            \* the width of the VarInt type I in bits
  ByteVals,     \* the byte values read streams are made of
  MaxReadLen,   \* the longest VarInt stream read
  SizeVals      \* the uint64_t values written and read as CompactSize

IMax == 2^W - 1          \* std::numeric_limits<I>::max()
TmpSize == (W + 6) \div 7  \* unsigned char tmp[(sizeof(n)*8+6)/7]

-----------------------------------------------------------------------------
(* VarInt *)

\* the first loop of WriteVarInt, writing tmp[len], tmp[len+1], ...: the
\* low 7 bits, with 0x80 on every digit but the first; then n = (n >> 7) - 1
RECURSIVE WriteVarIntTmpNoDecrement(_, _)
WriteVarIntTmpNoDecrement(n, len) ==
  LET digit == (n % 128) + (IF len > 0 THEN 128 ELSE 0)
  IN  IF n <= 127 THEN <<digit>>
      ELSE <<digit>> \o WriteVarIntTmpNoDecrement(n \div 128, len + 1)

RECURSIVE WriteVarIntTmp(_, _)
WriteVarIntTmp(n, len) ==
  LET digit == (n % 128) + (IF len > 0 THEN 128 ELSE 0)
  IN  IF n <= 127 THEN <<digit>>
      ELSE <<digit>> \o WriteVarIntTmp((n \div 128) - 1, len + 1)

\* do { ser_writedata8(os, tmp[len]); } while (len--): the last digit first
WriteVarInt(n) == Reverse(WriteVarIntTmp(n, 0))

RECURSIVE GetSizeOfVarInt(_)
GetSizeOfVarInt(n) == IF n <= 127 THEN 1 ELSE 1 + GetSizeOfVarInt((n \div 128) - 1)

\* ReadVarInt without the n == max check before n++ (n wraps to 0)
RECURSIVE ReadVarIntFromNoMaxCheck(_, _, _)
ReadVarIntFromNoMaxCheck(s, i, n) ==
  IF i > Len(s) THEN [status |-> "eof", n |-> n, len |-> Len(s)]
  ELSE IF n > IMax \div 128 THEN [status |-> "too_large", n |-> n, len |-> i]
  ELSE LET chData == s[i]
           n1 == (n * 128 + (chData % 128)) % (IMax + 1)
       IN  IF chData >= 128 THEN ReadVarIntFromNoMaxCheck(s, i + 1, (n1 + 1) % (IMax + 1))
           ELSE [status |-> "ok", n |-> n1, len |-> i]

\* ReadVarInt from position i of stream s with n read so far; the result
\* is the status, the value and the number of bytes consumed
RECURSIVE ReadVarIntFrom(_, _, _)
ReadVarIntFrom(s, i, n) ==
  IF i > Len(s) THEN [status |-> "eof", n |-> n, len |-> Len(s)]
  ELSE IF n > IMax \div 128 THEN [status |-> "too_large", n |-> n, len |-> i]
  ELSE LET chData == s[i]
           n1 == (n * 128 + (chData % 128)) % (IMax + 1)
       IN  IF chData >= 128
           THEN IF n1 = IMax THEN [status |-> "too_large", n |-> n1, len |-> i]
                ELSE ReadVarIntFrom(s, i + 1, n1 + 1)
           ELSE [status |-> "ok", n |-> n1, len |-> i]

ReadVarInt(s) == ReadVarIntFrom(s, 1, 0)

\* The number a terminated byte sequence stands for, after the comment
\* above WriteVarInt: (a[len-1] & 0x7F) + sum 128^i*((a[len-i-1] & 0x7F)+1)
VarIntValue(a) ==
  LET L == Len(a) IN
  (a[L] % 128) + FoldSet(LAMBDA i, acc : 128^i * ((a[L - i] % 128) + 1) + acc, 0, 1..(L - 1))

\* The least value of any encoding that starts with the bytes p
VarIntLeast(p) == IF p[Len(p)] >= 128 THEN VarIntValue(p \o <<0>>) ELSE VarIntValue(p)

-----------------------------------------------------------------------------
(* CompactSize.  A uint64_t is the sequence of its 8 bytes, least          *)
(* significant first, as ser_writedata64 puts it on the wire; the          *)
(* comparisons of the code are comparisons of these sequences.             *)

\* the uint64_t of a number below 2^31
U64(n) == [i \in 1..8 |-> IF i <= 4 THEN (n \div 256^(i - 1)) % 256 ELSE 0]
U64Less(a, b) == \E k \in 1..8 : a[k] < b[k] /\ \A j \in (k + 1)..8 : a[j] = b[j]
U64Leq(a, b) == a = b \/ U64Less(a, b)
\* the bytes of a narrower integer read into a uint64_t
ZeroExtend(b) == b \o [i \in 1..(8 - Len(b)) |-> 0]

MAX_SIZE == U64(33554432)                   \* 0x02000000
USHRT_MAX == U64(65535)
UINT_MAX == <<255, 255, 255, 255, 0, 0, 0, 0>>
TwoTo32 == <<0, 0, 0, 0, 1, 0, 0, 0>>      \* 0x100000000ULL

\* WriteCompactSize: one byte below 253, else a marker byte and the low
\* 2, 4 or 8 bytes of nSize
WriteCompactSizeOffByOne(nSize) ==
  CASE U64Leq(nSize, U64(253))     -> <<nSize[1]>>
    [] U64Leq(nSize, USHRT_MAX)    -> <<253>> \o SubSeq(nSize, 1, 2)
    [] U64Leq(nSize, UINT_MAX)     -> <<254>> \o SubSeq(nSize, 1, 4)
    [] OTHER                       -> <<255>> \o nSize

WriteCompactSize(nSize) ==
  CASE U64Less(nSize, U64(253))    -> <<nSize[1]>>
    [] U64Leq(nSize, USHRT_MAX)    -> <<253>> \o SubSeq(nSize, 1, 2)
    [] U64Leq(nSize, UINT_MAX)     -> <<254>> \o SubSeq(nSize, 1, 4)
    [] OTHER                       -> <<255>> \o nSize

GetSizeOfCompactSize(nSize) ==
  CASE U64Less(nSize, U64(253))    -> 1
    [] U64Leq(nSize, USHRT_MAX)    -> 3
    [] U64Leq(nSize, UINT_MAX)     -> 5
    [] OTHER                       -> 9

\* ReadCompactSize without the canonical-form checks
ReadCompactSizeLax(s) ==
  IF s = <<>> THEN [status |-> "eof", len |-> 0] ELSE
  LET chSize == s[1]
      w == CASE chSize < 253 -> 0 [] chSize = 253 -> 2 [] chSize = 254 -> 4 [] OTHER -> 8
  IN  IF Len(s) < 1 + w THEN [status |-> "eof", len |-> Len(s)] ELSE
      LET nSizeRet == IF w = 0 THEN U64(chSize) ELSE ZeroExtend(SubSeq(s, 2, 1 + w))
      IN  IF U64Less(MAX_SIZE, nSizeRet) THEN [status |-> "too_large", len |-> 1 + w]
          ELSE [status |-> "ok", n |-> nSizeRet, len |-> 1 + w]

\* ReadCompactSize: the marker byte gives the width of the value that
\* follows; a value that would fit a shorter form is non-canonical, a
\* value above MAX_SIZE too large
ReadCompactSize(s) ==
  IF s = <<>> THEN [status |-> "eof", len |-> 0] ELSE
  LET chSize == s[1]
      w == CASE chSize < 253 -> 0 [] chSize = 253 -> 2 [] chSize = 254 -> 4 [] OTHER -> 8
  IN  IF Len(s) < 1 + w THEN [status |-> "eof", len |-> Len(s)] ELSE
      LET nSizeRet == IF w = 0 THEN U64(chSize) ELSE ZeroExtend(SubSeq(s, 2, 1 + w))
          nonCanonical ==
            \/ w = 2 /\ U64Less(nSizeRet, U64(253))
            \/ w = 4 /\ U64Less(nSizeRet, U64(65536))
            \/ w = 8 /\ U64Less(nSizeRet, TwoTo32)
      IN  CASE nonCanonical                  -> [status |-> "non_canonical", len |-> 1 + w]
            [] U64Less(MAX_SIZE, nSizeRet)   -> [status |-> "too_large", len |-> 1 + w]
            [] OTHER                         -> [status |-> "ok", n |-> nSizeRet, len |-> 1 + w]

-----------------------------------------------------------------------------
VARIABLES call, ret

vars == <<call, ret>>

NoRet == [status |-> "none"]

\* every marker byte followed by the first 0, 1, 2, 4 or 8 bytes of a value
CompactSizeStreams ==
  {<<>>} \cup
  {<<ch>> \o SubSeq(v, 1, k) : ch \in {0, 252, 253, 254, 255}, v \in SizeVals, k \in {0, 1, 2, 4, 8}}

Calls ==
  [op : {"SerializeVarInt"}, n : 0..IMax] \cup
  [op : {"UnserializeVarInt"}, s : SeqOf(ByteVals, MaxReadLen)] \cup
  [op : {"SerializeCompactSize"}, n : SizeVals] \cup
  [op : {"UnserializeCompactSize"}, s : CompactSizeStreams]

Init == call \in Calls /\ ret = NoRet

\* CVarInt::Serialize: WriteVarInt<Stream, Mode, I>(s, n)
SerializeVarInt ==
  /\ call.op = "SerializeVarInt" /\ ret = NoRet
  /\ ret' = [status |-> "ok", bytes |-> WriteVarInt(call.n),
             tmpLen |-> Len(WriteVarIntTmp(call.n, 0))]
  /\ UNCHANGED call

\* CVarInt::Unserialize: n = ReadVarInt<Stream, Mode, I>(s)
UnserializeVarInt ==
  /\ call.op = "UnserializeVarInt" /\ ret = NoRet
  /\ ret' = ReadVarInt(call.s)
  /\ UNCHANGED call

\* CCompactSize::Serialize: WriteCompactSize<Stream>(s, n)
SerializeCompactSize ==
  /\ call.op = "SerializeCompactSize" /\ ret = NoRet
  /\ ret' = [status |-> "ok", bytes |-> WriteCompactSize(call.n)]
  /\ UNCHANGED call

\* CCompactSize::Unserialize: n = ReadCompactSize<Stream>(s)
UnserializeCompactSize ==
  /\ call.op = "UnserializeCompactSize" /\ ret = NoRet
  /\ ret' = ReadCompactSize(call.s)
  /\ UNCHANGED call

Next == SerializeVarInt \/ UnserializeVarInt \/ SerializeCompactSize \/ UnserializeCompactSize

Spec == Init /\ [][Next]_vars

-----------------------------------------------------------------------------
\* Every value of I is written within the tmp buffer of WriteVarInt, in
\* GetSizeOfVarInt(n) bytes, and ReadVarInt gives it back from exactly
\* those bytes.
VarIntRoundTrip ==
  (call.op = "SerializeVarInt" /\ ret # NoRet) =>
    /\ ret.tmpLen <= TmpSize
    /\ Len(ret.bytes) = GetSizeOfVarInt(call.n)
    /\ ReadVarInt(ret.bytes) = [status |-> "ok", n |-> call.n, len |-> Len(ret.bytes)]

\* ReadVarInt decodes what the encoding comment defines: it accepts the
\* bytes it consumed only when they are the one encoding of a value of I
\* and returns that value; it refuses as too large only bytes that no
\* value of I starts with; it runs out of data only when every byte read
\* announces another.
VarIntReadExact ==
  (call.op = "UnserializeVarInt" /\ ret # NoRet) =>
    LET p == SubSeq(call.s, 1, ret.len) IN
    /\ ret.status = "ok" =>
         /\ ret.n = VarIntValue(p) /\ ret.n <= IMax
         /\ WriteVarInt(ret.n) = p
    /\ ret.status = "too_large" => VarIntLeast(p) > IMax
    /\ ret.status = "eof" => \A i \in 1..Len(call.s) : call.s[i] >= 128
\* A size written by WriteCompactSize takes GetSizeOfCompactSize bytes and
\* is read back by ReadCompactSize when it is at most MAX_SIZE; a larger
\* one is refused as too large, never misread as another size.
CompactSizeRoundTrip ==
  (call.op = "SerializeCompactSize" /\ ret # NoRet) =>
    /\ Len(ret.bytes) = GetSizeOfCompactSize(call.n)
    /\ IF U64Leq(call.n, MAX_SIZE)
       THEN ReadCompactSize(ret.bytes) = [status |-> "ok", n |-> call.n, len |-> Len(ret.bytes)]
       ELSE ReadCompactSize(ret.bytes).status = "too_large"

\* ReadCompactSize accepts only the one encoding WriteCompactSize makes of
\* the size it returns, and refuses as non-canonical exactly the bytes
\* that encode a size WriteCompactSize writes shorter.
CompactSizeCanonical ==
  (call.op = "UnserializeCompactSize" /\ ret # NoRet) =>
    LET p == SubSeq(call.s, 1, ret.len) IN
    /\ ret.status = "ok" => WriteCompactSize(ret.n) = p /\ U64Leq(ret.n, MAX_SIZE)
    /\ ret.status = "non_canonical" =>
         Len(WriteCompactSize(ZeroExtend(SubSeq(p, 2, Len(p))))) < Len(p)
====
