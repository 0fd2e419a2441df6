--------------------------------- MODULE Codec ---------------------------------
(***************************************************************************)
(* state::to_base64 and state::from_base64 (state_base64.cpp) over           *)
(* base64::encode and decode (base64.cpp).  Bytes and characters are        *)
(* 0 .. 255.  The fields behind the count of the surface are raw bytes.      *)
(***************************************************************************)
EXTENDS Integers, Sequences

CONSTANTS
  RawBytes,        \* the bytes considered
  SurfaceSizes,    \* numbers of surface points
  PointSize,       \* bytes of a point: 8 in the code
  RestSize         \* bytes of everything behind the surface: 64 in the code

\* The number of surface points has one or two digits.
ASSUME CodecAssumption ==
  /\ RawBytes \subseteq 0 .. 255 /\ SurfaceSizes \subseteq 1 .. 99
  /\ PointSize \in Nat \ {0} /\ RestSize \in Nat \ {0}

VARIABLES
  written,    \* the state: the size of its surface and its raw bytes
  text,       \* what to_base64 returned
  readback    \* what from_base64 left in a state, and the bytes it decoded

codecVars == <<written, text, readback>>

Pad == 61

\* The characters of the sextets: A-Z, a-z, 0-9, + and /.
to_char(v) ==
  CASE v \in 0 .. 25 -> 65 + v
    [] v \in 26 .. 51 -> 97 + (v - 26)
    [] v \in 52 .. 61 -> 48 + (v - 52)
    [] v = 62 -> 43
    [] v = 63 -> 47
from_char(c) ==
  CASE c \in 65 .. 90 -> c - 65
    [] c \in 97 .. 122 -> 26 + (c - 97)
    [] c \in 48 .. 57 -> 52 + (c - 48)
    [] c = 43 -> 62
    [] c = 47 -> 63
    [] OTHER -> 255

CodecInit ==
  /\ \E n \in SurfaceSizes : \E raw \in [1 .. n * PointSize + RestSize -> RawBytes] :
       written = [n |-> n, raw |-> raw]
  /\ text = <<>> /\ readback = [n |-> 0, raw |-> <<>>, past |-> <<>>]

\* encode: three bytes to four characters; a tail of one byte gives two, one of
\* two bytes three, and pads up to four.
ByteAt(src, n) == IF n <= Len(src) THEN src[n] ELSE 0
Sextet(src, k) ==
  LET g == (k - 1) \div 4
      a == ByteAt(src, 3 * g + 1)  b == ByteAt(src, 3 * g + 2)  c == ByteAt(src, 3 * g + 3)
  IN  CASE k % 4 = 1 -> a \div 4
        [] k % 4 = 2 -> (a % 4) * 16 + b \div 16
        [] k % 4 = 3 -> (b % 16) * 4 + c \div 64
        [] k % 4 = 0 -> c % 64
Encoded(src) ==
  [k \in 1 .. 4 * ((Len(src) + 2) \div 3) |->
    IF (k * 6) - 5 > Len(src) * 8 THEN Pad ELSE to_char(Sextet(src, k))]

\* decode's req_sz, and its bytes.  After the whole groups of four come two or
\* three characters of a tail; its bits are rounded up to bytes, so that one
\* byte more than req_sz is written.
PadsOf(src) == (IF src[Len(src) - 1] = Pad THEN 1 ELSE 0) + (IF src[Len(src)] = Pad THEN 1 ELSE 0)
Required(src) == (Len(src) \div 4) * 3 - PadsOf(src)
SextetOf(src, k) == IF src[k] = Pad THEN 0 ELSE from_char(src[k])
Octet(src, n) ==
  LET k == 4 * ((n - 1) \div 3) + 1 + ((n - 1) % 3) IN
  CASE n % 3 = 1 -> SextetOf(src, k) * 4 + SextetOf(src, k + 1) \div 16
    [] n % 3 = 2 -> (SextetOf(src, k) % 16) * 16 + SextetOf(src, k + 1) \div 4
    [] n % 3 = 0 -> (SextetOf(src, k) % 4) * 64 + SextetOf(src, k + 1)
\* Mutant of Stored: the tail's own bytes are left out.
Stored_WholeGroups(src) == 3 * (Required(src) \div 3)
Stored(src) == Required(src) + (IF PadsOf(src) > 0 THEN 1 ELSE 0)
Decoded(src) ==
  [bytes |-> [n \in 1 .. Required(src) |-> IF n <= Stored(src) THEN Octet(src, n) ELSE 0],
   past |-> [n \in Required(src) + 1 .. Stored(src) |-> Octet(src, n)]]

\* os << n, is >> n: digits up to the first byte that is none.
Zero == 48
Digits(n) == IF n < 10 THEN <<Zero + n>> ELSE <<Zero + (n \div 10), Zero + (n % 10)>>
IsDigit(byte) == byte \in Zero .. Zero + 9
DigitsRead(bytes) ==
  CHOOSE d \in 0 .. Len(bytes) :
    /\ \A k \in 1 .. d : IsDigit(bytes[k])
    /\ d = Len(bytes) \/ ~IsDigit(bytes[d + 1])
NumberRead(bytes) ==
  LET number[k \in 0 .. DigitsRead(bytes)] ==
        IF k = 0 THEN 0 ELSE 10 * number[k - 1] + bytes[k] - Zero
  IN  number[DigitsRead(bytes)]

ToBase64 ==
  /\ text = <<>>
  /\ text' = Encoded(Digits(written.n) \o written.raw)
  /\ UNCHANGED <<written, readback>>
\* A stream that runs out leaves the fields that are missing as they were.
FromBase64 ==
  /\ text # <<>> /\ readback.n = 0
  /\ LET d == Decoded(text)
         bytes == d.bytes
         n == NumberRead(bytes)
         from == DigitsRead(bytes)
         size == n * PointSize + RestSize
     IN  readback' = [n |-> n, past |-> d.past,
           raw |-> IF from + size <= Len(bytes) THEN SubSeq(bytes, from + 1, from + size)
                   ELSE SubSeq(bytes, from + 1, Len(bytes))]
  /\ UNCHANGED <<written, text>>

CodecNext == ToBase64 \/ FromBase64
CodecSpec == CodecInit /\ [][CodecNext]_codecVars

-----------------------------------------------------------------------------
\* A replay carries the state it was made from: what from_base64 reads is what
\* to_base64 wrote, for every length of the tail, exactly when the first raw
\* byte (the low byte of the first abscissa) is no digit; and the byte that
\* decode writes behind its result is the zero that ends the string there
\* (state_base64.cpp, base64.cpp).
StateComesBack ==
  readback.n # 0 =>
    /\ ([n |-> readback.n, raw |-> readback.raw] = written) <=> ~IsDigit(written.raw[1])
    /\ \A k \in DOMAIN readback.past : readback.past[k] = 0
=============================================================================
