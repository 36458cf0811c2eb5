---------------------------- MODULE CoapCodec ----------------------------
(***************************************************************************)
(* The bytes of a CoAP message as src/cantcoap reads and writes them.  A   *)
(* message is a sequence of bytes, position i standing for _pdu[i-1]:      *)
(* four bytes of header, the token, the options in order of their number   *)
(* (each with the difference to the number before it), and a payload       *)
(* behind a marker.  Every definition is a function of the bytes.          *)
(***************************************************************************)
EXTENDS Integers, Sequences

(***************************************************************************)
(* Swaps: whether the build's htons swaps the bytes.  inet.h swaps on a    *)
(* little-endian machine, unless no header defines BYTE_ORDER: then the    *)
(* preprocessor compares nothing with nothing and takes the big-endian     *)
(* branch.                                                                 *)
(***************************************************************************)
CONSTANT Swaps

ASSUME SwapsAssumption == Swaps \in BOOLEAN

Byte == 0..255
Word == {n \in Nat : n < 65536}
HeaderSize == 4
Marker == 255

\* What a read outside the message returns: the bytes there are not the
\* message's, and zero stands for them.
Garbage == 0

At(b, i) == IF i \in DOMAIN b THEN b[i] ELSE Garbage
U16(n) == n % 65536
HTONS(n) == IF Swaps THEN (n % 256) * 256 + n \div 256 ELSE n
TwoBytes(n) == << HTONS(n) \div 256, HTONS(n) % 256 >>
FromTwoBytes(b, i) == HTONS(At(b, i) * 256 + At(b, i + 1))

------------------------------------------------------------------------------
(***************************************************************************)
(* One option: a header byte of two nibbles, for the difference to the     *)
(* previous option's number and for the length of the value; the bytes     *)
(* that extend them from 13 and from 269 on; and the value.                *)
(***************************************************************************)
\* Faulty: a nibble is taken to reach 13.
ComputeExtraBytesFrom14(n) == IF U16(n) < 14 THEN 0 ELSE IF U16(n) < 269 THEN 1 ELSE 2

ComputeExtraBytes(n) == IF U16(n) < 13 THEN 0 ELSE IF U16(n) < 269 THEN 1 ELSE 2

Nibble(n) == IF n < 13 THEN n ELSE IF n < 269 THEN 13 ELSE 14

\* Faulty: the extension holds the number, not what exceeds 13.
ExtensionWhole(n) == IF n < 13 THEN << >> ELSE IF n < 269 THEN << n >> ELSE TwoBytes(n - 269)

Extension(n) == IF n < 13 THEN << >> ELSE IF n < 269 THEN << n - 13 >> ELSE TwoBytes(n - 269)

EncodeOption(delta, value) ==
    << Nibble(delta) * 16 + Nibble(Len(value)) >>
       \o Extension(delta) \o Extension(Len(value)) \o value

GetOptionDelta(b, i) ==
    LET nibble == At(b, i) \div 16
    IN  IF nibble = 13 THEN At(b, i + 1) + 13
        ELSE IF nibble = 14 THEN U16(FromTwoBytes(b, i + 1) + 269)
        ELSE nibble

GetOptionValueLength(b, i) ==
    LET nibble == At(b, i) % 16
        skip   == IF At(b, i) \div 16 \in {13, 14} THEN At(b, i) \div 16 - 12 ELSE 0
    IN  IF nibble < 13 THEN nibble
        ELSE IF nibble = 13 THEN At(b, i + skip + 1) + 13
        ELSE U16(FromTwoBytes(b, i + skip + 1) + 269)

EncodedSize(delta, length) ==
    1 + ComputeExtraBytes(delta) + ComputeExtraBytes(length) + length

OptionSize(b, i) == EncodedSize(GetOptionDelta(b, i), GetOptionValueLength(b, i))

------------------------------------------------------------------------------
(***************************************************************************)
(* Moving bytes.                                                           *)
(***************************************************************************)
Overwrite(b, i, s) ==
    [j \in DOMAIN b |-> IF j \in i..(i + Len(s) - 1) THEN s[j - i + 1] ELSE b[j]]

Slice(b, i, n) == [j \in 1..n |-> At(b, i + j - 1)]
Resize(b, n) == Slice(b, 1, n)

\* The last `amount' bytes become those `offset' before them.
ShiftPDUUp(b, offset, amount) ==
    [j \in DOMAIN b |-> IF j > Len(b) - amount THEN At(b, j - offset) ELSE b[j]]

\* `amount' bytes from start on become those `offset' behind them.
ShiftPDUDown(b, start, offset, amount) ==
    [j \in DOMAIN b |-> IF j \in start..(start + amount - 1) THEN At(b, j + offset) ELSE b[j]]

SetOptionDelta(b, i, delta) ==
    Overwrite(b, i, << Nibble(delta) * 16 + (At(b, i) % 16) >> \o Extension(delta))

------------------------------------------------------------------------------
(***************************************************************************)
(* The header and the options behind it.                                   *)
(***************************************************************************)
GetVersion(b) == b[1] \div 64
GetType(b) == ((b[1] \div 16) % 4) * 16
GetTokenLength(b) == b[1] % 16
GetCode(b) == b[2]
GetMessageID(b) == FromTwoBytes(b, 3)

SetType(b, type) == [b EXCEPT ![1] = (@ \div 64) * 64 + type + (@ % 16)]
SetVersion(b, version) == [b EXCEPT ![1] = version * 64 + (@ % 64)]
SetTokenLength(b, n) == IF n > 8 THEN b ELSE [b EXCEPT ![1] = (@ \div 16) * 16 + n]
SetCode(b, code) == [b EXCEPT ![2] = code]
SetMessageID(b, id) == Overwrite(b, 3, TwoBytes(id))

FirstOption(b) == HeaderSize + GetTokenLength(b) + 1

\* The option at i, its number relative to the one before it.
OptionAt(b, i, previous, delta, length) ==
    [at     |-> i,
     next   |-> i + EncodedSize(delta, length),
     number |-> U16(previous + delta),
     value  |-> Slice(b, i + EncodedSize(delta, length) - length, length)]

\* From each position, and with each number before it: the options until the
\* payload marker or the end.
OptionsWalk(b) ==
    LET walk[q \in Nat \X Nat] ==
            IF q[1] > Len(b) \/ At(b, q[1]) = Marker THEN << >>
            ELSE LET option == OptionAt(b, q[1], q[2], GetOptionDelta(b, q[1]),
                                        GetOptionValueLength(b, q[1]))
                 IN  << option >> \o walk[<<option.next, option.number>>]
    IN  walk

OptionsFrom(b, from) == OptionsWalk(b)[<<from, 0>>]

OptionsOf(b) == OptionsFrom(b, FirstOption(b))

EndOf(options, first) == IF options = << >> THEN first ELSE options[Len(options)].next
OptionsEnd(b) == EndOf(OptionsOf(b), FirstOption(b))

------------------------------------------------------------------------------
(***************************************************************************)
(* What a reader of the bytes finds.                                       *)
(***************************************************************************)
NumberAndValue(option) == [number |-> option.number, value |-> option.value]

TokenOf(b) == Slice(b, HeaderSize + 1, GetTokenLength(b))
PayloadOf(b) == SubSeq(b, OptionsEnd(b) + 1, Len(b))
==============================================================================
