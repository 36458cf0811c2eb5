---------------------------- MODULE CoapObject ----------------------------
(***************************************************************************)
(* class CoapPDU of src/cantcoap: one message kept as the bytes that will  *)
(* be sent, and a few fields that remember where things are in them.       *)
(* Options may be added in any order of their numbers: an option goes in   *)
(* between those already there, and the one behind it is re-encoded.       *)
(*                                                                         *)
(* Each handler is a function from an object, its arguments and the memory *)
(* the call meets - how large the message may become, and whether realloc  *)
(* moves it, which only a pointer into it can tell - to the object after   *)
(* it and the result returned.  A realloc that shrinks always succeeds.    *)
(***************************************************************************)
EXTENDS CoapCodec, FiniteSets

NULL == 0           \* of _payloadPointer; else a position in the message
Dangling == -1      \* a pointer into memory that realloc has released

Slash == 47
UriPath == 11
ContentFormat == 12
UriQuery == 15

Fields == [pdu : Seq(Byte), numOptions : Nat, maxAddedOptionNumber : Word,
           payloadPointer : {NULL, Dangling} \cup Nat, payloadLength : Nat]

Fits(length, mem) == length <= mem.limit
Repointed(pointer, mem) == IF mem.moves /\ pointer # NULL THEN Dangling ELSE pointer

Done(object, result) == [object |-> object, result |-> result]

------------------------------------------------------------------------------
(***************************************************************************)
(* Construction and reset.  reset() clears the version with the rest.      *)
(***************************************************************************)
Blank == [pdu |-> <<0, 0, 0, 0>>, numOptions |-> 0, maxAddedOptionNumber |-> 0,
          payloadPointer |-> NULL, payloadLength |-> 0]

New == [Blank EXCEPT !.pdu = SetVersion(@, 1)]

\* Faulty: the fields that reset() clears, but one.
ResetCount(c) == [Blank EXCEPT !.numOptions = c.numOptions]
ResetPointer(c) == [Blank EXCEPT !.payloadPointer = c.payloadPointer]

ResetFields(c) == Blank

------------------------------------------------------------------------------
(***************************************************************************)
(* Options.                                                                *)
(***************************************************************************)
\* Before the k+1st of the options, behind the k that are not greater.
PositionBehind(c, options, k) ==
    [at       |-> IF k < Len(options) THEN options[k + 1].at ELSE OptionsEnd(c.pdu),
     previous |-> IF k = 0 THEN 0 ELSE options[k].number]

NotGreater(options, n) ==
    Cardinality({i \in DOMAIN options : \A j \in 1..i : options[j].number <= n})

PositionAmong(c, options, n) == PositionBehind(c, options, NotGreater(options, n))

FindInsertionPosition(c, n) ==
    IF n >= c.maxAddedOptionNumber \/ FirstOption(c.pdu) = Len(c.pdu) + 1
    THEN [at |-> Len(c.pdu) + 1, previous |-> c.maxAddedOptionNumber]
    ELSE PositionAmong(c, OptionsOf(c.pdu), n)

AppendOption(c, n, option, mem) ==
    LET tried == [c EXCEPT !.maxAddedOptionNumber = n]
    IN  IF ~Fits(Len(c.pdu) + Len(option), mem) THEN Done(tried, 1)
        ELSE Done([tried EXCEPT !.pdu = @ \o option, !.numOptions = @ + 1,
                                !.payloadPointer = Repointed(@, mem)], 0)

\* The bytes from position at on move up by the gap.
OpenGap(b, at, gap) == ShiftPDUUp(Resize(b, Len(b) + gap), gap, Len(b) - at + 1)

Inserted(c, bytes, mem) ==
    IF ~Fits(Len(bytes), mem) THEN Done(c, 1)
    ELSE Done([c EXCEPT !.pdu = bytes, !.payloadPointer = Repointed(@, mem)], 0)

\* Faulty: the option behind the new one keeps its delta.
InsertUnadjusted(c, option, place, delta, newDelta, mem) ==
    Inserted(c, Overwrite(OpenGap(c.pdu, place.at, Len(option)), place.at, option), mem)

\* Faulty: a mid-message insertion does not look at the buffer's end.
InsertUnchecked(c, option, place, delta, newDelta, mem) ==
    Done([c EXCEPT !.pdu = Overwrite(OpenGap(@, place.at, Len(option)), place.at, option)], 0)

(***************************************************************************)
(* Into the middle: everything from the insertion position moves up by the *)
(* gap, the header of the option that was there moves up further by the    *)
(* bytes its shorter delta no longer needs, and the new option fills what  *)
(* is before it.                                                           *)
(***************************************************************************)
MoveHeader(b, from, to) == [b EXCEPT ![to] = At(b, from)]

InsertInGap(b, option, at, gap, newDelta) ==
    Overwrite(SetOptionDelta(MoveHeader(OpenGap(b, at, gap), at + gap, at + Len(option)),
                             at + Len(option), U16(newDelta)),
              at, option)

InsertOption(c, option, place, delta, newDelta, mem) ==
    Inserted(c, InsertInGap(c.pdu, option, place.at,
                            Len(option) + ComputeExtraBytes(newDelta) - ComputeExtraBytes(delta),
                            newDelta), mem)

AddEncoded(c, n, option, place, mem) ==
    IF place.at = Len(c.pdu) + 1 THEN AppendOption(c, n, option, mem)
    ELSE InsertOption(c, option, place, GetOptionDelta(c.pdu, place.at),
                      place.previous + GetOptionDelta(c.pdu, place.at) - n, mem)

AddAt(c, n, value, place, mem) ==
    AddEncoded(c, n, EncodeOption(U16(n - place.previous), value), place, mem)

AddOption(c, n, value, mem) == AddAt(c, n, value, FindInsertionPosition(c, n), mem)

SetContentFormat(c, format, mem) ==
    AddOption(c, ContentFormat, IF format = 0 THEN << >>
                                ELSE IF format < 256 THEN << format >> ELSE TwoBytes(format), mem)

------------------------------------------------------------------------------
(***************************************************************************)
(* The URI.  setURI() cuts its argument at the slashes and adds a segment  *)
(* at a time, up to the first that does not fit; a URI of one character is *)
(* added as it is, and whether that succeeded is not looked at.            *)
(***************************************************************************)
SegmentsFrom(uri) ==
    LET slashes(i) == {j \in i..Len(uri) : uri[j] = Slash}
        cut[i \in 1..(Len(uri) + 1)] ==
            IF i >= Len(uri) THEN << >>
            ELSE LET start == IF uri[i] = Slash THEN i + 1 ELSE i
                     end   == IF slashes(start) = {} THEN Len(uri) + 1
                              ELSE CHOOSE j \in slashes(start) : \A k \in slashes(start) : j <= k
                 IN  << SubSeq(uri, start, end - 1) >> \o cut[end]
    IN  cut[1]

AddPath(c, segments, mem) ==
    LET add[k \in 0..Len(segments)] ==
            IF k = 0 THEN Done(c, 0)
            ELSE LET before == add[k - 1]
                 IN  IF before.result = 1 THEN before
                     ELSE AddOption(before.object, UriPath, segments[k], mem)
    IN  add[Len(segments)]

SetURI(c, uri, mem) ==
    IF uri = << >> THEN Done(c, 1)
    ELSE IF Len(uri) = 1 THEN Done(AddOption(c, UriPath, uri, mem).object, 0)
    ELSE AddPath(c, SegmentsFrom(uri), mem)

\* getOptions() trusts _numOptions.
GetOptions(c) ==
    LET options == OptionsOf(c.pdu)
    IN  SubSeq(options, 1, IF c.numOptions < Len(options) THEN c.numOptions ELSE Len(options))

IsPath(option) == option.number = UriPath

\* Faulty: an empty path segment is left out.
GetURIToEmpty(c) ==
    LET options == GetOptions(c)
        join[k \in 0..Len(options)] ==
            IF k = 0 THEN << >>
            ELSE IF IsPath(options[k]) /\ options[k].value # << >>
                 THEN join[k - 1] \o << Slash >> \o options[k].value
            ELSE join[k - 1]
    IN  join[Len(options)]

JoinPath(options) ==
    LET join[k \in 0..Len(options)] ==
            IF k = 0 THEN << >>
            ELSE IF IsPath(options[k]) THEN join[k - 1] \o << Slash >> \o options[k].value
            ELSE join[k - 1]
    IN  join[Len(options)]

GetURI(c) ==
    LET options == GetOptions(c)
    IN  IF \E i \in DOMAIN options : IsPath(options[i]) /\ options[i].value = << Slash >> THEN << Slash >>
        ELSE JoinPath(options)

------------------------------------------------------------------------------
(***************************************************************************)
(* The token.  setToken() keeps the old length of the message in one byte, *)
(* and does not look at whether setTokenLength() accepts the new length.   *)
(***************************************************************************)
GrowForToken(c, t, oldLength, newLength, mem) ==
    LET shifted == ShiftPDUUp(Resize(c.pdu, newLength), newLength - oldLength,
                              newLength - Len(t) - HeaderSize)
    IN  IF ~Fits(newLength, mem) THEN Done([c EXCEPT !.pdu = Resize(@, oldLength)], 1)
        ELSE Done([c EXCEPT !.pdu = SetTokenLength(Overwrite(shifted, HeaderSize + 1, t), Len(t)),
                            !.payloadPointer = Repointed(@, mem)], 0)

\* Faulty: the bytes behind the token are moved down by one less.
ShrinkByLess(c, t, oldLength, newLength, mem) ==
    LET shifted == ShiftPDUDown(Overwrite(c.pdu, HeaderSize + 1, t), HeaderSize + Len(t) + 1,
                                oldLength - newLength - 1, newLength - Len(t) - HeaderSize)
    IN  Done([c EXCEPT !.pdu = SetTokenLength(Resize(shifted, newLength), Len(t)),
                       !.payloadPointer = Repointed(@, mem)], 0)

ShrinkForToken(c, t, oldLength, newLength, mem) ==
    LET shifted == ShiftPDUDown(Overwrite(c.pdu, HeaderSize + 1, t), HeaderSize + Len(t) + 1,
                                oldLength - newLength,
                                oldLength - GetTokenLength(c.pdu) - HeaderSize)
    IN  Done([c EXCEPT !.pdu = SetTokenLength(Resize(shifted, newLength), Len(t)),
                       !.payloadPointer = Repointed(@, mem)], 0)

SetToken(c, t, mem) ==
    LET oldLength == Len(c.pdu) % 256
        newLength == Len(c.pdu) - GetTokenLength(c.pdu) + Len(t)
    IN  IF t = << >> THEN Done(c, 1)
        ELSE IF Len(t) = GetTokenLength(c.pdu)
             THEN Done([c EXCEPT !.pdu = Overwrite(@, HeaderSize + 1, t)], 0)
        ELSE IF newLength > oldLength THEN GrowForToken(c, t, oldLength, newLength, mem)
        ELSE ShrinkForToken(c, t, oldLength, newLength, mem)

------------------------------------------------------------------------------
(***************************************************************************)
(* The payload.  mallocPayload() writes the marker only when it sets the   *)
(* payload pointer, and lets an existing pointer stand.                    *)
(***************************************************************************)
MallocPayload(c, length, mem) ==
    LET growth    == length - c.payloadLength + (IF c.payloadLength = 0 THEN 1 ELSE 0)
        newLength == Len(c.pdu) + growth
    IN  IF length = c.payloadLength THEN Done(c, IF c.payloadPointer = NULL THEN 1 ELSE 0)
        ELSE IF growth > 0 /\ ~Fits(newLength, mem) THEN Done(c, 1)
        ELSE IF c.payloadPointer = NULL
             THEN Done([c EXCEPT !.pdu = Overwrite(Resize(@, newLength), Len(@) + 1, << Marker >>),
                                 !.payloadPointer = Len(c.pdu) + 2, !.payloadLength = length], 0)
             ELSE Done([c EXCEPT !.pdu = Resize(@, newLength),
                                 !.payloadPointer = Repointed(@, mem), !.payloadLength = length], 0)

SetPayload(c, s, mem) ==
    LET space == MallocPayload(c, Len(s), mem)
    IN  IF s = << >> THEN Done(c, 1)
        ELSE IF space.result = 1 \/ space.object.payloadPointer = Dangling THEN space
        ELSE Done([space.object EXCEPT !.pdu = Overwrite(@, space.object.payloadPointer, s)], 0)

GetPayloadCopy(c) == Slice(c.pdu, c.payloadPointer, c.payloadLength)

------------------------------------------------------------------------------
(***************************************************************************)
(* validate(): the header, then option by option to the payload or the end.*)
(***************************************************************************)
ValidCodes == 0..4 \cup 65..69 \cup 128..134 \cup {140, 141, 143} \cup 160..165

\* Faulty: the last option is not counted.
ValidateOptionsShort(c) ==
    LET b == c.pdu
        walk[i \in Nat, count \in Nat] ==
            IF i > Len(b)
            THEN Done([c EXCEPT !.numOptions = count - 1, !.payloadPointer = NULL, !.payloadLength = 0], 1)
            ELSE walk[i + OptionSize(b, i), count + 1]
    IN  walk[FirstOption(b), 0]

\* The payload from position at on, or none.
Parsed(c, count, at) ==
    [c EXCEPT !.numOptions = count, !.payloadPointer = at,
              !.payloadLength = IF at = NULL THEN 0 ELSE Len(c.pdu) - at + 1]

\* The option at i has a nibble of 15, or bytes beyond the end.
Unsound(b, i) ==
    \/ 15 \in {b[i] \div 16, b[i] % 16}
    \/ ComputeExtraBytes(b[i] \div 16) + ComputeExtraBytes(b[i] % 16) > Len(b) - i
    \/ i + OptionSize(b, i) - 1 > Len(b)

ValidateWalk(c) ==
    LET b == c.pdu
        walk[q \in Nat \X Nat] ==
            LET i == q[1]  count == q[2]
            IN  IF i > Len(b) THEN Done(Parsed(c, count, NULL), 1)
                ELSE IF b[i] = Marker
                     THEN IF i < Len(b) THEN Done(Parsed(c, count, i + 1), 1)
                          ELSE Done([c EXCEPT !.payloadPointer = NULL, !.payloadLength = 0], 0)
                ELSE IF Unsound(b, i) THEN Done(c, 0)
                ELSE walk[<<i + OptionSize(b, i), count + 1>>]
    IN  walk

ValidateOptions(c) == ValidateWalk(c)[<<FirstOption(c.pdu), 0>>]

Validate(c) ==
    LET b == c.pdu
    IN  IF Len(b) < HeaderSize \/ GetTokenLength(b) > 8
           \/ HeaderSize + GetTokenLength(b) > Len(b) \/ GetCode(b) \notin ValidCodes
        THEN Done(c, 0)
        ELSE IF FirstOption(b) = Len(b) + 1
             THEN Done([c EXCEPT !.numOptions = 0, !.payloadLength = 0], 1)
        ELSE ValidateOptions(c)
==============================================================================
