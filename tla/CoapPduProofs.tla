--------------------------- MODULE CoapPduProofs ---------------------------
(***************************************************************************)
(* What holds of a CoapPDU whatever calls are made of it, in any order,    *)
(* and what holds of it when they come in the order of sendCoapMessage.    *)
(***************************************************************************)
EXTENDS CoapPdu, CoapObjectProofs

\* No message reaches 256 bytes: setToken() keeps the old length in one byte.
ShortMessages ==
    /\ HeapLimits \subseteq 0..255
    /\ Owned \/ BufferLength <= 255

\* How long a message may become.
MaxLength == IF Owned THEN 255 ELSE BufferLength

(***************************************************************************)
(* The inductive invariant.  TypeOK alone is not: the setters write to the *)
(* first four bytes, setToken() moves what is behind the token, and a      *)
(* payload that is resized has to lie behind both; so a message in use has *)
(* room for its header, its token and the payload it counts.  And setToken *)
(* needs the bound on the length, the hypothesis of all that follows,      *)
(* which the invariant carries.                                            *)
(***************************************************************************)
Sound ==
    /\ ShortMessages
    /\ coap \in Fields /\ coap.payloadPointer \in Pointers
    /\ Len(coap.pdu) <= MaxLength
    /\ Usable => Room(coap)
    /\ use \in {"building", "full", "received", "rejected"}
    /\ call.result \in {0, 1}

LEMMA MaxLengthIs ==
    ASSUME ShortMessages
    PROVE  /\ MaxLength \in Nat /\ 4 <= MaxLength /\ MaxLength < 256
           /\ ~Owned => MaxLength = BufferLength
<1>1. Owned \/ (BufferLength \in Nat /\ BufferLength >= HeaderSize /\ BufferLength <= 255)
  BY Zenon, CallsAssumption DEF ShortMessages
<1>2. Owned \/ BufferLength \in 4..255
  BY <1>1 DEF HeaderSize
<1>3. QED
  BY <1>2 DEF MaxLength

LEMMA MemoryIs ==
    ASSUME Sound, NEW mem \in Memory
    PROVE  mem \in Memories /\ mem.limit <= MaxLength
<1>0. ShortMessages
  BY DEF Sound
<1>1. CASE Owned
  <2>1. mem.limit \in HeapLimits /\ mem.moves \in BOOLEAN /\ mem = [limit |-> mem.limit, moves |-> mem.moves]
    BY <1>1 DEF Memory
  <2>2. mem.limit \in 0..255
    BY Zenon, <1>0, <2>1 DEF ShortMessages
  <2>3. QED
    BY <1>1, <2>1, <2>2 DEF Memories, MaxLength
<1>2. CASE ~Owned
  <2>1. mem = [limit |-> BufferLength, moves |-> FALSE]
    BY <1>2 DEF Memory
  <2>2. BufferLength \in Nat
    BY <1>0, <1>2, MaxLengthIs
  <2>3. QED
    BY <1>2, <2>1, <2>2 DEF Memories, MaxLength
<1>3. QED
  BY <1>1, <1>2

\* A call whose result is a message with room.
LEMMA CallKeeps ==
    ASSUME Sound, Usable, NEW d, NEW mem \in Memory, Keeps(coap, d, mem),
           coap' = d.object, call'.result = d.result,
           use' \in {"building", "full", "received", "rejected"}
    PROVE  Sound'
<1>1. /\ d.object \in Fields /\ d.result \in {0, 1} /\ Room(d.object)
      /\ Len(d.object.pdu) > Len(coap.pdu) => Len(d.object.pdu) <= mem.limit
  BY DEF Keeps, Results
<1>2. mem \in Memories /\ mem.limit <= MaxLength /\ mem.limit \in Nat
  BY MemoryIs DEF Memories
<1>3. Len(d.object.pdu) \in Nat /\ Len(coap.pdu) \in Nat /\ MaxLength \in Nat
  BY <1>1, FieldsTyped, MaxLengthIs DEF Sound
<1>4. Len(d.object.pdu) <= MaxLength
  BY <1>1, <1>2, <1>3 DEF Sound
<1>5. d.object.payloadPointer \in Pointers
  BY <1>1 DEF Room
<1>6. QED
  BY <1>1, <1>4, <1>5 DEF Sound, MaxLength, ShortMessages

\* One of the header's fields is set.
LEMMA EditKeeps ==
    ASSUME Sound, Usable, NEW b, SameToken(coap.pdu, b), NEW r \in {0, 1},
           coap' = [coap EXCEPT !.pdu = b], call'.result = r, use' = use
    PROVE  Sound'
<1>1. coap \in Fields /\ Room(coap) /\ b \in Seq(Byte) /\ Len(b) = Len(coap.pdu)
      /\ GetTokenLength(b) = GetTokenLength(coap.pdu)
  BY DEF Sound, SameToken
<1>2. PICK o : o = WithBytes(coap, b) /\ o \in Fields /\ Room(o) /\ o.pdu = b
  BY <1>1, SameRoom
<1>3. coap' = o
  BY <1>2 DEF WithBytes
<1>4. o.payloadPointer \in Pointers /\ Len(o.pdu) <= MaxLength
  BY <1>1, <1>2 DEF Room, Sound
<1>5. QED
  BY <1>2, <1>3, <1>4 DEF Sound, MaxLength, ShortMessages

LEMMA HeaderThere ==
    ASSUME Sound, Usable
    PROVE  /\ coap \in Fields /\ Room(coap) /\ coap.pdu \in Seq(Byte)
           /\ Len(coap.pdu) >= 4 /\ Len(coap.pdu) > 1 /\ Len(coap.pdu) > 0 /\ Len(coap.pdu) < 256
<1>1. /\ coap \in Fields /\ Room(coap) /\ Len(coap.pdu) >= 4 /\ Len(coap.pdu) <= MaxLength
      /\ ShortMessages
  BY DEF Sound, Room
<1>2. PICK n \in Nat, m \in Nat : n = Len(coap.pdu) /\ m = MaxLength /\ m < 256
  BY <1>1, FieldsTyped, MaxLengthIs
<1>3. QED
  BY <1>1, <1>2, FieldsTyped

-----------------------------------------------------------------------------
(* One lemma for each call. *)

LEMMA SetVersionKeepsSound == Sound /\ CallSetVersion => Sound'
<1> SUFFICES ASSUME Sound, CallSetVersion
             PROVE  Sound'
  OBVIOUS
<1>1. PICK v \in Versions :
         /\ Usable /\ UNCHANGED use
         /\ Finish("setVersion", v, << >>, IF v > 3 THEN Done(coap, 0)
                                           ELSE Done([coap EXCEPT !.pdu = SetVersion(@, v)], 1))
  BY DEF CallSetVersion
<1>2. v \in Nat
  BY CallsAssumption
<1>3. CASE v > 3
  <2>1. coap' = coap /\ call'.result = 0 /\ use' = use
    BY <1>1, <1>3 DEF Finish, Done
  <2>2. QED
    BY <2>1 DEF Sound, MaxLength, ShortMessages, Usable
<1>4. CASE ~(v > 3)
  <2>1. coap' = [coap EXCEPT !.pdu = SetVersion(coap.pdu, v)] /\ call'.result = 1 /\ use' = use
    BY <1>1, <1>4 DEF Finish, Done
  <2>2. v \in 0..3
    BY <1>2, <1>4
  <2>3. PICK b : b = SetVersion(coap.pdu, v) /\ SameToken(coap.pdu, b)
    BY <1>1, <2>2, HeaderThere, VersionSet
  <2>4. QED
    BY <1>1, <2>1, <2>3, EditKeeps
<1>5. QED
  BY <1>3, <1>4

LEMMA EditedSound ==
    ASSUME Sound, NEW op, NEW number, NEW b, Edit(op, number, b),
           Usable => SameToken(coap.pdu, b)
    PROVE  Sound'
<1>1. Usable /\ coap' = [coap EXCEPT !.pdu = b] /\ call'.result = 0 /\ use' = use
  BY DEF Edit, Finish, Done
<1>2. QED
  BY <1>1, EditKeeps

LEMMA SetTypeKeepsSound == Sound /\ CallSetType => Sound'
<1> SUFFICES ASSUME Sound, NEW t \in Types, Edit("setType", t, SetType(coap.pdu, t))
             PROVE  Sound'
  BY DEF CallSetType
<1>1. t \in HeaderTypes
  BY CallsAssumption DEF HeaderTypes
<1>2. Usable => SameToken(coap.pdu, SetType(coap.pdu, t))
  BY <1>1, HeaderThere, TypeSet
<1>3. QED
  BY <1>2, EditedSound

LEMMA SetCodeKeepsSound == Sound /\ CallSetCode => Sound'
<1> SUFFICES ASSUME Sound, NEW c \in Codes, Edit("setCode", c, SetCode(coap.pdu, c))
             PROVE  Sound'
  BY DEF CallSetCode
<1>1. c \in Byte
  BY CallsAssumption
<1>2. Usable => SameToken(coap.pdu, SetCode(coap.pdu, c))
  BY <1>1, HeaderThere, CodeSet
<1>3. QED
  BY <1>2, EditedSound

LEMMA SetMessageIDKeepsSound == Sound /\ CallSetMessageID => Sound'
<1> SUFFICES ASSUME Sound, NEW i \in MessageIDs, Edit("setMessageID", i, SetMessageID(coap.pdu, i))
             PROVE  Sound'
  BY DEF CallSetMessageID
<1>1. i \in Word
  BY CallsAssumption
<1>2. Usable => SameToken(coap.pdu, SetMessageID(coap.pdu, i))
  BY <1>1, HeaderThere, MessageIDSet
<1>3. QED
  BY <1>2, EditedSound

LEMMA SetTokenKeepsSound == Sound /\ CallSetToken => Sound'
<1> SUFFICES ASSUME Sound, NEW t \in Tokens, NEW mem \in Memory, MayMove, UNCHANGED use,
                    Finish("setToken", 0, t, SetToken(coap, t, mem))
             PROVE  Sound'
  BY DEF CallSetToken
<1>1. Usable /\ t \in Seq(Byte) /\ mem \in Memories
  BY MemoryIs, CallsAssumption DEF MayMove
<1>2. PICK d : d = SetToken(coap, t, mem) /\ Keeps(coap, d, mem)
  BY <1>1, HeaderThere, TokenSet
<1>3. coap' = d.object /\ call'.result = d.result /\ use' = use
  BY <1>2 DEF Finish
<1>4. QED
  BY <1>1, <1>2, <1>3, CallKeeps DEF Sound

\* A call that adds options.
LEMMA AddKeeps ==
    ASSUME Sound, Usable, NEW mem \in Memory, NEW op, NEW number, NEW bytes, NEW d,
           Extends(coap, d, mem), Add(op, number, bytes, d)
    PROVE  Sound'
<1>1. mem \in Memories
  BY MemoryIs
<1>2. Keeps(coap, d, mem)
  BY <1>1, HeaderThere, ExtendsKeeps
<1>3. coap' = d.object /\ call'.result = d.result /\ use' \in {use, "full"}
  BY DEF Add, Finish
<1>4. QED
  BY <1>2, <1>3, CallKeeps DEF Sound

LEMMA AddOptionKeepsSound == Sound /\ CallAddOption => Sound'
<1> SUFFICES ASSUME Sound, NEW n \in OptionNumbers, NEW v \in OptionValues, NEW mem \in Memory,
                    MayAdd(1), Add("addOption", n, v, AddOption(coap, n, v, mem))
             PROVE  Sound'
  BY DEF CallAddOption
<1>1. /\ Usable /\ mem \in Memories /\ n \in Word
      /\ v \in Seq(Byte) /\ Len(v) \in Word
  BY MemoryIs, CallsAssumption DEF MayAdd, MayMove
<1>2. PICK d : d = AddOption(coap, n, v, mem) /\ Extends(coap, d, mem)
  BY <1>1, HeaderThere, OptionAdded
<1>3. QED
  BY <1>1, <1>2, AddKeeps

LEMMA AddURIQueryKeepsSound == Sound /\ CallAddURIQuery => Sound'
<1> SUFFICES ASSUME Sound, NEW q \in Queries, NEW mem \in Memory,
                    MayAdd(1), Add("addURIQuery", 0, q, AddOption(coap, UriQuery, q, mem))
             PROVE  Sound'
  BY DEF CallAddURIQuery
<1>1. /\ Usable /\ mem \in Memories /\ UriQuery \in Word
      /\ q \in Seq(Byte) /\ Len(q) \in Word
  BY MemoryIs, CallsAssumption DEF MayAdd, MayMove, UriQuery, Word
<1>2. PICK d : d = AddOption(coap, UriQuery, q, mem) /\ Extends(coap, d, mem)
  BY <1>1, HeaderThere, OptionAdded
<1>3. QED
  BY <1>1, <1>2, AddKeeps

LEMMA SetContentFormatKeepsSound == Sound /\ CallSetContentFormat => Sound'
<1> SUFFICES ASSUME Sound, NEW f \in Formats, NEW mem \in Memory,
                    MayAdd(1), Add("setContentFormat", f, << >>, SetContentFormat(coap, f, mem))
             PROVE  Sound'
  BY DEF CallSetContentFormat
<1>1. Usable /\ mem \in Memories /\ f \in Word
  BY MemoryIs, CallsAssumption DEF MayAdd, MayMove
<1>2. PICK d : d = SetContentFormat(coap, f, mem) /\ Extends(coap, d, mem)
  BY <1>1, HeaderThere, FormatSet
<1>3. QED
  BY <1>1, <1>2, AddKeeps

LEMMA SetURIKeepsSound == Sound /\ CallSetURI => Sound'
<1> SUFFICES ASSUME Sound, NEW u \in URIs, NEW mem \in Memory, Usable,
                    Add("setURI", 0, u, SetURI(coap, u, mem))
             PROVE  Sound'
  BY DEF CallSetURI, MayAdd, MayMove
<1>1. mem \in Memories /\ u \in Values
  BY MemoryIs, CallsAssumption DEF Values
<1>2. PICK d : d = SetURI(coap, u, mem) /\ Extends(coap, d, mem)
  BY <1>1, HeaderThere, URISet
<1>3. QED
  BY <1>1, <1>2, AddKeeps

LEMMA SetPayloadKeepsSound == Sound /\ CallSetPayload => Sound'
<1> SUFFICES ASSUME Sound, NEW s \in Payloads, NEW mem \in Memory, Usable, UNCHANGED use,
                    Finish("setPayload", 0, s, SetPayload(coap, s, mem))
             PROVE  Sound'
  BY DEF CallSetPayload, MayMove
<1>1. s \in Seq(Byte) /\ mem \in Memories
  BY MemoryIs, CallsAssumption
<1>2. PICK d : d = SetPayload(coap, s, mem) /\ Keeps(coap, d, mem)
  BY <1>1, HeaderThere, PayloadSet
<1>3. coap' = d.object /\ call'.result = d.result /\ use' = use
  BY <1>2 DEF Finish
<1>4. QED
  BY <1>2, <1>3, CallKeeps DEF Sound

LEMMA ResetKeepsSound == Sound /\ CallReset => Sound'
<1> SUFFICES ASSUME Sound, CallReset
             PROVE  Sound'
  OBVIOUS
<1>1. coap' = Blank /\ call'.result = 0 /\ use' = "building"
  BY DEF CallReset, Finish, Done, ResetFields
<1>2. Blank \in Fields /\ Room(Blank) /\ Len(Blank.pdu) <= MaxLength
  BY NewRoom, MaxLengthIs DEF Sound
<1>3. Blank.payloadPointer \in Pointers
  BY <1>2 DEF Room
<1>4. QED
  BY <1>1, <1>2, <1>3 DEF Sound, MaxLength, ShortMessages

LEMMA ReceiveKeepsSound == Sound /\ Receive => Sound'
<1> SUFFICES ASSUME Sound, Receive
             PROVE  Sound'
  OBVIOUS
<1>1. PICK f \in Frames :
         /\ ~Owned /\ Len(f) <= BufferLength
         /\ LET done == Validate([coap EXCEPT !.pdu = f])
            IN  /\ Finish("validate", 0, f, done)
                /\ use' = IF done.result = 1 THEN "received" ELSE "rejected"
  BY DEF Receive
<1>2. PICK c : c = [coap EXCEPT !.pdu = f]
  OBVIOUS
<1>3. PICK d : d = Validate(c)
  OBVIOUS
<1>4. /\ coap' = d.object /\ call'.result = d.result
      /\ use' = IF d.result = 1 THEN "received" ELSE "rejected"
  BY <1>1, <1>2, <1>3 DEF Finish
<1>5. f \in Seq(Byte)
  BY CallsAssumption
<1>6. c \in Fields /\ c.pdu = f /\ c.payloadPointer \in Pointers
  BY <1>2, <1>5 DEF Sound, Fields
<1>7. Validated(c, d)
  BY <1>3, <1>6, ValidateValidates
<1>8. /\ d.object \in Fields /\ d.result \in {0, 1} /\ d.object.pdu = f
      /\ d.object.payloadPointer \in Pointers
      /\ d.result = 1 => Room(d.object)
  BY <1>6, <1>7 DEF Validated, Results
<1>9. Len(f) <= MaxLength
  BY <1>1, MaxLengthIs DEF Sound
<1>10. Usable' => d.result = 1
  BY <1>4 DEF Usable
<1>11. QED
  BY <1>4, <1>8, <1>9, <1>10 DEF Sound, MaxLength, ShortMessages

LEMMA InitSound == ShortMessages /\ Init => Sound
<1> SUFFICES ASSUME ShortMessages, Init
             PROVE  Sound
  OBVIOUS
<1>1. coap = New /\ use = "building" /\ call.result = 0
  BY DEF Init
<1>2. New \in Fields /\ Room(New) /\ Len(New.pdu) <= MaxLength
  BY NewRoom, MaxLengthIs
<1>3. New.payloadPointer \in Pointers
  BY <1>2 DEF Room
<1>4. QED
  BY <1>1, <1>2, <1>3 DEF Sound

LEMMA NextSound == Sound /\ [Next]_vars => Sound'
<1> SUFFICES ASSUME Sound, [Next]_vars
             PROVE  Sound'
  OBVIOUS
<1>1. CASE UNCHANGED vars
  BY <1>1 DEF Sound, vars, Usable, MaxLength, ShortMessages
<1>2. CASE Next
  BY <1>2, SetVersionKeepsSound, SetTypeKeepsSound, SetCodeKeepsSound, SetMessageIDKeepsSound,
     SetTokenKeepsSound, AddOptionKeepsSound, AddURIQueryKeepsSound, SetContentFormatKeepsSound,
     SetURIKeepsSound, SetPayloadKeepsSound, ResetKeepsSound, ReceiveKeepsSound DEF Next
<1>3. QED
  BY <1>1, <1>2

LEMMA AlwaysSound ==
    ASSUME ShortMessages
    PROVE  Spec => []Sound
<1>1. Init => Sound
  BY InitSound
<1>2. QED
  BY <1>1, NextSound, PTL DEF Spec

-----------------------------------------------------------------------------
(***************************************************************************)
(* The calls in the order of sendCoapMessage: options and token before the *)
(* payload, and an object that receives one frame before it is reset.      *)
(* Messages stay below 256 bytes, tokens have at most eight, as setToken's *)
(* comment asks, and no frame has an option whose number or length, of     *)
(* more than 16 bits, wraps as it is read.                                 *)
(***************************************************************************)
CallsInOrder ==
    /\ ~AnyOrder /\ ShortMessages
    /\ \A t \in Tokens : Len(t) <= 8
    /\ \A f \in Frames : NoWrap(f)

(***************************************************************************)
(* Then the bytes are laid out as a message, and the object's fields say   *)
(* where its parts are; as long as options may be added they are in order, *)
(* and the greatest number is the last's.  A frame only arrives at a new   *)
(* object.                                                                 *)
(***************************************************************************)
InShape(c, u) == \E s : Shaped(c, s) /\ (u = "building" /\ c.payloadLength = 0 => Open(c, s))

Orderly ==
    /\ Sound
    /\ Usable => InShape(coap, use)
    /\ call.op \in {"new", "reset"} => coap \in {New, Blank}

LEMMA EditInShape ==
    ASSUME Orderly, Usable, NEW f, HeaderOnly(coap.pdu, f), coap' = [coap EXCEPT !.pdu = f],
           use' = use, call'.op \notin {"new", "reset"}, Sound'
    PROVE  Orderly'
<1>1. PICK s : Shaped(coap, s) /\ (use = "building" /\ coap.payloadLength = 0 => Open(coap, s))
  BY DEF Orderly, InShape
<1>2. PICK o : o = WithBytes(coap, f)
  OBVIOUS
<1>3. Shaped(o, s) /\ (Open(coap, s) => Open(o, s))
  BY <1>1, <1>2, HeaderShaped
<1>4. coap' = o /\ o.payloadLength = coap.payloadLength
  BY <1>2 DEF WithBytes, Orderly, Sound, Fields
<1>5. InShape(o, use)
  BY <1>1, <1>3, <1>4 DEF InShape
<1>6. QED
  BY <1>4, <1>5 DEF Orderly

LEMMA HeaderInShape ==
    ASSUME Orderly, CallSetVersion \/ CallSetType \/ CallSetCode \/ CallSetMessageID, Sound'
    PROVE  Orderly'
<1>1. Sound
  BY DEF Orderly
<1>2. CASE CallSetVersion
  <2>1. PICK v \in Versions :
           /\ Usable /\ UNCHANGED use
           /\ Finish("setVersion", v, << >>, IF v > 3 THEN Done(coap, 0)
                                             ELSE Done([coap EXCEPT !.pdu = SetVersion(@, v)], 1))
    BY <1>2 DEF CallSetVersion
  <2>2. v \in Nat /\ call'.op \notin {"new", "reset"}
    BY <2>1, CallsAssumption DEF Finish
  <2>3. CASE v > 3
    <3>1. coap' = coap /\ use' = use
      BY <2>1, <2>3 DEF Finish, Done
    <3>2. QED
      BY <2>1, <2>2, <3>1 DEF Orderly, Usable
  <2>4. CASE ~(v > 3)
    <3>1. coap' = [coap EXCEPT !.pdu = SetVersion(coap.pdu, v)] /\ use' = use
      BY <2>1, <2>4 DEF Finish, Done
    <3>2. v \in 0..3
      BY <2>2, <2>4
    <3>3. HeaderOnly(coap.pdu, SetVersion(coap.pdu, v))
      BY <1>1, <2>1, <3>2, HeaderThere, HeaderSet
    <3>4. QED
      BY <2>1, <2>2, <3>1, <3>3, EditInShape
  <2>5. QED
    BY <2>3, <2>4
<1>3. ASSUME NEW op, NEW number, NEW f, Edit(op, number, f), op \notin {"new", "reset"},
             Usable => HeaderOnly(coap.pdu, f)
      PROVE  Orderly'
  <2>1. /\ Usable /\ coap' = [coap EXCEPT !.pdu = f] /\ use' = use
        /\ call'.op \notin {"new", "reset"}
    BY <1>3 DEF Edit, Finish, Done
  <2>2. QED
    BY <1>3, <2>1, EditInShape
<1>4. CASE CallSetType
  <2>1. PICK t \in Types : Edit("setType", t, SetType(coap.pdu, t))
    BY <1>4 DEF CallSetType
  <2>2. t \in HeaderTypes
    BY CallsAssumption DEF HeaderTypes
  <2>3. Usable => HeaderOnly(coap.pdu, SetType(coap.pdu, t))
    BY <1>1, <2>2, HeaderThere, HeaderSet
  <2>4. QED
    BY <1>3, <2>1, <2>3
<1>5. CASE CallSetCode
  <2>1. PICK c \in Codes : Edit("setCode", c, SetCode(coap.pdu, c))
    BY <1>5 DEF CallSetCode
  <2>2. c \in Byte
    BY CallsAssumption
  <2>3. Usable => HeaderOnly(coap.pdu, SetCode(coap.pdu, c))
    BY <1>1, <2>2, HeaderThere, HeaderSet
  <2>4. QED
    BY <1>3, <2>1, <2>3
<1>6. CASE CallSetMessageID
  <2>1. PICK i \in MessageIDs : Edit("setMessageID", i, SetMessageID(coap.pdu, i))
    BY <1>6 DEF CallSetMessageID
  <2>2. i \in Word
    BY CallsAssumption
  <2>3. Usable => HeaderOnly(coap.pdu, SetMessageID(coap.pdu, i))
    BY <1>1, <2>2, HeaderThere, HeaderSet
  <2>4. QED
    BY <1>3, <2>1, <2>3
<1>7. QED
  BY <1>2, <1>4, <1>5, <1>6

LEMMA TokenInShape ==
    ASSUME CallsInOrder, Orderly, CallSetToken, Sound'
    PROVE  Orderly'
<1>1. PICK t \in Tokens, mem \in Memory :
         MayMove /\ UNCHANGED use /\ Finish("setToken", 0, t, SetToken(coap, t, mem))
  BY DEF CallSetToken
<1>2. Sound /\ Usable /\ coap.payloadLength = 0 /\ call'.op \notin {"new", "reset"} /\ use' = use
  BY <1>1 DEF Orderly, CallsInOrder, MayMove, Finish
<1>3. t \in Seq(Byte) /\ Len(t) <= 8 /\ mem \in Memories
  BY <1>2, MemoryIs, CallsAssumption DEF CallsInOrder
<1>4. Len(coap.pdu) < 256
  BY <1>2, HeaderThere
<1>5. PICK s : Shaped(coap, s) /\ (use = "building" /\ coap.payloadLength = 0 => Open(coap, s))
  BY <1>2 DEF Orderly, InShape
<1>6. PICK d : d = SetToken(coap, t, mem) /\ Retokened(coap, s, d)
  BY <1>2, <1>3, <1>4, <1>5, TokenSetShaped
<1>7. PICK r : /\ Shaped(d.object, r) /\ d.object.payloadLength = 0
               /\ Open(coap, s) => Open(d.object, r)
  BY <1>6 DEF Retokened
<1>8. coap' = d.object
  BY <1>1, <1>6 DEF Finish
<1>9. InShape(d.object, use)
  BY <1>2, <1>5, <1>7 DEF InShape
<1>10. QED
  BY <1>2, <1>8, <1>9 DEF Orderly

\* A call that adds options to a message that is being built: it ends the building
\* unless all of them have been added.
LEMMA AddInShape ==
    ASSUME Orderly, Sound', NEW s, Open(coap, s), use = "building",
           NEW n, NEW vs, NEW m, NEW d, PutOrTold(coap, s, n, vs, m, d),
           NEW op, NEW number, NEW bytes, Add(op, number, bytes, d), op \notin {"new", "reset"}
    PROVE  Orderly'
<1>1. /\ coap' = d.object /\ call'.op \notin {"new", "reset"}
      /\ use' = IF d.result = 0 /\ d.object.pdu # coap.pdu THEN use ELSE "full"
  BY DEF Add, Finish
<1>2. PICK t, k : /\ Shaped(d.object, t) /\ d.object.payloadLength = 0
                  /\ m = Len(vs) => Open(d.object, t)
  BY DEF PartAdded, PutOrTold
<1>3. use' = "building" => Open(d.object, t)
  BY <1>1, <1>2 DEF PutOrTold
<1>4. InShape(d.object, use')
  BY <1>2, <1>3 DEF InShape
<1>5. QED
  BY <1>1, <1>4 DEF Orderly

LEMMA OptionsInShape ==
    ASSUME CallsInOrder, Orderly, Sound',
           CallAddOption \/ CallAddURIQuery \/ CallSetContentFormat \/ CallSetURI
    PROVE  Orderly'
<1>1. ASSUME NEW k, MayAdd(k)
      PROVE  use = "building" /\ \E s : Open(coap, s)
  <2>1. Usable /\ coap.payloadLength = 0 /\ use = "building"
    BY <1>1 DEF MayAdd, MayMove, CallsInOrder
  <2>2. InShape(coap, use)
    BY <2>1 DEF Orderly
  <2>3. QED
    BY <2>1, <2>2 DEF InShape
<1>2. ASSUME NEW mem \in Memory
      PROVE  mem \in Memories
  BY MemoryIs DEF Orderly
<1>3. CASE CallAddOption
  <2>1. PICK n \in OptionNumbers, v \in OptionValues, mem \in Memory :
           MayAdd(1) /\ Add("addOption", n, v, AddOption(coap, n, v, mem))
    BY <1>3 DEF CallAddOption
  <2>2. n \in Word /\ v \in Seq(Byte) /\ Len(v) \in Word
    BY CallsAssumption
  <2>3. PICK s : Open(coap, s)
    BY <1>1, <2>1
  <2>4. PICK d : /\ d = AddOption(coap, n, v, mem) /\ Added(coap, s, n, << v >>, d)
                 /\ d.result # 0 => d.object.pdu = coap.pdu
    BY <1>2, <2>2, <2>3, OptionAddedTo
  <2>5. PICK m : PutOrTold(coap, s, n, << v >>, m, d)
    BY <2>4 DEF Added, PutOrTold
  <2>6. QED
    BY <1>1, <2>1, <2>3, <2>4, <2>5, AddInShape
<1>4. CASE CallAddURIQuery
  <2>1. PICK q \in Queries, mem \in Memory :
           MayAdd(1) /\ Add("addURIQuery", 0, q, AddOption(coap, UriQuery, q, mem))
    BY <1>4 DEF CallAddURIQuery
  <2>2. UriQuery \in Word /\ q \in Seq(Byte) /\ Len(q) \in Word
    BY CallsAssumption DEF UriQuery, Word
  <2>3. PICK s : Open(coap, s)
    BY <1>1, <2>1
  <2>4. PICK d : d = AddOption(coap, UriQuery, q, mem) /\ Added(coap, s, UriQuery, << q >>, d)
    BY <1>2, <2>2, <2>3, OptionAddedTo
  <2>5. PICK m : PutOrTold(coap, s, UriQuery, << q >>, m, d)
    BY <2>4 DEF Added, PutOrTold
  <2>6. QED
    BY <1>1, <2>1, <2>3, <2>4, <2>5, AddInShape
<1>5. CASE CallSetContentFormat
  <2>1. PICK f \in Formats, mem \in Memory :
           MayAdd(1) /\ Add("setContentFormat", f, << >>, SetContentFormat(coap, f, mem))
    BY <1>5 DEF CallSetContentFormat
  <2>2. f \in Word
    BY CallsAssumption
  <2>3. PICK s : Open(coap, s)
    BY <1>1, <2>1
  <2>4. PICK vs, d : /\ vs = << FormatValue(f) >> /\ d = SetContentFormat(coap, f, mem)
                     /\ Added(coap, s, ContentFormat, vs, d)
    BY <1>2, <2>2, <2>3, FormatAdded
  <2>5. PICK m : PutOrTold(coap, s, ContentFormat, vs, m, d)
    BY <2>4 DEF Added, PutOrTold
  <2>6. QED
    BY <1>1, <2>1, <2>3, <2>4, <2>5, AddInShape
<1>6. CASE CallSetURI
  <2>1. PICK u \in URIs, mem \in Memory :
           /\ MayAdd(IF u = << >> THEN 0 ELSE IF Len(u) = 1 THEN 1 ELSE Len(SegmentsFrom(u)))
           /\ Add("setURI", 0, u, SetURI(coap, u, mem))
    BY <1>6 DEF CallSetURI
  <2>2. u \in Values
    BY CallsAssumption DEF Values
  <2>3. PICK s : Open(coap, s) /\ use = "building"
    BY <1>1, <2>1
  <2>4. PICK vs, d : /\ vs = PathOf(u) /\ d = SetURI(coap, u, mem)
                     /\ PathSet(coap, s, u, vs, d)
    BY <1>2, <2>2, <2>3, URIAdded
  <2>5. PICK m : PutOrTold(coap, s, UriPath, vs, m, d)
    BY <2>4 DEF PathSet
  <2>6. QED
    BY <2>1, <2>3, <2>4, <2>5, AddInShape
<1>7. QED
  BY <1>3, <1>4, <1>5, <1>6

LEMMA PayloadInShape ==
    ASSUME CallsInOrder, Orderly, CallSetPayload, Sound'
    PROVE  Orderly'
<1>1. PICK x \in Payloads, mem \in Memory :
         /\ MayMove \/ (Usable /\ (~Owned \/ Len(x) = coap.payloadLength))
         /\ UNCHANGED use
         /\ Finish("setPayload", 0, x, SetPayload(coap, x, mem))
  BY DEF CallSetPayload
<1>2. Usable /\ call'.op \notin {"new", "reset"} /\ use' = use
  BY <1>1 DEF MayMove, Finish
<1>3. x \in Seq(Byte) /\ mem \in Memories
  BY MemoryIs, CallsAssumption DEF Orderly
<1>4. mem.moves => coap.payloadLength \in {0, Len(x)}
  <2>1. CASE Owned
    BY <1>1, <2>1 DEF MayMove, CallsInOrder
  <2>2. CASE ~Owned
    BY <2>2 DEF Memory
  <2>3. QED
    BY <2>1, <2>2
<1>5. PICK s : Shaped(coap, s) /\ (use = "building" /\ coap.payloadLength = 0 => Open(coap, s))
  BY <1>2 DEF Orderly, InShape
<1>6. PICK d : d = SetPayload(coap, x, mem) /\ PayloadPut(coap, s, x, d)
  BY <1>3, <1>4, <1>5, PayloadSetShaped
<1>7. coap' = d.object
  BY <1>1, <1>6 DEF Finish
<1>8. CASE d = Done(coap, 1)
  <2>1. coap' = coap
    BY <1>7, <1>8 DEF Done
  <2>2. QED
    BY <1>2, <2>1 DEF Orderly, Usable
<1>9. CASE x # << >> /\ Shaped(d.object, s) /\ d.object.payloadLength = Len(x)
  <2>1. d.object.payloadLength # 0
    BY <1>3, <1>9, EmptySeq
  <2>2. InShape(d.object, use)
    BY <1>9, <2>1 DEF InShape
  <2>3. QED
    BY <1>2, <1>7, <2>2 DEF Orderly
<1>10. QED
  BY <1>6, <1>8, <1>9 DEF PayloadPut

LEMMA ResetInShape ==
    ASSUME Orderly, CallReset, Sound'
    PROVE  Orderly'
<1>1. coap' = Blank /\ use' = "building"
  BY DEF CallReset, Finish, Done, ResetFields
<1>2. Open(Blank, << >>)
  BY StartsOpen
<1>3. InShape(Blank, "building")
  BY <1>2 DEF InShape, Open
<1>4. QED
  BY <1>1, <1>3 DEF Orderly

LEMMA ReceivedInShape ==
    ASSUME CallsInOrder, Orderly, Receive, Sound'
    PROVE  Orderly'
<1>1. PICK f \in Frames :
         /\ AnyOrder \/ call.op \in {"new", "reset"}
         /\ LET done == Validate([coap EXCEPT !.pdu = f])
            IN  /\ Finish("validate", 0, f, done)
                /\ use' = IF done.result = 1 THEN "received" ELSE "rejected"
  BY DEF Receive
<1>2. PICK c, d : c = [coap EXCEPT !.pdu = f] /\ d = Validate(c)
  OBVIOUS
<1>3. /\ coap' = d.object /\ call'.op \notin {"new", "reset"}
      /\ use' = IF d.result = 1 THEN "received" ELSE "rejected"
  BY <1>1, <1>2 DEF Finish
<1>4. coap \in {New, Blank} /\ coap \in Fields /\ f \in Seq(Byte) /\ NoWrap(f)
  BY <1>1, CallsAssumption DEF Orderly, Sound, CallsInOrder
<1>5. coap.payloadPointer = NULL
  BY <1>4, StartsOpen
<1>6. c \in Fields /\ c.pdu = f /\ c.payloadPointer = NULL
  BY <1>2, <1>4, <1>5 DEF Fields
<1>7. CASE d.result = 1
  <2>1. PICK s : Shaped(d.object, s)
    BY <1>2, <1>4, <1>6, <1>7, ValidShaped
  <2>2. use' = "received"
    BY <1>3, <1>7
  <2>3. InShape(d.object, use')
    BY <2>1, <2>2 DEF InShape
  <2>4. QED
    BY <1>3, <2>3 DEF Orderly
<1>8. CASE d.result # 1
  <2>1. ~Usable'
    BY <1>3, <1>8 DEF Usable
  <2>2. QED
    BY <1>3, <2>1 DEF Orderly
<1>9. QED
  BY <1>7, <1>8

LEMMA InitOrderly == ShortMessages /\ Init => Orderly
<1> SUFFICES ASSUME ShortMessages, Init
             PROVE  Orderly
  OBVIOUS
<1>1. coap = New /\ use = "building"
  BY DEF Init
<1>2. Open(New, << >>)
  BY StartsOpen
<1>3. InShape(New, "building")
  BY <1>2 DEF InShape, Open
<1>4. QED
  BY <1>1, <1>3, InitSound DEF Orderly

LEMMA NextOrderly ==
    ASSUME CallsInOrder, Orderly, [Next]_vars
    PROVE  Orderly'
<1>1. Sound /\ Sound'
  BY NextSound DEF Orderly
<1>2. CASE UNCHANGED vars
  BY <1>1, <1>2 DEF Orderly, vars, Usable
<1>3. CASE Next
  BY <1>1, <1>3, HeaderInShape, TokenInShape, OptionsInShape, PayloadInShape, ResetInShape,
     ReceivedInShape DEF Next
<1>4. QED
  BY <1>2, <1>3

LEMMA AlwaysOrderly ==
    ASSUME CallsInOrder
    PROVE  Spec => []Orderly
<1>1. Orderly /\ [Next]_vars => Orderly'
  BY NextOrderly
<1>2. Init => Orderly
  BY InitOrderly DEF CallsInOrder
<1>3. QED
  BY <1>1, <1>2, PTL DEF Spec

\* A usable message is laid out, and the fields are about it.
LayoutOf(c, s, n, first, end) ==
    /\ Shaped(c, s) /\ Laid(c.pdu, s, n) /\ n = c.payloadLength /\ LaidAs(c.pdu, s, n, first, end)

LEMMA UsableIsLaid ==
    ASSUME Orderly, Usable
    PROVE  /\ coap \in Fields
           /\ \E s : \E n, first, end \in Nat : LayoutOf(coap, s, n, first, end)
<1>1. PICK s : Shaped(coap, s)
  BY DEF Orderly, InShape
<1>2. PICK n \in Nat : n = coap.payloadLength /\ Laid(coap.pdu, s, n)
  BY <1>1 DEF Shaped, Laid
<1>3. PICK first \in Nat, end \in Nat : LaidAs(coap.pdu, s, n, first, end)
  BY <1>2, LaidIs
<1>4. LayoutOf(coap, s, n, first, end)
  BY <1>1, <1>2, <1>3 DEF LayoutOf
<1>5. QED
  BY <1>1, <1>4 DEF Shaped

LEMMA OrderlyWithin == Orderly => OptionsWithin
<1> SUFFICES ASSUME Orderly, Usable
             PROVE  coap.numOptions <= Len(OptionsOf(coap.pdu))
  BY DEF OptionsWithin
<1>1. PICK s, n, first, end : LayoutOf(coap, s, n, first, end)
  BY UsableIsLaid
<1>2. s = OptionsOf(coap.pdu) /\ coap.numOptions <= Len(s)
  BY <1>1 DEF LayoutOf, LaidAs, Shaped
<1>3. QED
  BY <1>2

LEMMA OrderlyFinds == Orderly => PayloadFound
<1> SUFFICES ASSUME Orderly, Usable
             PROVE  /\ coap.payloadLength = Len(PayloadOf(coap.pdu))
                    /\ coap.payloadLength > 0 => GetPayloadCopy(coap) = PayloadOf(coap.pdu)
  BY DEF PayloadFound
<1>1. PICK s : \E n, first, end \in Nat : LayoutOf(coap, s, n, first, end)
  BY UsableIsLaid
<1>2. PICK n \in Nat, first \in Nat, end \in Nat : LayoutOf(coap, s, n, first, end)
  BY <1>1
<1>3. coap \in Fields /\ coap.pdu \in Seq(Byte)
  BY UsableIsLaid, FieldsTyped
<1>4. PayloadOf(coap.pdu) = Slice(coap.pdu, end + 1, n) /\ Len(PayloadOf(coap.pdu)) = n
  BY <1>2, <1>3, PayloadIs DEF LayoutOf
<1>5. n = coap.payloadLength /\ end = OptionsEnd(coap.pdu)
      /\ coap.payloadPointer = IF n = 0 THEN NULL ELSE end + 1
  BY <1>2 DEF LayoutOf, LaidAs, Shaped
<1>6. n > 0 => GetPayloadCopy(coap) = Slice(coap.pdu, end + 1, n)
  BY <1>5 DEF GetPayloadCopy
<1>7. QED
  BY <1>4, <1>5, <1>6

LEMMA OrderlyIsValid == Orderly => ValidAsSent
<1>1. PICK b, c : b = coap.pdu /\ c = [New EXCEPT !.pdu = b]
  OBVIOUS
<1> SUFFICES ASSUME Orderly, Usable, GetCode(b) \in ValidCodes
             PROVE  /\ Validate(c).result = 1
                    /\ Validate(c).object.numOptions = Len(OptionsOf(b))
                    /\ GetPayloadCopy(Validate(c).object) = PayloadOf(b)
  BY <1>1 DEF ValidAsSent
<1>2. PICK s : \E n, first, end \in Nat : LayoutOf(coap, s, n, first, end)
  BY UsableIsLaid
<1>3. PICK n \in Nat, first \in Nat, end \in Nat : LayoutOf(coap, s, n, first, end)
  BY <1>2
<1>4. Laid(b, s, n) /\ s = OptionsOf(b) /\ b \in Seq(Byte)
  BY <1>1, <1>3 DEF LayoutOf, LaidAs, Laid
<1>5. c \in Fields /\ c.pdu = b
  BY <1>1, <1>4, NewRoom DEF Fields
<1>6. Received(c, Validate(c), s)
  BY <1>4, <1>5, LaidValidates
<1>7. QED
  BY <1>4, <1>5, <1>6 DEF Received

-----------------------------------------------------------------------------
(***************************************************************************)
(* The refinement: what the bytes mean.  Meaning() reads a message from    *)
(* its bytes; a call is a step of CoapMessage when it changes in that      *)
(* reading what the step of its name changes there, and no more.  First    *)
(* the parts of a message that a change of its bytes leaves as they were.  *)
(***************************************************************************)
\* The same version, type, code and ID.
SameFields(b, f) == f[1] \div 16 = b[1] \div 16 /\ \A j \in 2..4 : f[j] = b[j]

FieldsAs(b, f) ==
    /\ GetVersion(f) = GetVersion(b) /\ GetType(f) = GetType(b)
    /\ GetCode(f) = GetCode(b) /\ GetMessageID(f) = GetMessageID(b)

LEMMA QuarterOf ==
    ASSUME NEW x \in Byte
    PROVE  x \div 64 = (x \div 16) \div 4
<1>1. PICK h \in 0..3, l \in 0..63 : x = 64 * h + l
  <2>1. x \div 64 \in 0..3 /\ x % 64 \in 0..63 /\ x = 64 * (x \div 64) + (x % 64)
    BY DEF Byte
  <2>2. QED
    BY <2>1
<1>2. PICK g \in 0..3, m \in 0..15 : l = 16 * g + m
  <2>1. l \div 16 \in 0..3 /\ l % 16 \in 0..15 /\ l = 16 * (l \div 16) + (l % 16)
    OBVIOUS
  <2>2. QED
    BY <2>1
<1>3. x = 16 * (4 * h + g) + m
  BY <1>1, <1>2
<1>4. x \div 16 = 4 * h + g
  BY <1>2, <1>3
<1>5. (4 * h + g) \div 4 = h
  BY <1>2
<1>6. x \div 64 = h
  BY <1>1
<1>7. QED
  BY <1>4, <1>5, <1>6

LEMMA FieldsRead ==
    ASSUME NEW b \in Seq(Byte), NEW f \in Seq(Byte), Len(b) >= 4, Len(f) >= 4, SameFields(b, f)
    PROVE  FieldsAs(b, f)
<1>1. PICK x \in Byte, y \in Byte : x = b[1] /\ y = f[1] /\ y \div 16 = x \div 16
  <2>1. 1 \in 1..Len(b) /\ 1 \in 1..Len(f)
    BY LenProperties
  <2>2. b[1] \in Byte /\ f[1] \in Byte
    BY <2>1, ElementOfSeq
  <2>3. QED
    BY <2>2 DEF SameFields
<1>2. y \div 64 = x \div 64
  <2>1. x \div 64 = (x \div 16) \div 4 /\ y \div 64 = (y \div 16) \div 4
    BY QuarterOf
  <2>2. QED
    BY <1>1, <2>1
<1>3. 2 \in 2..4 /\ 3 \in 2..4 /\ 4 \in 2..4
  OBVIOUS
<1>4. f[2] = b[2] /\ f[3] = b[3] /\ f[4] = b[4]
  BY <1>3 DEF SameFields
<1>5. At(f, 3) = At(b, 3) /\ At(f, 3 + 1) = At(b, 3 + 1)
  <2>1. 3 \in 1..Len(b) /\ 3 \in 1..Len(f) /\ 4 \in 1..Len(b) /\ 4 \in 1..Len(f)
    BY LenProperties
  <2>2. DOMAIN b = 1..Len(b) /\ DOMAIN f = 1..Len(f)
    BY LenProperties
  <2>3. QED
    BY <1>4, <2>1, <2>2 DEF At
<1>6. GetMessageID(f) = GetMessageID(b)
  BY <1>5 DEF GetMessageID, FromTwoBytes
<1>7. GetVersion(f) = GetVersion(b)
  BY <1>1, <1>2 DEF GetVersion
<1>8. GetType(f) = GetType(b)
  BY <1>1 DEF GetType
<1>9. GetCode(f) = GetCode(b)
  BY <1>4 DEF GetCode
<1>10. QED
  BY <1>6, <1>7, <1>8, <1>9 DEF FieldsAs

LEMMA TokenRead ==
    ASSUME NEW b \in Seq(Byte), NEW f \in Seq(Byte), NEW k \in Nat, k = GetTokenLength(b),
           GetTokenLength(f) = k, Len(b) >= 4 + k, Len(f) >= 4 + k,
           \A j \in 5..(4 + k) : f[j] = b[j]
    PROVE  TokenOf(f) = TokenOf(b)
<1>1. DOMAIN b = 1..Len(b) /\ DOMAIN f = 1..Len(f) /\ Len(b) \in Nat /\ Len(f) \in Nat
  BY LenProperties
<1>2. ASSUME NEW j \in 1..k
      PROVE  At(f, HeaderSize + 1 + j - 1) = At(b, HeaderSize + 1 + j - 1)
  <2>1. PICK i \in 5..(4 + k) : i = HeaderSize + 1 + j - 1
    BY DEF HeaderSize
  <2>2. i \in 1..Len(b) /\ i \in 1..Len(f)
    BY <1>1, <2>1
  <2>3. QED
    BY <1>1, <2>1, <2>2 DEF At
<1>3. Slice(f, HeaderSize + 1, k) = Slice(b, HeaderSize + 1, k)
  BY <1>2 DEF Slice
<1>4. QED
  BY <1>3 DEF TokenOf

\* The header and the token stay.
HeadAs(b, f) == FieldsAs(b, f) /\ TokenOf(f) = TokenOf(b)

LEMMA HeadRead ==
    ASSUME NEW b \in Seq(Byte), NEW f \in Seq(Byte), NEW k \in Nat, k = GetTokenLength(b),
           Len(b) >= 4 + k, Len(f) >= 4 + k, HeadKept(b, f)
    PROVE  HeadAs(b, f)
<1>1. Len(b) >= 4 /\ Len(f) >= 4 /\ Len(b) > 0
  BY LenProperties
<1>2. FirstOption(b) = 5 + k
  BY <1>1, FirstOptionIs
<1>3. \A j \in 1..(4 + k) : f[j] = b[j]
  <2>1. 5 + k - 1 = 4 + k
    OBVIOUS
  <2>2. QED
    BY <1>2, <2>1 DEF HeadKept
<1>4. 1 \in 1..(4 + k) /\ (\A j \in 2..4 : j \in 1..(4 + k)) /\ \A j \in 5..(4 + k) : j \in 1..(4 + k)
  OBVIOUS
<1>5. f[1] = b[1]
  BY <1>3, <1>4
<1>6. GetTokenLength(f) = k
  BY <1>5 DEF GetTokenLength
<1>7. SameFields(b, f)
  BY <1>3, <1>4, <1>5 DEF SameFields
<1>8. TokenOf(f) = TokenOf(b)
  BY <1>3, <1>4, <1>6, TokenRead
<1>9. QED
  BY <1>1, <1>7, <1>8, FieldsRead DEF HeadAs

\* A message of these parts.
Parts(version, type, code, id, token, options, payload) ==
    [version |-> version, type |-> type, code |-> code, id |-> id,
     token |-> token, options |-> options, payload |-> payload]

\* The options without their places.
Contents(s) == [i \in DOMAIN s |-> NumberAndValue(s[i])]

LEMMA MeaningIs ==
    ASSUME NEW b
    PROVE  Meaning(b) = Parts(GetVersion(b), GetType(b), GetCode(b), GetMessageID(b), TokenOf(b),
                              Contents(OptionsOf(b)), PayloadOf(b))
  BY DEF Meaning, Parts, Contents

LEMMA ContentsEqual ==
    ASSUME NEW s, NEW r, SameOptions(s, r)
    PROVE  Contents(r) = Contents(s)
<1>1. s \in Seq(Option) /\ r \in Seq(Option) /\ Len(r) = Len(s)
  BY DEF SameOptions
<1>2. DOMAIN r = DOMAIN s /\ DOMAIN s = 1..Len(s)
  BY <1>1, LenProperties
<1>3. \A k \in DOMAIN s : NumberAndValue(r[k]) = NumberAndValue(s[k])
  BY <1>2 DEF SameOptions, NumberAndValue
<1>4. QED
  BY <1>2, <1>3 DEF Contents

\* The same options and payload.
RestAs(b, f) == OptionsOf(f) = OptionsOf(b) /\ PayloadOf(f) = PayloadOf(b)

\* A payload is what stands behind the options.
LEMMA PayloadReads ==
    ASSUME NEW b, NEW s, NEW n, Laid(b, s, n), NEW f, NEW r, Laid(f, r, n), NEW d \in Int,
           OptionsEnd(f) = OptionsEnd(b) + d,
           Agree(b, f, OptionsEnd(b) + 1, Len(b) + 1, d)
    PROVE  PayloadOf(f) = PayloadOf(b)
<1>1. b \in Seq(Byte) /\ f \in Seq(Byte) /\ n \in Nat
  BY DEF Laid
<1>2. PICK first \in Nat, end \in Nat : LaidAs(b, s, n, first, end)
  BY LaidIs
<1>3. PICK start \in Nat, stop \in Nat : LaidAs(f, r, n, start, stop)
  BY LaidIs
<1>4. PayloadOf(b) = Slice(b, end + 1, n) /\ PayloadOf(f) = Slice(f, stop + 1, n)
  BY <1>1, <1>2, <1>3, PayloadIs
<1>5. PICK l \in Nat, m \in Nat :
         /\ l = Len(b) /\ m = Len(f) /\ stop = end + d /\ end >= 1 /\ stop >= 1
         /\ l + 1 = end + (IF n = 0 THEN 0 ELSE n + 1) /\ m + 1 = stop + (IF n = 0 THEN 0 ELSE n + 1)
  <2>1. OptionsEnd(b) = end /\ OptionsEnd(f) = stop
    BY <1>2, <1>3 DEF LaidAs
  <2>2. Len(b) \in Nat /\ first >= 5 /\ first <= end /\ Len(b) + 1 = end + (IF n = 0 THEN 0 ELSE n + 1)
    BY <1>2 DEF LaidAs
  <2>3. Len(f) \in Nat /\ start >= 5 /\ start <= stop /\ Len(f) + 1 = stop + (IF n = 0 THEN 0 ELSE n + 1)
    BY <1>3 DEF LaidAs
  <2>4. stop = end + d
    BY <2>1
  <2>5. end >= 1 /\ stop >= 1
    BY <2>2, <2>3
  <2>6. QED
    BY <2>2, <2>3, <2>4, <2>5
<1>6. Agree(b, f, end + 1, l + 1, d)
  <2>1. OptionsEnd(b) = end
    BY <1>2 DEF LaidAs
  <2>2. QED
    BY <1>5, <2>1
<1>7. ASSUME NEW j \in 1..n
      PROVE  At(f, stop + 1 + j - 1) = At(b, end + 1 + j - 1)
  <2>1. PICK i \in Nat, h \in Nat : /\ i = end + 1 + j - 1 /\ h = stop + 1 + j - 1 /\ h = i + d
                                    /\ i \in (end + 1)..l /\ i \in 1..l /\ h \in 1..m
    <3>1. PICK i \in Nat, h \in Nat : i = end + j /\ h = stop + j
      OBVIOUS
    <3>2. n \in Nat /\ n >= 1 /\ j \in Nat /\ j <= n /\ j >= 1
      BY <1>1
    <3>6. l = end + n /\ m = stop + n
      BY <1>5, <3>2
    <3>3. i >= end + 1 /\ i <= l /\ i >= 1 /\ h >= 1 /\ h <= m
      BY <1>5, <3>1, <3>2, <3>6
    <3>4. h = i + d
      BY <1>5, <3>1
    <3>5. QED
      BY <3>1, <3>3, <3>4
  <2>2. f[h] = b[i]
    <3>1. i \in (end + 1)..(l + 1 - 1)
      BY <2>1
    <3>2. QED
      BY <1>6, <2>1, <3>1 DEF Agree
  <2>3. DOMAIN b = 1..l /\ DOMAIN f = 1..m
    BY <1>1, <1>5, LenProperties
  <2>4. QED
    BY <2>1, <2>2, <2>3 DEF At
<1>8. Slice(f, stop + 1, n) = Slice(b, end + 1, n)
  BY <1>7 DEF Slice
<1>9. QED
  BY <1>4, <1>8

\* The header's setters leave the token, the options and the payload.
BodyAs(b, f) == TokenOf(f) = TokenOf(b) /\ RestAs(b, f)

LEMMA HeaderReads ==
    ASSUME NEW b, NEW s, NEW n, Laid(b, s, n), NEW f, HeaderOnly(b, f)
    PROVE  BodyAs(b, f)
<1>1. b \in Seq(Byte) /\ f \in Seq(Byte) /\ Len(f) = Len(b) /\ \A j \in 5..Len(b) : f[j] = b[j]
  BY DEF Laid, HeaderOnly
<1>2. Laid(f, s, n) /\ OptionsEnd(f) = OptionsEnd(b)
  BY LaidHeader
<1>3. PICK first \in Nat, end \in Nat : LaidAs(b, s, n, first, end)
  BY LaidIs
<1>4. PICK start \in Nat, stop \in Nat : LaidAs(f, s, n, start, stop)
  BY <1>2, LaidIs
<1>5. OptionsOf(f) = OptionsOf(b)
  BY <1>3, <1>4 DEF LaidAs
<1>6. PICK k \in Nat, l \in Nat : k = GetTokenLength(b) /\ l = Len(b) /\ l >= 4 + k /\ OptionsEnd(b) >= 5
                                  /\ OptionsEnd(b) \in Nat
  <2>1. /\ Len(b) \in Nat /\ first >= 5 /\ first <= end /\ Len(b) + 1 = end + (IF n = 0 THEN 0 ELSE n + 1)
        /\ first = 5 + GetTokenLength(b) /\ GetTokenLength(b) \in 0..8 /\ OptionsEnd(b) = end
    BY <1>3 DEF LaidAs
  <2>2. n \in Nat
    BY DEF Laid
  <2>3. PICK k \in Nat, l \in Nat : k = GetTokenLength(b) /\ l = Len(b)
    BY <2>1
  <2>4. l >= 4 + k /\ end >= 5
    BY <2>1, <2>2, <2>3
  <2>5. QED
    BY <2>1, <2>3, <2>4
<1>7. GetTokenLength(f) = k
  BY <1>6 DEF HeaderOnly
<1>8. \A j \in 5..(4 + k) : f[j] = b[j]
  BY <1>1, <1>6
<1>9. TokenOf(f) = TokenOf(b)
  BY <1>1, <1>6, <1>7, <1>8, TokenRead
<1>10. Agree(b, f, OptionsEnd(b) + 1, Len(b) + 1, 0)
  BY <1>1, <1>6 DEF Agree
<1>11. PayloadOf(f) = PayloadOf(b)
  <2>1. OptionsEnd(f) = OptionsEnd(b) + 0 /\ 0 \in Int
    BY <1>2, <1>6
  <2>2. QED
    BY <1>2, <1>10, <2>1, PayloadReads
<1>12. QED
  BY <1>5, <1>9, <1>11 DEF BodyAs, RestAs

-----------------------------------------------------------------------------
(***************************************************************************)
(* The header: each setter's bits, read back, and the others as they were. *)
(***************************************************************************)
\* The first byte: two bits of version, two of type, four of token length.
FirstByte(y, h, k, l) == y = 64 * h + 16 * k + l

PartsOf(y, h, k, l) ==
    /\ y \in Byte /\ y \div 64 = h /\ (y \div 16) % 4 = k
    /\ y % 16 = l /\ y % 64 = 16 * k + l

LEMMA FirstByteHas ==
    ASSUME NEW h \in 0..3, NEW k \in 0..3, NEW l \in 0..15, NEW y, FirstByte(y, h, k, l)
    PROVE  PartsOf(y, h, k, l)
<1>1. PICK m \in 0..63 : m = 16 * k + l
  OBVIOUS
<1>2. y = 64 * h + m /\ y \in 0..255
  BY <1>1 DEF FirstByte
<1>3. y \div 64 = h /\ y % 64 = m
  BY <1>2
<1>4. PICK g \in 0..15 : g = 4 * h + k
  OBVIOUS
<1>5. y = 16 * g + l
  BY <1>1, <1>2, <1>4
<1>6. y \div 16 = g /\ y % 16 = l
  BY <1>5
<1>7. g % 4 = k
  BY <1>4
<1>8. QED
  BY <1>1, <1>2, <1>3, <1>4, <1>6, <1>7 DEF Byte, PartsOf

LEMMA FirstByteIs ==
    ASSUME NEW x \in Byte
    PROVE  \E h \in 0..3, k \in 0..3, l \in 0..15 : FirstByte(x, h, k, l)
<1>1. PICK h \in 0..3, m \in 0..63 : x = 64 * h + m
  <2>1. x \div 64 \in 0..3 /\ x % 64 \in 0..63 /\ x = 64 * (x \div 64) + (x % 64)
    BY DEF Byte
  <2>2. QED
    BY <2>1
<1>2. PICK k \in 0..3, l \in 0..15 : m = 16 * k + l
  <2>1. m \div 16 \in 0..3 /\ m % 16 \in 0..15 /\ m = 16 * (m \div 16) + (m % 16)
    OBVIOUS
  <2>2. QED
    BY <2>1
<1>3. FirstByte(x, h, k, l)
  BY <1>1, <1>2 DEF FirstByte
<1>4. QED
  BY <1>3

\* What is read of the header.
HeaderIs(f, version, type, code, id) ==
    GetVersion(f) = version /\ GetType(f) = type /\ GetCode(f) = code /\ GetMessageID(f) = id

LEMMA MessageIDAs ==
    ASSUME NEW b \in Seq(Byte), NEW f \in Seq(Byte), Len(f) = Len(b), Len(b) >= 4,
           f[3] = b[3], f[4] = b[4]
    PROVE  GetMessageID(f) = GetMessageID(b)
<1>1. 3 \in 1..Len(b) /\ 4 \in 1..Len(b) /\ DOMAIN b = 1..Len(b) /\ DOMAIN f = 1..Len(b)
  BY LenProperties
<1>2. At(f, 3) = At(b, 3) /\ At(f, 3 + 1) = At(b, 3 + 1)
  BY <1>1 DEF At
<1>3. QED
  BY <1>2 DEF GetMessageID, FromTwoBytes

LEMMA FirstByteReads ==
    ASSUME NEW b \in Seq(Byte), Len(b) >= 4, NEW h \in 0..3, NEW k \in 0..3, NEW l \in 0..15,
           NEW y, FirstByte(y, h, k, l)
    PROVE  HeaderIs([b EXCEPT ![1] = y], h, k * 16, GetCode(b), GetMessageID(b))
<1>1. y \in Byte /\ y \div 64 = h /\ (y \div 16) % 4 = k
  <2>1. PartsOf(y, h, k, l)
    BY FirstByteHas
  <2>2. QED
    BY <2>1 DEF PartsOf
<1>2. 1 \in 1..Len(b) /\ 2 \in 1..Len(b) /\ 3 \in 1..Len(b) /\ 4 \in 1..Len(b)
  BY LenProperties
<1>3. PICK f : f = [b EXCEPT ![1] = y]
  OBVIOUS
<1>4. f \in Seq(Byte) /\ Len(f) = Len(b) /\ f[1] = y /\ f[2] = b[2] /\ f[3] = b[3] /\ f[4] = b[4]
  BY <1>1, <1>2, <1>3, Replaced
<1>5. GetMessageID(f) = GetMessageID(b)
  BY <1>4, MessageIDAs
<1>6. GetVersion(f) = h /\ GetType(f) = k * 16 /\ GetCode(f) = GetCode(b)
  BY <1>1, <1>4 DEF GetVersion, GetType, GetCode
<1>7. QED
  BY <1>3, <1>5, <1>6 DEF HeaderIs

LEMMA VersionReads ==
    ASSUME NEW b \in Seq(Byte), Len(b) >= 4, NEW v \in 0..3
    PROVE  HeaderIs(SetVersion(b, v), v, GetType(b), GetCode(b), GetMessageID(b))
<1>1. PICK x \in Byte : x = b[1]
  BY LenProperties, ElementOfSeq
<1>2. PICK h \in 0..3, k \in 0..3, l \in 0..15 : FirstByte(x, h, k, l)
  BY FirstByteIs
<1>3. x % 64 = 16 * k + l /\ (x \div 16) % 4 = k
  <2>1. PartsOf(x, h, k, l)
    BY <1>2, FirstByteHas
  <2>2. QED
    BY <2>1 DEF PartsOf
<1>4. PICK y : y = v * 64 + (x % 64)
  OBVIOUS
<1>5. FirstByte(y, v, k, l)
  BY <1>3, <1>4 DEF FirstByte
<1>6. HeaderIs([b EXCEPT ![1] = y], v, k * 16, GetCode(b), GetMessageID(b))
  BY <1>5, FirstByteReads
<1>7. GetType(b) = k * 16
  BY <1>1, <1>3 DEF GetType
<1>8. SetVersion(b, v) = [b EXCEPT ![1] = y]
  BY <1>1, <1>4 DEF SetVersion
<1>9. QED
  BY <1>6, <1>7, <1>8

LEMMA TypeReads ==
    ASSUME NEW b \in Seq(Byte), Len(b) >= 4, NEW t \in HeaderTypes
    PROVE  HeaderIs(SetType(b, t), GetVersion(b), t, GetCode(b), GetMessageID(b))
<1>1. PICK x \in Byte : x = b[1]
  BY LenProperties, ElementOfSeq
<1>2. PICK h \in 0..3, k \in 0..3, l \in 0..15 : FirstByte(x, h, k, l)
  BY FirstByteIs
<1>3. x \div 64 = h /\ x % 16 = l
  <2>1. PartsOf(x, h, k, l)
    BY <1>2, FirstByteHas
  <2>2. QED
    BY <2>1 DEF PartsOf
<1>4. PICK g \in 0..3 : t = g * 16
  BY DEF HeaderTypes
<1>5. PICK y : y = (x \div 64) * 64 + t + (x % 16)
  OBVIOUS
<1>6. FirstByte(y, h, g, l)
  BY <1>3, <1>4, <1>5 DEF FirstByte
<1>7. HeaderIs([b EXCEPT ![1] = y], h, g * 16, GetCode(b), GetMessageID(b))
  BY <1>6, FirstByteReads
<1>8. GetVersion(b) = h
  BY <1>1, <1>3 DEF GetVersion
<1>9. SetType(b, t) = [b EXCEPT ![1] = y]
  BY <1>1, <1>5 DEF SetType
<1>10. QED
  BY <1>4, <1>7, <1>8, <1>9

LEMMA CodeReads ==
    ASSUME NEW b \in Seq(Byte), Len(b) >= 4, NEW code \in Byte
    PROVE  HeaderIs(SetCode(b, code), GetVersion(b), GetType(b), code, GetMessageID(b))
<1>1. 1 \in 1..Len(b) /\ 2 \in 1..Len(b) /\ 3 \in 1..Len(b) /\ 4 \in 1..Len(b)
  BY LenProperties
<1>2. PICK f : f = [b EXCEPT ![2] = code]
  OBVIOUS
<1>3. f \in Seq(Byte) /\ Len(f) = Len(b) /\ f[1] = b[1] /\ f[2] = code /\ f[3] = b[3] /\ f[4] = b[4]
  BY <1>1, <1>2, Replaced
<1>4. GetMessageID(f) = GetMessageID(b)
  BY <1>3, MessageIDAs
<1>5. f = SetCode(b, code)
  BY <1>2 DEF SetCode
<1>6. QED
  BY <1>3, <1>4, <1>5 DEF HeaderIs, GetVersion, GetType, GetCode

LEMMA MessageIDReads ==
    ASSUME NEW b \in Seq(Byte), Len(b) >= 4, NEW id \in Word
    PROVE  HeaderIs(SetMessageID(b, id), GetVersion(b), GetType(b), GetCode(b), id)
<1>1. PICK s \in Seq(Byte) : s = TwoBytes(id) /\ Len(s) = 2
  BY TwoBytesAreBytes
<1>2. PICK f : f = SetMessageID(b, id) /\ f = Overwrite(b, 3, s)
  BY <1>1 DEF SetMessageID
<1>3. \A j \in 1..Len(b) : j < 3 \/ j >= 3 + Len(s) => f[j] = b[j]
  BY <1>2, Overwritten
<1>4. 1 \in 1..Len(b) /\ 2 \in 1..Len(b)
  BY LenProperties
<1>5. f[1] = b[1] /\ f[2] = b[2]
  BY <1>3, <1>4
<1>6. GetMessageID(f) = id
  BY <1>2, MessageIDSet
<1>7. QED
  BY <1>2, <1>5, <1>6 DEF HeaderIs, GetVersion, GetType, GetCode

LEMMA HeaderMeans ==
    ASSUME NEW b, NEW s, NEW n, Laid(b, s, n), NEW f, HeaderOnly(b, f),
           NEW version, NEW type, NEW code, NEW id, HeaderIs(f, version, type, code, id)
    PROVE  Meaning(f) = Parts(version, type, code, id, Meaning(b).token, Meaning(b).options,
                              Meaning(b).payload)
<1>1. TokenOf(f) = TokenOf(b) /\ OptionsOf(f) = OptionsOf(b) /\ PayloadOf(f) = PayloadOf(b)
  BY HeaderReads DEF BodyAs, RestAs
<1>2. Meaning(b).token = TokenOf(b) /\ Meaning(b).options = Contents(OptionsOf(b))
      /\ Meaning(b).payload = PayloadOf(b)
  BY MeaningIs DEF Parts
<1>3. QED
  BY <1>1, <1>2, MeaningIs DEF HeaderIs

\* A usable message is laid out.
LEMMA UsableLaid ==
    ASSUME Orderly, Usable
    PROVE  \E s, n : Laid(coap.pdu, s, n)
  BY UsableIsLaid DEF LayoutOf

\* A call that changed no byte.
LEMMA NothingMeant ==
    ASSUME coap'.pdu = coap.pdu
    PROVE  Meaning(coap.pdu)' = Meaning(coap.pdu)
  BY DEF Meaning

(***************************************************************************)
(* What a call reports.                                                    *)
(***************************************************************************)
LEMMA CallReports ==
    ASSUME NEW op, NEW number, NEW bytes, NEW d, Finish(op, number, bytes, d),
           NEW done \in BOOLEAN,
           done <=> d.result = (IF op \in {"setVersion", "validate"} THEN 1 ELSE 0)
    PROVE  coap' = d.object /\ Abstract!Called(op, number, bytes, done)
<1>1. /\ coap' = d.object
      /\ call' = [op |-> op, number |-> number, bytes |-> bytes, result |-> d.result]
  BY Zenon DEF Finish
<1>2. call'.op = op /\ call'.number = number /\ call'.bytes = bytes /\ call'.result = d.result
  BY <1>1
<1>3. WasDone' <=> done
  BY <1>2 DEF WasDone
<1>4. WasDone' \in BOOLEAN
  BY Zenon DEF WasDone
<1>5. WasDone' = done
  BY Zenon, <1>3, <1>4
<1>6. Report' = [op |-> op, number |-> number, bytes |-> bytes, done |-> done]
  BY Zenon, <1>2, <1>5 DEF Report
<1>7. QED
  BY Zenon, <1>1, <1>6 DEF Abstract!Called

\* The calls that return 0 when they are done.
ReportedByZero(op, number, bytes, d) ==
    /\ coap' = d.object
    /\ d.result = 0 => Abstract!Called(op, number, bytes, TRUE)
    /\ d.result # 0 => Abstract!Called(op, number, bytes, FALSE)

LEMMA CallDone ==
    ASSUME NEW op, NEW number, NEW bytes, NEW d, Finish(op, number, bytes, d),
           op \notin {"setVersion", "validate"}
    PROVE  ReportedByZero(op, number, bytes, d)
<1>1. CASE d.result = 0
  BY <1>1, CallReports DEF ReportedByZero
<1>2. CASE d.result # 0
  BY <1>2, CallReports DEF ReportedByZero
<1>3. QED
  BY <1>1, <1>2

LEMMA NamedDone ==
    ASSUME NEW number, NEW bytes, NEW d
    PROVE  /\ Finish("setToken", number, bytes, d) => ReportedByZero("setToken", number, bytes, d)
           /\ Finish("setPayload", number, bytes, d) => ReportedByZero("setPayload", number, bytes, d)
           /\ Finish("reset", number, bytes, d) => ReportedByZero("reset", number, bytes, d)
<1>1. /\ "setToken" \notin {"setVersion", "validate"}
      /\ "setPayload" \notin {"setVersion", "validate"}
      /\ "reset" \notin {"setVersion", "validate"}
  OBVIOUS
<1>2. QED
  BY Zenon, <1>1, CallDone

LEMMA SetVersionMeans ==
    ASSUME Orderly, CallSetVersion
    PROVE  Abstract!SetVersion
<1>1. PICK v \in Versions :
         /\ Usable /\ UNCHANGED use
         /\ Finish("setVersion", v, << >>, IF v > 3 THEN Done(coap, 0)
                                           ELSE Done([coap EXCEPT !.pdu = SetVersion(@, v)], 1))
  BY DEF CallSetVersion
<1>2. v \in Nat /\ Sound
  BY CallsAssumption DEF Orderly
<1>3. CASE v > 3
  <2>1. PICK d : d = Done(coap, 0) /\ Finish("setVersion", v, << >>, d) /\ d.object = coap /\ d.result = 0
    BY <1>1, <1>3 DEF Done
  <2>2. Abstract!Called("setVersion", v, << >>, FALSE) /\ coap' = coap
    <3>1. d.result # (IF "setVersion" \in {"setVersion", "validate"} THEN 1 ELSE 0)
      BY <2>1
    <3>2. Finish("setVersion", v, << >>, d) /\ FALSE \in BOOLEAN
      BY <2>1
    <3>3. coap' = d.object /\ Abstract!Called("setVersion", v, << >>, FALSE)
      BY Zenon, <3>1, <3>2, CallReports
    <3>4. QED
      BY <2>1, <3>3
  <2>3. Meaning(coap.pdu)' = Meaning(coap.pdu)
    BY <2>2, NothingMeant
  <2>4. QED
    BY <1>1, <1>3, <2>2, <2>3 DEF Abstract!SetVersion, Abstract!Refused
<1>4. CASE ~(v > 3)
  <2>1. PICK b, f : b = coap.pdu /\ f = SetVersion(b, v)
    OBVIOUS
  <2>2. Abstract!Called("setVersion", v, << >>, TRUE) /\ coap' = [coap EXCEPT !.pdu = f]
    <3>1. PICK d : /\ Finish("setVersion", v, << >>, d) /\ d.result = 1
                   /\ d.object = [coap EXCEPT !.pdu = f]
      BY <1>1, <1>4, <2>1 DEF Done
    <3>2. QED
      BY <3>1, CallReports
  <2>3. v \in 0..3 /\ v <= 3
    BY <1>2, <1>4
  <2>4. coap \in Fields /\ b \in Seq(Byte) /\ Len(b) >= 4
    BY <1>1, <1>2, <2>1, HeaderThere
  <2>5. HeaderOnly(b, f) /\ HeaderIs(f, v, GetType(b), GetCode(b), GetMessageID(b))
    BY <2>1, <2>3, <2>4, HeaderSet, VersionReads
  <2>6. PICK s, n : Laid(b, s, n)
    BY <1>1, <2>1, UsableLaid
  <2>7. Meaning(f) = [Meaning(b) EXCEPT !.version = v]
    BY <2>5, <2>6, HeaderMeans, MeaningIs DEF Parts
  <2>8. coap'.pdu = f
    BY <2>2, <2>4 DEF Fields
  <2>9. Meaning(coap.pdu)' = Meaning(f)
    BY <2>8 DEF Meaning
  <2>10. QED
    BY <2>1, <2>2, <2>3, <2>7, <2>9 DEF Abstract!SetVersion
<1>5. QED
  BY <1>3, <1>4

\* A setter of the header that always succeeds.
EditMeant(op, number, b, version, type, code, id) ==
    /\ Abstract!Called(op, number, << >>, TRUE)
    /\ Meaning(coap.pdu)' = Parts(version, type, code, id, Meaning(b).token, Meaning(b).options,
                                  Meaning(b).payload)
    /\ Meaning(b) = Parts(GetVersion(b), GetType(b), GetCode(b), GetMessageID(b), Meaning(b).token,
                          Meaning(b).options, Meaning(b).payload)

LEMMA EditMeans ==
    ASSUME Orderly, NEW b, b = coap.pdu, NEW op, NEW number, NEW f, Edit(op, number, f),
           op \notin {"setVersion", "validate"},
           NEW version, NEW type, NEW code, NEW id,
           HeaderOnly(b, f), HeaderIs(f, version, type, code, id)
    PROVE  EditMeant(op, number, b, version, type, code, id)
<1>1. Usable /\ Sound /\ coap' = [coap EXCEPT !.pdu = f] /\ Abstract!Called(op, number, << >>, TRUE)
  <2>1. PICK d : d = Done([coap EXCEPT !.pdu = f], 0) /\ Finish(op, number, << >>, d)
    BY DEF Edit
  <2>2. d.object = [coap EXCEPT !.pdu = f] /\ d.result = 0
    BY <2>1 DEF Done
  <2>3. QED
    BY <2>1, <2>2, CallDone DEF Edit, Orderly, ReportedByZero
<1>2. coap \in Fields
  BY <1>1, HeaderThere
<1>3. coap'.pdu = f
  BY <1>1, <1>2 DEF Fields
<1>4. PICK s, n : Laid(b, s, n)
  BY <1>1, UsableLaid
<1>5. Meaning(coap.pdu)' = Meaning(f)
  BY <1>3 DEF Meaning
<1>6. Meaning(f) = Parts(version, type, code, id, Meaning(b).token, Meaning(b).options, Meaning(b).payload)
  BY <1>4, HeaderMeans
<1>7. Meaning(b) = Parts(GetVersion(b), GetType(b), GetCode(b), GetMessageID(b), Meaning(b).token,
                         Meaning(b).options, Meaning(b).payload)
  BY MeaningIs DEF Parts
<1>8. QED
  BY <1>1, <1>5, <1>6, <1>7 DEF EditMeant

LEMMA EditThere ==
    ASSUME Orderly, NEW op, NEW number, NEW f, Edit(op, number, f)
    PROVE  \E b \in Seq(Byte) : b = coap.pdu /\ Len(b) >= 4
<1>1. Usable /\ Sound
  BY DEF Edit, Orderly
<1>2. QED
  BY <1>1, HeaderThere

LEMMA SetTypeMeans ==
    ASSUME Orderly, CallSetType
    PROVE  Abstract!SetType
<1>1. PICK t \in Types : Edit("setType", t, SetType(coap.pdu, t))
  BY DEF CallSetType
<1>2. t \in HeaderTypes
  BY CallsAssumption DEF HeaderTypes
<1>3. PICK b \in Seq(Byte) : b = coap.pdu /\ Len(b) >= 4
  BY <1>1, EditThere
<1>4. HeaderOnly(b, SetType(b, t)) /\ HeaderIs(SetType(b, t), GetVersion(b), t, GetCode(b), GetMessageID(b))
  BY <1>2, <1>3, HeaderSet, TypeReads
<1>5. EditMeant("setType", t, b, GetVersion(b), t, GetCode(b), GetMessageID(b))
  BY <1>1, <1>3, <1>4, EditMeans
<1>6. Meaning(coap.pdu)' = [Meaning(b) EXCEPT !.type = t]
  BY <1>5 DEF EditMeant, Parts
<1>7. QED
  BY <1>3, <1>5, <1>6 DEF EditMeant, Abstract!SetType

LEMMA SetCodeMeans ==
    ASSUME Orderly, CallSetCode
    PROVE  Abstract!SetCode
<1>1. PICK c \in Codes : Edit("setCode", c, SetCode(coap.pdu, c))
  BY DEF CallSetCode
<1>2. c \in Byte
  BY CallsAssumption
<1>3. PICK b \in Seq(Byte) : b = coap.pdu /\ Len(b) >= 4
  BY <1>1, EditThere
<1>4. HeaderOnly(b, SetCode(b, c)) /\ HeaderIs(SetCode(b, c), GetVersion(b), GetType(b), c, GetMessageID(b))
  BY <1>2, <1>3, HeaderSet, CodeReads
<1>5. EditMeant("setCode", c, b, GetVersion(b), GetType(b), c, GetMessageID(b))
  BY <1>1, <1>3, <1>4, EditMeans
<1>6. Meaning(coap.pdu)' = [Meaning(b) EXCEPT !.code = c]
  BY <1>5 DEF EditMeant, Parts
<1>7. QED
  BY <1>3, <1>5, <1>6 DEF EditMeant, Abstract!SetCode

LEMMA SetMessageIDMeans ==
    ASSUME Orderly, CallSetMessageID
    PROVE  Abstract!SetMessageID
<1>1. PICK i \in MessageIDs : Edit("setMessageID", i, SetMessageID(coap.pdu, i))
  BY DEF CallSetMessageID
<1>2. i \in Word
  BY CallsAssumption
<1>3. PICK b \in Seq(Byte) : b = coap.pdu /\ Len(b) >= 4
  BY <1>1, EditThere
<1>4. HeaderOnly(b, SetMessageID(b, i)) /\ HeaderIs(SetMessageID(b, i), GetVersion(b), GetType(b), GetCode(b), i)
  BY <1>2, <1>3, HeaderSet, MessageIDReads
<1>5. EditMeant("setMessageID", i, b, GetVersion(b), GetType(b), GetCode(b), i)
  BY <1>1, <1>3, <1>4, EditMeans
<1>6. Meaning(coap.pdu)' = [Meaning(b) EXCEPT !.id = i]
  BY <1>5 DEF EditMeant, Parts
<1>7. QED
  BY <1>3, <1>5, <1>6 DEF EditMeant, Abstract!SetMessageID

\* reset() leaves the empty message; Receive's may be any.
LEMMA BlankMeans == Meaning(<<0, 0, 0, 0>>) = Abstract!Empty
<1>1. PICK b : b = <<0, 0, 0, 0>>
  OBVIOUS
<1>2. Blank.pdu = b /\ Blank.payloadLength = 0
  BY <1>1 DEF Blank
<1>3. Laid(b, << >>, 0)
  BY <1>2, StartsOpen DEF Open, Shaped
<1>4. PICK first \in Nat, end \in Nat : LaidAs(b, << >>, 0, first, end)
  BY <1>3, LaidIs
<1>5. b \in Seq(Byte) /\ Len(b) = 4 /\ b[1] = 0 /\ b[2] = 0 /\ b[3] = 0 /\ b[4] = 0
  BY <1>1, <1>3 DEF Laid
<1>6. OptionsOf(b) = << >>
  BY <1>4 DEF LaidAs
<1>7. PayloadOf(b) = << >>
  <2>1. PayloadOf(b) = Slice(b, end + 1, 0)
    BY <1>4, <1>5, PayloadIs
  <2>2. QED
    BY <2>1 DEF Slice
<1>8. GetTokenLength(b) = 0 /\ GetVersion(b) = 0 /\ GetType(b) = 0 /\ GetCode(b) = 0
  BY <1>5 DEF GetTokenLength, GetVersion, GetType, GetCode
<1>9. TokenOf(b) = << >>
  BY <1>8 DEF TokenOf, Slice
<1>10. GetMessageID(b) = 0
  <2>1. At(b, 3) = 0 /\ At(b, 3 + 1) = 0
    BY <1>5 DEF At, Garbage
  <2>2. QED
    BY <2>1 DEF GetMessageID, FromTwoBytes, HTONS
<1>11. Contents(<< >>) = << >>
  BY DEF Contents
<1>12. QED
  BY <1>1, <1>6, <1>7, <1>8, <1>9, <1>10, <1>11, MeaningIs DEF Parts, Abstract!Empty

LEMMA ResetMeans ==
    ASSUME CallReset
    PROVE  Abstract!Reset
<1>1. coap' = Blank /\ Abstract!Called("reset", 0, << >>, TRUE)
  <2>1. PICK d : d = Done(Blank, 0) /\ Finish("reset", 0, << >>, d)
    BY DEF CallReset, ResetFields
  <2>2. d.object = Blank /\ d.result = 0
    BY <2>1 DEF Done
  <2>3. ReportedByZero("reset", 0, << >>, d)
    BY Zenon, <2>1, NamedDone
  <2>4. QED
    BY <2>2, <2>3 DEF ReportedByZero
<1>2. coap'.pdu = <<0, 0, 0, 0>>
  BY <1>1 DEF Blank
<1>3. Meaning(coap.pdu)' = Meaning(<<0, 0, 0, 0>>)
  BY <1>2 DEF Meaning
<1>4. Meaning(coap.pdu)' = [Abstract!Empty EXCEPT !.version = 0]
  BY <1>3, BlankMeans DEF Abstract!Empty
<1>5. 0 \in 0..3
  OBVIOUS
<1>6. QED
  BY Zenon, <1>1, <1>4, <1>5 DEF Abstract!Reset

LEMMA InitMeans ==
    ASSUME Init
    PROVE  Abstract!Init
<1>1. PICK b, f : b = <<0, 0, 0, 0>> /\ f = SetVersion(b, 1)
  OBVIOUS
<1>2. New.pdu = f
  BY <1>1 DEF New, Blank
<1>3. Laid(b, << >>, 0)
  BY <1>1, StartsOpen DEF Open, Shaped, Blank
<1>4. b \in Seq(Byte) /\ Len(b) >= 4 /\ 1 \in 0..3
  BY <1>3 DEF Laid
<1>5. HeaderOnly(b, f) /\ HeaderIs(f, 1, GetType(b), GetCode(b), GetMessageID(b))
  BY <1>1, <1>4, HeaderSet, VersionReads
<1>6. Meaning(f) = [Meaning(b) EXCEPT !.version = 1]
  BY <1>3, <1>5, HeaderMeans, MeaningIs DEF Parts
<1>7. Meaning(f) = Abstract!Fresh
  BY <1>1, <1>6, BlankMeans DEF Abstract!Fresh
<1>8. Report = [op |-> "new", number |-> 0, bytes |-> << >>, done |-> TRUE]
  <2>1. call = [op |-> "new", number |-> 0, bytes |-> << >>, result |-> 0]
    BY DEF Init
  <2>2. call.op = "new" /\ call.number = 0 /\ call.bytes = << >> /\ call.result = 0
    BY <2>1
  <2>3. WasDone
    BY <2>2 DEF WasDone
  <2>4. WasDone = TRUE
    BY Zenon, <2>3 DEF WasDone
  <2>5. QED
    BY Zenon, <2>2, <2>4 DEF Report
<1>9. QED
  BY <1>2, <1>7, <1>8 DEF Init, Abstract!Init

LEMMA ReceiveMeans ==
    ASSUME Receive
    PROVE  Abstract!Receive
<1>1. PICK f \in Frames :
         LET done == Validate([coap EXCEPT !.pdu = f])
         IN  Finish("validate", 0, f, done)
  BY DEF Receive
<1>2. PICK c, d : c = [coap EXCEPT !.pdu = f] /\ d = Validate(c)
  OBVIOUS
<1>3. Finish("validate", 0, f, d)
  BY <1>1, <1>2
<1>4. CASE d.result = 1
  <2>1. Abstract!Called("validate", 0, f, TRUE)
    BY <1>3, <1>4, CallReports
  <2>2. QED
    BY <2>1 DEF Abstract!Receive
<1>5. CASE d.result # 1
  <2>1. Abstract!Called("validate", 0, f, FALSE)
    BY <1>3, <1>5, CallReports
  <2>2. QED
    BY <2>1 DEF Abstract!Receive
<1>6. QED
  BY <1>4, <1>5

-----------------------------------------------------------------------------
(***************************************************************************)
(* The token, which moves all that is behind it, and the payload.          *)
(***************************************************************************)
LEMMA NoPayloadReads ==
    ASSUME NEW b, NEW s, Laid(b, s, 0)
    PROVE  PayloadOf(b) = << >> /\ OptionsOf(b) = s
<1>1. PICK first \in Nat, end \in Nat : LaidAs(b, s, 0, first, end)
  BY LaidIs
<1>2. b \in Seq(Byte)
  BY DEF Laid
<1>3. PayloadOf(b) = Slice(b, end + 1, 0)
  BY <1>1, <1>2, PayloadIs
<1>4. PayloadOf(b) = << >>
  BY <1>3 DEF Slice
<1>5. QED
  BY <1>1, <1>4 DEF LaidAs

LEMMA SliceIs ==
    ASSUME NEW f \in Seq(Byte), NEW i \in Nat, i > 0, NEW t \in Seq(Byte), NEW n \in Nat, n = Len(t),
           Len(f) >= i + n - 1, \A j \in 1..n : f[i + j - 1] = t[j]
    PROVE  Slice(f, i, n) = t
<1>1. PICK p : p = Slice(f, i, n)
  OBVIOUS
<1>2. p \in Seq(Byte) /\ Len(p) = n /\ \A j \in 1..n : p[j] = At(f, i + j - 1)
  <2>1. i \in Int
    OBVIOUS
  <2>2. QED
    BY <1>1, <2>1, Sliced
<1>3. ASSUME NEW j \in 1..n
      PROVE  p[j] = t[j]
  <2>1. PICK h \in 1..Len(f) : h = i + j - 1
    BY LenProperties
  <2>2. At(f, h) = f[h]
    BY LenProperties DEF At
  <2>3. QED
    BY <1>2, <2>1, <2>2
<1>4. QED
  BY <1>1, <1>2, <1>3, SeqEqual

LEMMA TokenMeans ==
    ASSUME NEW b, NEW s, Laid(b, s, 0), NEW f, NEW r, Laid(f, r, 0), SameOptions(s, r),
           NEW t \in Seq(Byte), NEW d, TokenChanged(b, f, t, d)
    PROVE  Meaning(f) = [Meaning(b) EXCEPT !.token = t]
<1>1. b \in Seq(Byte) /\ f \in Seq(Byte) /\ Len(b) >= 4 /\ Len(f) >= 4
  BY DEF Laid
<1>2. PayloadOf(f) = PayloadOf(b) /\ Contents(OptionsOf(f)) = Contents(OptionsOf(b))
  BY NoPayloadReads, ContentsEqual
<1>3. SameFields(b, f)
  BY DEF TokenChanged, SameFields
<1>4. FieldsAs(b, f)
  BY <1>1, <1>3, FieldsRead
<1>5. TokenOf(f) = t
  <2>1. PICK n \in Nat : n = Len(t) /\ n = GetTokenLength(f) /\ \A j \in 1..n : f[4 + j] = t[j]
    BY LenProperties DEF TokenChanged
  <2>2. Len(f) >= 5 + n - 1
    <3>1. PICK first \in Nat, end \in Nat : LaidAs(f, r, 0, first, end)
      BY LaidIs
    <3>2. Len(f) \in Nat /\ Len(f) + 1 = end /\ first <= end /\ first = 5 + n
      BY <2>1, <3>1 DEF LaidAs
    <3>3. QED
      BY <3>2
  <2>3. \A j \in 1..n : f[5 + j - 1] = t[j]
    <3>1. \A j \in 1..n : 5 + j - 1 = 4 + j
      OBVIOUS
    <3>2. QED
      BY <2>1, <3>1
  <2>4. Slice(f, 5, n) = t
    <3>1. PICK i \in Nat : i = 5 /\ i > 0
      OBVIOUS
    <3>2. Len(f) >= i + n - 1 /\ \A j \in 1..n : f[i + j - 1] = t[j]
      BY <2>2, <2>3, <3>1
    <3>3. Slice(f, i, n) = t
      BY <1>1, <2>1, <3>1, <3>2, SliceIs
    <3>4. QED
      BY <3>1, <3>3
  <2>5. HeaderSize + 1 = 5
    BY DEF HeaderSize
  <2>6. QED
    BY <2>1, <2>4, <2>5 DEF TokenOf
<1>6. QED
  BY <1>2, <1>4, <1>5, MeaningIs DEF FieldsAs, Parts

LEMMA SetTokenMeans ==
    ASSUME CallsInOrder, Orderly, CallSetToken
    PROVE  Abstract!SetToken
<1>1. PICK t \in Tokens, mem \in Memory :
         MayMove /\ UNCHANGED use /\ Finish("setToken", 0, t, SetToken(coap, t, mem))
  BY DEF CallSetToken
<1>2. Sound /\ Usable /\ coap.payloadLength = 0
  BY <1>1 DEF Orderly, CallsInOrder, MayMove
<1>3. t \in Seq(Byte) /\ Len(t) <= 8 /\ mem \in Memories
  BY <1>2, MemoryIs, CallsAssumption DEF CallsInOrder
<1>4. Len(coap.pdu) < 256 /\ coap \in Fields
  BY <1>2, HeaderThere
<1>5. PICK s : Shaped(coap, s)
  BY <1>2 DEF Orderly, InShape
<1>6. PICK b, d : b = coap.pdu /\ d = SetToken(coap, t, mem)
  OBVIOUS
<1>7. /\ Retokened(coap, s, d)
      /\ d = Done(coap, 1) \/ \E f, m : /\ d = Done(WithBytes(coap, f), 0)
                                        /\ t # << >> /\ m \in Int /\ TokenChanged(b, f, t, m)
  BY <1>2, <1>3, <1>4, <1>5, <1>6, TokenSetShaped
<1>8. /\ coap' = d.object
      /\ d.result = 0 => Abstract!Called("setToken", 0, t, TRUE)
      /\ d.result # 0 => Abstract!Called("setToken", 0, t, FALSE)
  BY Zenon, <1>1, <1>6, NamedDone DEF ReportedByZero
<1>9. CASE d = Done(coap, 1)
  <2>1. coap' = coap /\ d.result # 0
    BY <1>8, <1>9 DEF Done
  <2>2. Meaning(coap.pdu)' = Meaning(coap.pdu)
    BY <2>1, NothingMeant
  <2>3. Abstract!Refused("setToken", 0, t)
    BY Zenon, <1>8, <2>1, <2>2 DEF Abstract!Refused
  <2>4. QED
    BY <1>1, <2>3 DEF Abstract!SetToken
<1>10. ASSUME NEW f, NEW m, d = Done(WithBytes(coap, f), 0), t # << >>, m \in Int, TokenChanged(b, f, t, m)
       PROVE  Abstract!SetToken
  <2>1. d.object.pdu = f /\ d.result = 0
    BY <1>4, <1>10 DEF Done, WithBytes, Fields
  <2>2. PICK r : SameOptions(s, r) /\ Shaped(d.object, r) /\ d.object.payloadLength = 0
    BY <1>7 DEF Retokened
  <2>3. Laid(b, s, 0) /\ Laid(f, r, 0)
    BY <1>2, <1>5, <1>6, <2>1, <2>2 DEF Shaped
  <2>4. Meaning(f) = [Meaning(b) EXCEPT !.token = t]
    BY <1>3, <1>10, <2>2, <2>3, TokenMeans
  <2>5. Meaning(coap.pdu)' = Meaning(f)
    BY <1>8, <2>1 DEF Meaning
  <2>6. QED
    BY <1>6, <1>8, <1>10, <2>1, <2>4, <2>5 DEF Abstract!SetToken
<1>11. QED
  BY <1>7, <1>9, <1>10

LEMMA PayloadMeans ==
    ASSUME NEW b, NEW s, NEW n, Laid(b, s, n), NEW f, NEW m \in Nat, m > 0, Laid(f, s, m),
           NEW x \in Seq(Byte), m = Len(x), PayloadIn(b, f, OptionsEnd(b), x)
    PROVE  Meaning(f) = [Meaning(b) EXCEPT !.payload = x]
<1>1. b \in Seq(Byte) /\ f \in Seq(Byte) /\ Len(b) >= 4 /\ Len(f) >= 4
  BY DEF Laid
<1>2. PICK first \in Nat, end \in Nat : LaidAs(b, s, n, first, end)
  BY LaidIs
<1>3. PICK start \in Nat, stop \in Nat : LaidAs(f, s, m, start, stop)
  BY LaidIs
<1>4. OptionsOf(f) = OptionsOf(b) /\ OptionsEnd(b) = end
  BY <1>2, <1>3 DEF LaidAs
<1>5. /\ Len(f) = end + m /\ (\A j \in 1..(end - 1) : f[j] = b[j])
      /\ \A j \in 1..m : f[end + j] = x[j]
  BY <1>4 DEF PayloadIn
<1>6. stop = end
  <2>1. Len(f) + 1 = stop + (IF m = 0 THEN 0 ELSE m + 1)
    BY <1>3 DEF LaidAs
  <2>2. Len(f) = end + m
    BY <1>5
  <2>3. QED
    BY <2>1, <2>2
<1>7. PICK k \in Nat : k = GetTokenLength(b) /\ first = 5 + k /\ first <= end /\ first = FirstOption(b)
                       /\ Len(b) >= 4 + k /\ Len(f) >= 4 + k
  <2>1. /\ Len(b) \in Nat /\ first <= end /\ Len(b) + 1 = end + (IF n = 0 THEN 0 ELSE n + 1)
        /\ first = 5 + GetTokenLength(b) /\ GetTokenLength(b) \in 0..8 /\ first = FirstOption(b)
    BY <1>2 DEF LaidAs
  <2>2. n \in Nat
    BY DEF Laid
  <2>3. Len(f) = end + m
    BY <1>5
  <2>4. Len(b) >= end - 1
    BY <2>1, <2>2
  <2>5. PICK k \in Nat : k = GetTokenLength(b)
    BY <2>1
  <2>6. first = 5 + k /\ first = FirstOption(b)
    BY <2>1, <2>5
  <2>7. first <= end /\ Len(b) \in Nat
    BY <2>1
  <2>8. Len(b) >= 4 + k /\ Len(f) >= 4 + k
    BY <2>3, <2>4, <2>6, <2>7
  <2>9. QED
    BY <2>5, <2>6, <2>7, <2>8
<1>8. HeadKept(b, f)
  <2>1. \A j \in 1..(first - 1) : j \in 1..(end - 1)
    BY <1>7
  <2>2. QED
    BY <1>5, <1>7, <2>1 DEF HeadKept
<1>9. HeadAs(b, f)
  BY <1>1, <1>7, <1>8, HeadRead
<1>10. PayloadOf(f) = x
  <2>1. PayloadOf(f) = Slice(f, end + 1, m)
    BY <1>1, <1>3, <1>6, PayloadIs
  <2>2. PICK i \in Nat : i = end + 1 /\ i > 0
    OBVIOUS
  <2>3. \A j \in 1..m : f[i + j - 1] = x[j]
    <3>1. \A j \in 1..m : i + j - 1 = end + j
      BY <2>2
    <3>2. QED
      BY <1>5, <3>1
  <2>4. Len(f) >= i + m - 1
    <3>1. Len(f) = end + m
      BY <1>5
    <3>2. i + m - 1 = end + m
      BY <2>2
    <3>3. QED
      BY <3>1, <3>2
  <2>5. Slice(f, i, m) = x
    BY <1>1, <2>2, <2>3, <2>4, SliceIs, ZenonT(30)
  <2>6. PayloadOf(f) = Slice(f, i, m)
    BY <2>1, <2>2
  <2>7. QED
    BY <2>5, <2>6
<1>11. QED
  BY <1>4, <1>9, <1>10, MeaningIs DEF HeadAs, FieldsAs, Parts

LEMMA SetPayloadMeans ==
    ASSUME CallsInOrder, Orderly, CallSetPayload
    PROVE  Abstract!SetPayload
<1>1. PICK x \in Payloads, mem \in Memory :
         /\ MayMove \/ (Usable /\ (~Owned \/ Len(x) = coap.payloadLength))
         /\ Finish("setPayload", 0, x, SetPayload(coap, x, mem))
  BY DEF CallSetPayload
<1>2. Usable /\ x \in Seq(Byte) /\ mem \in Memories
  BY <1>1, MemoryIs, CallsAssumption DEF MayMove, Orderly
<1>3. mem.moves => coap.payloadLength \in {0, Len(x)}
  <2>1. CASE Owned
    BY <1>1, <2>1 DEF MayMove, CallsInOrder
  <2>2. CASE ~Owned
    BY <2>2 DEF Memory
  <2>3. QED
    BY <2>1, <2>2
<1>4. PICK s : Shaped(coap, s)
  BY <1>2 DEF Orderly, InShape
<1>5. PICK b, d : b = coap.pdu /\ d = SetPayload(coap, x, mem)
  OBVIOUS
<1>6. PayloadPut(coap, s, x, d)
  BY <1>2, <1>3, <1>4, <1>5, PayloadSetShaped
<1>7. /\ coap' = d.object
      /\ d.result = 0 => Abstract!Called("setPayload", 0, x, TRUE)
      /\ d.result # 0 => Abstract!Called("setPayload", 0, x, FALSE)
  BY Zenon, <1>1, <1>5, NamedDone DEF ReportedByZero
<1>8. CASE d = Done(coap, 1)
  <2>1. coap' = coap /\ d.result # 0
    BY <1>7, <1>8 DEF Done
  <2>2. Meaning(coap.pdu)' = Meaning(coap.pdu)
    BY <2>1, NothingMeant
  <2>3. Abstract!Refused("setPayload", 0, x)
    BY Zenon, <1>7, <2>1, <2>2 DEF Abstract!Refused
  <2>4. QED
    BY <1>1, <2>3 DEF Abstract!SetPayload
<1>9. CASE d # Done(coap, 1)
  <2>1. PICK f, m : f = d.object.pdu /\ m = Len(x)
    OBVIOUS
  <2>2. /\ d.result = 0 /\ x # << >> /\ Shaped(d.object, s) /\ d.object.payloadLength = m
        /\ PayloadIn(b, f, OptionsEnd(b), x)
    BY <1>5, <1>6, <1>9, <2>1 DEF PayloadPut
  <2>3. m \in Nat /\ m > 0
    BY <1>2, <2>1, <2>2, EmptySeq, LenProperties
  <2>4. Laid(b, s, coap.payloadLength) /\ Laid(f, s, m)
    BY <1>4, <1>5, <2>1, <2>2 DEF Shaped
  <2>5. Meaning(f) = [Meaning(b) EXCEPT !.payload = x]
    BY <1>2, <2>1, <2>2, <2>3, <2>4, PayloadMeans
  <2>6. Meaning(coap.pdu)' = Meaning(f)
    BY <1>7, <2>1 DEF Meaning
  <2>7. QED
    BY <1>5, <1>7, <2>2, <2>5, <2>6 DEF Abstract!SetPayload
<1>10. QED
  BY <1>8, <1>9

-----------------------------------------------------------------------------
(***************************************************************************)
(* Options: those that a call puts into the bytes, behind the ones of no   *)
(* greater number, are those that WithOptions puts into the sequence.      *)
(***************************************************************************)
\* The same operator, in the abstract specification.
LEMMA AbstractCardinality ==
    ASSUME NEW S
    PROVE  Abstract!Cardinality(S) = Cardinality(S)
  BY Zenon DEF Abstract!Cardinality, Cardinality

\* The sequence u is p, then q, then r.
InThree(u, p, q, r) ==
    /\ Len(u) = Len(p) + Len(q) + Len(r)
    /\ \A j \in 1..Len(p) : u[j] = p[j]
    /\ \A j \in 1..Len(q) : u[Len(p) + j] = q[j]
    /\ \A j \in 1..Len(r) : u[Len(p) + Len(q) + j] = r[j]

LEMMA Joins ==
    ASSUME NEW S, NEW p \in Seq(S), NEW q \in Seq(S), NEW r \in Seq(S), NEW u \in Seq(S), InThree(u, p, q, r)
    PROVE  (p \o q) \o r = u
<1>1. PICK a \in Nat, b \in Nat, c \in Nat : a = Len(p) /\ b = Len(q) /\ c = Len(r)
  BY LenProperties
<1>2. PICK w : w = p \o q
  OBVIOUS
<1>3. /\ w \in Seq(S) /\ Len(w) = a + b
      /\ \A i \in 1..(a + b) : w[i] = IF i <= a THEN p[i] ELSE q[i - a]
  BY <1>1, <1>2, ConcatProperties
<1>4. PICK z : z = w \o r
  OBVIOUS
<1>5. /\ z \in Seq(S) /\ Len(z) = a + b + c
      /\ \A i \in 1..(a + b + c) : z[i] = IF i <= a + b THEN w[i] ELSE r[i - (a + b)]
  <2>1. w \in Seq(S) /\ Len(w) = a + b /\ Len(r) = c
    BY <1>1, <1>3
  <2>2. /\ z \in Seq(S) /\ Len(z) = Len(w) + Len(r)
        /\ \A i \in 1..(Len(w) + Len(r)) : z[i] = IF i <= Len(w) THEN w[i] ELSE r[i - Len(w)]
    BY <1>4, <2>1, ConcatProperties
  <2>3. QED
    BY <2>1, <2>2
<1>6. Len(u) = a + b + c
  BY <1>1 DEF InThree
<1>7. ASSUME NEW i \in 1..(a + b + c)
      PROVE  z[i] = u[i]
  <2>1. CASE i <= a
    <3>1. i \in 1..a /\ i \in 1..(a + b) /\ i <= a + b
      BY <2>1
    <3>2. z[i] = p[i]
      BY <1>3, <1>5, <2>1, <3>1
    <3>3. u[i] = p[i]
      BY <1>1, <3>1 DEF InThree
    <3>4. QED
      BY <3>2, <3>3
  <2>2. CASE ~(i <= a) /\ i <= a + b
    <3>1. PICK j \in 1..b : j = i - a /\ i = a + j
      BY <2>2
    <3>2. i \in 1..(a + b)
      BY <2>2
    <3>3. z[i] = q[j]
      BY <1>3, <1>5, <2>2, <3>1, <3>2
    <3>4. u[a + j] = q[j]
      BY <1>1 DEF InThree
    <3>5. QED
      BY <3>1, <3>3, <3>4
  <2>3. CASE ~(i <= a + b)
    <3>1. PICK j \in 1..c : j = i - (a + b) /\ i = a + b + j
      BY <2>3
    <3>2. z[i] = r[j]
      BY <1>5, <2>3, <3>1
    <3>3. u[a + b + j] = r[j]
      BY <1>1 DEF InThree
    <3>4. QED
      BY <3>1, <3>2, <3>3
  <2>4. QED
    BY <2>1, <2>2, <2>3
<1>8. z = u
  BY <1>5, <1>6, <1>7, SeqEqual
<1>9. QED
  BY <1>2, <1>4, <1>8

Content == [number : Word, value : Seq(Byte)]

\* The contents of options.
LEMMA ContentsAre ==
    ASSUME NEW s \in Seq(Option)
    PROVE  /\ Contents(s) \in Seq(Content) /\ Len(Contents(s)) = Len(s) /\ Len(s) \in Nat
           /\ DOMAIN Contents(s) = 1..Len(s)
           /\ \A j \in 1..Len(s) : Contents(s)[j] = [number |-> s[j].number, value |-> s[j].value]
<1>1. PICK n \in Nat : n = Len(s) /\ DOMAIN s = 1..n
  BY LenProperties
<1>2. Contents(s) = [i \in 1..n |-> NumberAndValue(s[i])]
  BY <1>1 DEF Contents
<1>3. \A i \in 1..n : NumberAndValue(s[i]) \in Content
                      /\ NumberAndValue(s[i]) = [number |-> s[i].number, value |-> s[i].value]
  <2> TAKE i \in 1..n
  <2>1. s[i] \in Option
    BY <1>1, ElementOfSeq
  <2>2. QED
    BY <2>1 DEF Option, NumberAndValue, Content
<1>4. Contents(s) \in Seq(Content) /\ Len(Contents(s)) = n /\ DOMAIN Contents(s) = 1..n
  <2>1. PICK u : u = Contents(s)
    OBVIOUS
  <2>2. u \in [1..n -> Content]
    BY <1>2, <1>3, <2>1
  <2>3. u \in Seq(Content) /\ Len(u) = n
    BY <1>1, <2>2
  <2>4. QED
    BY <2>1, <2>2, <2>3
<1>5. \A j \in 1..n : Contents(s)[j] = [number |-> s[j].number, value |-> s[j].value]
  BY <1>2, <1>3
<1>6. QED
  BY <1>1, <1>4, <1>5

LEMMA PutMeans ==
    ASSUME NEW s \in Seq(Option), NEW n \in Word, NEW vs \in Seq(Seq(Byte)),
           NEW t, NEW k, NEW m, PutFirst(s, t, k, n, vs, m)
    PROVE  Contents(t) = Abstract!WithOptions(Contents(s), n, SubSeq(vs, 1, m))
<1>1. PICK l \in Nat : l = Len(s) /\ k \in 0..l /\ t \in Seq(Option) /\ Len(t) = l + m /\ m \in 0..Len(vs)
  BY LenProperties DEF PutFirst
<1>2. PICK c, u, xs : c = Contents(s) /\ u = Contents(t) /\ xs = SubSeq(vs, 1, m)
  OBVIOUS
<1>3. /\ c \in Seq(Content) /\ Len(c) = l /\ DOMAIN c = 1..l
      /\ \A j \in 1..l : c[j] = [number |-> s[j].number, value |-> s[j].value]
  BY <1>1, <1>2, ContentsAre
<1>4. /\ u \in Seq(Content) /\ Len(u) = l + m
      /\ \A j \in 1..(l + m) : u[j] = [number |-> t[j].number, value |-> t[j].value]
  BY <1>1, <1>2, ContentsAre
<1>5. Len(vs) \in Nat /\ m \in Nat /\ m <= Len(vs) /\ \A j \in 1..Len(vs) : vs[j] \in Seq(Byte)
  BY <1>1, LenProperties, ElementOfSeq
<1>6. xs \in Seq(Seq(Byte)) /\ Len(xs) = m /\ DOMAIN xs = 1..m /\ \A j \in 1..m : xs[j] = vs[j]
  <2>1. \A j \in 1..m : vs[j] \in Seq(Byte)
    BY <1>5
  <2>2. /\ xs \in Seq(Seq(Byte)) /\ Len(xs) = (IF 1 <= m THEN m - 1 + 1 ELSE 0)
        /\ \A j \in 1..(m - 1 + 1) : xs[j] = vs[1 + j - 1]
    BY <1>2, <1>5, <2>1, SubSeqProperties
  <2>3. QED
    BY <1>5, <2>2, LenProperties
<1>7. Cardinality({i \in DOMAIN c : c[i].number <= n}) = k
  <2>1. ASSUME NEW i \in 1..l
        PROVE  c[i].number <= n <=> i \in 1..k
    <3>1. c[i].number = s[i].number
      BY <1>3
    <3>2. i \in 1..k \/ i \in (k + 1)..l
      BY <1>1
    <3>3. \A j \in (k + 1)..l : j \notin 1..k
      BY <1>1
    <3>4. QED
      BY <1>1, <3>1, <3>2, <3>3 DEF PutFirst
  <2>2. 1..k \subseteq 1..l
    BY <1>1
  <2>3. {i \in DOMAIN c : c[i].number <= n} = 1..k
    BY <1>3, <2>1, <2>2
  <2>4. Cardinality(1..k) = k
    <3>1. PICK one \in Int : one = 1
      OBVIOUS
    <3>2. k \in Int /\ k >= 0
      BY <1>1
    <3>3. Cardinality(one..k) = IF one > k THEN 0 ELSE k - one + 1
      BY <3>2, FS_Interval
    <3>4. QED
      BY <3>1, <3>2, <3>3
  <2>5. QED
    BY <2>3, <2>4
<1>8. PICK p, q, r : /\ p = SubSeq(c, 1, k) /\ q = [i \in DOMAIN xs |-> [number |-> n, value |-> xs[i]]]
                     /\ r = SubSeq(c, k + 1, Len(c))
  OBVIOUS
<1>9. p \in Seq(Content) /\ Len(p) = k /\ \A j \in 1..k : p[j] = c[j]
  <2>1. \A j \in 1..k : c[j] \in Content
    BY <1>1, <1>3, ElementOfSeq
  <2>2. /\ p \in Seq(Content) /\ Len(p) = (IF 1 <= k THEN k - 1 + 1 ELSE 0)
        /\ \A j \in 1..(k - 1 + 1) : p[j] = c[1 + j - 1]
    BY <1>1, <1>8, <2>1, SubSeqProperties
  <2>3. QED
    BY <1>1, <2>2
<1>10. q \in Seq(Content) /\ Len(q) = m /\ \A j \in 1..m : q[j] = [number |-> n, value |-> vs[j]]
  <2>1. q = [i \in 1..m |-> [number |-> n, value |-> xs[i]]]
    BY <1>6, <1>8
  <2>2. \A i \in 1..m : [number |-> n, value |-> xs[i]] \in Content /\ xs[i] = vs[i]
    BY <1>6, ElementOfSeq DEF Content
  <2>3. QED
    BY <1>5, <2>1, <2>2
<1>11. r \in Seq(Content) /\ Len(r) = l - k /\ \A j \in 1..(l - k) : r[j] = c[k + j]
  <2>1. \A j \in (k + 1)..l : c[j] \in Content
    BY <1>1, <1>3, ElementOfSeq
  <2>2. /\ r \in Seq(Content) /\ Len(r) = (IF k + 1 <= l THEN l - (k + 1) + 1 ELSE 0)
        /\ \A j \in 1..(l - (k + 1) + 1) : r[j] = c[k + 1 + j - 1]
    BY <1>1, <1>3, <1>8, <2>1, SubSeqProperties
  <2>3. QED
    BY <1>1, <2>2
<1>12. InThree(u, p, q, r)
  <2>1. Len(u) = k + m + (l - k)
    BY <1>1, <1>4, <1>5
  <2>2. ASSUME NEW j \in 1..k
        PROVE  u[j] = p[j]
    <3>1. j \in 1..l /\ j \in 1..(l + m)
      BY <1>1, <1>5
    <3>2. t[j].number = s[j].number /\ t[j].value = s[j].value
      BY DEF PutFirst
    <3>3. QED
      BY <1>3, <1>4, <1>9, <3>1, <3>2
  <2>3. ASSUME NEW j \in 1..m
        PROVE  u[k + j] = q[j]
    <3>1. k + j \in 1..(l + m)
      BY <1>1, <1>5
    <3>2. t[k + j].number = n /\ t[k + j].value = vs[j]
      BY DEF PutFirst
    <3>3. QED
      BY <1>4, <1>10, <3>1, <3>2
  <2>4. ASSUME NEW j \in 1..(l - k)
        PROVE  u[k + m + j] = r[j]
    <3>1. PICK i \in (k + 1)..l : i = k + j /\ i + m = k + m + j
      BY <1>1, <1>5
    <3>2. i \in 1..l /\ i + m \in 1..(l + m)
      BY <1>1, <1>5
    <3>3. t[i + m].number = s[i].number /\ t[i + m].value = s[i].value
      BY <1>1 DEF PutFirst
    <3>4. u[i + m] = c[i]
      BY <1>3, <1>4, <3>2, <3>3
    <3>5. r[j] = c[i]
      BY <1>11, <3>1
    <3>6. QED
      BY <3>1, <3>4, <3>5
  <2>5. QED
    BY <1>9, <1>10, <1>11, <2>1, <2>2, <2>3, <2>4 DEF InThree
<1>13. (p \o q) \o r = u
  BY <1>4, <1>9, <1>10, <1>11, <1>12, Joins
<1>14. Abstract!WithOptions(c, n, xs) = (p \o q) \o r
  <2>1. Abstract!Cardinality({i \in DOMAIN c : c[i].number <= n}) = k
    BY <1>7, AbstractCardinality
  <2>2. QED
    BY <1>8, <2>1, Zenon DEF Abstract!WithOptions
<1>15. QED
  BY <1>2, <1>13, <1>14

-----------------------------------------------------------------------------
(***************************************************************************)
(* The path.  setURI() cuts it with a loop, Segments() by counting its     *)
(* cuts: the loop's n-th turn is between the n-th cut and the next.        *)
(***************************************************************************)
\* How many of the positions C are before c, and the position with k before it.
Below(C, c) == {d \in C : d < c}
RankIn(C, c) == Cardinality(Below(C, c))
Nth(C, k) == CHOOSE c \in C : RankIn(C, c) = k

Positioned(C) == C \subseteq Nat /\ IsFiniteSet(C)

LEMMA RankTyped ==
    ASSUME NEW C, Positioned(C), NEW c
    PROVE  IsFiniteSet(Below(C, c)) /\ RankIn(C, c) \in Nat
<1>1. PICK B : B = Below(C, c) /\ B \in SUBSET C
  BY DEF Below
<1>2. IsFiniteSet(C)
  BY DEF Positioned
<1>3. IsFiniteSet(B)
  BY <1>1, <1>2, FS_Subset
<1>4. Cardinality(B) \in Nat
  BY <1>3, FS_CardinalityType
<1>5. QED
  BY <1>1, <1>3, <1>4 DEF RankIn

LEMMA RankGrows ==
    ASSUME NEW C, Positioned(C), NEW c \in C, NEW e \in C, c < e
    PROVE  RankIn(C, c) < RankIn(C, e)
<1>1. PICK A, B : A = Below(C, c) /\ B = Below(C, e)
  OBVIOUS
<1>2. c \in Nat /\ e \in Nat /\ \A d \in C : d \in Nat
  BY DEF Positioned
<1>3. A \in SUBSET B
  <2>1. \A d \in C : d < c => d < e
    BY <1>2
  <2>2. QED
    BY <1>1, <2>1 DEF Below
<1>4. c \in B /\ c \notin A
  BY <1>1, <1>2 DEF Below
<1>5. IsFiniteSet(B) /\ Cardinality(A) \in Nat /\ Cardinality(B) \in Nat
  BY <1>1, RankTyped DEF RankIn
<1>6. Cardinality(A) <= Cardinality(B) /\ (Cardinality(B) = Cardinality(A) => B = A)
  BY <1>3, <1>5, FS_Subset
<1>7. Cardinality(A) # Cardinality(B)
  BY <1>4, <1>6
<1>8. QED
  BY <1>1, <1>5, <1>6, <1>7 DEF RankIn

LEMMA NthOfRank ==
    ASSUME NEW C, Positioned(C), NEW c \in C
    PROVE  Nth(C, RankIn(C, c)) = c
<1>1. PICK k, e : k = RankIn(C, c) /\ e = Nth(C, k)
  OBVIOUS
<1>2. e \in C /\ RankIn(C, e) = k
  BY <1>1 DEF Nth
<1>3. c \in Nat /\ e \in Nat /\ k \in Nat
  BY <1>1, <1>2, RankTyped DEF Positioned
<1>4. ~(c < e)
  BY <1>1, <1>2, <1>3, RankGrows
<1>5. ~(e < c)
  BY <1>1, <1>2, <1>3, RankGrows
<1>6. QED
  BY <1>1, <1>3, <1>4, <1>5

\* The next position has one more before it.
LEMMA RankOfNext ==
    ASSUME NEW C, Positioned(C), NEW c \in C, NEW e \in C, c < e, \A d \in C : d <= c \/ e <= d
    PROVE  RankIn(C, e) = RankIn(C, c) + 1
<1>1. PICK A, B : A = Below(C, c) /\ B = Below(C, e)
  OBVIOUS
<1>2. c \in Nat /\ e \in Nat /\ \A d \in C : d \in Nat
  BY DEF Positioned
<1>3. c \notin A
  BY <1>1, <1>2 DEF Below
<1>4. B = A \cup {c}
  <2>1. ASSUME NEW d \in C
        PROVE  d < e <=> (d < c \/ d = c)
    BY <1>2, d <= c \/ e <= d
  <2>2. QED
    BY <1>1, <2>1 DEF Below
<1>5. IsFiniteSet(A)
  BY <1>1, RankTyped
<1>6. Cardinality(A \cup {c}) = Cardinality(A) + 1
  BY <1>3, <1>5, FS_AddElement
<1>7. QED
  BY <1>1, <1>4, <1>6 DEF RankIn

LEMMA RankOfEnds ==
    ASSUME NEW C, Positioned(C), NEW lo \in C, NEW hi \in C, \A d \in C : lo <= d /\ d <= hi
    PROVE  RankIn(C, lo) = 0 /\ RankIn(C, hi) = Cardinality(C) - 1
<1>1. \A d \in C : d \in Nat
  BY DEF Positioned
<1>2. Below(C, lo) = {}
  <2>1. ASSUME NEW d \in C
        PROVE  ~(d < lo)
    BY <1>1, lo <= d
  <2>2. QED
    BY <2>1 DEF Below
<1>3. RankIn(C, lo) = 0
  BY <1>2, FS_EmptySet DEF RankIn
<1>4. PICK A : A = Below(C, hi)
  OBVIOUS
<1>5. hi \notin A /\ C = A \cup {hi}
  <2>1. hi \notin A
    BY <1>1, <1>4 DEF Below
  <2>2. ASSUME NEW d \in C
        PROVE  d < hi \/ d = hi
    BY <1>1, d <= hi
  <2>3. QED
    BY <1>4, <2>1, <2>2 DEF Below
<1>6. IsFiniteSet(A) /\ RankIn(C, hi) \in Nat
  BY <1>4, RankTyped
<1>7. Cardinality(A \cup {hi}) = Cardinality(A) + 1
  BY <1>5, <1>6, FS_AddElement
<1>8. Cardinality(C) = RankIn(C, hi) + 1
  BY <1>4, <1>5, <1>7 DEF RankIn
<1>9. QED
  BY <1>3, <1>6, <1>8

\* The positions where a path of two characters or more is cut: its slashes, and its
\* ends, where no slash is.
LowCut(uri) == IF uri[1] = Slash THEN 1 ELSE 0
HighCut(uri) == IF uri[Len(uri)] = Slash THEN Len(uri) ELSE Len(uri) + 1
CutsOf(uri) ==
    {LowCut(uri), HighCut(uri)} \cup {i \in (LowCut(uri) + 1)..(HighCut(uri) - 1) : uri[i] = Slash}

LEMMA CutsAre ==
    ASSUME NEW uri \in Seq(Byte), NEW n \in Nat, n = Len(uri), n >= 2
    PROVE  \E lo \in {0, 1}, hi \in {n, n + 1} :
              /\ lo = LowCut(uri) /\ hi = HighCut(uri) /\ lo < hi
              /\ lo \in CutsOf(uri) /\ hi \in CutsOf(uri) /\ \A d \in CutsOf(uri) : lo <= d /\ d <= hi
              /\ Positioned(CutsOf(uri))
<1>1. PICK lo \in {0, 1}, hi \in {n, n + 1} : lo = LowCut(uri) /\ hi = HighCut(uri) /\ lo < hi
  BY DEF LowCut, HighCut
<1>2. PICK C : C = CutsOf(uri)
  OBVIOUS
<1>3. C = {lo, hi} \cup {i \in (lo + 1)..(hi - 1) : uri[i] = Slash}
  BY <1>1, <1>2 DEF CutsOf
<1>4. lo \in C /\ hi \in C
  BY <1>3
<1>5. lo \in Nat /\ hi \in Nat
  OBVIOUS
<1>6. ASSUME NEW d \in C
      PROVE  d \in Nat /\ lo <= d /\ d <= hi
  <2>1. d = lo \/ d = hi \/ d \in (lo + 1)..(hi - 1)
    BY <1>3
  <2>2. QED
    BY <1>1, <1>5, <2>1
<1>7. IsFiniteSet(C)
  <2>1. IsFiniteSet(lo..hi)
    BY <1>5, FS_Interval
  <2>2. C \in SUBSET (lo..hi)
    BY <1>5, <1>6
  <2>3. QED
    BY <2>1, <2>2, FS_Subset
<1>8. Positioned(C)
  BY <1>6, <1>7 DEF Positioned
<1>9. QED
  BY <1>1, <1>2, <1>4, <1>6, <1>8

\* A turn of setURI()'s loop goes from one cut to the next.
TurnIs(uri, c, e) ==
    /\ SegmentStart(uri, IF c = 0 THEN 1 ELSE c) = c + 1 /\ e = SegmentEnd(uri, c + 1)
    /\ e \in CutsOf(uri) /\ c < e /\ \A d \in CutsOf(uri) : d <= c \/ e <= d
    /\ (IF c = 0 THEN 1 ELSE c) < Len(uri) /\ e > 0

LEMMA TurnTaken ==
    ASSUME NEW uri \in Seq(Byte), NEW n \in Nat, n = Len(uri), n >= 2,
           NEW c \in CutsOf(uri), c # HighCut(uri)
    PROVE  TurnIs(uri, c, SegmentEnd(uri, c + 1))
<1>1. PICK lo \in {0, 1}, hi \in {n, n + 1} :
         /\ lo = LowCut(uri) /\ hi = HighCut(uri) /\ lo < hi
         /\ \A d \in CutsOf(uri) : lo <= d /\ d <= hi
  BY CutsAre
<1>2. PICK C : C = CutsOf(uri)
  OBVIOUS
<1>3. C = {lo, hi} \cup {i \in (lo + 1)..(hi - 1) : uri[i] = Slash}
  BY <1>1, <1>2 DEF CutsOf
<1>4. lo \in Nat /\ hi \in Nat /\ c \in Nat /\ lo <= c /\ c < hi
  <2>1. c = lo \/ c \in (lo + 1)..(hi - 1)
    BY <1>1, <1>2, <1>3
  <2>2. QED
    BY <1>1, <2>1
<1>5. lo = 1 => uri[1] = Slash
  BY <1>1 DEF LowCut
<1>6. lo = 0 => uri[1] # Slash
  BY <1>1 DEF LowCut
<1>7. /\ hi = n => uri[n] = Slash
      /\ hi = n + 1 => uri[n] # Slash
  BY <1>1 DEF HighCut
<1>8. c # 0 => uri[c] = Slash
  <2>1. c = lo \/ (c \in (lo + 1)..(hi - 1) /\ uri[c] = Slash)
    BY <1>1, <1>2, <1>3
  <2>2. QED
    BY <1>5, <2>1
<1>9. c = 0 => lo = 0
  BY <1>4
<1>10. PICK i : i = IF c = 0 THEN 1 ELSE c
  OBVIOUS
<1>11. i \in Nat /\ i < n /\ i >= 1
  <2>1. c # n
    <3>1. CASE hi = n
      BY <1>4, <3>1
    <3>2. CASE hi = n + 1
      BY <1>7, <1>8, <3>2
    <3>3. QED
      BY <1>1, <3>1, <3>2
  <2>2. QED
    BY <1>1, <1>4, <1>10, <2>1
<1>12. SegmentStart(uri, i) = c + 1
  <2>1. CASE c = 0
    BY <1>6, <1>9, <1>10, <2>1 DEF SegmentStart
  <2>2. CASE c # 0
    BY <1>8, <1>10, <2>2 DEF SegmentStart
  <2>3. QED
    BY <2>1, <2>2
<1>13. PICK s \in 1..(n + 1) : s = c + 1
  BY <1>1, <1>4
<1>14. PICK e : /\ e = SegmentEnd(uri, s) /\ e \in s..(n + 1) /\ (e <= n => uri[e] = Slash)
                /\ \A j \in s..(e - 1) : uri[j] # Slash
  BY SegmentEnds
<1>15. e \in Nat /\ c < e /\ e > 0
  BY <1>4, <1>13, <1>14
<1>16. e <= hi
  <2>1. CASE hi = n
    <3>1. ~(n < e)
      <4>1. SUFFICES ASSUME n < e
                     PROVE  FALSE
        OBVIOUS
      <4>2. n \in s..(e - 1)
        BY <1>4, <1>13, <1>15, <2>1, <4>1
      <4>3. QED
        BY <1>7, <1>14, <2>1, <4>2
    <3>2. QED
      BY <1>15, <2>1, <3>1
  <2>2. CASE hi = n + 1
    BY <1>14, <2>2
  <2>3. QED
    BY <1>1, <2>1, <2>2
<1>17. e \in C
  <2>1. CASE e = hi
    BY <1>3, <2>1
  <2>2. CASE e # hi
    <3>1. e \in (lo + 1)..(hi - 1) /\ e <= n
      BY <1>1, <1>4, <1>15, <1>16, <2>2
    <3>2. QED
      BY <1>3, <1>14, <3>1
  <2>3. QED
    BY <2>1, <2>2
<1>18. ASSUME NEW d \in C
       PROVE  d <= c \/ e <= d
  <2>1. d = lo \/ d = hi \/ (d \in (lo + 1)..(hi - 1) /\ uri[d] = Slash)
    BY <1>3
  <2>2. CASE d = lo \/ d = hi
    BY <1>4, <1>16, <2>2
  <2>3. CASE d \in (lo + 1)..(hi - 1) /\ uri[d] = Slash
    <3>1. d \notin s..(e - 1)
      BY <1>14, <2>3
    <3>2. QED
      BY <1>4, <1>13, <1>15, <2>3, <3>1
  <2>4. QED
    BY <2>1, <2>2, <2>3
<1>19. QED
  BY <1>2, <1>10, <1>11, <1>12, <1>13, <1>14, <1>15, <1>17, <1>18, SMTT(30) DEF TurnIs

\* The segments from the cut with r before it on, of m in all.
SegmentsBehind(g, uri, r, m) ==
    /\ g \in Seq(Seq(Byte)) /\ Len(g) = m - r
    /\ \A k \in 1..(m - r) : g[k] = SubSeq(uri, Nth(CutsOf(uri), r + k - 1) + 1, Nth(CutsOf(uri), r + k) - 1)

LEMMA NextSegment ==
    ASSUME NEW uri, NEW r \in Nat, NEW m \in Nat, NEW g, SegmentsBehind(g, uri, r + 1, m), r < m,
           NEW v \in Seq(Byte), v = SubSeq(uri, Nth(CutsOf(uri), r) + 1, Nth(CutsOf(uri), r + 1) - 1)
    PROVE  SegmentsBehind(<< v >> \o g, uri, r, m)
<1>1. PICK u, h : u = << v >> /\ h = u \o g
  OBVIOUS
<1>2. g \in Seq(Seq(Byte)) /\ u \in Seq(Seq(Byte)) /\ Len(u) = 1 /\ u[1] = v
  BY <1>1 DEF SegmentsBehind
<1>3. Len(g) = m - (r + 1)
  BY DEF SegmentsBehind
<1>4. /\ h \in Seq(Seq(Byte)) /\ Len(h) = Len(u) + Len(g)
      /\ \A i \in 1..(Len(u) + Len(g)) : h[i] = IF i <= Len(u) THEN u[i] ELSE g[i - Len(u)]
  BY <1>1, <1>2, ConcatProperties
<1>5. Len(u) + Len(g) = m - r
  BY <1>2, <1>3
<1>6. ASSUME NEW k \in 1..(m - r)
      PROVE  h[k] = SubSeq(uri, Nth(CutsOf(uri), r + k - 1) + 1, Nth(CutsOf(uri), r + k) - 1)
  <2>1. h[k] = IF k <= 1 THEN u[k] ELSE g[k - 1]
    BY <1>2, <1>4, <1>5
  <2>2. CASE k = 1
    <3>1. h[k] = v
      BY <1>2, <2>1, <2>2
    <3>2. r + k - 1 = r /\ r + k = r + 1
      BY <2>2
    <3>3. QED
      BY <3>1, <3>2
  <2>3. CASE k # 1
    <3>1. PICK j \in 1..(m - (r + 1)) : j = k - 1 /\ r + 1 + j - 1 = r + k - 1 /\ r + 1 + j = r + k
      BY <2>3
    <3>2. ~(k <= 1)
      BY <2>3
    <3>3. h[k] = g[j]
      BY <2>1, <3>1, <3>2
    <3>4. g[j] = SubSeq(uri, Nth(CutsOf(uri), r + 1 + j - 1) + 1, Nth(CutsOf(uri), r + 1 + j) - 1)
      BY DEF SegmentsBehind
    <3>5. QED
      BY <3>1, <3>3, <3>4
  <2>4. QED
    BY <2>2, <2>3
<1>7. QED
  BY <1>1, <1>4, <1>5, <1>6 DEF SegmentsBehind

\* The loop's position at a cut.
Turn(c) == IF c = 0 THEN 1 ELSE c

LEMMA CutInSegments ==
    ASSUME NEW uri \in Seq(Byte), NEW n \in Nat, n = Len(uri), n >= 2,
           NEW f, f = Cuts(uri, f),
           NEW m \in Nat, m = Cardinality(CutsOf(uri)) - 1
    PROVE  \A c \in CutsOf(uri) : SegmentsBehind(f[Turn(c)], uri, RankIn(CutsOf(uri), c), m)
<1>1. PICK lo \in {0, 1}, hi \in {n, n + 1} :
         /\ lo = LowCut(uri) /\ hi = HighCut(uri) /\ lo < hi
         /\ lo \in CutsOf(uri) /\ hi \in CutsOf(uri) /\ \A d \in CutsOf(uri) : lo <= d /\ d <= hi
         /\ Positioned(CutsOf(uri))
  BY CutsAre
<1>2. PICK C : C = CutsOf(uri)
  OBVIOUS
<1>3. \A c \in C : c \in Nat /\ c <= hi
  BY <1>1, <1>2 DEF Positioned
<1>4. hi \in Nat /\ hi >= n /\ hi \in 1..(n + 1) /\ Turn(hi) = hi
  BY <1>1 DEF Turn
<1> DEFINE T == {c \in Nat : c \in C => SegmentsBehind(f[Turn(c)], uri, RankIn(C, c), m)}
<1>5. \A c \in Nat : c > hi => c \in T
  BY <1>3, <1>4
<1>6. ASSUME NEW c \in Nat, c <= hi, \A j \in Nat : j > c => j \in T
      PROVE  c \in T
  <2> SUFFICES ASSUME c \in C
               PROVE  SegmentsBehind(f[Turn(c)], uri, RankIn(C, c), m)
    OBVIOUS
  <2>1. CASE c = hi
    <3>1. f[hi] = CutFrom(uri, f, hi)
      BY <1>4 DEF Cuts
    <3>2. f[hi] = << >>
      BY <1>4, <3>1 DEF CutFrom
    <3>3. RankIn(C, hi) = m
      BY <1>1, <1>2, RankOfEnds
    <3>4. SegmentsBehind(<< >>, uri, m, m)
      <4>1. << >> \in Seq(Seq(Byte)) /\ Len(<< >>) = m - m /\ \A k \in 1..(m - m) : FALSE
        BY EmptySeq
      <4>2. QED
        BY <4>1 DEF SegmentsBehind
    <3>5. QED
      BY <1>4, <2>1, <3>2, <3>3, <3>4
  <2>2. CASE c # hi
    <3>1. PICK e : e = SegmentEnd(uri, c + 1) /\ TurnIs(uri, c, e)
      BY <1>1, <1>2, <2>2, TurnTaken
    <3>2. PICK i : i = Turn(c)
      OBVIOUS
    <3>3. /\ SegmentStart(uri, i) = c + 1 /\ e \in C /\ c < e /\ (\A d \in C : d <= c \/ e <= d)
          /\ i < n /\ e > 0
      BY <1>2, <3>1, <3>2 DEF TurnIs, Turn
    <3>4. e \in Nat /\ e <= hi
      BY <1>3, <3>3
    <3>5. i \in 1..(n + 1)
      BY <3>2, <3>3 DEF Turn
    <3>6. Turn(e) = e
      BY <3>3, <3>4 DEF Turn
    <3>7. PICK r \in Nat : r = RankIn(C, c) /\ RankIn(C, e) = r + 1
      BY <1>1, <1>2, <3>3, RankTyped, RankOfNext
    <3>8. SegmentsBehind(f[e], uri, r + 1, m)
      <4>1. e \in T
        BY <1>6, <3>3, <3>4
      <4>2. QED
        BY <3>3, <3>6, <3>7, <4>1
    <3>9. r < m
      <4>1. RankIn(C, hi) = m
        BY <1>1, <1>2, RankOfEnds
      <4>2. c < hi
        BY <1>3, <1>4, <2>2
      <4>3. QED
        BY <1>1, <1>2, <3>7, <4>1, <4>2, RankGrows
    <3>10. PICK v : v = SubSeq(uri, c + 1, e - 1)
      OBVIOUS
    <3>11. v \in Seq(Byte)
      BY <3>1, <3>3, <3>5, <3>10, SegmentCut
    <3>12. Nth(C, r) = c /\ Nth(C, r + 1) = e
      BY <1>1, <1>2, <3>3, <3>7, NthOfRank
    <3>13. SegmentsBehind(<< v >> \o f[e], uri, r, m)
      BY <1>2, <3>8, <3>9, <3>10, <3>11, <3>12, NextSegment
    <3>14. f[i] = << v >> \o f[e]
      <4>1. f[i] = CutFrom(uri, f, i)
        BY <3>5 DEF Cuts
      <4>2. ~(i >= Len(uri))
        BY <3>3, <3>5
      <4>3. QED
        BY <3>1, <3>3, <3>10, <4>1, <4>2 DEF CutFrom
    <3>15. QED
      BY <3>2, <3>7, <3>13, <3>14
  <2>3. QED
    BY <2>1, <2>2
<1>7. Nat \subseteq T
  <2> HIDE DEF T
  <2>1. QED
    BY <1>4, <1>5, <1>6, Downward
<1>8. QED
  BY <1>2, <1>3, <1>7

\* What the abstract specification calls the segments are those that the loop cuts.
AbstractNth(C, k) == CHOOSE c \in C : Abstract!Cardinality({d \in C : d < c}) = k

LEMMA AbstractNthIs ==
    ASSUME NEW C, NEW k
    PROVE  AbstractNth(C, k) = Nth(C, k)
  BY Zenon DEF AbstractNth, Nth, RankIn, Below, Abstract!Cardinality, Cardinality

AbstractFirst(uri) == IF uri[1] = Abstract!Slash THEN 2 ELSE 1
AbstractLast(uri) == IF uri[Len(uri)] = Abstract!Slash THEN Len(uri) - 1 ELSE Len(uri)
AbstractCuts(uri) ==
    {AbstractFirst(uri) - 1, AbstractLast(uri) + 1}
        \cup {i \in AbstractFirst(uri)..AbstractLast(uri) : uri[i] = Abstract!Slash}

LEMMA AbstractSegments ==
    ASSUME NEW uri
    PROVE  Abstract!Segments(uri) =
              IF Len(uri) = 1 THEN << uri >>
              ELSE [k \in 1..(Abstract!Cardinality(AbstractCuts(uri)) - 1) |->
                       SubSeq(uri, AbstractNth(AbstractCuts(uri), k - 1) + 1,
                                   AbstractNth(AbstractCuts(uri), k) - 1)]
  BY Zenon DEF Abstract!Segments, AbstractNth, AbstractCuts, AbstractFirst, AbstractLast

LEMMA SegmentsAre ==
    ASSUME NEW uri \in Seq(Byte), uri # << >>, Len(uri) # 1
    PROVE  Abstract!Segments(uri) = SegmentsFrom(uri)
<1>1. PICK n \in Nat : n = Len(uri) /\ n >= 2
  <2>1. PICK n : n = Len(uri) /\ n \in Nat \ {0}
    BY EmptySeq
  <2>2. n # 1
    BY <2>1
  <2>3. QED
    BY <2>1, <2>2
<1>2. PICK first, last, C :
         /\ first = IF uri[1] = Abstract!Slash THEN 2 ELSE 1
         /\ last = IF uri[Len(uri)] = Abstract!Slash THEN Len(uri) - 1 ELSE Len(uri)
         /\ C = {first - 1, last + 1} \cup {i \in first..last : uri[i] = Abstract!Slash}
         /\ C = AbstractCuts(uri)
  BY DEF AbstractCuts, AbstractFirst, AbstractLast
<1>3. PICK lo \in {0, 1}, hi \in {n, n + 1} :
         /\ lo = LowCut(uri) /\ hi = HighCut(uri) /\ lo < hi
         /\ lo \in CutsOf(uri) /\ hi \in CutsOf(uri) /\ \A d \in CutsOf(uri) : lo <= d /\ d <= hi
         /\ Positioned(CutsOf(uri))
  BY <1>1, CutsAre
<1>4. Abstract!Slash = Slash
  BY DEF Abstract!Slash, Slash
<1>5. C = CutsOf(uri)
  <2>1. first = lo + 1 /\ last = hi - 1 /\ first - 1 = lo /\ last + 1 = hi
    BY <1>1, <1>2, <1>3, <1>4 DEF LowCut, HighCut
  <2>2. QED
    BY <1>2, <1>3, <1>4, <2>1 DEF CutsOf
<1>6. PICK m \in Nat : m = Cardinality(CutsOf(uri)) - 1 /\ RankIn(CutsOf(uri), lo) = 0
  <2>1. /\ RankIn(CutsOf(uri), lo) = 0
        /\ RankIn(CutsOf(uri), hi) = Cardinality(CutsOf(uri)) - 1
    BY <1>3, RankOfEnds
  <2>2. RankIn(CutsOf(uri), hi) \in Nat
    BY <1>3, RankTyped
  <2>3. QED
    BY <2>1, <2>2
<1>7. PICK f : f = Cuts(uri, f) /\ SegmentsFrom(uri) = f[1]
  BY CutExists, CutUnfolds
<1>8. SegmentsBehind(f[1], uri, 0, m)
  <2>1. SegmentsBehind(f[Turn(lo)], uri, RankIn(CutsOf(uri), lo), m)
    BY <1>1, <1>3, <1>6, <1>7, CutInSegments
  <2>2. Turn(lo) = 1
    BY <1>3 DEF Turn
  <2>3. QED
    BY <1>6, <2>1, <2>2
<1>9. PICK g : g = SegmentsFrom(uri) /\ g \in Seq(Seq(Byte)) /\ Len(g) = m
               /\ \A k \in 1..m : g[k] = SubSeq(uri, Nth(CutsOf(uri), k - 1) + 1, Nth(CutsOf(uri), k) - 1)
  <2>1. PICK g : g = SegmentsFrom(uri) /\ SegmentsBehind(g, uri, 0, m)
    BY <1>7, <1>8
  <2>2. m - 0 = m /\ \A k \in 1..m : 0 + k - 1 = k - 1 /\ 0 + k = k
    OBVIOUS
  <2>3. g \in Seq(Seq(Byte)) /\ Len(g) = m
    BY <2>1, <2>2 DEF SegmentsBehind
  <2>4. \A k \in 1..m : g[k] = SubSeq(uri, Nth(CutsOf(uri), k - 1) + 1, Nth(CutsOf(uri), k) - 1)
    BY <2>1, <2>2 DEF SegmentsBehind
  <2>5. QED
    BY <2>1, <2>3, <2>4
<1>10. Abstract!Segments(uri) =
          [k \in 1..m |-> SubSeq(uri, AbstractNth(C, k - 1) + 1, AbstractNth(C, k) - 1)]
  <2>1. Abstract!Cardinality(C) - 1 = m
    BY <1>5, <1>6, AbstractCardinality
  <2>2. Abstract!Segments(uri) =
          [k \in 1..(Abstract!Cardinality(C) - 1) |-> SubSeq(uri, AbstractNth(C, k - 1) + 1, AbstractNth(C, k) - 1)]
    BY <1>2, AbstractSegments, Zenon
  <2>3. QED
    BY <2>1, <2>2
<1>11. g = [k \in 1..m |-> SubSeq(uri, AbstractNth(C, k - 1) + 1, AbstractNth(C, k) - 1)]
  <2>1. g = [k \in 1..m |-> g[k]]
    BY <1>9, LenProperties
  <2>2. \A k \in 1..m : g[k] = SubSeq(uri, AbstractNth(C, k - 1) + 1, AbstractNth(C, k) - 1)
    BY <1>5, <1>9, AbstractNthIs
  <2>3. QED
    BY <2>1, <2>2
<1>12. QED
  BY <1>9, <1>10, <1>11

-----------------------------------------------------------------------------
(***************************************************************************)
(* The calls that add options, and every step.                             *)
(***************************************************************************)
\* The message f means what b does, with the first m values added to its options.
PartMeant(b, f, n, vs, m) ==
    Meaning(f) = [Meaning(b) EXCEPT !.options = Abstract!WithOptions(@, n, SubSeq(vs, 1, m))]

\* Options put into a message without a payload, and its header and token kept.
LEMMA PartMeans ==
    ASSUME NEW c, NEW s, Open(c, s), NEW n \in Word, NEW vs \in Seq(Seq(Byte)),
           NEW m, NEW o, PartAdded(c, s, n, vs, m, o)
    PROVE  PartMeant(c.pdu, o.pdu, n, vs, m)
<1>1. PICK b, f : b = c.pdu /\ f = o.pdu
  OBVIOUS
<1>2. PICK t, k : PutFirst(s, t, k, n, vs, m) /\ Shaped(o, t)
  BY DEF PartAdded
<1>3. Laid(b, s, 0) /\ Laid(f, t, 0)
  BY <1>1, <1>2 DEF Open, Shaped, PartAdded
<1>4. PICK first \in Nat, end \in Nat : LaidAs(b, s, 0, first, end)
  BY <1>3, LaidIs
<1>5. b \in Seq(Byte) /\ f \in Seq(Byte) /\ s \in Seq(Option)
  BY <1>3, <1>4 DEF Laid, LaidAs
<1>6. PICK start \in Nat, stop \in Nat : LaidAs(f, t, 0, start, stop)
  BY <1>3, LaidIs
<1>7. PICK j \in Nat : j = GetTokenLength(b) /\ Len(b) >= 4 + j /\ first = 5 + j /\ first = FirstOption(b)
  <2>1. /\ Len(b) \in Nat /\ first <= end /\ Len(b) + 1 = end + (IF 0 = 0 THEN 0 ELSE 0 + 1)
        /\ first = 5 + GetTokenLength(b) /\ GetTokenLength(b) \in 0..8 /\ first = FirstOption(b)
    BY <1>4 DEF LaidAs
  <2>2. QED
    BY <2>1
<1>8. HeadKept(b, f)
  BY <1>1 DEF PartAdded
<1>9. Len(f) >= 4 + j
  <2>1. Len(f) \in Nat /\ Len(f) >= 4
    BY <1>6 DEF LaidAs
  <2>2. f[1] = b[1]
    <3>1. 1 \in 1..(first - 1)
      BY <1>7
    <3>2. QED
      BY <1>7, <1>8, <3>1 DEF HeadKept
  <2>3. GetTokenLength(f) = j
    BY <1>7, <2>2 DEF GetTokenLength
  <2>4. /\ start <= stop /\ Len(f) + 1 = stop + (IF 0 = 0 THEN 0 ELSE 0 + 1)
        /\ start = 5 + GetTokenLength(f)
    BY <1>6 DEF LaidAs
  <2>5. QED
    BY <2>1, <2>3, <2>4
<1>10. HeadAs(b, f)
  BY <1>5, <1>7, <1>8, <1>9, HeadRead
<1>11. PayloadOf(f) = PayloadOf(b) /\ OptionsOf(f) = t /\ OptionsOf(b) = s
  BY <1>3, NoPayloadReads
<1>12. Contents(t) = Abstract!WithOptions(Contents(s), n, SubSeq(vs, 1, m))
  BY <1>2, <1>5, PutMeans
<1>13. PICK x, y : x = Contents(t) /\ y = Contents(s) /\ x = Abstract!WithOptions(y, n, SubSeq(vs, 1, m))
  BY <1>12
<1>14. Meaning(f) = [Meaning(b) EXCEPT !.options = x]
  <2>1. Contents(OptionsOf(f)) = x
    BY <1>11, <1>13
  <2>2. PayloadOf(f) = PayloadOf(b)
    BY <1>11
  <2>3. /\ Meaning(f) = Parts(GetVersion(f), GetType(f), GetCode(f), GetMessageID(f), TokenOf(f),
                             x, PayloadOf(f))
        /\ Meaning(b) = Parts(GetVersion(b), GetType(b), GetCode(b), GetMessageID(b), TokenOf(b),
                             Contents(OptionsOf(b)), PayloadOf(b))
    BY <2>1, MeaningIs
  <2>4. /\ GetVersion(f) = GetVersion(b) /\ GetType(f) = GetType(b) /\ GetCode(f) = GetCode(b)
        /\ GetMessageID(f) = GetMessageID(b) /\ TokenOf(f) = TokenOf(b)
    BY <1>10 DEF HeadAs, FieldsAs
  <2>5. QED
    BY <2>2, <2>3, <2>4, SMTT(30) DEF Parts
<1>15. Meaning(b).options = y
  BY <1>11, <1>13, MeaningIs DEF Parts
<1>16. QED
  BY <1>1, <1>13, <1>14, <1>15 DEF PartMeant

\* What a call that added the first m of its values means.
OptionsMeant(op, number, bytes, done, n, vs, m) ==
    /\ Abstract!Called(op, number, bytes, done)
    /\ Meaning(coap.pdu)' = [Meaning(coap.pdu) EXCEPT !.options =
                                Abstract!WithOptions(@, n, SubSeq(vs, 1, m))]

LEMMA AddMeans ==
    ASSUME NEW s, Open(coap, s), NEW n \in Word, NEW vs \in Seq(Seq(Byte)), NEW m,
           NEW d, PartAdded(coap, s, n, vs, m, d.object),
           NEW op, NEW number, NEW bytes, Add(op, number, bytes, d),
           op \notin {"setVersion", "validate"}
    PROVE  /\ d.result = 0 => OptionsMeant(op, number, bytes, TRUE, n, vs, m)
           /\ d.result # 0 => OptionsMeant(op, number, bytes, FALSE, n, vs, m)
<1>1. /\ coap' = d.object
      /\ d.result = 0 => Abstract!Called(op, number, bytes, TRUE)
      /\ d.result # 0 => Abstract!Called(op, number, bytes, FALSE)
  BY CallDone DEF Add, ReportedByZero
<1>2. Meaning(coap.pdu)' = Meaning(d.object.pdu)
  BY <1>1 DEF Meaning
<1>3. PartMeant(coap.pdu, d.object.pdu, n, vs, m)
  BY PartMeans
<1>4. QED
  BY <1>1, <1>2, <1>3 DEF OptionsMeant, PartMeant

\* One option, put in or refused.
OneMeant(op, number, bytes, n, v) ==
    \/ OptionsMeant(op, number, bytes, TRUE, n, << v >>, 1)
    \/ Abstract!Refused(op, number, bytes)

LEMMA OneAddMeans ==
    ASSUME NEW s, Open(coap, s), NEW n \in Word, NEW v \in Seq(Byte),
           NEW d, Added(coap, s, n, << v >>, d), d.result # 0 => d.object.pdu = coap.pdu,
           NEW op, NEW number, NEW bytes, Add(op, number, bytes, d),
           op \notin {"setVersion", "validate"}
    PROVE  OneMeant(op, number, bytes, n, v)
<1>1. PICK vs : vs = << v >> /\ vs \in Seq(Seq(Byte)) /\ Len(vs) = 1
  <2>1. PICK vs : vs = << v >>
    OBVIOUS
  <2>2. vs \in Seq(Seq(Byte)) /\ Len(vs) = 1
    BY <2>1
  <2>3. QED
    BY <2>1, <2>2
<1>2. PICK m : /\ PartAdded(coap, s, n, vs, m, d.object)
               /\ (d.result = 0 /\ m = Len(vs)) \/ (d.result = 1 /\ m < Len(vs))
  BY <1>1 DEF Added
<1>3. CASE d.result = 0
  <2>1. m = 1
    BY <1>1, <1>2, <1>3
  <2>2. vs \in Seq(Seq(Byte)) /\ PartAdded(coap, s, n, vs, m, d.object)
    BY <1>1, <1>2
  <2>3. OptionsMeant(op, number, bytes, TRUE, n, vs, m)
    BY <1>3, <2>2, AddMeans
  <2>4. QED
    BY <1>1, <1>3, <2>1, <2>3 DEF OneMeant
<1>4. CASE d.result # 0
  <2>1. d.result = 1 /\ d.object.pdu = coap.pdu
    BY <1>2, <1>4
  <2>2. coap' = d.object /\ Abstract!Called(op, number, bytes, FALSE)
    BY <1>4, CallDone DEF Add, ReportedByZero
  <2>3. coap'.pdu = coap.pdu
    BY <2>1, <2>2
  <2>4. Abstract!Refused(op, number, bytes)
    BY <2>2, <2>3, NothingMeant DEF Abstract!Refused
  <2>5. QED
    BY <2>4 DEF OneMeant
<1>5. QED
  BY <1>3, <1>4

LEMMA OneMeantIs ==
    ASSUME NEW op, NEW number, NEW bytes, NEW n, NEW v \in Seq(Byte),
           OneMeant(op, number, bytes, n, v)
    PROVE  \/ /\ Abstract!Called(op, number, bytes, TRUE)
              /\ Meaning(coap.pdu)' = [Meaning(coap.pdu) EXCEPT !.options =
                                          Abstract!WithOptions(@, n, << v >>)]
           \/ Abstract!Refused(op, number, bytes)
<1>1. CASE Abstract!Refused(op, number, bytes)
  BY <1>1
<1>2. CASE OptionsMeant(op, number, bytes, TRUE, n, << v >>, 1)
  <2>1. SubSeq(<< v >>, 1, 1) = << v >>
    <3>1. PICK vs : vs = << v >>
      OBVIOUS
    <3>2. vs \in Seq(Seq(Byte)) /\ Len(vs) = 1
      BY <3>1
    <3>3. SubSeq(vs, 1, 1) = vs
      BY <3>2, SubSeqFull
    <3>4. QED
      BY <3>1, <3>3
  <2>2. QED
    BY <1>2, <2>1 DEF OptionsMeant
<1>3. QED
  BY <1>1, <1>2 DEF OneMeant

\* Options are added while the message is being built.
LEMMA MayAddTo ==
    ASSUME CallsInOrder, Orderly, NEW k, MayAdd(k)
    PROVE  \E s : Open(coap, s)
<1>1. Usable /\ coap.payloadLength = 0 /\ use = "building"
  BY DEF MayAdd, MayMove, CallsInOrder
<1>2. InShape(coap, use)
  BY <1>1 DEF Orderly
<1>3. QED
  BY <1>1, <1>2 DEF InShape

LEMMA AddOptionMeans ==
    ASSUME CallsInOrder, Orderly, CallAddOption
    PROVE  Abstract!AddOption
<1>1. PICK n \in OptionNumbers, v \in OptionValues, mem \in Memory :
         MayAdd(1) /\ Add("addOption", n, v, AddOption(coap, n, v, mem))
  BY DEF CallAddOption
<1>2. n \in Word /\ v \in Seq(Byte) /\ Len(v) \in Word /\ mem \in Memories
  BY MemoryIs, CallsAssumption DEF Orderly
<1>3. PICK s : Open(coap, s)
  BY <1>1, MayAddTo
<1>4. PICK d : /\ d = AddOption(coap, n, v, mem) /\ Added(coap, s, n, << v >>, d)
               /\ d.result # 0 => d.object.pdu = coap.pdu
  BY <1>2, <1>3, OptionAddedTo
<1>5. OneMeant("addOption", n, v, n, v)
  BY <1>1, <1>2, <1>3, <1>4, OneAddMeans
<1>6. \/ /\ Abstract!Called("addOption", n, v, TRUE)
         /\ Meaning(coap.pdu)' = [Meaning(coap.pdu) EXCEPT !.options =
                                     Abstract!WithOptions(@, n, << v >>)]
      \/ Abstract!Refused("addOption", n, v)
  BY <1>2, <1>5, OneMeantIs
<1>7. QED
  BY <1>1, <1>6 DEF Abstract!AddOption

LEMMA AddURIQueryMeans ==
    ASSUME CallsInOrder, Orderly, CallAddURIQuery
    PROVE  Abstract!AddURIQuery
<1>1. PICK q \in Queries, mem \in Memory :
         MayAdd(1) /\ Add("addURIQuery", 0, q, AddOption(coap, UriQuery, q, mem))
  BY DEF CallAddURIQuery
<1>2. UriQuery \in Word /\ q \in Seq(Byte) /\ Len(q) \in Word /\ mem \in Memories
  BY MemoryIs, CallsAssumption DEF UriQuery, Word, Orderly
<1>3. PICK s : Open(coap, s)
  BY <1>1, MayAddTo
<1>4. PICK d : /\ d = AddOption(coap, UriQuery, q, mem) /\ Added(coap, s, UriQuery, << q >>, d)
               /\ d.result # 0 => d.object.pdu = coap.pdu
  BY <1>2, <1>3, OptionAddedTo
<1>5. OneMeant("addURIQuery", 0, q, UriQuery, q)
  BY <1>1, <1>2, <1>3, <1>4, OneAddMeans
<1>6. Abstract!UriQuery = UriQuery
  BY DEF Abstract!UriQuery, UriQuery
<1>7. \/ /\ Abstract!Called("addURIQuery", 0, q, TRUE)
         /\ Meaning(coap.pdu)' = [Meaning(coap.pdu) EXCEPT !.options =
                                     Abstract!WithOptions(@, UriQuery, << q >>)]
      \/ Abstract!Refused("addURIQuery", 0, q)
  BY <1>2, <1>5, OneMeantIs
<1>8. QED
  BY <1>1, <1>6, <1>7 DEF Abstract!AddURIQuery

\* The formats that cantcoap.h's enum ContentFormat names take one byte.
OneByteFormats == \A f \in Formats : f < 256

LEMMA SetContentFormatMeans ==
    ASSUME CallsInOrder, OneByteFormats, Orderly, CallSetContentFormat
    PROVE  Abstract!SetContentFormat
<1>1. PICK f \in Formats, mem \in Memory :
         MayAdd(1) /\ Add("setContentFormat", f, << >>, SetContentFormat(coap, f, mem))
  BY DEF CallSetContentFormat
<1>2. f \in Word /\ f < 256 /\ mem \in Memories
  BY MemoryIs, CallsAssumption DEF OneByteFormats, Orderly
<1>3. PICK s : Open(coap, s)
  BY <1>1, MayAddTo
<1>4. PICK v \in Seq(Byte) : v = FormatValue(f)
  BY <1>2, FormatTyped
<1>5. PICK d : /\ d = SetContentFormat(coap, f, mem) /\ Added(coap, s, ContentFormat, << v >>, d)
               /\ d.result # 0 => d.object.pdu = coap.pdu
  BY <1>2, <1>3, <1>4, FormatAdded
<1>6. ContentFormat \in Word /\ Abstract!ContentFormat = ContentFormat
  BY DEF ContentFormat, Word, Abstract!ContentFormat
<1>7. OneMeant("setContentFormat", f, << >>, ContentFormat, v)
  BY <1>1, <1>3, <1>4, <1>5, <1>6, OneAddMeans
<1>8. v = IF f = 0 THEN << >> ELSE << f >>
  BY <1>2, <1>4 DEF FormatValue
<1>9. QED
  BY <1>6, <1>7, <1>8, OneMeantIs DEF Abstract!SetContentFormat

LEMMA PathIs ==
    ASSUME NEW uri \in Values
    PROVE  /\ PathOf(uri) = IF uri = << >> THEN << >> ELSE Abstract!Segments(uri)
           /\ PathOf(uri) \in Seq(Seq(Byte))
<1>1. uri \in Seq(Byte) /\ Len(uri) \in Word
  BY DEF Values
<1>2. CASE uri = << >>
  BY <1>2 DEF PathOf
<1>3. CASE uri # << >> /\ Len(uri) = 1
  <2>1. PathOf(uri) = << uri >> /\ Abstract!Segments(uri) = << uri >>
    BY <1>3, AbstractSegments DEF PathOf
  <2>2. QED
    BY <1>1, <1>3, <2>1
<1>4. CASE uri # << >> /\ Len(uri) # 1
  <2>1. PathOf(uri) = SegmentsFrom(uri) /\ Abstract!Segments(uri) = SegmentsFrom(uri)
    BY <1>1, <1>4, SegmentsAre DEF PathOf
  <2>2. PICK g : g = SegmentsFrom(uri) /\ g \in Seq(Values)
    BY <1>1, SegmentsTyped
  <2>3. g \in Seq(Seq(Byte))
    <3>1. \A i \in 1..Len(g) : g[i] \in Seq(Byte)
      BY <2>2, ElementOfSeq DEF Values
    <3>2. QED
      BY <2>2, <3>1, SeqDef
  <2>4. QED
    BY <1>4, <2>1, <2>2, <2>3
<1>5. QED
  BY <1>2, <1>3, <1>4

LEMMA SetURIMeans ==
    ASSUME CallsInOrder, Orderly, CallSetURI
    PROVE  Abstract!SetURI
<1>1. PICK u \in URIs, mem \in Memory :
         /\ MayAdd(IF u = << >> THEN 0 ELSE IF Len(u) = 1 THEN 1 ELSE Len(SegmentsFrom(u)))
         /\ Add("setURI", 0, u, SetURI(coap, u, mem))
  BY DEF CallSetURI
<1>2. u \in Values /\ mem \in Memories
  BY MemoryIs, CallsAssumption DEF Values, Orderly
<1>3. PICK s : Open(coap, s)
  BY <1>1, MayAddTo
<1>4. PICK vs, d :
         /\ vs \in Seq(Seq(Byte))
         /\ vs = PathOf(u) /\ d = SetURI(coap, u, mem) /\ PathSet(coap, s, u, vs, d)
         /\ vs = IF u = << >> THEN << >> ELSE Abstract!Segments(u)
  BY <1>2, <1>3, URIAdded, PathIs
<1>5. PICK m : /\ PutOrTold(coap, s, UriPath, vs, m, d)
               /\ d.result = IF u # << >> /\ (m = Len(vs) \/ Len(u) = 1) THEN 0 ELSE 1
  BY <1>4 DEF PathSet
<1>6. PartAdded(coap, s, UriPath, vs, m, d.object) /\ m \in 0..Len(vs)
  BY <1>5 DEF PutOrTold, PartAdded, PutFirst
<1>7. UriPath \in Word /\ Abstract!UriPath = UriPath
  BY DEF UriPath, Word, Abstract!UriPath
<1>8. PICK done \in BOOLEAN : done <=> (u # << >> /\ (m = Len(vs) \/ Len(u) = 1))
  OBVIOUS
<1>9. OptionsMeant("setURI", 0, u, done, UriPath, vs, m)
  <2>1. /\ d.result = 0 => OptionsMeant("setURI", 0, u, TRUE, UriPath, vs, m)
        /\ d.result # 0 => OptionsMeant("setURI", 0, u, FALSE, UriPath, vs, m)
    BY <1>1, <1>3, <1>4, <1>6, <1>7, AddMeans
  <2>2. done <=> d.result = 0
    BY <1>5, <1>8
  <2>3. QED
    BY <2>1, <2>2
<1>10. done = (u # << >> /\ (m = Len(vs) \/ Len(u) = 1))
  BY Zenon, <1>8
<1>11. /\ Abstract!Called("setURI", 0, u, u # << >> /\ (m = Len(vs) \/ Len(u) = 1))
       /\ Meaning(coap.pdu)' = [Meaning(coap.pdu) EXCEPT !.options =
                                   Abstract!WithOptions(@, Abstract!UriPath, SubSeq(vs, 1, m))]
  BY Zenon, <1>7, <1>9, <1>10 DEF OptionsMeant
<1>12. QED
  BY <1>1, <1>4, <1>6, <1>11 DEF Abstract!SetURI

\* Every step of the object is one of the message, or changes nothing of it.
LEMMA StepMeans ==
    ASSUME CallsInOrder, OneByteFormats, Orderly, [Next]_vars
    PROVE  [Abstract!Next]_<<Meaning(coap.pdu), Report>>
<1>1. CASE UNCHANGED vars
  <2>1. coap' = coap /\ Report' = Report
    BY <1>1, Zenon DEF vars, Report, WasDone
  <2>2. Meaning(coap.pdu)' = Meaning(coap.pdu)
    BY <2>1, NothingMeant
  <2>3. QED
    BY <2>1, <2>2
<1>2. CASE Next
  <2>1. Abstract!Next
    BY <1>2, SetVersionMeans, SetTypeMeans, SetCodeMeans, SetMessageIDMeans, SetTokenMeans,
       AddOptionMeans, AddURIQueryMeans, SetContentFormatMeans, SetURIMeans, SetPayloadMeans,
       ResetMeans, ReceiveMeans DEF Next, Abstract!Next
  <2>2. QED
    BY <2>1
<1>3. QED
  BY <1>1, <1>2

-----------------------------------------------------------------------------
(* The theorems. *)

\* As long as messages stay below 256 bytes, the object's fields stay in their
\* ranges whatever is called, in any order: in particular, every byte that a
\* handler writes fits a byte, every count is not negative, and a call's result
\* is 0 or 1.
THEOREM TypeCorrect ==
    ASSUME ShortMessages
    PROVE  Spec => []TypeOK
<1>1. Sound => TypeOK
  BY DEF Sound, TypeOK
<1>2. QED
  BY <1>1, AlwaysSound, PTL

\* No call lets the message outgrow the caller's buffer, of up to 255 bytes.
THEOREM StaysWithinBuffer ==
    ASSUME ShortMessages
    PROVE  Spec => []WithinBuffer
<1>1. Sound => WithinBuffer
  BY MaxLengthIs DEF Sound, WithinBuffer
<1>2. QED
  BY <1>1, AlwaysSound, PTL

\* The options that getOptions() walks are options of the message: an insertion in
\* the middle is not counted, but nothing is counted that is not there.  Here and
\* in the theorems that follow, messages stay below 256 bytes.
THEOREM CountsWhatIsThere ==
    ASSUME CallsInOrder
    PROVE  Spec => []OptionsWithin
<1>1. Spec => []Orderly
  BY AlwaysOrderly
<1>2. QED
  BY <1>1, OrderlyWithin, PTL

\* The payload's pointer and length give the payload in the message, for any
\* options and tokens set before it.
THEOREM PayloadIsFound ==
    ASSUME CallsInOrder
    PROVE  Spec => []PayloadFound
<1>1. Spec => []Orderly
  BY AlwaysOrderly
<1>2. QED
  BY <1>1, OrderlyFinds, PTL

\* Whatever has been put into a message, in any order and wherever a call did not
\* fit: a receiver's validate() accepts it, with all of its options and its payload.
THEOREM SentIsValid ==
    ASSUME CallsInOrder
    PROVE  Spec => []ValidAsSent
<1>1. Spec => []Orderly
  BY AlwaysOrderly
<1>2. QED
  BY <1>1, OrderlyIsValid, PTL

\* The bytes of an object always mean the message that the calls have built,
\* wherever they had to make room and whichever of them failed: CoapPdu implements
\* CoapMessage.
THEOREM MeansWhatWasBuilt ==
    ASSUME CallsInOrder, OneByteFormats
    PROVE  Spec => MeansWhatWasAsked
<1>1. Init => Abstract!Init
  BY InitMeans
<1>2. Orderly /\ [Next]_vars => [Abstract!Next]_<<Meaning(coap.pdu), Report>>
  BY StepMeans
<1>3. Spec => []Orderly
  BY AlwaysOrderly
<1>4. QED
  BY <1>1, <1>2, <1>3, PTL DEF Spec, MeansWhatWasAsked, Abstract!Spec
=============================================================================
