----------------------------- MODULE CoapPdu -----------------------------
(***************************************************************************)
(* A CoapPDU of src/cantcoap and its caller: the calls made of one object, *)
(* in the order its users make them or in any, with memory of its own,     *)
(* which each growth reallocates, or in a buffer of the caller's.          *)
(***************************************************************************)
EXTENDS CoapObject

CONSTANTS
    Owned,          \* TRUE: CoapPDU(), FALSE: CoapPDU(buffer, bufferLength, 0)
    BufferLength,   \* the caller's buffer, in bytes
    HeapLimits,     \* the sizes up to which a call's realloc may succeed
    AnyOrder,       \* FALSE: options and token before the payload, as in node.cpp
    MaxOptions,     \* bound on the options of a message
    Versions, Types, Codes, MessageIDs, Tokens, OptionNumbers, OptionValues,
    Formats, Queries, URIs, Payloads, Frames

ASSUME CallsAssumption ==
    /\ Owned \in BOOLEAN /\ AnyOrder \in BOOLEAN
    /\ HeapLimits \subseteq Nat
    /\ Owned \/ (BufferLength \in Nat /\ BufferLength >= HeaderSize)
    /\ Versions \subseteq Nat /\ Types \subseteq {0, 16, 32, 48} /\ Codes \subseteq Byte
    /\ \A n \in MessageIDs \cup OptionNumbers \cup Formats : n \in Word
    /\ \A s \in Tokens \cup Payloads \cup Frames : s \in Seq(Byte)
    /\ \A v \in OptionValues \cup Queries \cup URIs : v \in Seq(Byte) /\ Len(v) \in Word

VARIABLES
    coap,           \* the object's fields
    use,            \* what the caller does with it: building, full, received, rejected
    call            \* the last call: operation, arguments, result

vars == <<coap, use, call>>

(***************************************************************************)
(* What a call may meet: memory of the object's own, where each growth may *)
(* fail and only a message with a pointer into it can show a move, or the  *)
(* caller's buffer.                                                        *)
(***************************************************************************)
Memory ==
    IF Owned
    THEN [limit : HeapLimits, moves : IF coap.payloadPointer = NULL THEN {FALSE} ELSE BOOLEAN]
    ELSE {[limit |-> BufferLength, moves |-> FALSE]}

------------------------------------------------------------------------------
(***************************************************************************)
(* The calls.  Without AnyOrder a caller keeps to sendCoapMessage's order: *)
(* a message is built - options and token, then the payload - or received; *)
(* an owned message's payload is not resized; nothing is added to a        *)
(* message that an option did not fit; and an object is reset before it is *)
(* used again.  A rejected message is only replaced, ever.                 *)
(***************************************************************************)
Finish(op, number, bytes, done) ==
    /\ coap' = done.object
    /\ call' = [op |-> op, number |-> number, bytes |-> bytes, result |-> done.result]

Usable == use # "rejected"
MayMove == Usable /\ (AnyOrder \/ coap.payloadLength = 0)
MayAdd(k) == /\ MayMove /\ (AnyOrder \/ use = "building")
             /\ Len(OptionsOf(coap.pdu)) + k <= MaxOptions

Edit(op, number, bytes) ==
    Finish(op, number, << >>, Done([coap EXCEPT !.pdu = bytes], 0)) /\ Usable /\ UNCHANGED use

\* setVersion() returns 1 when it has set the version and 0 when it has not.
CallSetVersion == \E v \in Versions :
    /\ Usable /\ UNCHANGED use
    /\ Finish("setVersion", v, << >>, IF v > 3 THEN Done(coap, 0)
                                      ELSE Done([coap EXCEPT !.pdu = SetVersion(@, v)], 1))

CallSetType == \E t \in Types : Edit("setType", t, SetType(coap.pdu, t))
CallSetCode == \E c \in Codes : Edit("setCode", c, SetCode(coap.pdu, c))
CallSetMessageID == \E i \in MessageIDs : Edit("setMessageID", i, SetMessageID(coap.pdu, i))

CallSetToken == \E t \in Tokens, mem \in Memory :
    /\ MayMove /\ UNCHANGED use
    /\ Finish("setToken", 0, t, SetToken(coap, t, mem))

\* The message is full when a call failed or, setURI() not having said so,
\* when it is the one it was.
Add(op, number, bytes, done) ==
    /\ Finish(op, number, bytes, done)
    /\ use' = IF done.result = 0 /\ coap'.pdu # coap.pdu THEN use ELSE "full"

CallAddOption == \E n \in OptionNumbers, v \in OptionValues, mem \in Memory :
    MayAdd(1) /\ Add("addOption", n, v, AddOption(coap, n, v, mem))

CallAddURIQuery == \E q \in Queries, mem \in Memory :
    MayAdd(1) /\ Add("addURIQuery", 0, q, AddOption(coap, UriQuery, q, mem))

CallSetContentFormat == \E f \in Formats, mem \in Memory :
    MayAdd(1) /\ Add("setContentFormat", f, << >>, SetContentFormat(coap, f, mem))

CallSetURI == \E u \in URIs, mem \in Memory :
    /\ MayAdd(IF u = << >> THEN 0 ELSE IF Len(u) = 1 THEN 1 ELSE Len(SegmentsFrom(u)))
    /\ Add("setURI", 0, u, SetURI(coap, u, mem))

CallSetPayload == \E s \in Payloads, mem \in Memory :
    /\ MayMove \/ (Usable /\ (~Owned \/ Len(s) = coap.payloadLength))
    /\ UNCHANGED use
    /\ Finish("setPayload", 0, s, SetPayload(coap, s, mem))

CallReset == Finish("reset", 0, << >>, Done(ResetFields(coap), 0)) /\ use' = "building"

\* The caller puts a message into its buffer, with zeroes behind it, sets the
\* length and validates.
Receive == \E f \in Frames :
    /\ ~Owned /\ Len(f) <= BufferLength
    /\ AnyOrder \/ call.op \in {"new", "reset"}
    /\ LET done == Validate([coap EXCEPT !.pdu = f])
       IN  /\ Finish("validate", 0, f, done)
           /\ use' = IF done.result = 1 THEN "received" ELSE "rejected"

Init == /\ coap = New
        /\ use = "building"
        /\ call = [op |-> "new", number |-> 0, bytes |-> << >>, result |-> 0]

Next == \/ CallSetVersion \/ CallSetType \/ CallSetCode \/ CallSetMessageID
        \/ CallSetToken \/ CallAddOption \/ CallAddURIQuery \/ CallSetContentFormat
        \/ CallSetURI \/ CallSetPayload \/ CallReset \/ Receive

Spec == Init /\ [][Next]_vars

------------------------------------------------------------------------------
(***************************************************************************)
(* Properties.                                                             *)
(***************************************************************************)

\* What the bytes mean to a reader of the message.
Meaning(b) ==
    [version |-> GetVersion(b), type |-> GetType(b), code |-> GetCode(b), id |-> GetMessageID(b),
     token |-> TokenOf(b), payload |-> PayloadOf(b),
     options |-> LET options == OptionsOf(b)
                 IN  [i \in DOMAIN options |-> NumberAndValue(options[i])]]

\* Whether the last call was done, read from its result as each of them returns
\* it: setVersion() and validate() 1 when they were, the others 0.
WasDone == call.result = IF call.op \in {"setVersion", "validate"} THEN 1 ELSE 0

Report == [op |-> call.op, number |-> call.number, bytes |-> call.bytes, done |-> WasDone]

Abstract == INSTANCE CoapMessage
            WITH message <- Meaning(coap.pdu), call <- Report

\* The bytes hold bytes, and the fields that count them stay in their ranges.
TypeOK == /\ coap \in Fields
          /\ use \in {"building", "full", "received", "rejected"}
          /\ call.result \in {0, 1}

\* The bytes always mean the message that the calls so far have built: each
\* call that was done has changed the part it names and no other, wherever in
\* the message it had to make room, and one that was not has changed nothing
\* (setVersion, setToken, addOption, addURIQuery, setContentFormat, setPayload);
\* setURI() may have added a part of its path, and says so unless the path is
\* one character.  Which result tells a call that was done is taken from the code:
\* the comments of setVersion() and setURI() have the opposite (666, 472), and that
\* of reset() a version which it does not leave (212), so neither is promised here.
MeansWhatWasAsked == Abstract!Spec

\* A message in any state of its construction is one that validate() at its
\* receiver accepts, with all of its options and its payload.
ValidAsSent ==
    Usable => LET received == Validate([New EXCEPT !.pdu = coap.pdu])
                  options  == OptionsOf(coap.pdu)
              IN  GetCode(coap.pdu) \in ValidCodes =>
                     /\ received.result = 1
                     /\ received.object.numOptions = Len(options)
                     /\ GetPayloadCopy(received.object) = PayloadOf(coap.pdu)

\* getPayloadPointer() and getPayloadLength() give the payload that is in the
\* message, although nothing that moves bytes moves the pointer.
PayloadFound ==
    Usable => /\ coap.payloadLength = Len(PayloadOf(coap.pdu))
              /\ coap.payloadLength > 0 => GetPayloadCopy(coap) = PayloadOf(coap.pdu)

\* The list of getOptions(), which walks as many options as were counted,
\* stays within the options of the message.
OptionsWithin == Usable => coap.numOptions <= Len(OptionsOf(coap.pdu))

\* The path that setURI() has put into a message without one is the path that
\* getURI() reads back, whatever options were there before.
PathReadBack ==
    LET asked   == Abstract!Segments(call.bytes)
        options == OptionsOf(coap.pdu)
        paths   == {i \in DOMAIN options : options[i].number = UriPath}
    IN  call.op = "setURI" /\ call.result = 0 /\ use = "building" =>
           (Cardinality(paths) = Len(asked) =>
               GetURI(coap) # << >> /\ Abstract!Segments(GetURI(coap)) = asked)

\* No call lets the message outgrow the caller's buffer.
WithinBuffer == Owned \/ Len(coap.pdu) <= BufferLength

\* addOption() puts its option into the message, in whatever order options are
\* added (982): also after calls that failed and into messages that were received.
OptionIsThere ==
    call.op = "addOption" /\ call.result = 0 =>
        \E i \in DOMAIN OptionsOf(coap.pdu) :
            NumberAndValue(OptionsOf(coap.pdu)[i]) = [number |-> call.number, value |-> call.bytes]
=============================================================================
