----------------------------- MODULE SendCoap -----------------------------
(***************************************************************************)
(* One measurement on its way from a node to the gateway: the message that *)
(* sendCoapMessage (src/node.cpp) builds in a CoapPDU, the frame of 32      *)
(* bytes it is cut or padded to, the four writes of that frame whose        *)
(* results nobody looks at, and a gateway that validates what its radio     *)
(* receives.  The object is CoapObject's; both radios are PacketRadio's,    *)
(* which the driver implements: the node's transmits, the gateway's         *)
(* receives, and what is transmitted may not arrive.                        *)
(***************************************************************************)
EXTENDS CoapObject, SequencesExt

CONSTANTS
    Measurements,   \* what the application sends: [uri, data], bytes
    Earlier,        \* how many messages the node may have sent before
    HeapLimits,     \* the sizes up to which a realloc may succeed
    MaxMessages,    \* bound: messages from here on
    MaxResets,      \* bound: resets of the node
    InboxSize       \* packets the gateway's radio holds

FrameSize == 32
Tries == 4
CounterModulus == 1000
NonConfirmable == 16
Put == 3

ASSUME SendCoapAssumption ==
    /\ \A m \in Measurements :
          m.uri \in Seq(Byte) /\ Len(m.uri) \in Word /\ m.data \in Seq(Byte)
    /\ Earlier \subseteq Nat /\ HeapLimits \subseteq Nat
    /\ MaxMessages \in Nat /\ MaxResets \in Nat /\ InboxSize \in Nat \ {0}

VARIABLES
    \* The node.
    pc,             \* idle, in a call of sendCoapMessage, or in setup after a reset
    nextMessageID,  \* the static of sendCoapMessage
    sent,           \* what printStatus prints, and four times of it
    tries,
    coapPDU,        \* the local object
    \* The node's radio, as PacketRadio has it.
    fate, written, transmitted,
    \* The gateway's radio, and what the gateway made of the last packet.
    inbox, arrived, given, heard,
    \* History: the messages begun; which of them each packet that arrived is
    \* of; how many copies of the last were lost; resets, and what had been
    \* sent and written at the last.
    messages, source, lost, boot

node     == <<pc, nextMessageID, sent, tries, coapPDU>>
sender   == <<fate, written, transmitted>>
receiver == <<inbox, arrived, given>>
gateway  == <<receiver, heard>>
history  == <<messages, source, lost, boot>>
vars     == <<node, sender, gateway, history>>

Promised == INSTANCE CoapMessage
            WITH message <- coapPDU, call <- heard,
                 Versions <- {}, Types <- {}, Codes <- {}, MessageIDs <- {}, Tokens <- {},
                 OptionNumbers <- {}, OptionValues <- {}, Formats <- {}, Queries <- {},
                 URIs <- {}, Payloads <- {}, Frames <- {}

NodeRadio == INSTANCE PacketRadio
             WITH writing <- fate, sent <- transmitted,
                  waiting <- <<>>, arrived <- 0, given <- 0

GatewayRadio == INSTANCE PacketRadio
                WITH waiting <- inbox, writing <- "none", written <- 0, sent <- 0

-----------------------------------------------------------------------------
(* Building the message. *)

Least(m, n) == IF m < n THEN m ELSE n

Comma == 44
Digit(n) == 48 + n

\* std::to_string of a number below 1000.
Decimal(n) ==
    (IF n >= 100 THEN <<Digit((n \div 100) % 10)>> ELSE <<>>)
    \o (IF n >= 10 THEN <<Digit((n \div 10) % 10)>> ELSE <<>>)
    \o <<Digit(n % 10)>>

\* Faulty variants: the counter is not static; the payload's is not reduced.
FirstID(n) == 0
CounterWhole(n) == n

MessageID(n) == U16(n)
Counter(n) == n % CounterModulus

Payload(data, counter) == data \o <<Comma>> \o Decimal(counter)

Request(id) ==
    [New EXCEPT !.pdu =
        SetMessageID(SetCode(SetType(@, NonConfirmable), Put), id)]

Heap(limit) == [limit |-> limit, moves |-> FALSE]

\* Faulty variants: what is behind a short message in memory goes out with it; a
\* zero always ends the frame.
FrameWithRest(b) == [i \in 1..FrameSize |-> IF i \in DOMAIN b THEN b[i] ELSE Digit(1)]
FrameEnded(b) == Resize(b, FrameSize - 1) \o <<0>>

\* msg.resize(32, '\0')
Frame(b) == Resize(b, FrameSize)

\* The segments between the slashes of a URI.
Segments(uri) == Promised!Segments(uri)

-----------------------------------------------------------------------------
(* The node. *)

\* The application sends a measurement.
BeginMessage ==
    /\ pc = "idle" /\ Len(messages) < MaxMessages
    /\ coapPDU' = Request(MessageID(nextMessageID))
    /\ nextMessageID' = nextMessageID + 1
    /\ \E m \in Measurements :
          messages' = Append(messages,
              [uri |-> m.uri, path |-> Segments(m.uri), data |-> m.data, counter |-> Counter(nextMessageID'),
               boot |-> boot.number, limit |-> 0, frame |-> <<>>])
    /\ pc' = "uri" /\ tries' = 0 /\ lost' = 0
    /\ UNCHANGED <<sent, sender, gateway, source, boot>>

Latest == Len(messages)

\* What does not fit the heap is missing, and nobody looks.
CallSetURI == \E limit \in HeapLimits :
    /\ pc = "uri"
    /\ coapPDU' = SetURI(coapPDU, messages[Latest].uri, Heap(limit)).object
    /\ messages' = [messages EXCEPT ![Latest].limit = limit]
    /\ pc' = "payload"
    /\ UNCHANGED <<nextMessageID, sent, tries, sender, gateway, source, lost, boot>>

CallSetPayload == \E limit \in HeapLimits :
    /\ pc = "payload"
    /\ coapPDU' = SetPayload(coapPDU, Payload(messages[Latest].data, messages[Latest].counter),
                                 Heap(limit)).object
    /\ messages' = [messages EXCEPT ![Latest].limit = Least(@, limit),
                                    ![Latest].frame = Frame(coapPDU'.pdu)]
    /\ pc' = "sending"
    /\ UNCHANGED <<nextMessageID, sent, tries, sender, gateway, source, lost, boot>>

\* Faulty variant: one try too few.
AllButOneTried == tries = Tries - 1

AllTried == tries = Tries

Write ==
    /\ pc = "sending" /\ ~AllTried
    /\ NodeRadio!Write
    /\ UNCHANGED <<node, gateway, history>>

\* Faulty variant: a write is given up waiting for when it has failed.
WriteReturnsSent == fate = "sent"

\* radio.write returns, sent or not.
WriteReturns == fate \in {"sent", "failed"}

NextTry ==
    /\ pc = "sending" /\ WriteReturns
    /\ NodeRadio!Return
    /\ tries' = tries + 1
    /\ UNCHANGED <<pc, nextMessageID, sent, coapPDU, gateway, history>>

\* Faulty variant: only a message of which a copy went out is counted.
CountedIfHeard(n) == IF lost < Tries THEN n + 1 ELSE n

Counted(n) == n + 1

EndMessage ==
    /\ pc = "sending" /\ AllTried /\ fate = "none"
    /\ pc' = "idle"
    /\ sent' = Counted(sent)
    /\ UNCHANGED <<nextMessageID, tries, coapPDU, sender, gateway, history>>

\* Statics and globals start again; the radio keeps what it was given until it
\* is set up.
Reset ==
    /\ boot.number < MaxResets
    /\ NodeRadio!Reset
    /\ pc' = "setup"
    /\ nextMessageID' = 0 /\ sent' = 0 /\ tries' = 0 /\ coapPDU' = New
    /\ boot' = [number |-> boot.number + 1, sent |-> 0, written |-> written]
    /\ UNCHANGED <<gateway, messages, source, lost>>

\* setupNodeRadio.
Setup ==
    /\ pc = "setup"
    /\ NodeRadio!Forget
    /\ pc' = "idle"
    /\ UNCHANGED <<nextMessageID, sent, tries, coapPDU, gateway, history>>

-----------------------------------------------------------------------------
(* The radios and the air between them. *)

LoseCopies(n) == lost' = lost + n

\* A packet transmitted arrives, if the gateway's radio has room for it.
Arrive ==
    /\ Len(inbox) < InboxSize
    /\ NodeRadio!Transmit /\ GatewayRadio!Receive
    /\ source' = Append(source, Latest)
    /\ UNCHANGED <<node, heard, messages, lost, boot>>

\* It does not, or the node's radio gives up on it.
LoseInAir ==
    /\ NodeRadio!Transmit \/ NodeRadio!GiveUp
    /\ LoseCopies(1)
    /\ UNCHANGED <<node, gateway, messages, source, boot>>

CopiesAmong(packets, m) == Cardinality({p \in Range(packets) : source[p] = m})

\* All that waits at the gateway is flushed.
LoseWaiting ==
    /\ inbox # <<>>
    /\ GatewayRadio!Lose
    /\ LoseCopies(CopiesAmong(inbox, Latest))
    /\ UNCHANGED <<node, sender, heard, messages, source, boot>>

\* The gateway's application.
Nothing == [message |-> 0, accepted |-> FALSE, id |-> 0, path |-> <<>>, payload |-> <<>>]

Understood(m, checked) ==
    IF checked.result = 0 THEN [Nothing EXCEPT !.message = m]
    ELSE [message |-> m, accepted |-> TRUE,
          id      |-> GetMessageID(checked.object.pdu),
          path    |-> GetURI(checked.object),
          payload |-> GetPayloadCopy(checked.object)]

GatewayReads ==
    /\ GatewayRadio!Read
    /\ \E m \in {source[Head(inbox)]} :
          \E checked \in {Validate([New EXCEPT !.pdu = messages[m].frame])} :
             heard' = Understood(m, checked)
    /\ UNCHANGED <<node, sender, history>>

-----------------------------------------------------------------------------
Init ==
    /\ pc = "idle"
    /\ nextMessageID \in Earlier /\ sent = nextMessageID
    /\ tries = 0 /\ coapPDU = New
    /\ fate = "none" /\ written = 0 /\ transmitted = 0
    /\ inbox = <<>> /\ arrived = 0 /\ given = 0
    /\ heard = Nothing
    /\ messages = <<>> /\ source = <<>> /\ lost = 0
    /\ boot = [number |-> 0, sent |-> sent, written |-> 0]

Send == BeginMessage \/ CallSetURI \/ CallSetPayload \/ Write \/ NextTry \/ EndMessage \/ Setup
Air == Arrive \/ LoseInAir

Next == Send \/ Reset \/ Air \/ LoseWaiting \/ GatewayReads

Spec == Init /\ [][Next]_vars

\* The node goes on, and its radio, whether it gets the packet across or not.
LiveSpec == Spec /\ WF_vars(Send) /\ WF_vars(Air)

-----------------------------------------------------------------------------
(* Properties. *)

TypeOK ==
    /\ pc \in {"idle", "uri", "payload", "sending", "setup"}
    /\ nextMessageID \in Nat /\ sent \in Nat /\ tries \in 0..Tries
    /\ fate \in NodeRadio!Fates
    /\ \A i \in DOMAIN messages : messages[i].counter < CounterModulus
    /\ \A i \in DOMAIN messages : messages[i].frame \in {<<>>} \cup [1..FrameSize -> Byte]
    /\ Len(source) = arrived /\ lost \in 0..(Tries + 1)

\* The bytes a message needs: its header, one byte more than each segment of the
\* path has, two from 13 on, the payload and its marker.
Needed(m) ==
    HeaderSize + 1 + Len(Payload(m.data, m.counter))
    + FoldSeq(LAMBDA s, sum : sum + Len(s) + (IF Len(s) < 13 THEN 1 ELSE 2), 0, m.path)

Heard == messages[heard.message]
Zeroes == [i \in 1..FrameSize |-> 0]
Path(segments) == FlattenSeq([i \in DOMAIN segments |-> <<Slash>> \o segments[i]])
Continues(path, begun) ==
    IsPrefix(begun, path) /\ \A i \in (Len(begun) + 1)..Len(path) : path[i] = Slash

\* A measurement that fits the frame is understood: the path is the one it was
\* sent to, and the payload the data and the counter with nothing but zeroes
\* behind (the padding of msg.resize, which validate takes for payload).
UnderstoodIfItFits ==
    heard.message > 0 /\ Needed(Heard) <= Least(FrameSize, Heard.limit) =>
        /\ heard.accepted
        /\ heard.path = Path(Heard.path)
        /\ heard.payload = SubSeq(Payload(Heard.data, Heard.counter) \o Zeroes, 1, Len(heard.payload))

\* Whatever was cut off the frame, and whatever of the message found no memory,
\* the gateway accepts only beginnings: some first segments of the path, perhaps
\* with empty ones behind, and a beginning of the payload (sendCoapMessage looks
\* at no result, and a frame's padding may be read as options or payload).
NothingMadeUp ==
    heard.accepted =>
        /\ \E k \in 0..Len(Heard.path) : Continues(heard.path, Path(SubSeq(Heard.path, 1, k)))
        /\ IsPrefix(heard.payload, Payload(Heard.data, Heard.counter) \o Zeroes)

\* The gateway can tell a copy from a new measurement by its ID, unless the node
\* was reset between: the copies of one message have one, and its successor, even
\* when the 16 bits of the ID have just wrapped, has another.
IDTellsCopies ==
    heard.accepted =>
        \A m \in {source[i] : i \in 1..given} :
            messages[m].boot = Heard.boot =>
                (GetMessageID(messages[m].frame) = heard.id <=> m = heard.message)

\* A message that sendCoapMessage has sent is lost only if each of its copies is:
\* three that are not transmitted, not received or flushed do not lose it.
ThreeLossesBorne ==
    pc = "idle" /\ sent > boot.sent /\ lost < Tries =>
        \/ given > 0 /\ source[given] = Latest
        \/ \E i \in DOMAIN inbox : source[inbox[i]] = Latest

\* printStatus tells how many frames the radio was given, in whole messages.
StatusCounts ==
    pc # "setup" =>
        LET frames == written - boot.written - Tries * (sent - boot.sent)
        IN  frames \in 0..Tries /\ (pc = "idle" => frames = 0)

\* sendCoapMessage returns, whatever becomes of its four writes, and a node that
\* was reset sends again.
SendReturns == pc # "idle" ~> pc = "idle"
=============================================================================
