--------------------------- MODULE CoapMessage ---------------------------
(***************************************************************************)
(* What a CoapPDU promises, without its bytes: a message has a header, a   *)
(* token, options in the order of their numbers - those of equal number in *)
(* the order they were added - and a payload; every call that is done      *)
(* changes the part it names and no other.  One that is refused changes    *)
(* nothing, but setURI(), which may leave the first segments of its path.  *)
(* How a call says whether it was done is not said here: CoapPdu, which    *)
(* keeps bytes and returns numbers, implements this.                       *)
(***************************************************************************)
EXTENDS Integers, Sequences, FiniteSets

CONSTANTS Versions, Types, Codes, MessageIDs,   \* header fields a caller sets
          Tokens, OptionNumbers, OptionValues,  \* sequences of bytes, numbers
          Formats, Queries, URIs, Payloads,
          Frames                                \* messages received

VARIABLES message,  \* the message as its reader sees it
          call      \* the last call: operation, arguments, whether it was done

Slash == 47
UriPath == 11
ContentFormat == 12
UriQuery == 15

Empty == [version |-> 0, type |-> 0, code |-> 0, id |-> 0,
          token |-> << >>, options |-> << >>, payload |-> << >>]
Fresh == [Empty EXCEPT !.version = 1]

------------------------------------------------------------------------------
\* The values as options of one number, behind those of no greater number.
WithOptions(options, number, values) ==
    LET k == Cardinality({i \in DOMAIN options : options[i].number <= number})
    IN  SubSeq(options, 1, k)
           \o [i \in DOMAIN values |-> [number |-> number, value |-> values[i]]]
           \o SubSeq(options, k + 1, Len(options))

(***************************************************************************)
(* The segments of a path: what lies between its slashes, a slash at its   *)
(* beginning and one at its end aside.  A path of one character is one     *)
(* segment, "/" too.                                                       *)
(***************************************************************************)
Segments(uri) ==
    LET first == IF uri[1] = Slash THEN 2 ELSE 1
        last  == IF uri[Len(uri)] = Slash THEN Len(uri) - 1 ELSE Len(uri)
        cuts  == {first - 1, last + 1} \cup {i \in first..last : uri[i] = Slash}
        cut(k) == CHOOSE c \in cuts : Cardinality({d \in cuts : d < c}) = k
    IN  IF Len(uri) = 1 THEN << uri >>
        ELSE [k \in 1..(Cardinality(cuts) - 1) |-> SubSeq(uri, cut(k - 1) + 1, cut(k) - 1)]

------------------------------------------------------------------------------
Called(op, number, bytes, done) ==
    call' = [op |-> op, number |-> number, bytes |-> bytes, done |-> done]

Refused(op, number, bytes) == Called(op, number, bytes, FALSE) /\ UNCHANGED message

SetVersion == \E v \in Versions :
    \/ Called("setVersion", v, << >>, TRUE) /\ v <= 3 /\ message' = [message EXCEPT !.version = v]
    \/ Refused("setVersion", v, << >>) /\ v > 3

SetType == \E t \in Types :
    Called("setType", t, << >>, TRUE) /\ message' = [message EXCEPT !.type = t]

SetCode == \E c \in Codes :
    Called("setCode", c, << >>, TRUE) /\ message' = [message EXCEPT !.code = c]

SetMessageID == \E i \in MessageIDs :
    Called("setMessageID", i, << >>, TRUE) /\ message' = [message EXCEPT !.id = i]

SetToken == \E t \in Tokens :
    \/ Called("setToken", 0, t, TRUE) /\ t # << >> /\ message' = [message EXCEPT !.token = t]
    \/ Refused("setToken", 0, t)

AddOption == \E n \in OptionNumbers, v \in OptionValues :
    \/ /\ Called("addOption", n, v, TRUE)
       /\ message' = [message EXCEPT !.options = WithOptions(@, n, << v >>)]
    \/ Refused("addOption", n, v)

AddURIQuery == \E q \in Queries :
    \/ /\ Called("addURIQuery", 0, q, TRUE)
       /\ message' = [message EXCEPT !.options = WithOptions(@, UriQuery, << q >>)]
    \/ Refused("addURIQuery", 0, q)

SetContentFormat == \E f \in Formats :
    \/ /\ Called("setContentFormat", f, << >>, TRUE)
       /\ message' = [message EXCEPT !.options =
                          WithOptions(@, ContentFormat, << IF f = 0 THEN << >> ELSE << f >> >>)]
    \/ Refused("setContentFormat", f, << >>)

(***************************************************************************)
(* A path that does not fit leaves the segments that did.  It is done when *)
(* all are there; for a path of one character the call says so in any      *)
(* case, so there that is no promise.                                      *)
(***************************************************************************)
SetURI == \E u \in URIs :
    LET all == IF u = << >> THEN << >> ELSE Segments(u)
    IN  \E k \in 0..Len(all) :
        /\ Called("setURI", 0, u, u # << >> /\ (k = Len(all) \/ Len(u) = 1))
        /\ message' = [message EXCEPT !.options = WithOptions(@, UriPath, SubSeq(all, 1, k))]

SetPayload == \E s \in Payloads :
    \/ Called("setPayload", 0, s, TRUE) /\ s # << >> /\ message' = [message EXCEPT !.payload = s]
    \/ Refused("setPayload", 0, s)

\* A message without code, token, options or payload, in whatever version.
Reset == \E v \in 0..3 :
    Called("reset", 0, << >>, TRUE) /\ message' = [Empty EXCEPT !.version = v]

\* Whatever arrived is the message; the call says whether it is valid.
Receive == \E f \in Frames, done \in BOOLEAN : Called("validate", 0, f, done)

Init == message = Fresh /\ call = [op |-> "new", number |-> 0, bytes |-> << >>, done |-> TRUE]

Next == \/ SetVersion \/ SetType \/ SetCode \/ SetMessageID
        \/ SetToken \/ AddOption \/ AddURIQuery \/ SetContentFormat \/ SetURI \/ SetPayload
        \/ Reset \/ Receive

Spec == Init /\ [][Next]_<<message, call>>
==============================================================================
