---------------------------- MODULE MCCoapPdu ----------------------------
(***************************************************************************)
(* Small messages for CoapPdu.  The option numbers and the lengths of the  *)
(* values lie on both sides of 13 and 269, where a delta or a length takes *)
(* another byte, so that insertions lengthen and shorten the header of the *)
(* option behind.                                                          *)
(***************************************************************************)
EXTENDS CoapPdu

CONSTANT Subjects     \* what the run's behaviours are about, each about one of them
VARIABLE subject

None == {}
Bytes(n) == [i \in 1..n |-> 200 + (i % 50)]

\* Options one by one.
MCNumbers == {1, 14, 270}
MCValues == {<< >>, <<7>>}
LongValues == {<< >>, Bytes(12), Bytes(13)}

MCAllValues == MCValues \cup LongValues

\* A URI's characters: the slash and two letters, 97 and 98.  A segment may
\* be empty, but not the last: getURI() would not show it.
MCURIs == {<< >>, <<47>>, <<97>>, <<47, 97, 47, 98>>, <<97, 47>>, <<97, 47, 47, 98>>}
Path == {<<47, 97, 47, 98>>}

MCQueries == {<<113>>}
MCFormats == {0, 50}

\* Tokens and payloads: none, and two lengths.
MCTokens == {<< >>, <<1>>, <<2, 3, 4>>}
OneToken == {<<1>>}
MCPayloads == {<< >>, <<9>>, <<255, 9>>}

\* A payload that begins with the byte of the marker.
OnePayload == {<<255, 9>>}

MCVersions == {1, 4}
MCTypes == {0, 16, 32}
MCCodes == {3, 69}
MCMessageIDs == {0, 258}

(***************************************************************************)
(* Messages received: a header alone; with token, options and payload; one *)
(* with an option of two bytes of delta; and messages cut short or not     *)
(* CoAP: too short, a token too long or missing, an unknown code, an       *)
(* option cut, a marker without payload, a nibble of 15.                   *)
(***************************************************************************)
Accepted == {<<64, 1, 0, 0>>,
             <<65, 3, 0, 1, 5, 177, 97, 255, 9>>,
             <<64, 69, 0, 2, 177, 97, 1, 98, 16>>,
             <<64, 69, 0, 2, 224, 1, 0, 255, 9, 9>>}
Malformed == {<<64, 1, 0>>, <<73, 1, 0, 0, 1, 2, 3, 4, 5, 6, 7, 8, 9>>, <<66, 1, 0, 0, 1>>,
              <<64, 100, 0, 0>>, <<64, 1, 0, 0, 178, 97>>, <<64, 1, 0, 0, 208>>,
              <<64, 1, 0, 0, 16, 255>>, <<64, 1, 0, 0, 240>>}
MCFrames == Accepted \cup Malformed

\* A received message with options, and none behind them; and one with a payload
\* followed, in the same container, by a header alone.
Answered == {<<64, 69, 0, 2, 177, 97, 1, 98, 16>>}
Twice == {<<65, 3, 0, 1, 5, 177, 97, 255, 9>>, <<64, 1, 0, 0>>}

(***************************************************************************)
(* The calls made in a behaviour about s: options in any order, with       *)
(* tokens and payloads; values of all lengths; paths, behind options that  *)
(* were added in order; the header's fields; a buffer's end; or whatever   *)
(* the constants allow.                                                    *)
(***************************************************************************)
Build == {"addOption", "setToken", "setPayload", "reset"}
SetHeader == {"setVersion", "setType", "setCode", "setMessageID"}

Concerns(s, c) ==
    \/ s = "order" /\ c.op \in Build /\ (c.op = "addOption" => c.bytes \in MCValues)
    \/ /\ s = "lengths"
       /\ c.op \in {"addOption", "addURIQuery", "setContentFormat", "reset"}
       /\ c.op = "addOption" => c.number # 270 /\ c.bytes \in LongValues
    \/ /\ s = "paths"
       /\ c.op \in {"addOption", "setURI", "setToken", "reset"}
       /\ c.op = "addOption" => c.number = 1 /\ c.bytes = <<7>>
       /\ c.op = "setToken" => c.bytes = <<1>>
    \/ /\ s = "header"
       /\ c.op \in Build \cup SetHeader
       /\ c.op = "addOption" => c.number = 14 /\ c.bytes = <<7>>
       /\ c.op = "setToken" => c.bytes # << >>
    \/ s = "buffer" /\ c.op \in Build \cup {"validate"}
    \/ s = "any"

MCInit == Init /\ subject \in Subjects

MCNext == Next /\ Concerns(subject, call') /\ UNCHANGED subject

MCSpec == MCInit /\ [][MCNext]_<<vars, subject>>
==============================================================================
