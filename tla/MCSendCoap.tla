---------------------------- MODULE MCSendCoap ----------------------------
(***************************************************************************)
(* Measurements for TLC: a short one; one that fits the frame with one      *)
(* digit of the counter and is cut with two; and three that are cut, behind *)
(* a path that fills the frame, at the marker, and within a path.           *)
(***************************************************************************)
EXTENDS SendCoap

Letters(n) == [i \in 1..n |-> 97 + (i % 20)]
PathOf(lengths) == FlattenSeq([i \in DOMAIN lengths |-> <<47>> \o Letters(lengths[i])])

Measured(lengths, n) == [uri |-> PathOf(lengths), data |-> Letters(n)]

MCMeasurements ==
    {Measured(<<1, 2>>, 2), Measured(<<13>>, 10), Measured(<<13, 12>>, 2),
     Measured(<<13, 11>>, 2), Measured(<<12, 14>>, 2)}

\* A node sends what it measures to one URI.  Memory is short for the first
\* message at most, and a short one; and the IDs wrap under short ones.
Usual ==
    \A i \in DOMAIN messages :
        /\ messages[i].uri = messages[1].uri
        /\ messages[i].limit \in 1..FrameSize =>
              i = 1 /\ Len(messages[i].uri) < 8
        /\ nextMessageID > 100 => Len(messages[i].uri) < 8

MCNext == Next /\ Usual'

MCSpec == Init /\ [][MCNext]_vars /\ WF_vars(Send) /\ WF_vars(Air)
===========================================================================
