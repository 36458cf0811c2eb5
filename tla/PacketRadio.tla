---------------------------- MODULE PacketRadio ----------------------------
(***************************************************************************)
(* What the application may expect of its radio (src/nRF24L01P), without    *)
(* registers, flags or FIFOs of the chip.  Packets are handed out at most   *)
(* once and in the order they came, though all that wait may be lost        *)
(* together.  A payload is transmitted at most once, while the write that   *)
(* was given it runs, and the write says whether it was.  A reset cuts a    *)
(* write short; its payload may go out once more before it is forgotten.    *)
(* RadioLink implements this.                                               *)
(***************************************************************************)
EXTENDS Integers, Sequences

VARIABLES
    waiting,        \* packets received and not read, the oldest first
    arrived,        \* the packet received last; packets count from 1
    given,          \* the packet given to a reader last
    writing,        \* what has become of the payload of the write under way
    written,        \* the payload given to a write last; payloads count from 1
    sent            \* the payload transmitted last

reception    == <<waiting, arrived, given>>
transmission == <<writing, written, sent>>
vars == <<reception, transmission>>

Fates == {"none", "pending", "sent", "failed", "cut"}

Init ==
    /\ waiting = <<>> /\ arrived = 0 /\ given = 0
    /\ writing = "none" /\ written = 0 /\ sent = 0

-----------------------------------------------------------------------------
Receive ==
    /\ waiting' = Append(waiting, arrived + 1)
    /\ arrived' = arrived + 1
    /\ UNCHANGED <<given, transmission>>

Read ==
    /\ waiting # <<>>
    /\ given' = Head(waiting)
    /\ waiting' = Tail(waiting)
    /\ UNCHANGED <<arrived, transmission>>

\* A flush, a corrupt packet or a reset: nothing is left that waits.
Lose ==
    /\ waiting' = <<>>
    /\ UNCHANGED <<arrived, given, transmission>>

Write ==
    /\ writing = "none"
    /\ writing' = "pending"
    /\ written' = written + 1
    /\ UNCHANGED <<sent, reception>>

Transmit ==
    /\ writing \in {"pending", "cut"}
    /\ writing' = IF writing = "pending" THEN "sent" ELSE "none"
    /\ sent' = written
    /\ UNCHANGED <<written, reception>>

GiveUp ==
    /\ writing = "pending"
    /\ writing' = "failed"
    /\ UNCHANGED <<written, sent, reception>>

\* The write returns, and with it the truth about its payload.
Return ==
    /\ writing \in {"sent", "failed"}
    /\ writing' = "none"
    /\ UNCHANGED <<written, sent, reception>>

\* What was not sent may be left in the transmitter.
Reset ==
    /\ \/ writing' = "none"
       \/ writing \in {"pending", "failed"} /\ writing' = "cut"
    /\ UNCHANGED <<written, sent, reception>>

\* The radio starts over: what waited and what was cut short is gone.
Forget ==
    /\ writing \in {"none", "cut"}
    /\ writing' = "none"
    /\ waiting' = <<>>
    /\ UNCHANGED <<arrived, given, written, sent>>

Next ==
    \/ Receive \/ Read \/ Lose
    \/ Write \/ Transmit \/ GiveUp \/ Return
    \/ Reset \/ Forget

Spec == Init /\ [][Next]_vars
=============================================================================
