--------------------------- MODULE SendCoapProofs ---------------------------
(***************************************************************************)
(* What becomes of a message and of its four copies, for any measurements, *)
(* any heap, any inbox and any number of messages and resets.              *)
(*                                                                         *)
(* Counting ties the frames given to the radio to the messages sent,       *)
(* InOrder says that the gateway's packets are those of ever later         *)
(* messages, and Accounting that each copy of the last message that the    *)
(* radio is done with was lost, waits or was read; none of them looks at a *)
(* byte.  Building, Numbered and Onward follow a message's ID through the  *)
(* calls on its object, its frame and the gateway's validation.            *)
(***************************************************************************)
EXTENDS SendCoap, CoapObjectProofs

Boots == [number : Nat, sent : Nat, written : Nat]

Typed ==
    /\ pc \in {"idle", "uri", "payload", "sending", "setup"}
    /\ sent \in Nat /\ tries \in 0..Tries
    /\ fate \in NodeRadio!Fates /\ written \in Nat
    /\ boot \in Boots

\* The copy the radio has at present.
InRadio == IF fate = "none" THEN 0 ELSE 1

Counting ==
    /\ sent >= boot.sent
    /\ pc = "setup" => sent = boot.sent /\ written = boot.written /\ tries = 0 /\ fate \in {"none", "cut"}
    /\ pc \in {"idle", "uri", "payload"} =>
          fate = "none" /\ written = boot.written + Tries * (sent - boot.sent)
    /\ pc \in {"uri", "payload"} => tries = 0
    /\ pc = "idle" /\ sent > boot.sent => tries = Tries
    /\ pc = "sending" =>
          /\ fate # "cut"
          /\ fate # "none" => tries < Tries
          /\ written = boot.written + Tries * (sent - boot.sent) + tries + InRadio

StatusInv == Typed /\ Counting

InOrder ==
    /\ \E S : messages \in Seq(S)
    /\ pc \in {"uri", "payload", "sending"} => Latest > 0
    /\ inbox \in Seq(Nat) /\ source \in Seq(Nat)
    /\ arrived = Len(source) /\ given \in 0..arrived
    /\ \A p \in 1..arrived : source[p] <= Latest
    /\ \A p, q \in 1..arrived : p <= q => source[p] <= source[q]
    /\ \A i \in 1..Len(inbox) : inbox[i] > given /\ inbox[i] <= arrived
    /\ \A i, j \in 1..Len(inbox) : i < j => inbox[i] < inbox[j]

\* The copies of the last message that the radio is done with.
Finished == tries + (IF fate \in {"sent", "failed"} THEN 1 ELSE 0)

\* Those that wait at the gateway.
Waiting == {p \in Range(inbox) : source[p] = Latest}
Copies == Cardinality(Waiting)

WasRead == given > 0 /\ source[given] = Latest

Accounting ==
    /\ lost \in Nat
    /\ WasRead \/ Finished <= lost + Copies

IInv == StatusInv /\ InOrder /\ Accounting

-----------------------------------------------------------------------------
(* printStatus. *)

LEMMA InitStatus ==
    ASSUME Init
    PROVE  StatusInv
  BY SendCoapAssumption
     DEF Init, StatusInv, Typed, Counting, Boots, Tries, NodeRadio!Fates

LEMMA StatusStep ==
    ASSUME StatusInv, [Next]_vars
    PROVE  StatusInv'
<1> USE DEF StatusInv, Typed, Counting, InRadio, Boots, Tries, NodeRadio!Fates
<1>1. CASE BeginMessage
  BY <1>1 DEF BeginMessage, sender
<1>2. CASE CallSetURI
  BY <1>2 DEF CallSetURI, sender
<1>3. CASE CallSetPayload
  BY <1>3 DEF CallSetPayload, sender
<1>4. CASE Write
  BY <1>4 DEF Write, AllTried, node, history, NodeRadio!Write
<1>5. CASE NextTry
  BY <1>5 DEF NextTry, WriteReturns, history, NodeRadio!Return
<1>6. CASE EndMessage
  BY <1>6 DEF EndMessage, AllTried, Counted, sender, history
<1>7. CASE Setup
  BY <1>7 DEF Setup, history, NodeRadio!Forget
<1>8. CASE Reset
  BY <1>8 DEF Reset, NodeRadio!Reset
<1>9. CASE Arrive \/ LoseInAir
  BY <1>9 DEF Arrive, LoseInAir, node, NodeRadio!Transmit, NodeRadio!GiveUp
<1>10. CASE LoseWaiting \/ GatewayReads \/ UNCHANGED vars
  BY <1>10 DEF LoseWaiting, GatewayReads, vars, node, sender, history
<1>11. QED
  BY <1>1, <1>2, <1>3, <1>4, <1>5, <1>6, <1>7, <1>8, <1>9, <1>10 DEF Next, Send, Air

\* printStatus counts the messages of this boot, four frames each, whatever the
\* radio, the air and the gateway make of them.
THEOREM StatusTrue == Spec => []StatusCounts
<1>1. Init => StatusInv
  BY InitStatus
<1>2. StatusInv /\ [Next]_vars => StatusInv'
  BY StatusStep
<1>3. StatusInv => StatusCounts
  BY DEF StatusInv, Typed, Counting, InRadio, Boots, Tries, StatusCounts
<1>4. QED
  BY <1>1, <1>2, <1>3, PTL DEF Spec

-----------------------------------------------------------------------------
(* The order of packets. *)

LEMMA Lengths ==
    ASSUME InOrder
    PROVE  /\ Latest \in Nat
           /\ Len(inbox) \in Nat /\ DOMAIN inbox = 1..Len(inbox)
           /\ arrived \in Nat /\ DOMAIN source = 1..arrived /\ \A p \in 1..arrived : source[p] \in Nat
           /\ \A i \in 1..Len(inbox) : inbox[i] \in 1..arrived
<1>1. /\ Latest \in Nat
      /\ Len(inbox) \in Nat /\ DOMAIN inbox = 1..Len(inbox)
      /\ arrived \in Nat /\ DOMAIN source = 1..arrived /\ \A p \in 1..arrived : source[p] \in Nat
  BY LenProperties DEF InOrder, Latest
<1>2. \A i \in 1..Len(inbox) : inbox[i] \in Nat
  BY ElementOfSeq DEF InOrder
<1>3. \A i \in 1..Len(inbox) : inbox[i] \in 1..arrived
  BY <1>1, <1>2 DEF InOrder
<1>4. QED
  BY <1>1, <1>3

LEMMA SameLength ==
    ASSUME InOrder, Latest > 0, NEW e
    PROVE  /\ \E S : [messages EXCEPT ![Latest] = e] \in Seq(S)
           /\ Len([messages EXCEPT ![Latest] = e]) = Latest
<1>1. PICK S : messages \in Seq(S)
  BY DEF InOrder
<1>2. messages \in Seq(S \cup {e})
  BY <1>1, SeqMonotonic
<1>3. Latest \in 1..Len(messages)
  BY Lengths DEF Latest
<1>4. QED
  BY <1>2, <1>3, ExceptSeq DEF Latest

LEMMA Longer ==
    ASSUME InOrder, NEW e
    PROVE  /\ \E S : Append(messages, e) \in Seq(S)
           /\ Len(Append(messages, e)) = Latest + 1
<1>1. PICK S : messages \in Seq(S)
  BY DEF InOrder
<1>2. messages \in Seq(S \cup {e})
  BY <1>1, SeqMonotonic
<1>3. QED
  BY <1>2, AppendProperties DEF Latest

\* Which messages there are, and how many.
LEMMA MessagesStep ==
    ASSUME InOrder, [Next]_vars
    PROVE  /\ \E S : messages' \in Seq(S)
           /\ BeginMessage => Latest' = Latest + 1
           /\ ~BeginMessage => Latest' = Latest
           /\ pc' \in {"uri", "payload", "sending"} => Latest' > 0
<1>1. CASE BeginMessage
  <2>1. PICK e : messages' = Append(messages, e)
    BY <1>1 DEF BeginMessage
  <2>2. (\E S : messages' \in Seq(S)) /\ Latest' = Latest + 1
    BY <2>1, Longer DEF Latest
  <2>3. QED
    BY <1>1, <2>2, Lengths
<1>2. CASE CallSetURI \/ CallSetPayload
  <2>1. PICK e : messages' = [messages EXCEPT ![Latest] = e]
    <3>1. CASE CallSetURI
      <4>1. PICK limit \in HeapLimits : messages' = [messages EXCEPT ![Latest].limit = limit]
        BY <3>1, Zenon DEF CallSetURI
      <4>2. QED
        BY <4>1, Zenon
    <3>2. CASE CallSetPayload
      <4>1. PICK limit \in HeapLimits :
               messages' = [messages EXCEPT ![Latest].limit = Least(@, limit),
                                            ![Latest].frame = Frame(coapPDU'.pdu)]
        BY <3>2, Zenon DEF CallSetPayload
      <4>2. QED
        BY <4>1, Zenon
    <3>3. QED
      BY <1>2, <3>1, <3>2
  <2>2. Latest > 0
    BY <1>2 DEF InOrder, CallSetURI, CallSetPayload
  <2>3. (\E S : messages' \in Seq(S)) /\ Latest' = Latest
    BY <2>1, <2>2, SameLength DEF Latest
  <2>4. ~BeginMessage
    BY <1>2 DEF CallSetURI, CallSetPayload, BeginMessage
  <2>5. QED
    BY <2>2, <2>3, <2>4
<1>3. CASE ~BeginMessage /\ UNCHANGED messages /\ (pc' = pc \/ pc' \in {"idle", "setup"})
  BY <1>3 DEF InOrder, Latest
<1>4. CASE ~(BeginMessage \/ CallSetURI \/ CallSetPayload)
  <2>1. UNCHANGED messages /\ (pc' = pc \/ pc' \in {"idle", "setup"})
    BY <1>4 DEF Next, Send, Air, Write, NextTry, EndMessage, Setup, Reset, Arrive, LoseInAir,
                LoseWaiting, GatewayReads, vars, node, history
  <2>2. QED
    BY <1>3, <1>4, <2>1
<1>5. QED
  BY <1>1, <1>2, <1>4

\* What the gateway's radio does with packets.
LEMMA GatewayStep ==
    ASSUME InOrder, [Next]_vars
    PROVE  \/ Arrive \/ LoseWaiting \/ GatewayReads
           \/ UNCHANGED <<inbox, arrived, given, source>>
  BY DEF Next, Send, Air, BeginMessage, CallSetURI, CallSetPayload, Write, NextTry, EndMessage, Setup,
         Reset, LoseInAir, vars, gateway, receiver, history

LEMMA OrderStep ==
    ASSUME InOrder, [Next]_vars
    PROVE  InOrder'
<1>1. Latest \in Nat /\ Latest' \in Nat /\ Latest <= Latest'
  BY MessagesStep, Lengths
<1>2. SUFFICES /\ inbox' \in Seq(Nat) /\ source' \in Seq(Nat)
               /\ arrived' = Len(source') /\ given' \in 0..arrived'
               /\ \A p \in 1..arrived' : source'[p] <= Latest'
               /\ \A p, q \in 1..arrived' : p <= q => source'[p] <= source'[q]
               /\ \A i \in 1..Len(inbox') : inbox'[i] > given' /\ inbox'[i] <= arrived'
               /\ \A i, j \in 1..Len(inbox') : i < j => inbox'[i] < inbox'[j]
  BY MessagesStep DEF InOrder
<1>3. CASE UNCHANGED <<inbox, arrived, given, source>>
  BY <1>1, <1>3, Lengths DEF InOrder
<1>4. CASE Arrive
  <2>1. /\ inbox' = Append(inbox, arrived + 1) /\ arrived' = arrived + 1 /\ given' = given
        /\ source' = Append(source, Latest)
    BY <1>4 DEF Arrive, GatewayRadio!Receive
  <2>2. /\ source' \in Seq(Nat) /\ Len(source') = arrived + 1
        /\ \A p \in 1..arrived : source'[p] = source[p]
        /\ source'[arrived + 1] = Latest
    BY <1>1, <2>1, AppendProperties, Lengths DEF InOrder
  <2>3. /\ inbox' \in Seq(Nat) /\ Len(inbox') = Len(inbox) + 1
        /\ \A i \in 1..Len(inbox) : inbox'[i] = inbox[i]
        /\ inbox'[Len(inbox) + 1] = arrived + 1
    BY <2>1, AppendProperties, Lengths DEF InOrder
  <2>4. \A p \in 1..arrived' : source'[p] <= Latest'
    BY <1>1, <2>1, <2>2, Lengths DEF InOrder
  <2>5. \A p, q \in 1..arrived' : p <= q => source'[p] <= source'[q]
    BY <1>1, <2>1, <2>2, Lengths DEF InOrder
  <2>6. \A i \in 1..Len(inbox') : inbox'[i] > given' /\ inbox'[i] <= arrived'
    BY <2>1, <2>3, Lengths DEF InOrder
  <2>7. \A i, j \in 1..Len(inbox') : i < j => inbox'[i] < inbox'[j]
    <3> SUFFICES ASSUME NEW k \in 1..Len(inbox'), NEW j \in 1..Len(inbox'), k < j
                 PROVE  inbox'[k] < inbox'[j]
      OBVIOUS
    <3>1. Len(inbox) \in Nat /\ k \in 1..Len(inbox) /\ inbox[k] \in 1..arrived /\ arrived \in Nat
      BY <2>3, Lengths
    <3>2. CASE j \in 1..Len(inbox)
      BY <2>3, <3>1, <3>2 DEF InOrder
    <3>3. CASE j = Len(inbox) + 1
      BY <2>3, <3>1, <3>3
    <3>4. Len(inbox') = Len(inbox) + 1 /\ Len(inbox) \in Nat
      BY <2>3, Lengths
    <3>5. j \in 1..Len(inbox) \/ j = Len(inbox) + 1
      BY <3>4
    <3>6. QED
      BY <3>2, <3>3, <3>5
  <2>8. arrived' = Len(source') /\ given' \in 0..arrived'
    BY <2>1, <2>2, Lengths DEF InOrder
  <2>9. QED
    BY <2>2, <2>3, <2>4, <2>5, <2>6, <2>7, <2>8
<1>5. CASE LoseWaiting
  <2>1. inbox' = <<>> /\ UNCHANGED <<arrived, given, source>>
    BY <1>5 DEF LoseWaiting, GatewayRadio!Lose
  <2>2. QED
    BY <1>1, <2>1, EmptySeq, Lengths DEF InOrder
<1>6. CASE GatewayReads
  <2>1. inbox # <<>> /\ inbox' = Tail(inbox) /\ given' = Head(inbox) /\ UNCHANGED <<arrived, source>>
    BY <1>6 DEF GatewayReads, GatewayRadio!Read, history
  <2>2. /\ inbox' \in Seq(Nat) /\ Len(inbox') = Len(inbox) - 1
        /\ \A i \in 1..Len(inbox') : inbox'[i] = inbox[i + 1]
    BY <2>1, HeadTailProperties DEF InOrder
  <2>3. given' = inbox[1] /\ 1 \in 1..Len(inbox)
    BY <2>1, EmptySeq DEF InOrder
  <2>4. given' \in Nat /\ given' > given /\ given' <= arrived
    BY <2>3, ElementOfSeq DEF InOrder
  <2>5. \A i \in 1..Len(inbox') : inbox'[i] > given' /\ inbox'[i] <= arrived'
    BY <2>1, <2>2, <2>3, Lengths DEF InOrder
  <2>6. \A i, j \in 1..Len(inbox') : i < j => inbox'[i] < inbox'[j]
    <3> SUFFICES ASSUME NEW k \in 1..Len(inbox'), NEW j \in 1..Len(inbox'), k < j
                 PROVE  inbox'[k] < inbox'[j]
      OBVIOUS
    <3>1. /\ k + 1 \in 1..Len(inbox) /\ j + 1 \in 1..Len(inbox) /\ k + 1 < j + 1
          /\ inbox'[k] = inbox[k + 1] /\ inbox'[j] = inbox[j + 1]
      BY <2>2, Lengths
    <3>2. QED
      BY <3>1 DEF InOrder
  <2>7. QED
    BY <1>1, <2>1, <2>2, <2>4, <2>5, <2>6, Lengths DEF InOrder
<1>7. QED
  BY <1>3, <1>4, <1>5, <1>6, GatewayStep

-----------------------------------------------------------------------------
(* What has become of the copies. *)

LEMMA WaitingIs ==
    InOrder => /\ IsFiniteSet(Waiting) /\ Copies \in Nat
               /\ CopiesAmong(inbox, Latest) = Copies
               /\ Range(inbox) \subseteq 1..arrived /\ Waiting \subseteq 1..arrived
<1> SUFFICES ASSUME InOrder
             PROVE  /\ IsFiniteSet(Waiting) /\ Copies \in Nat
                    /\ CopiesAmong(inbox, Latest) = Copies
                    /\ Range(inbox) \subseteq 1..arrived /\ Waiting \subseteq 1..arrived
  OBVIOUS
<1>1. Range(inbox) \subseteq 1..arrived
  BY Lengths DEF Range
<1>2. Waiting \subseteq 1..arrived
  BY <1>1 DEF Waiting
<1>3. IsFiniteSet(1..arrived)
  BY FS_Interval, Lengths
<1>4. IsFiniteSet(Waiting)
  BY <1>2, <1>3, FS_Subset
<1>5. Copies \in Nat
  BY <1>4, FS_CardinalityType DEF Copies
<1>6. CopiesAmong(inbox, Latest) = Copies
  BY DEF CopiesAmong, Copies, Waiting
<1>7. QED
  BY <1>1, <1>2, <1>4, <1>5, <1>6

LEMMA CopiesAreCounted ==
    InOrder' => (Copies \in Nat)'
<1>1. InOrder => Copies \in Nat
  BY WaitingIs
<1>2. QED
  BY <1>1, PTL

\* What waits after a packet has arrived or was read.
LEMMA ArrivesWaiting ==
    ASSUME InOrder, Arrive
    PROVE  Copies' = Copies + 1
<1>1. /\ inbox' = Append(inbox, arrived + 1) /\ source' = Append(source, Latest) /\ Latest' = Latest
  BY DEF Arrive, GatewayRadio!Receive, Latest
<1>2. /\ \A p \in 1..arrived : source'[p] = source[p]
      /\ source'[arrived + 1] = Latest
  BY <1>1, AppendProperties, Lengths DEF InOrder
<1>3. /\ DOMAIN inbox' = 1..(Len(inbox) + 1)
      /\ \A i \in 1..Len(inbox) : inbox'[i] = inbox[i]
      /\ inbox'[Len(inbox) + 1] = arrived + 1
  BY <1>1, AppendProperties, LenProperties, Lengths DEF InOrder
<1>4. Range(inbox') = Range(inbox) \cup {arrived + 1}
  <2>1. Range(inbox') = {inbox'[k] : k \in 1..(Len(inbox) + 1)}
    BY <1>3 DEF Range
  <2>2. Range(inbox) = {inbox[k] : k \in 1..Len(inbox)}
    BY Lengths DEF Range
  <2>3. \A k : k \in 1..(Len(inbox) + 1) <=> (k \in 1..Len(inbox) \/ k = Len(inbox) + 1)
    BY Lengths
  <2>4. QED
    BY <1>3, <2>1, <2>2, <2>3
<1>5. Waiting' = Waiting \cup {arrived + 1}
  BY <1>1, <1>2, <1>4, WaitingIs DEF Waiting
<1>6. arrived + 1 \notin Waiting
  BY WaitingIs, Lengths
<1>7. Cardinality(Waiting \cup {arrived + 1}) = Cardinality(Waiting) + 1
  BY <1>6, WaitingIs, FS_AddElement
<1>8. QED
  BY <1>5, <1>7 DEF Copies

LEMMA OthersRead ==
    ASSUME InOrder, GatewayReads, source[Head(inbox)] # Latest
    PROVE  Copies' = Copies
<1>1. inbox # <<>> /\ inbox' = Tail(inbox) /\ source' = source /\ Latest' = Latest
  BY DEF GatewayReads, GatewayRadio!Read, history, Latest
<1>2. /\ Len(inbox') = Len(inbox) - 1 /\ DOMAIN inbox' = 1..(Len(inbox) - 1)
      /\ \A i \in 1..Len(inbox') : inbox'[i] = inbox[i + 1]
      /\ Head(inbox) = inbox[1]
  BY <1>1, HeadTailProperties, LenProperties DEF InOrder
<1>3. Waiting' = Waiting
  <2>1. ASSUME NEW p \in Waiting
        PROVE  p \in Waiting'
    <3>1. PICK k \in 1..Len(inbox) : p = inbox[k]
      BY Lengths DEF Waiting, Range
    <3>2. k # 1
      BY <1>2, <3>1 DEF Waiting
    <3>3. k - 1 \in DOMAIN inbox' /\ inbox'[k - 1] = p
      BY <1>2, <3>1, <3>2, Lengths
    <3>4. QED
      BY <1>1, <3>3 DEF Waiting, Range
  <2>2. ASSUME NEW p \in Waiting'
        PROVE  p \in Waiting
    <3>1. PICK k \in 1..(Len(inbox) - 1) : p = inbox'[k]
      BY <1>2 DEF Waiting, Range
    <3>2. k + 1 \in DOMAIN inbox /\ inbox[k + 1] = p
      BY <1>2, <3>1, Lengths
    <3>3. QED
      BY <1>1, <3>2 DEF Waiting, Range
  <2>3. QED
    BY <2>1, <2>2
<1>4. QED
  BY <1>3 DEF Copies

\* After a read of a copy of the last message, and ever after, one was read.
LEMMA ReadLast ==
    ASSUME InOrder, GatewayReads, WasRead \/ source[Head(inbox)] = Latest
    PROVE  WasRead'
<1>1. inbox # <<>> /\ given' = Head(inbox) /\ source' = source /\ Latest' = Latest
  BY DEF GatewayReads, GatewayRadio!Read, history, Latest
<1>2. Head(inbox) = inbox[1] /\ 1 \in 1..Len(inbox)
  BY <1>1, EmptySeq DEF InOrder
<1>3. given' \in 1..arrived /\ given' > given /\ given \in 0..arrived
  BY <1>1, <1>2, Lengths DEF InOrder
<1>4. CASE WasRead
  <2>1. given \in 1..arrived /\ source[given] = Latest /\ source[given'] >= Latest
    BY <1>3, <1>4, Lengths DEF WasRead, InOrder
  <2>2. source[given'] = Latest
    BY <1>3, <2>1, Lengths DEF InOrder
  <2>3. QED
    BY <1>1, <1>3, <2>2, Lengths DEF WasRead
<1>5. CASE source[Head(inbox)] = Latest
  BY <1>1, <1>3, <1>5, Lengths DEF WasRead
<1>6. QED
  BY <1>4, <1>5

\* The steps of the node and its radio that leave the gateway's packets alone.
LEMMA FinishedCounted ==
    Typed => Finished \in Nat
  BY DEF Typed, Finished, Tries

LEMMA FinishedCountedNext ==
    Typed' => (Finished \in Nat)'
  BY FinishedCounted, PTL

\* Accounting after a step, its values named.
LEMMA Balance ==
    ASSUME NEW n \in Nat, NEW l \in Nat, NEW c \in Nat, n <= l + c,
           Finished' = n, lost' = l, Copies' = c
    PROVE  Accounting'
<1>1. Finished' <= lost' + Copies'
  BY Zenon
<1>2. QED
  BY <1>1, Zenon DEF Accounting

LEMMA NodeAccounting ==
    ASSUME Accounting, InOrder, UNCHANGED <<inbox, given, source>>, Latest' = Latest,
           NEW n \in Nat, NEW l \in Nat, Finished' = n, lost' = l,
           Finished \in Nat, n + lost <= Finished + l
    PROVE  Accounting'
<1>1. Copies \in Nat /\ lost \in Nat
  BY WaitingIs DEF Accounting
<1>2. Copies' = Copies
  BY DEF Copies, Waiting
<1>3. CASE WasRead
  BY <1>3 DEF Accounting, WasRead
<1>4. CASE ~WasRead
  <2>1. Finished <= lost + Copies
    BY <1>4 DEF Accounting
  <2>2. n <= l + Copies
    BY <1>1, <2>1
  <2>3. QED
    BY <1>1, <1>2, <2>2, Balance
<1>5. QED
  BY <1>3, <1>4

LEMMA AccountingStep ==
    ASSUME StatusInv, StatusInv', InOrder, InOrder', Accounting, [Next]_vars
    PROVE  Accounting'
<1>1. /\ tries \in Nat /\ fate \in NodeRadio!Fates /\ lost \in Nat
      /\ Copies \in Nat /\ Finished \in Nat /\ Finished' \in Nat
  <2>1. Typed /\ Typed'
    BY DEF StatusInv
  <2>2. Finished' \in Nat
    BY <2>1, FinishedCountedNext
  <2>3. QED
    BY <2>1, <2>2, FinishedCounted, WaitingIs DEF Typed, Accounting, Tries
<1>2. Copies' \in Nat
  BY CopiesAreCounted
<1>3. CASE BeginMessage
  <2>1. fate' = "none" /\ tries' = 0 /\ lost' = 0
    BY <1>3 DEF BeginMessage, StatusInv, Counting, sender
  <2>2. Finished' = 0
    BY <2>1 DEF Finished
  <2>3. QED
    BY <1>2, <2>1, <2>2, Balance
<1>4. CASE LoseWaiting
  <2>1. inbox' = <<>> /\ lost' = lost + Copies /\ UNCHANGED <<given, source, messages, tries, fate>>
    BY <1>4, WaitingIs DEF LoseWaiting, LoseCopies, GatewayRadio!Lose, node, sender
  <2>2. Finished' = Finished
    BY <2>1 DEF Finished
  <2>3. CASE WasRead
    BY <1>1, <2>1, <2>3 DEF WasRead, Latest, Accounting
  <2>4. CASE ~WasRead
    <3>1. Finished <= lost + Copies
      BY <2>4 DEF Accounting
    <3>2. lost + Copies \in Nat /\ Finished <= (lost + Copies) + 0
      BY <1>1, <3>1
    <3>3. Copies' = 0
      <4>1. Range(<<>>) = {}
        BY DEF Range
      <4>2. Waiting' = {}
        BY <2>1, <4>1 DEF Waiting
      <4>3. QED
        BY <4>2, FS_EmptySet DEF Copies
    <3>4. QED
      BY <1>1, <2>1, <2>2, <3>2, <3>3, Balance
  <2>5. QED
    BY <2>3, <2>4
<1>5. CASE GatewayReads
  <2>1. UNCHANGED <<tries, fate, lost>>
    BY <1>5 DEF GatewayReads, node, sender, history
  <2>2. Finished' = Finished
    BY <2>1 DEF Finished
  <2>3. CASE WasRead \/ source[Head(inbox)] = Latest
    BY <1>1, <1>5, <2>1, <2>3, ReadLast DEF Accounting
  <2>4. CASE ~WasRead /\ source[Head(inbox)] # Latest
    <3>1. Copies' = Copies
      BY <1>5, <2>4, OthersRead
    <3>2. Finished <= lost + Copies
      BY <2>4 DEF Accounting
    <3>3. QED
      BY <1>1, <2>1, <2>2, <3>1, <3>2 DEF Accounting
  <2>5. QED
    BY <2>3, <2>4
<1>6. CASE Arrive
  <2>1. /\ given' = given /\ source' = Append(source, Latest) /\ Latest' = Latest
        /\ UNCHANGED <<tries, lost>>
        /\ \/ fate = "pending" /\ fate' = "sent"
           \/ fate = "cut" /\ fate' = "none"
    BY <1>6 DEF Arrive, NodeRadio!Transmit, GatewayRadio!Receive, Latest, node
  <2>2. Finished' <= Finished + 1
    BY <1>1, <2>1 DEF Finished
  <2>3. Copies' = Copies + 1
    BY <1>6, ArrivesWaiting
  <2>4. CASE WasRead
    <3>1. given \in 1..arrived
      BY <2>4, Lengths DEF WasRead, InOrder
    <3>2. source'[given] = source[given]
      BY <2>1, <3>1, AppendProperties, Lengths DEF InOrder
    <3>3. QED
      BY <1>1, <2>1, <2>4, <3>2 DEF WasRead, Accounting
  <2>5. CASE ~WasRead
    BY <1>1, <2>1, <2>2, <2>3, <2>5 DEF Accounting
  <2>6. QED
    BY <2>4, <2>5
<1>7. CASE Next /\ ~(BeginMessage \/ Arrive \/ LoseWaiting \/ GatewayReads)
  <2>1. UNCHANGED <<inbox, given, source>> /\ Latest' = Latest
    BY <1>7, MessagesStep, GatewayStep
  <2>2. CASE CallSetURI \/ CallSetPayload \/ EndMessage
    <3>1. UNCHANGED <<tries, fate, lost>>
      BY <2>2 DEF CallSetURI, CallSetPayload, EndMessage, sender, history
    <3>2. Finished' = Finished
      BY <3>1 DEF Finished
    <3>3. QED
      BY <1>1, <2>1, <3>1, <3>2, NodeAccounting
  <2>3. CASE Write
    <3>1. fate = "none" /\ fate' = "pending" /\ UNCHANGED <<tries, lost>>
      BY <2>3 DEF Write, node, history, NodeRadio!Write
    <3>2. Finished' = Finished
      BY <3>1 DEF Finished
    <3>3. QED
      BY <1>1, <2>1, <3>1, <3>2, NodeAccounting
  <2>4. CASE NextTry
    <3>1. fate \in {"sent", "failed"} /\ fate' = "none" /\ tries' = tries + 1 /\ lost' = lost
      BY <2>4 DEF NextTry, WriteReturns, history, NodeRadio!Return
    <3>2. Finished' = Finished
      BY <1>1, <3>1 DEF Finished
    <3>3. QED
      BY <1>1, <2>1, <3>1, <3>2, NodeAccounting
  <2>5. CASE Setup \/ Reset
    <3>1. tries' = 0 /\ fate' \in {"none", "cut"} /\ lost' = lost
      BY <2>5 DEF Setup, Reset, StatusInv, Counting, history, NodeRadio!Forget, NodeRadio!Reset
    <3>2. Finished' = 0
      BY <3>1 DEF Finished
    <3>3. QED
      BY <1>1, <2>1, <3>1, <3>2, NodeAccounting
  <2>6. CASE LoseInAir
    <3>1. /\ lost' = lost + 1 /\ UNCHANGED tries
          /\ \/ fate = "pending" /\ fate' \in {"sent", "failed"}
             \/ fate = "cut" /\ fate' = "none"
      BY <2>6 DEF LoseInAir, LoseCopies, NodeRadio!Transmit, NodeRadio!GiveUp, node
    <3>2. Finished' = Finished + 1 \/ Finished' = Finished
      BY <1>1, <3>1 DEF Finished
    <3>3. /\ Finished + 1 \in Nat /\ lost + 1 \in Nat
          /\ (Finished + 1) + lost <= Finished + (lost + 1)
          /\ Finished + lost <= Finished + (lost + 1)
      BY <1>1
    <3>4. QED
      BY <1>1, <2>1, <3>1, <3>2, <3>3, NodeAccounting
  <2>7. QED
    BY <1>7, <2>2, <2>3, <2>4, <2>5, <2>6 DEF Next, Send, Air
<1>8. CASE UNCHANGED vars
  <2>1. UNCHANGED <<inbox, given, source, lost, tries, fate>> /\ Latest' = Latest
    BY <1>8 DEF vars, node, sender, gateway, receiver, history, Latest
  <2>2. Finished' = Finished
    BY <2>1 DEF Finished
  <2>3. QED
    BY <1>1, <2>1, <2>2, NodeAccounting
<1>9. QED
  BY <1>3, <1>4, <1>5, <1>6, <1>7, <1>8

-----------------------------------------------------------------------------
LEMMA InitIInv ==
    ASSUME Init
    PROVE  IInv
<1>1. StatusInv
  BY InitStatus
<1>2. messages \in Seq(Nat) /\ Latest = 0 /\ inbox \in Seq(Nat) /\ source \in Seq(Nat)
  BY EmptySeq DEF Init, Latest
<1>3. InOrder
  BY <1>2, EmptySeq DEF Init, InOrder
<1>4. Finished = 0 /\ lost = 0
  BY DEF Init, Finished
<1>5. Copies \in Nat
  BY <1>3, WaitingIs
<1>6. QED
  BY <1>1, <1>3, <1>4, <1>5 DEF IInv, Accounting

\* Frames are counted, packets are in order, and every copy is accounted for.
THEOREM InductiveInvariant == Spec => []IInv
<1>1. Init => IInv
  BY InitIInv
<1>2. IInv /\ [Next]_vars => IInv'
  BY StatusStep, OrderStep, AccountingStep DEF IInv
<1>3. QED
  BY <1>1, <1>2, PTL DEF Spec

\* A message whose four frames were given to the radio reaches the gateway's
\* application, or waits there for it, unless all four copies were lost.
THEOREM LossesBorne == Spec => []ThreeLossesBorne
<1>1. IInv => ThreeLossesBorne
  <2> SUFFICES ASSUME IInv, pc = "idle", sent > boot.sent, lost < Tries, ~WasRead
               PROVE  \E k \in DOMAIN inbox : source[inbox[k]] = Latest
    BY DEF ThreeLossesBorne, WasRead
  <2>1. Finished = Tries
    BY DEF IInv, StatusInv, Typed, Counting, Finished, Tries
  <2>2. lost \in Nat /\ Tries <= lost + Copies
    BY <2>1 DEF IInv, Accounting
  <2>3. IsFiniteSet(Waiting) /\ Copies \in Nat
    BY WaitingIs DEF IInv
  <2>4. Copies # 0
    BY <2>2, <2>3 DEF Tries
  <2>5. Waiting # {}
    BY <2>3, <2>4, FS_EmptySet DEF Copies
  <2>6. QED
    BY <2>5 DEF Waiting, Range
<1>2. QED
  BY <1>1, InductiveInvariant, PTL
-----------------------------------------------------------------------------
(* How many copies are lost: no more than the radio is done with, but for one *)
(* whose write has failed when a reset cuts it short.  Its frame stays in the *)
(* radio, which may lose it a second time.                                    *)

Losses ==
    /\ pc \in {"uri", "payload", "sending"} => lost + Copies <= Finished
    /\ pc \in {"idle", "setup"} => lost + Copies <= Tries + 1
    /\ pc = "setup" /\ fate # "none" => lost + Copies <= Tries

LEMMA CountsTyped ==
    ASSUME StatusInv, InOrder, Accounting
    PROVE  lost \in Nat /\ Copies \in Nat /\ Finished \in Nat
  BY FinishedCounted, WaitingIs DEF StatusInv, Accounting

LEMMA CountedNext ==
    IInv' => (lost \in Nat)' /\ (Copies \in Nat)' /\ (Finished \in Nat)'
<1>1. IInv => lost \in Nat /\ Copies \in Nat /\ Finished \in Nat
  BY CountsTyped DEF IInv
<1>2. QED
  BY <1>1, PTL

\* Nothing that waits is of a message just begun.
LEMMA NoneOfTheNext ==
    ASSUME InOrder, BeginMessage
    PROVE  Copies' = 0
<1>1. UNCHANGED <<inbox, source>> /\ Latest' = Latest + 1
  BY MessagesStep DEF BeginMessage, gateway, receiver, Next, Send
<1>2. Latest \in Nat /\ \A p \in Range(inbox) : source[p] <= Latest /\ source[p] \in Nat
  BY WaitingIs, Lengths DEF InOrder
<1>3. Waiting' = {}
  BY <1>1, <1>2 DEF Waiting
<1>4. QED
  BY <1>3, FS_EmptySet DEF Copies

LEMMA FewerWait ==
    ASSUME InOrder, GatewayReads, Copies' \in Nat
    PROVE  Copies' <= Copies
<1>1. inbox # <<>> /\ inbox' = Tail(inbox) /\ source' = source /\ Latest' = Latest
  BY DEF GatewayReads, GatewayRadio!Read, history, Latest
<1>2. /\ DOMAIN inbox' = 1..(Len(inbox) - 1)
      /\ \A i \in 1..(Len(inbox) - 1) : inbox'[i] = inbox[i + 1] /\ i + 1 \in DOMAIN inbox
  BY <1>1, HeadTailProperties, LenProperties, Lengths DEF InOrder
<1>3. Waiting' \subseteq Waiting
  <2>1. Range(inbox') \subseteq Range(inbox)
    BY <1>2 DEF Range
  <2>2. QED
    BY <1>1, <2>1 DEF Waiting
<1>4. Cardinality(Waiting') <= Cardinality(Waiting)
  BY <1>3, WaitingIs, FS_Subset
<1>5. QED
  BY <1>4 DEF Copies

LEMMA LossesStep ==
    ASSUME IInv, IInv', Losses, [Next]_vars
    PROVE  Losses'
<1>1. /\ lost \in Nat /\ Copies \in Nat /\ Finished \in Nat /\ tries \in Nat
      /\ fate \in NodeRadio!Fates
  BY CountsTyped DEF IInv, StatusInv, Typed, Tries
<1>2. /\ lost' \in Nat /\ Copies' \in Nat /\ Finished' \in Nat
  BY CountedNext
<1>3. CASE BeginMessage
  <2>1. lost' = 0 /\ Copies' = 0 /\ pc' = "uri"
    BY <1>3, NoneOfTheNext DEF BeginMessage, IInv
  <2>2. QED
    BY <1>2, <2>1 DEF Losses
<1>4. CASE LoseWaiting
  <2>1. inbox' = <<>> /\ lost' = lost + Copies /\ UNCHANGED <<tries, fate, pc>>
    BY <1>4, WaitingIs DEF IInv, LoseWaiting, LoseCopies, GatewayRadio!Lose, node, sender
  <2>2. Finished' = Finished
    BY <2>1 DEF Finished
  <2>3. Waiting' = {}
    <3>1. Range(<<>>) = {}
      BY DEF Range
    <3>2. QED
      BY <2>1, <3>1 DEF Waiting
  <2>4. Copies' = 0
    BY <2>3, FS_EmptySet DEF Copies
  <2>5. lost' + Copies' = lost + Copies
    BY <1>1, <2>1, <2>4
  <2>6. QED
    BY <1>1, <2>1, <2>2, <2>5 DEF Losses
<1>5. CASE GatewayReads
  <2>1. UNCHANGED <<tries, fate, lost, pc>>
    BY <1>5 DEF GatewayReads, node, sender, history
  <2>2. Finished' = Finished
    BY <2>1 DEF Finished
  <2>3. Copies' <= Copies
    BY <1>2, <1>5, FewerWait DEF IInv
  <2>4. PICK a \in Nat, b \in Nat, l \in Nat : a = Copies /\ b = Copies' /\ l = lost /\ b <= a
    BY <1>1, <1>2, <2>3
  <2>5. a \in Nat /\ b \in Nat /\ l \in Nat /\ b <= a
    BY <1>1, <1>2, <2>4
  <2>6. \A n \in Nat : l + a <= n => l + b <= n
    BY <2>5
  <2>7. lost' + Copies' = l + b /\ lost + Copies = l + a
    BY <2>1, <2>4, Zenon
  <2>8. \A n \in Nat : lost + Copies <= n => lost' + Copies' <= n
    BY <2>6, <2>7, Zenon
  <2>9. Finished' \in Nat /\ Tries \in Nat /\ Tries + 1 \in Nat
    BY <1>2 DEF Tries
  <2>10. QED
    BY <2>1, <2>2, <2>8, <2>9, Zenon DEF Losses
<1>6. ASSUME lost' + Copies' = lost + Copies + 1, UNCHANGED <<tries, pc>>,
             \/ fate = "pending" /\ fate' \in {"sent", "failed"}
             \/ fate = "cut" /\ fate' = "none"
      PROVE  Losses'
  <2>1. CASE fate = "pending" /\ fate' \in {"sent", "failed"}
    <3>1. Finished = tries /\ Finished' = tries + 1
      BY <1>1, <1>6, <2>1 DEF Finished
    <3>2. pc = "sending" /\ pc' = "sending"
      BY <1>6, <2>1 DEF IInv, StatusInv, Typed, Counting
    <3>3. QED
      BY <1>1, <1>6, <3>1, <3>2 DEF Losses
  <2>2. CASE fate = "cut" /\ fate' = "none"
    <3>1. pc = "setup" /\ pc' = "setup"
      BY <1>6, <2>2 DEF IInv, StatusInv, Typed, Counting
    <3>2. QED
      BY <1>1, <1>6, <2>2, <3>1 DEF Losses, Tries
  <2>3. QED
    BY <1>6, <2>1, <2>2
<1>7. CASE Arrive
  <2>1. /\ UNCHANGED <<tries, lost, pc>>
        /\ \/ fate = "pending" /\ fate' = "sent"
           \/ fate = "cut" /\ fate' = "none"
    BY <1>7 DEF Arrive, NodeRadio!Transmit, node
  <2>2. lost' + Copies' = lost + Copies + 1
    BY <1>1, <1>7, <2>1, ArrivesWaiting DEF IInv
  <2>3. QED
    BY <1>6, <2>1, <2>2
<1>8. CASE Next /\ ~(BeginMessage \/ Arrive \/ LoseWaiting \/ GatewayReads)
  <2>1. UNCHANGED <<inbox, source>> /\ Latest' = Latest
    BY <1>8, MessagesStep, GatewayStep DEF IInv
  <2>2. Copies' = Copies
    BY <2>1 DEF Copies, Waiting
  <2>3. CASE CallSetURI \/ CallSetPayload \/ Write \/ NextTry
    <3>1. lost' = lost /\ pc \in {"uri", "payload", "sending"} /\ pc' \in {"uri", "payload", "sending"}
      BY <2>3 DEF CallSetURI, CallSetPayload, Write, NextTry, history, node
    <3>2. \/ UNCHANGED <<tries, fate>>
          \/ fate = "none" /\ fate' = "pending" /\ tries' = tries
          \/ fate \in {"sent", "failed"} /\ fate' = "none" /\ tries' = tries + 1
      BY <2>3 DEF CallSetURI, CallSetPayload, Write, NextTry, WriteReturns, sender, node,
                  NodeRadio!Write, NodeRadio!Return
    <3>3. Finished' = Finished
      BY <1>1, <3>2 DEF Finished
    <3>4. lost' + Copies' = lost + Copies
      BY <2>2, <3>1
    <3>5. QED
      BY <3>1, <3>3, <3>4 DEF Losses
  <2>4. CASE EndMessage
    <3>1. Finished = Tries /\ lost' = lost /\ pc = "sending" /\ pc' = "idle"
      BY <2>4 DEF EndMessage, AllTried, Finished, history, Tries
    <3>2. QED
      BY <1>1, <2>2, <3>1 DEF Losses, Tries
  <2>5. CASE Setup
    <3>1. lost' = lost /\ pc = "setup" /\ pc' = "idle"
      BY <2>5 DEF Setup, history
    <3>2. QED
      BY <1>1, <2>2, <3>1 DEF Losses
  <2>6. CASE Reset
    <3>1. /\ lost' = lost /\ pc' = "setup"
          /\ fate' = "none" \/ (fate \in {"pending", "failed"} /\ fate' = "cut")
      BY <2>6 DEF Reset, NodeRadio!Reset
    <3>2. Finished <= Tries
      BY <1>1 DEF Finished, IInv, StatusInv, Typed, Counting, Tries, NodeRadio!Fates
    <3>3. fate \in {"pending", "failed"} => pc = "sending"
      BY DEF IInv, StatusInv, Typed, Counting
    <3>4. pc \in {"idle", "uri", "payload", "sending", "setup"}
      BY DEF IInv, StatusInv, Typed
    <3>5. lost + Copies <= Tries + 1 /\ (pc = "sending" => lost + Copies <= Tries)
      BY <1>1, <3>2, <3>4 DEF Losses, Tries
    <3>6. QED
      BY <2>2, <3>1, <3>3, <3>5 DEF Losses
  <2>7. CASE LoseInAir
    <3>1. /\ lost' = lost + 1 /\ UNCHANGED <<tries, pc>>
          /\ \/ fate = "pending" /\ fate' \in {"sent", "failed"}
             \/ fate = "cut" /\ fate' = "none"
      BY <2>7 DEF LoseInAir, LoseCopies, NodeRadio!Transmit, NodeRadio!GiveUp, node
    <3>2. lost' + Copies' = lost + Copies + 1
      BY <1>1, <2>2, <3>1
    <3>3. QED
      BY <1>6, <3>1, <3>2
  <2>8. QED
    BY <1>8, <2>3, <2>4, <2>5, <2>6, <2>7 DEF Next, Send, Air
<1>9. CASE UNCHANGED vars
  <2>1. UNCHANGED <<inbox, source, lost, tries, fate, pc>> /\ Latest' = Latest
    BY <1>9 DEF vars, node, sender, gateway, receiver, history, Latest
  <2>2. Finished' = Finished /\ Copies' = Copies
    BY <2>1 DEF Finished, Copies, Waiting
  <2>3. QED
    BY <2>1, <2>2 DEF Losses
<1>10. QED
  BY <1>3, <1>4, <1>5, <1>7, <1>8, <1>9
-----------------------------------------------------------------------------
(* The bytes of the messages.  Here what the handlers of a CoapPDU do counts: *)
(* that a message has room for its header, and that nothing done to it after  *)
(* its ID was set touches the ID.                                             *)

Frames == [1..FrameSize -> Byte]

Letters(S) ==
    [uri : Values, path : S, data : Seq(Byte), counter : 0..(CounterModulus - 1),
     boot : Nat, limit : Nat, frame : {<<>>} \cup Frames]

Framed(i) == messages[i].frame # <<>>
IDOf(i) == GetMessageID(messages[i].frame)

LettersTyped ==
    /\ \E S : messages \in Seq(Letters(S))
    /\ Latest <= MaxMessages /\ nextMessageID \in Nat

\* A message under construction is the last, without a frame yet.
Building ==
    pc \in {"uri", "payload"} =>
        /\ coapPDU \in Fields /\ Room(coapPDU)
        /\ GetMessageID(coapPDU.pdu) = U16(nextMessageID - 1)
        /\ messages[Latest].boot = boot.number /\ ~Framed(Latest)

\* The IDs of this boot's messages count up to the next.
Numbered ==
    \A i \in 1..Latest :
        /\ messages[i].boot <= boot.number
        /\ Framed(i) /\ messages[i].boot = boot.number =>
              IDOf(i) = U16(nextMessageID - 1 - (Latest - i))

\* What is in a radio, in the air or was understood is a message with a frame.
Onward ==
    /\ pc = "sending" \/ fate # "none" => Latest > 0 /\ Framed(Latest)
    /\ \A p \in 1..arrived : source[p] \in 1..Latest /\ Framed(source[p])
    /\ heard.accepted =>
          heard.message \in 1..Latest /\ Framed(heard.message) /\ heard.id = IDOf(heard.message)

LettersInv == LettersTyped /\ Building /\ Numbered /\ Onward

LEMMA SameID ==
    ASSUME NEW b \in Seq(Byte), Len(b) >= 4, NEW f \in Seq(Byte), Len(f) >= 4, SameHeader(b, f)
    PROVE  GetMessageID(f) = GetMessageID(b)
<1>1. 3 \in DOMAIN b /\ 4 \in DOMAIN b /\ 3 \in DOMAIN f /\ 4 \in DOMAIN f
  <2>1. DOMAIN b = 1..Len(b) /\ DOMAIN f = 1..Len(f) /\ Len(b) \in Nat /\ Len(f) \in Nat
    BY LenProperties
  <2>2. QED
    BY <2>1
<1>2. f[3] = b[3] /\ f[4] = b[4]
  BY DEF SameHeader
<1>3. At(f, 3) = At(b, 3) /\ At(f, 4) = At(b, 4)
  BY <1>1, <1>2 DEF At
<1>4. At(f, 3 + 1) = At(b, 3 + 1)
  BY <1>3
<1>5. QED
  BY <1>3, <1>4, Zenon DEF GetMessageID, FromTwoBytes

LEMMA RequestMade ==
    ASSUME NEW id \in Word
    PROVE  /\ Request(id) \in Fields /\ Room(Request(id))
           /\ GetMessageID(Request(id).pdu) = id
<1>1. /\ New \in Fields /\ Room(New) /\ Len(New.pdu) = 4 /\ New.pdu \in Seq(Byte)
      /\ Len(New.pdu) > 0
  BY NewRoom, FieldsTyped
<1>2. NonConfirmable \in HeaderTypes /\ Put \in Byte
  BY DEF NonConfirmable, Put, HeaderTypes, Byte
<1>3. PICK b1 : b1 = SetType(New.pdu, NonConfirmable) /\ SameToken(New.pdu, b1)
  BY <1>1, <1>2, TypeSet
<1>4. b1 \in Seq(Byte) /\ Len(b1) = 4 /\ GetTokenLength(b1) = GetTokenLength(New.pdu) /\ Len(b1) > 1
  BY <1>1, <1>3 DEF SameToken
<1>5. PICK b2 : b2 = SetCode(b1, Put) /\ SameToken(b1, b2)
  BY <1>2, <1>4, CodeSet
<1>6. b2 \in Seq(Byte) /\ Len(b2) = 4 /\ GetTokenLength(b2) = GetTokenLength(New.pdu) /\ Len(b2) >= 4
  BY <1>4, <1>5 DEF SameToken
<1>7. PICK b3 : b3 = SetMessageID(b2, id) /\ SameToken(b2, b3) /\ GetMessageID(b3) = id
  BY <1>6, MessageIDSet
<1>8. b3 \in Seq(Byte) /\ Len(b3) = Len(New.pdu) /\ GetTokenLength(b3) = GetTokenLength(New.pdu)
  BY <1>1, <1>6, <1>7 DEF SameToken
<1>9. PICK o : o = WithBytes(New, b3) /\ o \in Fields /\ Room(o) /\ o.pdu = b3
  BY <1>1, <1>8, SameRoom
<1>10. Request(id) = o
  BY <1>3, <1>5, <1>7, <1>9 DEF Request, WithBytes
<1>11. QED
  BY <1>7, <1>9, <1>10

LEMMA PayloadTyped ==
    ASSUME NEW data \in Seq(Byte), NEW n \in 0..(CounterModulus - 1)
    PROVE  Payload(data, n) \in Seq(Byte)
<1>1. \A k \in Nat : Digit(k % 10) \in Byte
  BY DEF Digit, Byte
<1>2. n \in Nat /\ n \div 100 \in Nat /\ n \div 10 \in Nat
  BY DEF CounterModulus
<1>3. /\ <<Digit((n \div 100) % 10)>> \in Seq(Byte) /\ <<Digit((n \div 10) % 10)>> \in Seq(Byte)
      /\ <<Digit(n % 10)>> \in Seq(Byte) /\ <<>> \in Seq(Byte)
  BY <1>1, <1>2
<1>4. Decimal(n) \in Seq(Byte)
  BY <1>3, ConcatProperties DEF Decimal
<1>5. <<Comma>> \in Seq(Byte)
  BY DEF Comma, Byte
<1>6. data \o <<Comma>> \in Seq(Byte)
  BY <1>5, ConcatProperties
<1>7. QED
  BY <1>4, <1>6, ConcatProperties DEF Payload

\* The 32 bytes given to the radio.
LEMMA FrameMade ==
    ASSUME NEW b \in Seq(Byte), Len(b) >= 4
    PROVE  /\ Frame(b) \in Frames /\ Frame(b) \in Seq(Byte) /\ Frame(b) # <<>>
           /\ GetMessageID(Frame(b)) = GetMessageID(b)
<1>1. FrameSize \in Nat /\ FrameSize >= 4 /\ FrameSize # 0
  BY DEF FrameSize
<1>2. PICK f \in Seq(Byte) : f = Frame(b) /\ Len(f) = FrameSize /\ SameHeader(b, f)
  BY <1>1, ResizedHeader DEF Frame
<1>3. Len(f) >= 4 /\ Len(f) # 0
  BY <1>1, <1>2
<1>4. GetMessageID(f) = GetMessageID(b)
  BY <1>2, <1>3, SameID
<1>5. f \in [1..Len(f) -> Byte] /\ f # <<>>
  BY <1>2, <1>3, LenProperties
<1>6. QED
  BY <1>2, <1>4, <1>5 DEF Frames

\* What the gateway takes for the ID of a frame is its ID.
LEMMA UnderstoodID ==
    ASSUME NEW m, NEW frame \in Seq(Byte), NEW d, d = Validate([New EXCEPT !.pdu = frame]),
           Understood(m, d).accepted
    PROVE  Understood(m, d).message = m /\ Understood(m, d).id = GetMessageID(frame)
<1>1. PICK c : c = [New EXCEPT !.pdu = frame]
  OBVIOUS
<1>2. New \in Fields /\ New.payloadPointer = NULL
  BY NewRoom DEF New, Blank
<1>3. c \in Fields /\ c.payloadPointer = NULL /\ c.pdu = frame
  BY <1>1, <1>2 DEF Fields
<1>4. c.payloadPointer \in Pointers
  BY <1>3 DEF Pointers
<1>5. Validated(c, d)
  BY <1>1, <1>3, <1>4, ValidateValidates
<1>6. d.object.pdu = frame
  BY <1>3, <1>5 DEF Validated
<1>7. d.result # 0
  BY DEF Understood, Nothing
<1>8. Understood(m, d).message = m /\ Understood(m, d).id = GetMessageID(d.object.pdu)
  BY <1>7 DEF Understood
<1>9. QED
  BY <1>6, <1>8
\* What a step makes of the messages: their number, and their frames.
LEMMA LettersWiden ==
    ASSUME NEW S, NEW T, S \subseteq T
    PROVE  Seq(Letters(S)) \subseteq Seq(Letters(T))
<1>1. Letters(S) \subseteq Letters(T)
  BY DEF Letters
<1>2. QED
  BY <1>1, SeqMonotonic

LEMMA LetterIs ==
    ASSUME NEW S, NEW s \in Seq(Letters(S)), NEW i \in 1..Len(s)
    PROVE  /\ s[i] \in Letters(S)
           /\ s[i].uri \in Values /\ s[i].data \in Seq(Byte) /\ s[i].counter \in 0..(CounterModulus - 1)
           /\ s[i].boot \in Nat /\ s[i].limit \in Nat
           /\ s[i].frame \in {<<>>} \cup Frames /\ s[i].frame \in Seq(Byte)
<1>1. s[i] \in Letters(S)
  BY ElementOfSeq
<1>2. \A f \in Frames : f \in Seq(Byte)
  <2>1. FrameSize \in Nat
    BY DEF FrameSize
  <2>2. QED
    BY <2>1 DEF Frames
<1>3. <<>> \in Seq(Byte)
  OBVIOUS
<1>4. QED
  BY <1>1, <1>2, <1>3 DEF Letters

LEMMA LetterAppended ==
    ASSUME NEW S, NEW s \in Seq(Letters(S)), NEW T, NEW e \in Letters(T)
    PROVE  /\ \E U : Append(s, e) \in Seq(Letters(U))
           /\ Len(Append(s, e)) = Len(s) + 1 /\ Len(s) \in Nat
           /\ \A i \in 1..Len(s) : Append(s, e)[i] = s[i]
           /\ Append(s, e)[Len(s) + 1] = e
<1>1. s \in Seq(Letters(S \cup T))
  BY LettersWiden
<1>2. e \in Letters(S \cup T)
  BY DEF Letters
<1>3. QED
  BY <1>1, <1>2, AppendProperties, LenProperties

LEMMA LetterEdited ==
    ASSUME NEW S, NEW s \in Seq(Letters(S)), NEW k \in 1..Len(s), NEW e \in Letters(S)
    PROVE  /\ [s EXCEPT ![k] = e] \in Seq(Letters(S))
           /\ Len([s EXCEPT ![k] = e]) = Len(s)
           /\ \A i \in 1..Len(s) : [s EXCEPT ![k] = e][i] = IF i = k THEN e ELSE s[i]
  BY ExceptSeq, LenProperties

\* Of the message that a step begins.
Begins ==
    /\ \E S : messages' \in Seq(Letters(S))
    /\ Latest' = Latest + 1
    /\ \A i \in 1..Latest : messages'[i] = messages[i]
    /\ messages'[Latest + 1].boot = boot.number /\ messages'[Latest + 1].frame = <<>>

LEMMA MessageBegins ==
    ASSUME LettersTyped, boot \in Boots, BeginMessage
    PROVE  Begins
<1>1. PICK m \in Measurements :
         messages' = Append(messages,
              [uri |-> m.uri, path |-> Segments(m.uri), data |-> m.data, counter |-> Counter(nextMessageID'),
               boot |-> boot.number, limit |-> 0, frame |-> <<>>])
  BY Zenon DEF BeginMessage
<1>2. PICK e : e = [uri |-> m.uri, path |-> Segments(m.uri), data |-> m.data, counter |-> Counter(nextMessageID'),
                    boot |-> boot.number, limit |-> 0, frame |-> <<>>]
  OBVIOUS
<1>3. nextMessageID' = nextMessageID + 1 /\ nextMessageID \in Nat
  BY DEF BeginMessage, LettersTyped
<1>4. Counter(nextMessageID') \in 0..(CounterModulus - 1)
  BY <1>3 DEF Counter, CounterModulus
<1>5. m.uri \in Values /\ m.data \in Seq(Byte)
  BY SendCoapAssumption DEF Values
<1>6. boot.number \in Nat
  BY DEF Boots
<1>7. e \in Letters({Segments(m.uri)})
  BY <1>2, <1>4, <1>5, <1>6 DEF Letters
<1>8. e.boot = boot.number /\ e.frame = <<>>
  BY <1>2
<1>9. PICK S : messages \in Seq(Letters(S))
  BY DEF LettersTyped
<1>10. messages' = Append(messages, e)
  BY <1>1, <1>2
<1>11. QED
  BY <1>7, <1>8, <1>9, <1>10, LetterAppended DEF Begins, Latest

\* Of a call of setURI or setPayload: the last message has a frame f now.
Refits(f) ==
    /\ \E S : messages' \in Seq(Letters(S))
    /\ Latest' = Latest
    /\ \A i \in 1..Latest : i # Latest => messages'[i] = messages[i]
    /\ messages'[Latest].boot = messages[Latest].boot /\ messages'[Latest].frame = f

LEMMA LastEdited ==
    ASSUME LettersTyped, Latest > 0, NEW limit \in Nat, NEW f \in {<<>>} \cup Frames,
           messages' = [messages EXCEPT ![Latest] = [@ EXCEPT !.limit = limit, !.frame = f]]
    PROVE  Refits(f)
<1>1. PICK S : messages \in Seq(Letters(S))
  BY DEF LettersTyped
<1>2. Latest \in 1..Len(messages) /\ Latest = Len(messages)
  BY <1>1, LenProperties DEF Latest
<1>3. PICK e : e = [messages[Latest] EXCEPT !.limit = limit, !.frame = f]
  OBVIOUS
<1>4. messages[Latest] \in Letters(S)
  BY <1>1, <1>2, LetterIs
<1>5. e \in Letters(S) /\ e.boot = messages[Latest].boot /\ e.frame = f
  BY <1>3, <1>4 DEF Letters
<1>6. messages' = [messages EXCEPT ![Latest] = e]
  BY <1>3
<1>7. QED
  BY <1>1, <1>2, <1>5, <1>6, LetterEdited DEF Refits, Latest
\* The object in the calls of sendCoapMessage.
LEMMA MemoryTyped ==
    ASSUME NEW limit \in HeapLimits
    PROVE  Heap(limit) \in Memories /\ limit \in Nat
<1>1. limit \in Nat
  BY SendCoapAssumption
<1>2. QED
  BY <1>1 DEF Heap, Memories

LEMMA ObjectIs ==
    ASSUME NEW c \in Fields, Room(c)
    PROVE  c.pdu \in Seq(Byte) /\ Len(c.pdu) >= 4
  BY FieldsTyped DEF Room

LEMMA URICalled ==
    ASSUME InOrder, LettersInv, CallSetURI
    PROVE  /\ Refits(<<>>)
           /\ coapPDU' \in Fields /\ Room(coapPDU')
           /\ GetMessageID(coapPDU'.pdu) = GetMessageID(coapPDU.pdu)
<1>1. PICK limit \in HeapLimits :
         /\ coapPDU' = SetURI(coapPDU, messages[Latest].uri, Heap(limit)).object
         /\ messages' = [messages EXCEPT ![Latest].limit = limit]
  BY Zenon DEF CallSetURI
<1>2. /\ coapPDU \in Fields /\ Room(coapPDU) /\ ~Framed(Latest)
      /\ LettersTyped /\ Latest > 0
  BY DEF CallSetURI, LettersInv, Building, InOrder
<1>3. PICK S : messages \in Seq(Letters(S))
  BY <1>2 DEF LettersTyped
<1>4. Latest \in 1..Len(messages)
  BY <1>2, <1>3, LenProperties DEF Latest
<1>5. messages[Latest] \in Letters(S) /\ messages[Latest].uri \in Values
  BY <1>3, <1>4, LetterIs
<1>6. Heap(limit) \in Memories /\ limit \in Nat
  BY MemoryTyped
<1>7. PICK d : /\ d = SetURI(coapPDU, messages[Latest].uri, Heap(limit))
               /\ Extends(coapPDU, d, Heap(limit))
  BY <1>2, <1>5, <1>6, ObjectIs, URISet
<1>8. Keeps(coapPDU, d, Heap(limit))
  BY <1>2, <1>6, <1>7, ExtendsKeeps
<1>9. d.object \in Fields /\ Room(d.object) /\ SameHeader(coapPDU.pdu, d.object.pdu)
  BY <1>7, <1>8 DEF Keeps, Results, Extends
<1>10. GetMessageID(d.object.pdu) = GetMessageID(coapPDU.pdu)
  BY <1>2, <1>9, ObjectIs, SameID
<1>11. messages[Latest].frame = <<>>
  BY <1>2 DEF Framed
<1>12. [messages[Latest] EXCEPT !.limit = limit] = [messages[Latest] EXCEPT !.limit = limit, !.frame = <<>>]
  BY <1>5, <1>11 DEF Letters
<1>13. messages' = [messages EXCEPT ![Latest] = [@ EXCEPT !.limit = limit, !.frame = <<>>]]
  BY <1>1, <1>12
<1>14. Refits(<<>>)
  BY <1>2, <1>6, <1>13, LastEdited
<1>15. QED
  BY <1>1, <1>7, <1>9, <1>10, <1>14

LEMMA PayloadCalled ==
    ASSUME InOrder, LettersInv, CallSetPayload
    PROVE  \E f \in Frames : Refits(f) /\ f # <<>> /\ GetMessageID(f) = GetMessageID(coapPDU.pdu)
<1>1. PICK limit \in HeapLimits :
         /\ coapPDU' = SetPayload(coapPDU, Payload(messages[Latest].data, messages[Latest].counter),
                                  Heap(limit)).object
         /\ messages' = [messages EXCEPT ![Latest].limit = Least(@, limit),
                                         ![Latest].frame = Frame(coapPDU'.pdu)]
  BY Zenon DEF CallSetPayload
<1>2. coapPDU \in Fields /\ Room(coapPDU) /\ LettersTyped /\ Latest > 0
  BY DEF CallSetPayload, LettersInv, Building, InOrder
<1>3. PICK S : messages \in Seq(Letters(S))
  BY <1>2 DEF LettersTyped
<1>4. Latest \in 1..Len(messages)
  BY <1>2, <1>3, LenProperties DEF Latest
<1>5. /\ messages[Latest] \in Letters(S) /\ messages[Latest].limit \in Nat
      /\ messages[Latest].data \in Seq(Byte) /\ messages[Latest].counter \in 0..(CounterModulus - 1)
  BY <1>3, <1>4, LetterIs
<1>6. Heap(limit) \in Memories /\ limit \in Nat
  BY MemoryTyped
<1>7. PICK s \in Seq(Byte) : s = Payload(messages[Latest].data, messages[Latest].counter)
  BY <1>5, PayloadTyped
<1>8. PICK d : /\ d = SetPayload(coapPDU, s, Heap(limit))
               /\ Keeps(coapPDU, d, Heap(limit)) /\ SameHeader(coapPDU.pdu, d.object.pdu)
  BY <1>2, <1>6, PayloadSet
<1>9. d.object \in Fields /\ Room(d.object)
  BY <1>8 DEF Keeps, Results
<1>10. /\ coapPDU.pdu \in Seq(Byte) /\ Len(coapPDU.pdu) >= 4
       /\ d.object.pdu \in Seq(Byte) /\ Len(d.object.pdu) >= 4
  BY <1>2, <1>9, ObjectIs
<1>11. GetMessageID(d.object.pdu) = GetMessageID(coapPDU.pdu)
  BY <1>8, <1>10, SameID
<1>12. PICK f \in Frames : /\ f = Frame(d.object.pdu) /\ f # <<>>
                           /\ GetMessageID(f) = GetMessageID(d.object.pdu)
  BY <1>10, FrameMade
<1>13. coapPDU' = d.object
  BY <1>1, <1>7, <1>8
<1>14. PICK l \in Nat : l = Least(messages[Latest].limit, limit)
  BY <1>5, <1>6 DEF Least
<1>15. messages' = [messages EXCEPT ![Latest] = [@ EXCEPT !.limit = l, !.frame = f]]
  BY <1>1, <1>12, <1>13, <1>14
<1>16. Refits(f)
  BY <1>2, <1>15, LastEdited
<1>17. QED
  BY <1>11, <1>12, <1>16
\* No step changes a frame there is.
KeepsFrames ==
    \A i \in 1..Latest :
        /\ messages'[i].boot = messages[i].boot
        /\ Framed(i) => messages'[i].frame = messages[i].frame

LEMMA OtherSteps ==
    ASSUME [Next]_vars, ~BeginMessage, ~CallSetURI, ~CallSetPayload
    PROVE  /\ messages' = messages
           /\ Reset \/ UNCHANGED <<boot, nextMessageID, coapPDU>>
           /\ pc' \notin {"uri", "payload"} \/ pc' = pc
  BY DEF Next, Send, Air, Write, NextTry, EndMessage, Setup, Arrive, LoseInAir, LoseWaiting,
         GatewayReads, vars, node, history, Reset

LEMMA MessagesKept ==
    ASSUME IInv, LettersInv, [Next]_vars
    PROVE  LettersTyped' /\ KeepsFrames
<1>1. LettersTyped /\ Building /\ InOrder /\ boot \in Boots
  BY DEF LettersInv, IInv, StatusInv, Typed
<1>2. PICK n \in Nat, x \in Nat : n = Latest /\ n <= MaxMessages /\ x = nextMessageID
  BY <1>1, Lengths DEF LettersTyped
<1>3. CASE BeginMessage
  <2>1. Begins
    BY <1>1, <1>3, MessageBegins
  <2>2. Latest < MaxMessages /\ nextMessageID' = nextMessageID + 1
    BY <1>3 DEF BeginMessage, Latest
  <2>3. Latest + 1 <= MaxMessages /\ nextMessageID + 1 \in Nat
    BY <1>2, <2>2, SendCoapAssumption
  <2>4. QED
    BY <2>1, <2>2, <2>3 DEF Begins, LettersTyped, KeepsFrames
<1>4. ASSUME NEW f, Refits(f), ~Framed(Latest), nextMessageID' = nextMessageID
      PROVE  LettersTyped' /\ KeepsFrames
  BY <1>1, <1>4 DEF Refits, LettersTyped, KeepsFrames
<1>5. CASE CallSetURI \/ CallSetPayload
  <2>1. ~Framed(Latest) /\ nextMessageID' = nextMessageID
    BY <1>1, <1>5 DEF Building, CallSetURI, CallSetPayload
  <2>2. PICK f : Refits(f)
    BY <1>1, <1>5, URICalled, PayloadCalled
  <2>3. QED
    BY <1>4, <2>1, <2>2
<1>6. CASE ~BeginMessage /\ ~CallSetURI /\ ~CallSetPayload
  <2>1. messages' = messages /\ Latest' = Latest
    BY <1>6, OtherSteps DEF Latest
  <2>2. nextMessageID' \in Nat
    BY <1>1, <1>6, OtherSteps DEF LettersTyped, Reset
  <2>3. QED
    BY <1>1, <2>1, <2>2 DEF LettersTyped, KeepsFrames
<1>7. QED
  BY <1>3, <1>5, <1>6

LEMMA BuildingStep ==
    ASSUME IInv, LettersInv, [Next]_vars
    PROVE  Building'
<1>1. LettersTyped /\ Building /\ InOrder /\ boot \in Boots /\ nextMessageID \in Nat
  BY DEF LettersInv, LettersTyped, IInv, StatusInv, Typed
<1>2. CASE BeginMessage
  <2>1. Begins
    BY <1>1, <1>2, MessageBegins
  <2>2. /\ coapPDU' = Request(MessageID(nextMessageID)) /\ nextMessageID' = nextMessageID + 1
        /\ boot' = boot
    BY <1>2 DEF BeginMessage
  <2>3. PICK id \in Word : id = MessageID(nextMessageID) /\ id = U16(nextMessageID)
    BY <1>1, U16IsWord DEF MessageID
  <2>4. /\ coapPDU' \in Fields /\ Room(coapPDU') /\ GetMessageID(coapPDU'.pdu) = U16(nextMessageID)
    BY <2>2, <2>3, RequestMade
  <2>5. nextMessageID' - 1 = nextMessageID
    BY <1>1, <2>2
  <2>6. QED
    BY <2>1, <2>2, <2>4, <2>5 DEF Building, Begins, Framed
<1>3. CASE CallSetURI
  <2>1. /\ Refits(<<>>) /\ coapPDU' \in Fields /\ Room(coapPDU')
        /\ GetMessageID(coapPDU'.pdu) = GetMessageID(coapPDU.pdu)
    BY <1>1, <1>3, URICalled
  <2>2. UNCHANGED <<boot, nextMessageID>> /\ pc = "uri"
    BY <1>3 DEF CallSetURI
  <2>3. QED
    BY <1>1, <2>1, <2>2 DEF Building, Refits, Framed
<1>4. CASE CallSetPayload
  BY <1>4 DEF CallSetPayload, Building
<1>5. CASE ~BeginMessage /\ ~CallSetURI /\ ~CallSetPayload
  <2>1. messages' = messages /\ Latest' = Latest
    BY <1>5, OtherSteps DEF Latest
  <2>2. CASE Reset
    BY <2>2 DEF Reset, Building
  <2>3. CASE ~Reset
    BY <1>1, <1>5, <2>1, <2>3, OtherSteps DEF Building, Framed
  <2>4. QED
    BY <2>2, <2>3
<1>6. QED
  BY <1>2, <1>3, <1>4, <1>5

LEMMA NumberedStep ==
    ASSUME IInv, LettersInv, [Next]_vars
    PROVE  Numbered'
<1>1. LettersTyped /\ Building /\ Numbered /\ InOrder /\ boot \in Boots
  BY DEF LettersInv, IInv, StatusInv, Typed
<1>2. PICK n \in Nat, x \in Nat, b \in Nat : n = Latest /\ x = nextMessageID /\ b = boot.number
  BY <1>1, Lengths DEF LettersTyped, Boots
<1>3. \A i \in 1..n : /\ messages[i].boot <= b
                      /\ Framed(i) /\ messages[i].boot = b => IDOf(i) = U16(x - 1 - (n - i))
  BY <1>1, <1>2 DEF Numbered
<1>4. \A i \in 1..n : messages[i].boot \in Nat
  BY <1>1, <1>2, LetterIs DEF LettersTyped, Latest
<1>5. CASE BeginMessage
  <2>1. Begins
    BY <1>1, <1>5, MessageBegins
  <2>2. nextMessageID' = x + 1 /\ boot'.number = b /\ Latest' = n + 1
    BY <1>2, <1>5, <2>1 DEF BeginMessage, Begins
  <2>3. ASSUME NEW i \in 1..(n + 1)
        PROVE  /\ messages'[i].boot <= b
               /\ messages'[i].frame # <<>> /\ messages'[i].boot = b =>
                     GetMessageID(messages'[i].frame) = U16((x + 1) - 1 - ((n + 1) - i))
    <3>1. CASE i = n + 1
      BY <1>2, <2>1, <3>1 DEF Begins
    <3>2. CASE i # n + 1
      <4>1. i \in 1..n /\ messages'[i] = messages[i]
        BY <1>2, <2>1, <3>2 DEF Begins
      <4>2. (x + 1) - 1 - ((n + 1) - i) = x - 1 - (n - i)
        BY <1>2
      <4>3. QED
        BY <1>3, <4>1, <4>2 DEF Framed, IDOf
    <3>3. QED
      BY <3>1, <3>2
  <2>4. QED
    BY <2>2, <2>3 DEF Numbered, Framed, IDOf
<1>6. CASE CallSetURI
  <2>1. Refits(<<>>) /\ ~Framed(Latest)
    BY <1>1, <1>6, URICalled DEF Building, CallSetURI
  <2>2. UNCHANGED <<boot, nextMessageID>>
    BY <1>6 DEF CallSetURI
  <2>3. Latest' = Latest /\ \A i \in 1..Latest : /\ messages'[i].boot = messages[i].boot
                                                 /\ messages'[i].frame = messages[i].frame
    BY <2>1 DEF Refits, Framed
  <2>4. QED
    BY <1>1, <2>2, <2>3 DEF Numbered, Framed, IDOf
<1>7. CASE CallSetPayload
  <2>1. PICK f : Refits(f) /\ GetMessageID(f) = GetMessageID(coapPDU.pdu)
    BY <1>1, <1>7, PayloadCalled DEF LettersInv
  <2>2. GetMessageID(f) = U16(x - 1) /\ messages[Latest].boot = b
    BY <1>1, <1>2, <1>7, <2>1 DEF Building, CallSetPayload
  <2>3. nextMessageID' = x /\ boot'.number = b /\ Latest' = n
    BY <1>2, <1>7, <2>1 DEF CallSetPayload, Refits
  <2>4. ASSUME NEW i \in 1..n
        PROVE  /\ messages'[i].boot <= b
               /\ messages'[i].frame # <<>> /\ messages'[i].boot = b =>
                     GetMessageID(messages'[i].frame) = U16(x - 1 - (n - i))
    <3>1. CASE i = n
      <4>1. x - 1 - (n - i) = x - 1
        BY <1>2, <3>1
      <4>2. messages'[i].boot = b /\ messages'[i].frame = f
        BY <1>2, <2>1, <2>2, <3>1 DEF Refits
      <4>3. QED
        BY <1>2, <2>2, <4>1, <4>2
    <3>2. CASE i # n
      <4>1. messages'[i] = messages[i]
        BY <1>2, <2>1, <3>2 DEF Refits
      <4>2. QED
        BY <1>3, <4>1 DEF Framed, IDOf
    <3>3. QED
      BY <3>1, <3>2
  <2>5. QED
    BY <2>3, <2>4 DEF Numbered, Framed, IDOf
<1>8. CASE ~BeginMessage /\ ~CallSetURI /\ ~CallSetPayload
  <2>1. messages' = messages /\ Latest' = Latest
    BY <1>8, OtherSteps DEF Latest
  <2>2. CASE Reset
    <3>1. boot'.number = b + 1
      BY <1>2, <2>2 DEF Reset
    <3>2. \A i \in 1..n : messages[i].boot <= b + 1 /\ messages[i].boot # b + 1
      BY <1>3, <1>4
    <3>3. QED
      BY <1>2, <2>1, <3>1, <3>2 DEF Numbered
  <2>3. CASE ~Reset
    BY <1>1, <1>8, <2>1, <2>3, OtherSteps DEF Numbered, Framed, IDOf
  <2>4. QED
    BY <2>2, <2>3
<1>9. QED
  BY <1>5, <1>6, <1>7, <1>8
LEMMA OnwardStep ==
    ASSUME IInv, IInv', LettersInv, LettersTyped', KeepsFrames, [Next]_vars
    PROVE  Onward'
<1>1. LettersTyped /\ Building /\ Onward /\ InOrder /\ InOrder' /\ boot \in Boots
  BY DEF LettersInv, IInv, StatusInv, Typed
<1>2. PICK n \in Nat, a \in Nat, l \in Nat : n = Latest /\ a = arrived /\ l = Latest' /\ n <= l
  BY <1>1, Lengths, MessagesStep
<1>3. \A i \in 1..n : Framed(i) => i \in 1..l /\ Framed(i)' /\ IDOf(i)' = IDOf(i)
  BY <1>2 DEF KeepsFrames, Framed, IDOf
<1>4. pc' = "sending" \/ fate' # "none" => Latest' > 0 /\ Framed(Latest)'
  <2>1. CASE BeginMessage
    BY <2>1 DEF BeginMessage, IInv, StatusInv, Counting, sender
  <2>2. CASE CallSetURI
    BY <2>2 DEF CallSetURI, IInv, StatusInv, Counting, sender
  <2>3. CASE CallSetPayload
    <3>1. Latest > 0 /\ Latest' = Latest /\ \E f : messages'[Latest].frame = f /\ f # <<>>
      BY <1>1, <2>3, PayloadCalled DEF Refits, InOrder, CallSetPayload
    <3>2. QED
      BY <3>1 DEF Framed
  <2>4. CASE ~BeginMessage /\ ~CallSetURI /\ ~CallSetPayload
    <3>1. messages' = messages /\ Latest' = Latest
      BY <2>4, OtherSteps DEF Latest
    <3>2. pc' = "sending" \/ fate' # "none" => pc = "sending" \/ fate # "none"
      BY <2>4 DEF Next, Send, Air, Write, NextTry, EndMessage, Setup, Arrive, LoseInAir, LoseWaiting,
                  GatewayReads, Reset, vars, node, sender, NodeRadio!Write, NodeRadio!Return,
                  NodeRadio!Forget, NodeRadio!Transmit, NodeRadio!GiveUp, NodeRadio!Reset
    <3>3. QED
      BY <1>1, <3>1, <3>2 DEF Onward, Framed
  <2>5. QED
    BY <2>1, <2>2, <2>3, <2>4
<1>5. \A p \in 1..arrived' : source'[p] \in 1..Latest' /\ Framed(source[p])'
  <2>1. \A p \in 1..a : source[p] \in 1..n /\ Framed(source[p])
    BY <1>1, <1>2 DEF Onward
  <2>2. CASE Arrive
    <3>1. arrived' = a + 1 /\ source' = Append(source, Latest) /\ fate # "none"
      BY <1>2, <2>2 DEF Arrive, GatewayRadio!Receive, NodeRadio!Transmit
    <3>2. n \in 1..n /\ Framed(n)
      BY <1>1, <1>2, <3>1 DEF Onward
    <3>3. /\ \A p \in 1..a : source'[p] = source[p]
          /\ source'[a + 1] = n
      BY <1>1, <1>2, <3>1, AppendProperties DEF InOrder
    <3>4. ASSUME NEW p \in 1..(a + 1)
          PROVE  source'[p] \in 1..n /\ Framed(source'[p])
      <4>1. p \in 1..a \/ p = a + 1
        BY <1>2
      <4>2. QED
        BY <2>1, <3>2, <3>3, <4>1
    <3>5. QED
      BY <1>2, <1>3, <3>1, <3>4 DEF Framed
  <2>3. CASE ~Arrive
    <3>1. UNCHANGED <<arrived, source>>
      BY <1>1, <2>3, GatewayStep DEF LoseWaiting, GatewayReads, GatewayRadio!Lose, GatewayRadio!Read, history
    <3>2. QED
      BY <1>2, <1>3, <2>1, <3>1 DEF Framed
  <2>4. QED
    BY <2>2, <2>3
<1>6. heard'.accepted => /\ heard'.message \in 1..Latest' /\ Framed(heard.message)'
                         /\ heard'.id = IDOf(heard.message)'
  <2>1. CASE GatewayReads
    <3>1. PICK m, d : /\ m = source[Head(inbox)] /\ heard' = Understood(m, d)
                      /\ d = Validate([New EXCEPT !.pdu = messages[m].frame])
      BY <2>1, Zenon DEF GatewayReads
    <3>2. inbox # <<>>
      BY <2>1 DEF GatewayReads, GatewayRadio!Read
    <3>3. Head(inbox) = inbox[1] /\ 1 \in 1..Len(inbox)
      BY <1>1, <3>2, EmptySeq DEF InOrder
    <3>4. Head(inbox) \in 1..arrived
      BY <1>1, <3>3, Lengths
    <3>5. m \in 1..n /\ Framed(m)
      BY <1>1, <1>2, <3>1, <3>4 DEF Onward
    <3>6. PICK f \in Seq(Byte) : f = messages[m].frame
      BY <1>1, <1>2, <3>5, LetterIs DEF LettersTyped, Latest
    <3>7. heard'.accepted => heard'.message = m /\ heard'.id = IDOf(m)
      <4> SUFFICES ASSUME heard'.accepted
                   PROVE  heard'.message = m /\ heard'.id = IDOf(m)
        OBVIOUS
      <4>1. d = Validate([New EXCEPT !.pdu = f])
        BY <3>1, <3>6
      <4>2. Understood(m, d).accepted
        BY <3>1
      <4>3. Understood(m, d).message = m /\ Understood(m, d).id = GetMessageID(f)
        BY <4>1, <4>2, UnderstoodID
      <4>4. QED
        BY <3>1, <3>6, <4>3 DEF IDOf
    <3>8. m \in 1..l /\ messages'[m].frame # <<>> /\ GetMessageID(messages'[m].frame) = IDOf(m)
      BY <1>3, <3>5 DEF Framed, IDOf
    <3>9. QED
      BY <1>2, <3>7, <3>8 DEF Framed, IDOf
  <2>2. CASE ~GatewayReads
    <3>1. heard' = heard
      BY <2>2 DEF Next, Send, Air, BeginMessage, CallSetURI, CallSetPayload, Write, NextTry, EndMessage,
                  Setup, Reset, Arrive, LoseInAir, LoseWaiting, vars, gateway
    <3>2. heard.accepted => heard.message \in 1..n /\ Framed(heard.message) /\ heard.id = IDOf(heard.message)
      BY <1>1, <1>2 DEF Onward
    <3>3. QED
      BY <1>2, <1>3, <3>1, <3>2 DEF Framed, IDOf
  <2>3. QED
    BY <2>1, <2>2
<1>7. QED
  BY <1>4, <1>5, <1>6 DEF Onward

\* No two messages of one boot that have frames have the same ID.
Distinct ==
    \A i, j \in 1..Latest :
        Framed(i) /\ Framed(j) /\ messages[i].boot = messages[j].boot /\ IDOf(i) = IDOf(j) => i = j

\* 16 bits hold as many IDs as there may be messages between two.
LEMMA IDsApart ==
    \A x, d \in Nat : d < 65536 /\ d # 0 => U16(x - 1 - d) # U16(x - 1)
  BY DEF U16

LEMMA DistinctStep ==
    ASSUME MaxMessages <= 65536, IInv, LettersInv, Distinct, KeepsFrames, [Next]_vars
    PROVE  Distinct'
<1>1. LettersTyped /\ Building /\ Numbered /\ InOrder
  BY DEF LettersInv, IInv
<1>2. PICK n \in Nat, x \in Nat : n = Latest /\ x = nextMessageID /\ n <= 65536
  BY <1>1, Lengths, SendCoapAssumption DEF LettersTyped
<1>3. ASSUME NEW i \in 1..Latest, NEW j \in 1..Latest, Framed(i), Framed(j),
             messages'[i].boot = messages'[j].boot, IDOf(i)' = IDOf(j)'
      PROVE  i = j
  BY <1>3 DEF Distinct, KeepsFrames, IDOf
<1>4. ASSUME Latest' = Latest, \A i \in 1..Latest : Framed(i)' => Framed(i)
      PROVE  Distinct'
  BY <1>3, <1>4 DEF Distinct
<1>5. CASE BeginMessage
  <2>1. Begins
    BY <1>1, <1>5, MessageBegins DEF IInv, StatusInv, Typed
  <2>2. Latest' = n + 1 /\ ~Framed(n + 1)'
    BY <1>2, <2>1 DEF Begins, Framed
  <2>3. \A i \in 1..(n + 1) : i = n + 1 \/ (i \in 1..n /\ messages'[i] = messages[i])
    BY <1>2, <2>1 DEF Begins
  <2>4. ASSUME NEW i \in 1..(n + 1), NEW j \in 1..(n + 1), Framed(i)', Framed(j)',
               messages'[i].boot = messages'[j].boot, IDOf(i)' = IDOf(j)'
        PROVE  i = j
    <3>1. i \in 1..n /\ j \in 1..n /\ messages'[i] = messages[i] /\ messages'[j] = messages[j]
      BY <2>2, <2>3, <2>4
    <3>2. QED
      BY <1>2, <1>3, <2>4, <3>1 DEF Framed
  <2>5. QED
    BY <2>2, <2>4 DEF Distinct
<1>6. CASE CallSetURI
  <2>1. Refits(<<>>)
    BY <1>1, <1>6, URICalled
  <2>2. QED
    BY <1>4, <2>1 DEF Refits, Framed
<1>7. CASE CallSetPayload
  <2>1. PICK f : Refits(f) /\ f # <<>> /\ GetMessageID(f) = GetMessageID(coapPDU.pdu)
    BY <1>1, <1>7, PayloadCalled
  <2>2. n > 0 /\ GetMessageID(f) = U16(x - 1) /\ messages[n].boot = boot.number
    BY <1>1, <1>2, <1>7, <2>1 DEF Building, CallSetPayload, InOrder
  <2>3. /\ messages'[n].frame = f /\ messages'[n].boot = boot.number /\ Latest' = n
        /\ \A i \in 1..n : i # n => messages'[i] = messages[i]
    BY <1>2, <2>1, <2>2 DEF Refits
  <2>4. ASSUME NEW j \in 1..n, j # n, Framed(j), messages[j].boot = boot.number
        PROVE  IDOf(j) # GetMessageID(f)
    <3>1. IDOf(j) = U16(x - 1 - (n - j))
      BY <1>1, <1>2, <2>4 DEF Numbered
    <3>2. PICK d \in Nat : d = n - j /\ d < 65536 /\ d # 0
      BY <1>2, <2>4
    <3>3. U16(x - 1 - d) # U16(x - 1)
      <4>1. x \in Nat /\ d \in Nat /\ d < 65536 /\ d # 0
        BY <1>2, <3>2
      <4>2. QED
        BY <4>1, IDsApart
    <3>4. QED
      BY <2>2, <3>1, <3>2, <3>3
  <2>5. ASSUME NEW i \in 1..n, NEW j \in 1..n, Framed(i)', Framed(j)',
               messages'[i].boot = messages'[j].boot, IDOf(i)' = IDOf(j)'
        PROVE  i = j
    <3>1. CASE i # n /\ j # n
      <4>1. messages'[i] = messages[i] /\ messages'[j] = messages[j]
        BY <2>3, <3>1
      <4>2. QED
        BY <1>2, <1>3, <2>5, <4>1 DEF Framed
    <3>2. CASE i = n /\ j # n
      BY <2>3, <2>4, <2>5, <3>2 DEF Framed, IDOf
    <3>3. CASE i # n /\ j = n
      BY <2>3, <2>4, <2>5, <3>3 DEF Framed, IDOf
    <3>4. QED
      BY <3>1, <3>2, <3>3
  <2>6. QED
    BY <2>3, <2>5 DEF Distinct
<1>8. CASE ~BeginMessage /\ ~CallSetURI /\ ~CallSetPayload
  <2>1. messages' = messages /\ Latest' = Latest
    BY <1>8, OtherSteps DEF Latest
  <2>2. QED
    BY <1>4, <2>1 DEF Framed
<1>9. QED
  BY <1>5, <1>6, <1>7, <1>8

-----------------------------------------------------------------------------
LEMMA InitLetters ==
    ASSUME Init
    PROVE  LettersInv /\ Distinct /\ Losses
<1>1. messages = <<>> /\ Latest = 0 /\ \A S : messages \in Seq(S)
  BY EmptySeq DEF Init, Latest
<1>2. LettersTyped
  BY <1>1, SendCoapAssumption DEF Init, LettersTyped
<1>3. Onward
  BY DEF Init, Onward, Nothing
<1>4. Building /\ Numbered /\ Distinct
  BY <1>1 DEF Init, Building, Numbered, Distinct
<1>5. Losses
  <2>1. Range(<<>>) = {}
    BY DEF Range
  <2>2. Waiting = {}
    BY <2>1 DEF Init, Waiting
  <2>3. Copies = 0
    BY <2>2, FS_EmptySet DEF Copies
  <2>4. QED
    BY <2>3 DEF Init, Losses, Tries
<1>6. QED
  BY <1>2, <1>3, <1>4, <1>5 DEF LettersInv

LEMMA LettersStep ==
    ASSUME IInv, IInv', LettersInv, [Next]_vars
    PROVE  LettersInv'
<1>1. LettersTyped' /\ KeepsFrames
  BY MessagesKept
<1>2. QED
  BY <1>1, BuildingStep, NumberedStep, OnwardStep DEF LettersInv

\* What sendCoapMessage builds is a message whatever memory it finds: with room
\* for its header, cut or padded to a frame of 32 bytes.
THEOREM LettersCorrect == Spec => []LettersInv
<1>1. Init => LettersInv
  BY InitLetters
<1>2. IInv /\ IInv' /\ LettersInv /\ [Next]_vars => LettersInv'
  BY LettersStep
<1>3. QED
  BY <1>1, <1>2, InductiveInvariant, PTL DEF Spec

\* A copy is lost once, but for one whose write had failed when a reset cut it
\* short; every frame has its 32 bytes, every counter its three digits.
THEOREM TypeCorrect == Spec => []TypeOK
<1>1. Init => Losses
  BY InitLetters
<1>2. IInv /\ IInv' /\ Losses /\ [Next]_vars => Losses'
  BY LossesStep
<1>3. IInv /\ LettersInv /\ Losses => TypeOK
  <2> SUFFICES ASSUME IInv, LettersInv, Losses
               PROVE  TypeOK
    OBVIOUS
  <2>1. PICK S : messages \in Seq(Letters(S))
    BY DEF LettersInv, LettersTyped
  <2>2. DOMAIN messages = 1..Len(messages)
    BY <2>1, LenProperties
  <2>3. \A i \in DOMAIN messages : /\ messages[i].counter \in 0..(CounterModulus - 1)
                                   /\ messages[i].frame \in {<<>>} \cup Frames
    BY <2>1, <2>2, LetterIs
  <2>4. \A k \in 0..(CounterModulus - 1) : k < CounterModulus
    BY DEF CounterModulus
  <2>5. lost \in Nat /\ Copies \in Nat /\ Finished <= Tries /\ Finished \in Nat
    BY CountsTyped DEF IInv, StatusInv, Typed, Counting, Finished, Tries
  <2>6. lost <= Tries + 1
    BY <2>5 DEF Losses, Tries, IInv, StatusInv, Typed
  <2>7. lost \in 0..(Tries + 1)
    BY <2>5, <2>6 DEF Tries
  <2>8. QED
    BY <2>3, <2>4, <2>7
       DEF TypeOK, IInv, StatusInv, Typed, InOrder, LettersInv, LettersTyped, Frames
<1>4. QED
  BY <1>1, <1>2, <1>3, InductiveInvariant, LettersCorrect, PTL DEF Spec

\* A gateway tells the copies of a message, which have one ID, from the other
\* messages of the same boot, which have others, as long as there are no more of
\* them than IDs.
THEOREM CopiesTold ==
    ASSUME MaxMessages <= 65536
    PROVE  Spec => []IDTellsCopies
<1>1. Init => Distinct
  BY InitLetters
<1>2. IInv /\ LettersInv /\ Distinct /\ [Next]_vars => Distinct'
  BY MessagesKept, DistinctStep
<1>3. IInv /\ LettersInv /\ Distinct => IDTellsCopies
  <2> SUFFICES ASSUME IInv, LettersInv, Distinct, heard.accepted, NEW i \in 1..given,
                      messages[source[i]].boot = messages[heard.message].boot
               PROVE  GetMessageID(messages[source[i]].frame) = heard.id <=> source[i] = heard.message
    BY DEF IDTellsCopies, Heard
  <2>1. i \in 1..arrived
    BY Lengths DEF IInv, InOrder
  <2>2. source[i] \in 1..Latest /\ Framed(source[i])
    BY <2>1 DEF LettersInv, Onward
  <2>3. heard.message \in 1..Latest /\ Framed(heard.message) /\ heard.id = IDOf(heard.message)
    BY DEF LettersInv, Onward
  <2>4. QED
    BY <2>2, <2>3 DEF Distinct, IDOf
<1>4. QED
  BY <1>1, <1>2, <1>3, InductiveInvariant, LettersCorrect, PTL DEF Spec
=============================================================================
