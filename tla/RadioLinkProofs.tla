-------------------------- MODULE RadioLinkProofs --------------------------
(***************************************************************************)
(* Safety of RadioLink for every value of its constants.                   *)
(*                                                                         *)
(* The properties speak of the moments between calls or just before a call *)
(* returns.  They are not inductive: IInv says, for every place the driver *)
(* can be in, what the chip is doing meanwhile.  TypeOK and TxInv support  *)
(* each other (the TX FIFO is short because a write begins with it empty), *)
(* and so do TypeOK and RxInv (a read finds a packet at the head).         *)
(***************************************************************************)
EXTENDS RadioLink, TLAPS

Flagless == ~txDS /\ ~maxRT

\* The mode field and CONFIG agree.
ModeAgrees ==
    /\ mode # "UNKNOWN"
    /\ mode = "POWER_DOWN" <=> ~pwrUp
    /\ mode = "RX" => primRx
    /\ mode = "TX" => ~primRx

\* Nothing in the transmitter.
Calm == txFifo = <<>> /\ ~onAir /\ Flagless

\* The payload of the write under way waits in the FIFO, unsent.
Loaded == txFifo = <<writes>> /\ acked # writes

Transmitting == mode = "TX" /\ pwrUp /\ ~primRx /\ ~ce

\* The three things the polling loop can find: on the air, sent, given up.
Pending == Loaded /\ onAir /\ Flagless
Done    == txFifo = <<>> /\ acked = writes /\ ~onAir /\ txDS /\ ~maxRT
Failed  == Loaded /\ ~onAir /\ ~txDS /\ maxRT

\* What holds of the transmitter wherever the driver is.
TxAlways ==
    /\ acked <= writes
    /\ txFifo = <<>> \/ Loaded
    /\ onAir => Loaded /\ pc \in {"wPoll", "bootDisable", "bootConfig"}

\* What holds of it between calls and in the calls that do not transmit.
TxElsewhere ==
    /\ pc \in {"idle", "toRx", "toTx", "rssi"} \cup ReadSteps => Calm /\ ModeAgrees
    /\ pc \in {"toRx", "toTx"} => pwrUp

\* What holds of it at each step of write.
TxWriting ==
    /\ pc \in {"wMode", "wPulse", "wPoll", "wStatus"} => count > 0
    /\ pc = "wMode" => Loaded /\ ~onAir /\ Flagless /\ ~ce /\ ModeAgrees
    /\ pc = "wPulse" => Loaded /\ ~onAir /\ Flagless /\ Transmitting
    /\ pc = "wPoll" => (Pending \/ Done \/ Failed) /\ Transmitting
    /\ pc = "wStatus" => (Done \/ Failed) /\ Transmitting
    /\ pc = "wRestore" => Calm /\ Transmitting /\ (count > 0 <=> acked = writes)

\* What holds of it at each step of the constructor.
TxBooting ==
    /\ pc = "bootClear" => ~pwrUp /\ ~onAir
    /\ pc = "bootFlush" => ~pwrUp /\ ~onAir /\ Flagless

TxInv == TxAlways /\ TxElsewhere /\ TxWriting /\ TxBooting

\* A read works on a head that stays where it is.
HeadStays ==
    /\ pc \in {"rWidth", "rPayload"} => rxFifo # <<>> /\ Head(rxFifo).pipe = pipe
    /\ pc = "rPayload" => count <= Head(rxFifo).width /\ Head(rxFifo).width <= FifoSize

RxInv == lastRead <= arrivals /\ ReadsInOrder /\ HeadStays /\ ReadIsHonest

IInv == TypeOK /\ TxInv /\ RxInv

-----------------------------------------------------------------------------
(* Sequences. *)

LEMMA Singleton ==
    ASSUME NEW x
    PROVE  /\ <<x>> # <<>> /\ Len(<<x>>) = 1
           /\ Head(<<x>>) = x /\ Tail(<<x>>) = <<>>
           /\ Append(<<>>, x) = <<x>>
  OBVIOUS

LEMMA Empty ==
    ASSUME NEW S
    PROVE  <<>> \in Seq(S) /\ Len(<<>>) = 0
  OBVIOUS

LEMMA KeptOrFlushed ==
    ASSUME NEW S, NEW s \in Seq(S), NEW t, t = s \/ t = <<>>
    PROVE  t \in Seq(S) /\ Len(s) \in Nat /\ (Len(t) = Len(s) \/ Len(t) = 0)
<1>1. CASE t = s
  BY <1>1
<1>2. CASE t = <<>>
  BY <1>2, Empty
<1>3. QED
  BY <1>1, <1>2

LEMMA HeadTail ==
    ASSUME NEW S, NEW s \in Seq(S), s # <<>>
    PROVE  /\ Len(s) \in Nat \ {0}
           /\ Head(s) = s[1] /\ Head(s) \in S
           /\ Tail(s) \in Seq(S) /\ Len(Tail(s)) = Len(s) - 1
           /\ \A i \in 1..Len(Tail(s)) : i + 1 \in 1..Len(s) /\ Tail(s)[i] = s[i + 1]
  OBVIOUS

LEMMA AppendHead ==
    ASSUME NEW S, NEW s \in Seq(S), NEW x \in S
    PROVE  /\ Append(s, x) \in Seq(S) /\ Len(Append(s, x)) = Len(s) + 1
           /\ \A i \in 1..Len(s) : Append(s, x)[i] = s[i]
           /\ Append(s, x)[Len(s) + 1] = x
           /\ Append(s, x) # <<>>
           /\ s # <<>> => Head(Append(s, x)) = Head(s)
<1>1. /\ Append(s, x) \in Seq(S) /\ Len(Append(s, x)) = Len(s) + 1
      /\ \A i \in 1..Len(s) : Append(s, x)[i] = s[i]
      /\ Append(s, x)[Len(s) + 1] = x
  OBVIOUS
<1>2. Append(s, x) # <<>>
  BY <1>1
<1>3. ASSUME s # <<>> PROVE Head(Append(s, x)) = Head(s)
  <2>1. Len(s) \in Nat \ {0} /\ Head(s) = s[1]
    BY <1>3, HeadTail
  <2>2. Append(s, x)[1] = s[1]
    BY <1>1, <2>1
  <2>3. Head(Append(s, x)) = Append(s, x)[1]
    BY <1>1, <1>2, HeadTail
  <2>4. QED
    BY <2>1, <2>2, <2>3
<1>4. QED
  BY <1>1, <1>2, <1>3

-----------------------------------------------------------------------------
(* Types. *)

LEMMA LocalsForgotten ==
    ASSUME ForgetLocals, mode' \in Modes, pc' \in Steps
    PROVE  DriverTypeOK'
<1>1. NoPacket \in Packet
  BY DEF NoPacket, Packet
<1>2. taken' \in Packet
  BY <1>1 DEF ForgetLocals
<1>3. sampled' \in Nat /\ hits' \in Nat /\ rssi' \in 0..(RssiModulus - 1) /\ count' \in Int
  BY RadioLinkAssumption DEF ForgetLocals
<1>4. pipe' \in 0..5 /\ savedMode' \in Modes
  BY DEF ForgetLocals, Modes
<1>5. savedCe' \in BOOLEAN
  BY DEF ForgetLocals
<1>6. QED
  BY <1>2, <1>3, <1>4, <1>5 DEF DriverTypeOK

LEMMA StepsNamed ==
    /\ {"idle", "toRx", "toTx", "rssi"} \subseteq Steps
    /\ WriteSteps \subseteq Steps /\ ReadSteps \subseteq Steps /\ BootSteps \subseteq Steps
  BY DEF Steps

LEMMA DriverTypeStep == TypeOK /\ RxInv /\ [Next]_vars => DriverTypeOK'
<1> SUFFICES ASSUME TypeOK, RxInv, [Next]_vars PROVE DriverTypeOK'
  OBVIOUS
<1>0. DriverTypeOK
  BY DEF TypeOK
<1>1. CASE Chip
  BY <1>0, <1>1 DEF Chip, ChipReceives, ChipStarts, ChipReports, ChipSent, ChipGivesUp, driver,
     local, DriverTypeOK
<1>2. CASE Call
  <2>1. CASE PowerUp \/ PowerDown \/ FlushRx \/ BeginRssi \/ WriteNothing
    BY <1>0, <2>1, StepsNamed DEF PowerUp, PowerDown, FlushRx, BeginRssi, WriteNothing,
       RaisePower, driver, local, DriverTypeOK, Modes
  <2>2. CASE \E level \in BOOLEAN : SetCe(level) \/ SetAutoAck(level)
    BY <1>0, <2>2 DEF SetCe, SetAutoAck, driver, local, DriverTypeOK
  <2>3. ASSUME NEW n \in WriteCounts, BeginWrite(n) PROVE DriverTypeOK'
    BY <1>0, <2>3, RadioLinkAssumption, StepsNamed DEF BeginWrite, Clamp, DriverTypeOK, TypeOK,
       ChipTypeOK, WriteSteps
  <2>4. ASSUME NEW p \in Pipes, NEW n \in ReadCounts, BeginRead(p, n) PROVE DriverTypeOK'
    BY <1>0, <2>4, RadioLinkAssumption, StepsNamed DEF BeginRead, Clamp, DriverTypeOK, ReadSteps
  <2>5. QED
    BY <1>2, <2>1, <2>2, <2>3, <2>4 DEF Call
<1>3. CASE SetMode
  BY <1>0, <1>3, StepsNamed DEF SetMode, SetReceiveMode, SetTransmitMode, PowerUpFirst,
     RaisePower, EnterMode, local, DriverTypeOK, Modes
<1>4. CASE WriteStep
  <2>1. CASE WriteTransmitMode \/ WritePulse \/ WritePoll
    BY <1>0, <2>1, StepsNamed DEF WriteTransmitMode, WritePulse, WritePoll, EnterMode, local,
       DriverTypeOK, Modes, WriteSteps
  <2>2. CASE WriteStatus
    BY <1>0, <2>2, StepsNamed DEF WriteStatus, WriteResult, DriverTypeOK, WriteSteps
  <2>3. CASE WriteRestore
    <3>1. mode' \in Modes
      BY <1>0, <2>3 DEF WriteRestore, EnterMode, Modes, DriverTypeOK
    <3>2. QED
      BY <2>3, <3>1, LocalsForgotten, StepsNamed DEF WriteRestore, Return
  <2>4. QED
    BY <1>4, <2>1, <2>2, <2>3 DEF WriteStep
<1>5. CASE ReadStep
  <2>1. CASE ReadFlush \/ ReadClear
    BY <1>0, <2>1, LocalsForgotten, StepsNamed DEF ReadFlush, ReadClear, Return, DriverTypeOK
  <2>2. ASSUME ReadWidth \/ ReadPayload PROVE Head(rxFifo) \in Packet
    BY <2>2, HeadTail DEF ReadWidth, ReadPayload, TypeOK, FifosTypeOK, RxInv, HeadStays
  <2>3. CASE ReadWidth
    <3>1. Head(rxFifo).width \in Nat
      BY <2>2, <2>3 DEF Packet
    <3>2. QED
      BY <1>0, <2>3, <3>1, StepsNamed DEF ReadWidth, DriverTypeOK, ReadSteps
  <2>4. CASE ReadPayload
    BY <1>0, <2>2, <2>4, StepsNamed DEF ReadPayload, DriverTypeOK, ReadSteps
  <2>5. QED
    BY <1>5, <2>1, <2>3, <2>4 DEF ReadStep
<1>6. CASE RssiStep
  <2>1. CASE RssiReturn
    BY <1>0, <2>1, LocalsForgotten, StepsNamed DEF RssiReturn, Return, DriverTypeOK
  <2>2. ASSUME NEW rpd \in 0..1, RssiSample(rpd) PROVE DriverTypeOK'
    BY <1>0, <2>2, RadioLinkAssumption DEF RssiSample, AddSample, DriverTypeOK
  <2>3. QED
    BY <1>6, <2>1, <2>2 DEF RssiStep
<1>7. CASE BootStep
  BY <1>0, <1>7, StepsNamed DEF BootStep, BootDisable, BootConfig, BootClear, BootFlush, local,
     DriverTypeOK, Modes, BootSteps
<1>8. CASE Restart
  BY <1>8, LocalsForgotten, StepsNamed DEF Restart, Modes, BootSteps
<1>9. CASE UNCHANGED vars
  BY <1>0, <1>9 DEF vars, driver, local, DriverTypeOK
<1>10. QED
  BY <1>1, <1>2, <1>3, <1>4, <1>5, <1>6, <1>7, <1>8, <1>9 DEF Next, Advance

LEMMA ChipTypeStep == TypeOK /\ [Next]_vars => ChipTypeOK'
<1> SUFFICES ASSUME TypeOK, [Next]_vars PROVE ChipTypeOK'
  OBVIOUS
<1>0. ChipTypeOK /\ savedCe \in BOOLEAN
  BY DEF TypeOK, DriverTypeOK
<1>1. CASE Chip
  BY ZenonT(60), <1>0, <1>1 DEF Chip, ChipReceives, ChipStarts, ChipReports, ChipSent, ChipGivesUp, config,
     flags, tx, ChipTypeOK
<1>2. CASE Call
  <2>1. CASE \E level \in BOOLEAN : SetCe(level) \/ SetAutoAck(level)
    BY <1>0, <2>1 DEF SetCe, SetAutoAck, config, flags, tx, ChipTypeOK
  <2>2. CASE \E n \in WriteCounts : BeginWrite(n)
    BY <1>0, <2>2 DEF BeginWrite, ChipTypeOK
  <2>3. CASE PowerUp \/ PowerDown \/ WriteNothing
    BY ZenonT(60), <1>0, <2>3 DEF PowerUp, PowerDown, WriteNothing, RaisePower, config, flags, tx, ChipTypeOK
  <2>4. CASE FlushRx \/ BeginRssi \/ \E p \in Pipes, n \in ReadCounts : BeginRead(p, n)
    BY <1>0, <2>4 DEF FlushRx, BeginRssi, BeginRead, config, flags, tx, ChipTypeOK
  <2>5. QED
    BY <1>2, <2>1, <2>2, <2>3, <2>4 DEF Call
<1>3. CASE SetMode
  BY <1>0, <1>3 DEF SetMode, SetReceiveMode, SetTransmitMode, PowerUpFirst, RaisePower, EnterMode,
     flags, tx, ChipTypeOK
<1>4. CASE WriteStep
  BY ZenonT(60), <1>0, <1>4 DEF WriteStep, WriteTransmitMode, WritePulse, WritePoll, WriteStatus,
     WriteRestore, EnterMode, CanStart, CeToRestore, config, flags, tx, ChipTypeOK
<1>5. CASE ReadStep
  BY ZenonT(60), <1>0, <1>5 DEF ReadStep, ReadWidth, ReadFlush, ReadPayload, ReadClear, config, flags, tx,
     ChipTypeOK
<1>6. CASE RssiStep
  BY <1>0, <1>6 DEF RssiStep, RssiReturn, RssiSample, config, flags, tx, ChipTypeOK
<1>7. CASE BootStep
  BY ZenonT(60), <1>0, <1>7 DEF BootStep, BootDisable, BootConfig, BootClear, BootFlush, config, flags, tx,
     ChipTypeOK
<1>8. CASE Restart
  BY <1>0, <1>8 DEF Restart, flags, tx, ChipTypeOK
<1>9. CASE UNCHANGED vars
  BY <1>0, <1>9 DEF vars, config, flags, tx, ChipTypeOK
<1>10. QED
  BY <1>1, <1>2, <1>3, <1>4, <1>5, <1>6, <1>7, <1>8, <1>9 DEF Next, Advance

LEMMA FifosTypeStep == TypeOK /\ TxInv /\ RxInv /\ [Next]_vars => FifosTypeOK'
<1> SUFFICES ASSUME TypeOK, TxInv, RxInv, [Next]_vars PROVE FifosTypeOK'
  OBVIOUS
<1>0. FifosTypeOK /\ HistoryTypeOK
  BY DEF TypeOK
<1>1. CASE Chip
  <2>1. CASE ChipReceives
    <3>1. PICK p \in Pipes, w \in Widths :
             rxFifo' = Append(rxFifo, [id |-> arrivals + 1, pipe |-> p, width |-> w])
      BY <2>1 DEF ChipReceives
    <3>2. [id |-> arrivals + 1, pipe |-> p, width |-> w] \in Packet
      BY <1>0, RadioLinkAssumption DEF Packet, HistoryTypeOK
    <3>3. rxFifo' \in Seq(Packet) /\ Len(rxFifo') = Len(rxFifo) + 1
      BY <1>0, <3>1, <3>2, AppendHead DEF FifosTypeOK
    <3>4. QED
      BY <1>0, <2>1, <3>3, RadioLinkAssumption DEF ChipReceives, tx, FifosTypeOK
  <2>2. CASE ChipSent
    <3>1. txFifo = <<writes>>
      BY <2>2 DEF ChipSent, TxInv, TxAlways, Loaded
    <3>2. txFifo' = <<>>
      BY <2>2, <3>1, Singleton DEF ChipSent
    <3>3. rxFifo' = rxFifo
      BY <2>2 DEF ChipSent
    <3>4. QED
      BY <1>0, <3>2, <3>3, Empty DEF FifosTypeOK
  <2>3. CASE ChipStarts \/ ChipGivesUp
    BY <1>0, <2>3 DEF ChipStarts, ChipGivesUp, FifosTypeOK
  <2>4. QED
    BY <1>1, <2>1, <2>2, <2>3 DEF Chip, ChipReports
<1>2. CASE Call
  <2>1. ASSUME NEW n \in WriteCounts, BeginWrite(n) PROVE FifosTypeOK'
    <3>1. txFifo = <<>>
      BY <2>1 DEF BeginWrite, TxInv, TxElsewhere, Calm
    <3>2. txFifo' = <<writes + 1>>
      BY <2>1, <3>1, Singleton DEF BeginWrite
    <3>3. QED
      BY <1>0, <2>1, <3>2 DEF BeginWrite, FifosTypeOK, HistoryTypeOK
  <2>2. CASE FlushRx
    BY <1>0, <2>2, RadioLinkAssumption DEF FlushRx, tx, FifosTypeOK
  <2>3. UNCHANGED <<txFifo, rxFifo>> => FifosTypeOK'
    BY <1>0 DEF FifosTypeOK
  <2>4. QED
    BY <1>2, <2>1, <2>2, <2>3 DEF Call, PowerUp, PowerDown, SetCe, SetAutoAck, WriteNothing,
       BeginRead, BeginRssi, tx
<1>3. CASE SetMode
  BY <1>0, <1>3 DEF SetMode, SetReceiveMode, SetTransmitMode, PowerUpFirst, tx, FifosTypeOK
<1>4. CASE WriteStep
  <2>1. (txFifo' = txFifo \/ txFifo' = <<>>) /\ rxFifo' = rxFifo
    BY <1>4 DEF WriteStep, WriteTransmitMode, WritePulse, WritePoll, WriteStatus, WriteRestore,
       PayloadsLeft, tx
  <2>2. QED
    BY <1>0, <2>1, KeptOrFlushed DEF FifosTypeOK
<1>5. CASE ReadStep
  <2>1. CASE ReadPayload
    <3>1. rxFifo # <<>>
      BY <2>1 DEF ReadPayload, RxInv, HeadStays
    <3>2. rxFifo' \in Seq(Packet) /\ Len(rxFifo') = Len(rxFifo) - 1
      BY <1>0, <2>1, <3>1, HeadTail DEF ReadPayload, RemainingPackets, FifosTypeOK
    <3>3. Len(rxFifo) \in Nat
      BY <1>0, <3>1, HeadTail DEF FifosTypeOK
    <3>4. QED
      BY <1>0, <2>1, <3>2, <3>3, RadioLinkAssumption DEF ReadPayload, tx, FifosTypeOK
  <2>2. CASE ReadWidth \/ ReadFlush \/ ReadClear
    <3>1. (rxFifo' = rxFifo \/ rxFifo' = <<>>) /\ txFifo' = txFifo
      BY <2>2 DEF ReadWidth, ReadFlush, ReadClear, tx
    <3>2. QED
      BY <1>0, <3>1, KeptOrFlushed, RadioLinkAssumption DEF FifosTypeOK
  <2>3. QED
    BY <1>5, <2>1, <2>2 DEF ReadStep
<1>6. CASE RssiStep
  <2>1. (rxFifo' = rxFifo \/ rxFifo' = <<>>) /\ txFifo' = txFifo
    BY <1>6 DEF RssiStep, RssiReturn, RssiSample, tx
  <2>2. QED
    BY <1>0, <2>1, KeptOrFlushed, RadioLinkAssumption DEF FifosTypeOK
<1>7. CASE BootStep
  <2>1. CASE BootFlush
    BY <2>1, Empty, RadioLinkAssumption DEF BootFlush, FifosTypeOK
  <2>2. CASE BootDisable \/ BootConfig \/ BootClear
    BY <1>0, <2>2 DEF BootDisable, BootConfig, BootClear, tx, FifosTypeOK
  <2>3. QED
    BY <1>7, <2>1, <2>2 DEF BootStep
<1>8. CASE Restart
  BY <1>0, <1>8 DEF Restart, tx, FifosTypeOK
<1>9. CASE UNCHANGED vars
  BY <1>0, <1>9 DEF vars, tx, FifosTypeOK
<1>10. QED
  BY <1>1, <1>2, <1>3, <1>4, <1>5, <1>6, <1>7, <1>8, <1>9 DEF Next, Advance

LEMMA HistoryTypeStep == TypeOK /\ TxInv /\ RxInv /\ [Next]_vars => HistoryTypeOK'
<1> SUFFICES ASSUME TypeOK, TxInv, RxInv, [Next]_vars PROVE HistoryTypeOK'
  OBVIOUS
<1>0. HistoryTypeOK /\ FifosTypeOK
  BY DEF TypeOK
<1>1. CASE Chip
  <2>1. CASE ChipSent
    <3>1. txFifo = <<writes>>
      BY <2>1 DEF ChipSent, TxInv, TxAlways, Loaded
    <3>2. acked' = writes
      BY <2>1, <3>1, Singleton DEF ChipSent
    <3>3. QED
      BY <1>0, <2>1, <3>2 DEF ChipSent, wants, HistoryTypeOK
  <2>2. CASE ChipReceives \/ ChipStarts \/ ChipGivesUp
    BY <1>0, <2>2 DEF ChipReceives, ChipStarts, ChipGivesUp, history, wants, HistoryTypeOK
  <2>3. QED
    BY <1>1, <2>1, <2>2 DEF Chip, ChipReports
<1>2. CASE Call
  <2>1. CASE \E level \in BOOLEAN : SetCe(level) \/ SetAutoAck(level)
    BY <1>0, <2>1 DEF SetCe, SetAutoAck, history, wants, HistoryTypeOK
  <2>2. CASE PowerUp \/ PowerDown
    BY <1>0, <2>2 DEF PowerUp, PowerDown, others, HistoryTypeOK
  <2>3. CASE \E n \in WriteCounts : BeginWrite(n)
    BY <1>0, <2>3 DEF BeginWrite, wants, HistoryTypeOK
  <2>4. CASE \/ WriteNothing \/ FlushRx \/ BeginRssi
             \/ \E p \in Pipes, n \in ReadCounts : BeginRead(p, n)
    BY <1>0, <2>4 DEF WriteNothing, FlushRx, BeginRssi, BeginRead, history, wants, HistoryTypeOK
  <2>5. QED
    BY <1>2, <2>1, <2>2, <2>3, <2>4 DEF Call
<1>3. CASE SetMode
  BY <1>0, <1>3 DEF SetMode, SetReceiveMode, SetTransmitMode, PowerUpFirst, history, wants,
     others, HistoryTypeOK
<1>4. CASE WriteStep
  BY <1>0, <1>4 DEF WriteStep, WriteTransmitMode, WritePulse, WritePoll, WriteStatus,
     WriteRestore, history, wants, HistoryTypeOK
<1>5. CASE ReadStep
  <2>1. CASE ReadPayload
    <3>1. Head(rxFifo) \in Packet
      BY <1>0, <2>1, HeadTail DEF ReadPayload, FifosTypeOK, RxInv, HeadStays
    <3>2. QED
      BY <1>0, <2>1, <3>1 DEF ReadPayload, Packet, wants, HistoryTypeOK
  <2>2. CASE ReadWidth \/ ReadFlush \/ ReadClear
    BY <1>0, <2>2 DEF ReadWidth, ReadFlush, ReadClear, history, wants, HistoryTypeOK
  <2>3. QED
    BY <1>5, <2>1, <2>2 DEF ReadStep
<1>6. CASE RssiStep
  BY <1>0, <1>6 DEF RssiStep, RssiReturn, RssiSample, history, wants, HistoryTypeOK
<1>7. CASE BootStep
  BY <1>0, <1>7 DEF BootStep, BootDisable, BootConfig, BootClear, BootFlush, history, wants,
     HistoryTypeOK
<1>8. CASE Restart
  BY <1>0, <1>8 DEF Restart, wants, HistoryTypeOK
<1>9. CASE UNCHANGED vars
  BY <1>0, <1>9 DEF vars, history, wants, others, HistoryTypeOK
<1>10. QED
  BY <1>1, <1>2, <1>3, <1>4, <1>5, <1>6, <1>7, <1>8, <1>9 DEF Next, Advance

LEMMA TypeStep == IInv /\ [Next]_vars => TypeOK'
  BY DriverTypeStep, ChipTypeStep, FifosTypeStep, HistoryTypeStep DEF IInv, TypeOK

-----------------------------------------------------------------------------
(* The transmit side. *)

LEMMA TxStep == TypeOK /\ TxInv /\ [Next]_vars => TxInv'
<1> SUFFICES ASSUME TypeOK, TxInv, [Next]_vars PROVE TxInv'
  OBVIOUS
<1>0. pc \in Steps /\ mode \in Modes /\ writes \in Nat /\ acked \in Nat
  BY DEF TypeOK, DriverTypeOK, HistoryTypeOK
<1> USE DEF TxAlways, TxElsewhere, TxWriting, TxBooting, Calm, ModeAgrees, Loaded, Transmitting,
     Flagless, Pending, Done, Failed
<1>1. CASE Chip
  <2>1. CASE ChipReceives
    BY <2>1 DEF ChipReceives, driver, local, config, tx, TxInv
  <2>2. CASE ChipStarts
    <3>1. Loaded /\ pc \in {"bootDisable", "bootConfig"}
      BY <1>0, <2>2 DEF ChipStarts, CanStart, TxInv, Steps, WriteSteps, ReadSteps, BootSteps
    <3>2. QED
      BY <2>2, <3>1 DEF ChipStarts, driver, local, config, flags, history, wants, TxInv, ReadSteps
  <2>3. CASE ChipSent
    <3>1. Loaded /\ pc \in {"wPoll", "bootDisable", "bootConfig"}
      BY <2>3 DEF ChipSent, TxInv
    <3>2. txFifo' = <<>> /\ acked' = writes /\ writes' = writes
      BY <2>3, <3>1, Singleton DEF ChipSent
    <3>3. QED
      BY <1>0, <2>3, <3>1, <3>2 DEF ChipSent, driver, local, config, TxInv, ReadSteps
  <2>4. CASE ChipGivesUp
    <3>1. Loaded /\ pc \in {"wPoll", "bootDisable", "bootConfig"}
      BY <2>4 DEF ChipGivesUp, TxInv
    <3>2. QED
      BY <2>4, <3>1 DEF ChipGivesUp, driver, local, config, history, wants, TxInv, ReadSteps
  <2>5. QED
    BY <1>1, <2>1, <2>2, <2>3, <2>4 DEF Chip, ChipReports
<1>2. CASE Call
  <2>1. ASSUME NEW n \in WriteCounts, BeginWrite(n) PROVE TxInv'
    <3>1. Calm /\ ModeAgrees
      BY <2>1 DEF BeginWrite, TxInv
    <3>2. txFifo' = <<writes'>> /\ acked' # writes' /\ acked' <= writes'
      BY <1>0, <2>1, <3>1, Singleton DEF BeginWrite, TxInv
    <3>3. count' > 0
      BY <2>1, RadioLinkAssumption DEF BeginWrite, Clamp
    <3>4. QED
      BY <2>1, <3>1, <3>2, <3>3 DEF BeginWrite, TxInv, ReadSteps
  <2>2. CASE PowerUp \/ PowerDown \/ WriteNothing
    BY <1>0, <2>2 DEF PowerUp, PowerDown, RaisePower, WriteNothing, flags, tx, local, driver,
       history, wants, others, TxInv, ReadSteps
  <2>3. CASE \E level \in BOOLEAN : SetCe(level) \/ SetAutoAck(level)
    BY <1>0, <2>3 DEF SetCe, SetAutoAck, flags, tx, driver, local, history, wants, TxInv,
       ReadSteps
  <2>4. CASE FlushRx \/ BeginRssi \/ \E p \in Pipes, n \in ReadCounts : BeginRead(p, n)
    BY <1>0, <2>4 DEF FlushRx, BeginRssi, BeginRead, flags, tx, driver, local, config, history,
       TxInv, ReadSteps
  <2>5. QED
    BY <1>2, <2>1, <2>2, <2>3, <2>4 DEF Call
<1>3. CASE SetMode
  <2>1. CASE PowerUpFirst("toRx") \/ PowerUpFirst("toTx")
    BY <1>0, <2>1 DEF PowerUpFirst, RaisePower, flags, tx, local, history, wants, TxInv, ReadSteps
  <2>2. ASSUME ~(PowerUpFirst("toRx") \/ PowerUpFirst("toTx"))
        PROVE  /\ pc \in {"toRx", "toTx"} \/ (pc = "idle" /\ mode # "POWER_DOWN")
               /\ EnterMode("RX") \/ EnterMode("TX")
               /\ pc' = "idle"
               /\ UNCHANGED <<local, ce, pwrUp, autoAck, flags, tx, rxFifo, others>>
    BY <1>3, <2>2 DEF SetMode, SetReceiveMode, others, wants, SetTransmitMode
  <2>3. ASSUME ~(PowerUpFirst("toRx") \/ PowerUpFirst("toTx")) PROVE TxInv'
    <3>1. Calm /\ pwrUp
      BY <2>2, <2>3 DEF TxInv
    <3>2. Calm' /\ pwrUp'
      BY <2>2, <2>3, <3>1 DEF flags, tx
    <3>3. ModeAgrees'
      BY <2>2, <2>3, <3>2 DEF EnterMode
    <3>4. acked' <= writes'
      BY <2>2, <2>3 DEF history, wants, others, TxInv
    <3>5. QED
      BY <2>2, <2>3, <3>2, <3>3, <3>4 DEF TxInv, ReadSteps
  <2>4. QED
    BY <2>1, <2>3
<1>4. CASE WriteStep
  <2>1. CASE WriteTransmitMode
    BY <1>0, <2>1 DEF WriteTransmitMode, EnterMode, local, flags, tx, history, wants, TxInv,
       ReadSteps
  <2>2. CASE WritePulse
    <3>1. CanStart
      BY <2>2, Singleton DEF WritePulse, CanStart, TxInv
    <3>2. QED
      BY <2>2, <3>1 DEF WritePulse, local, config, flags, history, wants, TxInv, ReadSteps
  <2>3. CASE WritePoll
    BY <2>3 DEF WritePoll, local, config, flags, tx, history, wants, TxInv, ReadSteps
  <2>4. CASE WriteStatus
    BY <2>4 DEF WriteStatus, WriteResult, PayloadsLeft, config, history, wants, TxInv, ReadSteps
  <2>5. CASE WriteRestore
    BY <2>5 DEF WriteRestore, Return, EnterMode, flags, tx, history, wants, TxInv, ReadSteps
  <2>6. QED
    BY <1>4, <2>1, <2>2, <2>3, <2>4, <2>5 DEF WriteStep
<1>5. CASE ReadStep
  BY <1>0, <1>5 DEF ReadStep, ReadWidth, ReadFlush, ReadPayload, ReadClear, Return, config, flags,
     tx, history, wants, TxInv, ReadSteps
<1>6. CASE RssiStep
  BY <1>0, <1>6 DEF RssiStep, RssiReturn, RssiSample, Return, config, flags, tx, history, wants,
     TxInv, ReadSteps
<1>7. CASE BootStep
  BY <1>0, <1>7 DEF BootStep, BootDisable, BootConfig, BootClear, BootFlush, config, flags, tx,
     local, history, wants, TxInv, ReadSteps
<1>8. CASE Restart
  BY <1>8, Singleton DEF Restart, flags, tx, TxInv, ReadSteps, BootSteps
<1>9. CASE UNCHANGED vars
  BY <1>9 DEF vars, driver, local, config, flags, tx, history, wants, others, TxInv
<1>10. QED
  BY <1>1, <1>2, <1>3, <1>4, <1>5, <1>6, <1>7, <1>8, <1>9 DEF Next, Advance

-----------------------------------------------------------------------------
(* The receive side. *)

\* Neither the FIFO nor the history of arrivals and reads moves.
RxFrame == UNCHANGED <<rxFifo, arrivals, lastRead>>

LEMMA SortedFrame == ReadsInOrder /\ lastRead <= arrivals /\ RxFrame
                        => ReadsInOrder' /\ lastRead' <= arrivals'
  BY DEF ReadsInOrder, RxFrame

LEMMA SortedEmpty == rxFifo' = <<>> => ReadsInOrder'
  BY Empty DEF ReadsInOrder

LEMMA RxStep == TypeOK /\ RxInv /\ [Next]_vars => RxInv'
<1> SUFFICES ASSUME TypeOK, RxInv, [Next]_vars PROVE RxInv'
  OBVIOUS
<1>0. FifosTypeOK /\ HistoryTypeOK
  BY DEF TypeOK
<1>a. ASSUME pc' \notin {"rWidth", "rPayload", "rClear"} PROVE HeadStays' /\ ReadIsHonest'
  BY <1>a DEF HeadStays, ReadIsHonest
<1>1. CASE Chip
  <2>1. CASE ChipReceives
    <3>1. PICK p \in Pipes, w \in Widths :
             rxFifo' = Append(rxFifo, [id |-> arrivals + 1, pipe |-> p, width |-> w])
      BY <2>1 DEF ChipReceives
    <3> DEFINE new == [id |-> arrivals + 1, pipe |-> p, width |-> w]
    <3>2. new \in Packet /\ new.id = arrivals + 1
      BY <1>0, RadioLinkAssumption DEF Packet, HistoryTypeOK
    <3>3. /\ Len(rxFifo') = Len(rxFifo) + 1 /\ Len(rxFifo) \in Nat
          /\ \A i \in 1..Len(rxFifo) : rxFifo'[i] = rxFifo[i]
          /\ rxFifo'[Len(rxFifo) + 1] = new
          /\ rxFifo' # <<>>
          /\ rxFifo # <<>> => Head(rxFifo') = Head(rxFifo)
      BY <1>0, <3>1, <3>2, AppendHead DEF FifosTypeOK
    <3> HIDE DEF new
    <3>4. arrivals' = arrivals + 1 /\ lastRead' = lastRead
      BY <2>1 DEF ChipReceives
    <3>5. \A i \in 1..Len(rxFifo) : rxFifo[i].id \in Nat
      <4>1. \A i \in 1..Len(rxFifo) : rxFifo[i] \in Packet
        BY <1>0 DEF FifosTypeOK
      <4>2. QED
        BY <4>1 DEF Packet
    <3>6. ReadsInOrder' /\ lastRead' <= arrivals'
      <4>1. arrivals \in Nat /\ lastRead \in Nat
        BY <1>0 DEF HistoryTypeOK
      <4>2. /\ lastRead <= arrivals
            /\ \A i \in 1..Len(rxFifo) : lastRead < rxFifo[i].id /\ rxFifo[i].id <= arrivals
            /\ \A i, j \in 1..Len(rxFifo) : i < j => rxFifo[i].id < rxFifo[j].id
        BY DEF RxInv, ReadsInOrder
      <4>3. ASSUME NEW i \in 1..Len(rxFifo')
            PROVE  lastRead' < rxFifo'[i].id /\ rxFifo'[i].id <= arrivals'
        <5>1. CASE i \in 1..Len(rxFifo)
          <6>1. rxFifo'[i] = rxFifo[i]
            BY <3>3, <5>1
          <6>2. QED
            BY <6>1, <3>4, <3>5, <4>1, <4>2, <5>1
        <5>2. CASE i = Len(rxFifo) + 1
          <6>1. rxFifo'[i].id = arrivals + 1
            BY <3>2, <3>3, <5>2
          <6>2. QED
            BY <6>1, <3>4, <4>1, <4>2
        <5>3. QED
          BY <3>3, <5>1, <5>2
      <4>4. ASSUME NEW i \in 1..Len(rxFifo'), NEW j \in 1..Len(rxFifo'), i < j
            PROVE  rxFifo'[i].id < rxFifo'[j].id
        <5>1. i \in 1..Len(rxFifo) /\ rxFifo'[i] = rxFifo[i]
          BY <3>3, <4>4
        <5>2. CASE j \in 1..Len(rxFifo)
          <6>1. rxFifo'[j] = rxFifo[j]
            BY <3>3, <5>2
          <6>2. QED
            BY <6>1, <4>2, <4>4, <5>1, <5>2
        <5>3. CASE j = Len(rxFifo) + 1
          <6>1. rxFifo'[j].id = arrivals + 1
            BY <3>2, <3>3, <5>3
          <6>2. QED
            BY <6>1, <3>5, <4>1, <4>2, <5>1
        <5>4. QED
          BY <3>3, <5>2, <5>3
      <4>5. QED
        BY <3>4, <4>1, <4>2, <4>3, <4>4 DEF ReadsInOrder
    <3>7. HeadStays' /\ ReadIsHonest'
      BY <2>1, <3>3 DEF ChipReceives, driver, local, RxInv, HeadStays, ReadIsHonest
    <3>8. QED
      BY <3>6, <3>7 DEF RxInv
  <2>2. CASE ChipStarts \/ ChipReports
    BY <2>2 DEF ChipStarts, ChipReports, ChipSent, ChipGivesUp, driver, local, history, wants,
       RxInv, ReadsInOrder, HeadStays, ReadIsHonest
  <2>3. QED
    BY <1>1, <2>1, <2>2 DEF Chip
<1>2. CASE Call
  <2>1. CASE FlushRx
    BY <2>1, SortedEmpty, <1>a DEF FlushRx, driver, history, wants, RxInv
  <2>2. ASSUME NEW p \in Pipes, NEW n \in ReadCounts, BeginRead(p, n) PROVE RxInv'
    BY <2>2, SortedFrame DEF BeginRead, Readable, history, wants, RxFrame, RxInv, HeadStays,
       ReadIsHonest
  <2>3. CASE PowerUp \/ PowerDown \/ WriteNothing \/ BeginRssi
    BY <2>3, SortedFrame, <1>a DEF PowerUp, PowerDown, WriteNothing, BeginRssi, driver, history,
       wants, others, RxFrame, RxInv
  <2>4. CASE \E level \in BOOLEAN : SetCe(level) \/ SetAutoAck(level)
    BY <2>4, SortedFrame, <1>a DEF SetCe, SetAutoAck, driver, history, wants, RxFrame, RxInv
  <2>5. CASE \E n \in WriteCounts : BeginWrite(n)
    BY <2>5, SortedFrame, <1>a DEF BeginWrite, RxFrame, RxInv
  <2>6. QED
    BY <1>2, <2>1, <2>2, <2>3, <2>4, <2>5 DEF Call
<1>3. CASE SetMode
  BY <1>3, SortedFrame, <1>a DEF SetMode, SetReceiveMode, SetTransmitMode, PowerUpFirst, history,
     wants, others, RxFrame, RxInv
<1>4. CASE WriteStep
  BY <1>4, SortedFrame, <1>a DEF WriteStep, WriteTransmitMode, WritePulse, WritePoll, WriteStatus,
     WriteRestore, Return, history, wants, RxFrame, RxInv
<1>5. CASE ReadStep
  <2>1. CASE ReadWidth
    <3>1. Head(rxFifo) \in Packet
      BY <1>0, <2>1, HeadTail DEF ReadWidth, FifosTypeOK, RxInv, HeadStays
    <3>2. HeadStays' /\ ReadIsHonest'
      BY <2>1, <3>1, RadioLinkAssumption DEF ReadWidth, RxInv, HeadStays, ReadIsHonest, Packet,
         TypeOK, DriverTypeOK
    <3>3. QED
      BY <2>1, <3>2, SortedFrame DEF ReadWidth, history, wants, RxFrame, RxInv
  <2>2. CASE ReadPayload
    <3>1. rxFifo # <<>>
      BY <2>2 DEF ReadPayload, RxInv, HeadStays
    <3>2. /\ Len(rxFifo) \in Nat \ {0} /\ Len(rxFifo') = Len(rxFifo) - 1
          /\ \A i \in 1..Len(rxFifo') : i + 1 \in 1..Len(rxFifo) /\ rxFifo'[i] = rxFifo[i + 1]
          /\ Head(rxFifo) = rxFifo[1]
      BY <1>0, <2>2, <3>1, HeadTail DEF ReadPayload, RemainingPackets, FifosTypeOK
    <3>3. lastRead' = rxFifo[1].id /\ arrivals' = arrivals
      BY <2>2, <3>2 DEF ReadPayload
    <3>4. ReadsInOrder' /\ lastRead' <= arrivals'
      BY SMTT(60), <3>2, <3>3 DEF RxInv, ReadsInOrder
    <3>5. HeadStays' /\ ReadIsHonest'
      BY <2>2 DEF ReadPayload, RxInv, HeadStays, ReadIsHonest
    <3>6. QED
      BY <3>4, <3>5 DEF RxInv
  <2>3. CASE ReadFlush
    BY <2>3, SortedEmpty, <1>a DEF ReadFlush, Return, history, wants, RxInv
  <2>4. CASE ReadClear
    BY <2>4, SortedFrame, <1>a DEF ReadClear, Return, history, wants, RxFrame, RxInv
  <2>5. QED
    BY <1>5, <2>1, <2>2, <2>3, <2>4 DEF ReadStep
<1>6. CASE RssiStep
  <2>1. CASE RssiReturn
    BY <2>1, SortedFrame, <1>a DEF RssiReturn, Return, history, wants, RxFrame, RxInv
  <2>2. CASE \E rpd \in 0..1 : RssiSample(rpd)
    BY <2>2, SortedEmpty, <1>a DEF RssiSample, history, wants, RxInv
  <2>3. QED
    BY <1>6, <2>1, <2>2 DEF RssiStep
<1>7. CASE BootStep
  <2>1. CASE BootFlush
    BY <2>1, SortedEmpty, <1>a DEF BootFlush, history, wants, RxInv
  <2>2. CASE BootDisable \/ BootConfig \/ BootClear
    BY <2>2, SortedFrame, <1>a DEF BootDisable, BootConfig, BootClear, history, wants, RxFrame,
       RxInv
  <2>3. QED
    BY <1>7, <2>1, <2>2 DEF BootStep
<1>8. CASE Restart
  BY <1>8, SortedFrame, <1>a DEF Restart, RxFrame, RxInv
<1>9. CASE UNCHANGED vars
  BY <1>9 DEF vars, driver, local, history, wants, others, RxInv, ReadsInOrder, HeadStays,
     ReadIsHonest
<1>10. QED
  BY <1>1, <1>2, <1>3, <1>4, <1>5, <1>6, <1>7, <1>8, <1>9 DEF Next, Advance

-----------------------------------------------------------------------------
(* The theorems. *)

LEMMA Initially == Init => IInv
<1> SUFFICES ASSUME Init PROVE IInv
  OBVIOUS
<1>1. DriverTypeOK
  <2>1. NoPacket \in Packet
    BY DEF NoPacket, Packet
  <2>2. taken \in Packet /\ savedCe \in BOOLEAN
    BY <2>1 DEF Init
  <2>3. mode \in Modes /\ pc \in Steps /\ count \in Int /\ pipe \in 0..5 /\ savedMode \in Modes
    BY DEF Init, Modes, Steps, BootSteps
  <2>4. sampled \in Nat /\ hits \in Nat /\ rssi \in 0..(RssiModulus - 1)
    BY RadioLinkAssumption DEF Init
  <2>5. QED
    BY <2>2, <2>3, <2>4 DEF DriverTypeOK
<1>2. ChipTypeOK
  BY DEF Init, ChipTypeOK
<1>3. FifosTypeOK
  BY Empty, RadioLinkAssumption DEF Init, FifosTypeOK
<1>4. HistoryTypeOK
  BY DEF Init, HistoryTypeOK
<1>5. TxInv
  BY DEF Init, TxInv, TxAlways, TxElsewhere, TxWriting, TxBooting, ReadSteps
<1>6. RxInv
  BY Empty DEF Init, RxInv, ReadsInOrder, HeadStays, ReadIsHonest
<1>7. QED
  BY <1>1, <1>2, <1>3, <1>4, <1>5, <1>6 DEF IInv, TypeOK

\* The inductive invariant holds for every number of pipes, FIFO depth and
\* size, and without any bound on what the environment does.
THEOREM InductiveInvariant == Spec => []IInv
<1>1. IInv /\ [Next]_vars => IInv'
  BY TypeStep, TxStep, RxStep DEF IInv
<1>2. QED
  BY Initially, <1>1, PTL DEF Spec

\* Every variable keeps its type, and the TX FIFO never holds a second payload.
THEOREM TypeCorrect == Spec => []TypeOK
<1>1. IInv => TypeOK
  BY DEF IInv
<1>2. QED
  BY <1>1, InductiveInvariant, PTL

\* Between calls the mode field agrees with the chip.
THEOREM ModeCorrect == Spec => []ModeMatchesChip
<1>1. IInv => ModeMatchesChip
  BY DEF IInv, TxInv, TxElsewhere, ModeAgrees, ModeMatchesChip
<1>2. QED
  BY <1>1, InductiveInvariant, PTL

\* No write, however it ended, leaves anything in the transmitter.
THEOREM TransmitterQuiet == Spec => []TxQuiet
<1>1. IInv => TxQuiet
  BY DEF IInv, TxInv, TxElsewhere, Calm, Flagless, TxQuiet
<1>2. QED
  BY <1>1, InductiveInvariant, PTL

\* write reports success exactly when the chip sent the payload of that call.
THEOREM WriteTruthful == Spec => []WriteReportsTruth
<1>1. IInv => WriteReportsTruth
  BY DEF IInv, TxInv, TxWriting, WriteReportsTruth
<1>2. QED
  BY <1>1, InductiveInvariant, PTL

\* The chip sends nothing but the payload of the write under way, or of the one
\* a reset has just cut short.
THEOREM NoStaleTransmission == Spec => OnlyCurrentPayloadIsSent
<1> DEFINE Sends == acked' # acked => acked' = writes /\ pc \in {"wPoll"} \cup BootSteps
<1>1. IInv /\ [Next]_vars => [Sends]_vars
  <2> SUFFICES ASSUME IInv, Next, acked' # acked
               PROVE  acked' = writes /\ pc \in {"wPoll"} \cup BootSteps
    BY DEF vars, history, wants, others
  <2>1. ChipSent
    BY DEF Next, Chip, ChipReceives, ChipStarts, ChipReports, ChipGivesUp, Call, PowerUp,
       PowerDown, SetCe, SetAutoAck, WriteNothing, BeginWrite, BeginRead, FlushRx, BeginRssi,
       SetMode, SetReceiveMode, SetTransmitMode, PowerUpFirst, Advance, WriteStep,
       WriteTransmitMode, WritePulse, WritePoll, WriteStatus, WriteRestore, ReadStep, ReadWidth,
       ReadFlush, ReadPayload, ReadClear, RssiStep, RssiReturn, RssiSample, BootStep, BootDisable,
       BootConfig, BootClear, BootFlush, Restart, history, wants, others
  <2>2. Loaded /\ pc \in {"wPoll", "bootDisable", "bootConfig"}
    BY <2>1 DEF ChipSent, IInv, TxInv, TxAlways
  <2>3. QED
    BY <2>1, <2>2, Singleton DEF ChipSent, Loaded, BootSteps
<1>2. QED
  BY <1>1, InductiveInvariant, PTL DEF Spec, OnlyCurrentPayloadIsSent

\* A read returns bytes of one packet, of the pipe it was asked for.
THEOREM ReadHonest == Spec => []ReadIsHonest
<1>1. IInv => ReadIsHonest
  BY DEF IInv, RxInv
<1>2. QED
  BY <1>1, InductiveInvariant, PTL

\* Packets are read at most once and in the order of their arrival.
THEOREM ReadOrdered == Spec => []ReadsInOrder
<1>1. IInv => ReadsInOrder
  BY DEF IInv, RxInv
<1>2. QED
  BY <1>1, InductiveInvariant, PTL
-----------------------------------------------------------------------------
(* The CE pin. *)

\* The level asked for is in the pin, or in the running write's saved copy; and
\* so is RX mode.
CeInv ==
    /\ pc \in {"idle", "toRx", "toTx", "rssi"} \cup ReadSteps => ce = wantCe /\ (wantRx => mode = "RX")
    /\ pc \in WriteSteps => savedCe = wantCe /\ (wantRx => savedMode = "RX")
    /\ pc \in {"bootConfig", "bootClear", "bootFlush"} => ce = FALSE /\ wantCe = FALSE /\ ~wantRx

LEMMA CeStep ==
    ASSUME \A n \in WriteCounts : n > 0, CeInv, [Next]_vars
    PROVE  CeInv'
<1>1. CASE Chip
  BY <1>1 DEF Chip, ChipReceives, ChipStarts, ChipReports, ChipSent, ChipGivesUp, driver, local,
     config, history, wants, CeInv, ReadSteps, WriteSteps
<1>2. CASE Call
  <2>1. ~WriteNothing
    BY RadioLinkAssumption DEF WriteNothing
  <2>2. CASE \E n \in WriteCounts : BeginWrite(n)
    BY <2>2 DEF BeginWrite, CeInv, ReadSteps, wants, WriteSteps
  <2>3. CASE \E p \in Pipes, n \in ReadCounts : BeginRead(p, n)
    BY <2>3 DEF BeginRead, config, history, wants, CeInv, ReadSteps, WriteSteps
  <2>4. CASE \E level \in BOOLEAN : SetCe(level) \/ SetAutoAck(level)
    BY <2>4 DEF SetCe, SetAutoAck, driver, local, history, wants, CeInv, ReadSteps, WriteSteps
  <2>5. CASE PowerUp \/ PowerDown \/ FlushRx \/ BeginRssi
    BY <2>5 DEF PowerUp, PowerDown, FlushRx, BeginRssi, driver, local, config, history, wants,
       others, CeInv, ReadSteps, WriteSteps
  <2>6. QED
    BY <1>2, <2>1, <2>2, <2>3, <2>4, <2>5 DEF Call
<1>3. CASE SetMode
  BY <1>3 DEF SetMode, SetReceiveMode, SetTransmitMode, PowerUpFirst, RaisePower, EnterMode,
     local, history, wants, others, CeInv, ReadSteps, WriteSteps
<1>4. CASE WriteStep
  BY <1>4 DEF WriteStep, WriteTransmitMode, WritePulse, WritePoll, WriteStatus, WriteRestore,
     ReturnsToRx, CeToRestore, EnterMode, Return, local, config, history, wants, CeInv, ReadSteps,
     WriteSteps
<1>5. CASE ReadStep
  BY <1>5 DEF ReadStep, ReadWidth, ReadFlush, ReadPayload, ReadClear, Return, config, history,
     wants, CeInv, ReadSteps, WriteSteps
<1>6. CASE RssiStep
  BY <1>6 DEF RssiStep, RssiReturn, RssiSample, Return, config, history, wants, CeInv, ReadSteps,
     WriteSteps
<1>7. CASE BootStep
  <2>1. CASE BootDisable
    BY <2>1 DEF BootDisable, CeInv, ReadSteps, WriteSteps
  <2>2. CASE BootConfig \/ BootClear
    BY <2>2 DEF BootConfig, BootClear, config, history, wants, CeInv, ReadSteps, WriteSteps
  <2>3. CASE BootFlush
    BY <2>3 DEF BootFlush, history, wants, CeInv, ReadSteps, WriteSteps
  <2>4. QED
    BY <1>7, <2>1, <2>2, <2>3 DEF BootStep
<1>8. CASE Restart
  BY <1>8 DEF Restart, CeInv, ReadSteps, WriteSteps
<1>9. CASE UNCHANGED vars
  BY <1>9 DEF vars, driver, local, config, history, wants, others, CeInv
<1>10. QED
  BY <1>1, <1>2, <1>3, <1>4, <1>5, <1>6, <1>7, <1>8, <1>9 DEF Next, Advance

LEMMA AskedFor ==
    ASSUME \A n \in WriteCounts : n > 0
    PROVE  Spec => []CeInv
<1>1. Init => CeInv
  BY DEF Init, CeInv, ReadSteps, WriteSteps
<1>2. CeInv /\ [Next]_vars => CeInv'
  BY CeStep
<1>3. QED
  BY <1>1, <1>2, PTL DEF Spec

\* CE is between calls as enable() and disable() left it, if write is only asked
\* for at least one byte, as its header says.
THEOREM CeRestored ==
    ASSUME \A n \in WriteCounts : n > 0
    PROVE  Spec => []CeAsRequested
<1>1. CeInv => CeAsRequested
  BY DEF CeInv, CeAsRequested
<1>2. Spec => []CeInv
  BY AskedFor
<1>3. QED
  BY <1>1, <1>2, PTL

\* A node left in RX with CE high is listening whenever no call is under way.
THEOREM ListeningRestored ==
    ASSUME \A n \in WriteCounts : n > 0
    PROVE  Spec => []ListeningSurvivesCalls
<1>1. CeInv /\ ModeMatchesChip => ListeningSurvivesCalls
  BY DEF CeInv, ModeMatchesChip, ListeningSurvivesCalls, Listening
<1>2. Spec => []CeInv
  BY AskedFor
<1>3. QED
  BY <1>1, <1>2, ModeCorrect, PTL

-----------------------------------------------------------------------------
(* getRSSI. *)

\* The sum so far is the number of hits, except that the last possible one wraps.
RssiInv ==
    /\ sampled \in Nat /\ hits \in Nat
    /\ hits <= sampled /\ sampled <= RssiSamples
    /\ rssi = IF hits = RssiModulus THEN 0 ELSE hits
    /\ pc # "rssi" => sampled = 0 /\ hits = 0 /\ rssi = 0

\* Eight bits hold every count but the last.
LEMMA WrapOnce ==
    ASSUME NEW m \in Nat \ {0}, NEW n \in 0..m
    PROVE  n % m = IF n = m THEN 0 ELSE n
  OBVIOUS

LEMMA RssiStepInv ==
    ASSUME RssiSamples <= RssiModulus, RssiInv, [Next]_vars
    PROVE  RssiInv'
<1> USE RadioLinkAssumption
<1>1. CASE UNCHANGED <<sampled, hits, rssi>> /\ (pc = pc' \/ pc # "rssi")
  BY <1>1 DEF RssiInv
<1>2. CASE pc' # "rssi" /\ ForgetLocals
  BY <1>2 DEF RssiInv, ForgetLocals
<1>3. ASSUME NEW rpd \in 0..1, RssiSample(rpd) PROVE RssiInv'
  <2>1. hits < RssiModulus /\ rssi = hits
    BY <1>3 DEF RssiSample, RssiInv
  <2>2. rssi' = IF hits + rpd = RssiModulus THEN 0 ELSE hits + rpd
    <3>1. hits + rpd \in 0..RssiModulus
      BY <2>1 DEF RssiInv
    <3>2. QED
      BY <1>3, <2>1, <3>1, WrapOnce DEF RssiSample, AddSample
  <2>3. QED
    BY <1>3, <2>2 DEF RssiSample, RssiInv
<1>4. QED
  <2>1. CASE Chip \/ Call \/ SetMode \/ BootStep \/ UNCHANGED vars
    BY <1>1, <2>1 DEF Chip, ChipReceives, ChipStarts, ChipReports, ChipSent, ChipGivesUp, Call,
       PowerUp, PowerDown, SetCe, SetAutoAck, WriteNothing, BeginWrite, BeginRead, FlushRx,
       BeginRssi, SetMode, SetReceiveMode, SetTransmitMode, PowerUpFirst, BootStep, BootDisable,
       BootConfig, BootClear, BootFlush, vars, driver, local
  <2>2. CASE WriteStep \/ ReadStep
    BY <1>1, <1>2, <2>2 DEF WriteStep, WriteTransmitMode, WritePulse, WritePoll, WriteStatus,
       WriteRestore, ReadStep, ReadWidth, ReadFlush, ReadPayload, ReadClear, Return, local
  <2>3. CASE RssiReturn \/ Restart
    BY <1>2, <2>3 DEF RssiReturn, Return, Restart
  <2>4. QED
    BY <1>3, <2>1, <2>2, <2>3 DEF Next, Advance, RssiStep

\* With as many samples as the accumulator has values (256 and 256 in the code)
\* getRSSI returns the number of hits, and 0 only for none or for all of them.
THEOREM RssiCounts ==
    ASSUME RssiSamples <= RssiModulus
    PROVE  Spec => []RssiCountsSamples
<1>1. Init => RssiInv
  BY RadioLinkAssumption DEF Init, RssiInv
<1>2. RssiInv /\ [Next]_vars => RssiInv'
  BY RssiStepInv
<1>3. RssiInv => RssiCountsSamples
  BY DEF RssiInv, RssiCountsSamples
<1>4. QED
  BY <1>1, <1>2, <1>3, PTL DEF Spec

-----------------------------------------------------------------------------
(***************************************************************************)
(* RadioLink implements PacketRadio: Init maps to Init, and a step from a  *)
(* state of the inductive invariant maps to a step or to none.  What a     *)
(* step does to the packets waiting and what it does to the write under    *)
(* way are shown apart, since no step of the driver or the chip does both  *)
(* but a reset's last.                                                     *)
(***************************************************************************)

\* A step that the abstract radio does not see.
Still == UNCHANGED Radio!vars

\* What the abstract radio is a function of.
Seen == <<rxFifo, arrivals, lastRead, writes, acked>>

-----------------------------------------------------------------------------
(* The packets waiting. *)

LEMMA WaitingEmpty == ASSUME rxFifo = <<>> PROVE Waiting = <<>>
  BY DEF Waiting

LEMMA WaitingEmptied == ASSUME rxFifo' = <<>> PROVE Waiting' = <<>>
  BY DEF Waiting

LEMMA WaitingKept == ASSUME UNCHANGED rxFifo PROVE UNCHANGED Waiting
  BY DEF Waiting

LEMMA IdsOf ==
    ASSUME NEW s \in Seq(Packet)
    PROVE  LET ids == [i \in DOMAIN s |-> s[i].id]
           IN  /\ ids \in Seq(Nat) /\ Len(ids) = Len(s)
               /\ \A i \in 1..Len(s) : ids[i] = s[i].id
<1> DEFINE ids == [i \in 1..Len(s) |-> s[i].id]
<1>1. DOMAIN s = 1..Len(s) /\ Len(s) \in Nat
  OBVIOUS
<1>2. \A i \in 1..Len(s) : s[i].id \in Nat
  <2>1. \A i \in 1..Len(s) : s[i] \in Packet
    OBVIOUS
  <2>2. \A p \in Packet : p.id \in Nat
    BY DEF Packet
  <2>3. QED
    BY <2>1, <2>2
<1>3. ids \in Seq(Nat) /\ Len(ids) = Len(s)
  BY <1>1, <1>2
<1>4. QED
  BY <1>1, <1>3

LEMMA SameSequence ==
    ASSUME NEW S, NEW s \in Seq(S), NEW t \in Seq(S), Len(s) = Len(t),
           \A i \in 1..Len(s) : s[i] = t[i]
    PROVE  s = t
  OBVIOUS

LEMMA WaitingGrown ==
    ASSUME rxFifo \in Seq(Packet), NEW x \in Packet, rxFifo' = Append(rxFifo, x)
    PROVE  Waiting' = Append(Waiting, x.id)
<1>1. /\ rxFifo' \in Seq(Packet) /\ Len(rxFifo') = Len(rxFifo) + 1
      /\ \A i \in 1..Len(rxFifo) : rxFifo'[i] = rxFifo[i]
      /\ rxFifo'[Len(rxFifo) + 1] = x
  BY AppendHead
<1>2. Waiting \in Seq(Nat) /\ Len(Waiting) = Len(rxFifo)
      /\ \A i \in 1..Len(rxFifo) : Waiting[i] = rxFifo[i].id
  BY IdsOf DEF Waiting
<1>3. Waiting' \in Seq(Nat) /\ Len(Waiting') = Len(rxFifo')
      /\ \A i \in 1..Len(rxFifo') : Waiting'[i] = rxFifo'[i].id
  BY <1>1, IdsOf DEF Waiting
<1>4. x.id \in Nat
  BY DEF Packet
<1>5. /\ Append(Waiting, x.id) \in Seq(Nat) /\ Len(Append(Waiting, x.id)) = Len(Waiting) + 1
      /\ \A i \in 1..Len(Waiting) : Append(Waiting, x.id)[i] = Waiting[i]
      /\ Append(Waiting, x.id)[Len(Waiting) + 1] = x.id
  BY <1>2, <1>4, AppendHead
<1>6. \A i \in 1..Len(Waiting') : Waiting'[i] = Append(Waiting, x.id)[i]
  <2> SUFFICES ASSUME NEW i \in 1..(Len(rxFifo) + 1)
               PROVE  Waiting'[i] = Append(Waiting, x.id)[i]
    BY <1>1, <1>3
  <2>1. CASE i \in 1..Len(rxFifo)
    <3>1. Append(Waiting, x.id)[i] = rxFifo[i].id
      BY <2>1, <1>2, <1>5
    <3>2. Waiting'[i] = rxFifo'[i].id
      BY <2>1, <1>1, <1>3
    <3>3. rxFifo'[i] = rxFifo[i]
      BY <2>1, <1>1
    <3>4. QED
      BY <3>1, <3>2, <3>3
  <2>2. CASE i = Len(rxFifo) + 1
    <3>1. Append(Waiting, x.id)[i] = x.id
      BY <2>2, <1>2, <1>5
    <3>2. Waiting'[i] = rxFifo'[i].id
      BY <2>2, <1>1, <1>3
    <3>3. QED
      BY <2>2, <1>1, <3>1, <3>2
  <2>3. Len(rxFifo) \in Nat
    OBVIOUS
  <2>4. i \in 1..Len(rxFifo) \/ i = Len(rxFifo) + 1
    BY <2>3
  <2>5. QED
    BY <2>1, <2>2, <2>4
<1>7. Len(Waiting') = Len(Append(Waiting, x.id))
  BY <1>1, <1>2, <1>3, <1>5
<1>8. QED
  BY <1>3, <1>5, <1>6, <1>7, SameSequence

LEMMA WaitingTaken ==
    ASSUME rxFifo \in Seq(Packet), rxFifo # <<>>, rxFifo' = Tail(rxFifo)
    PROVE  Waiting # <<>> /\ Head(Waiting) = Head(rxFifo).id /\ Waiting' = Tail(Waiting)
<1>1. /\ Len(rxFifo) \in Nat \ {0} /\ Head(rxFifo) = rxFifo[1]
      /\ rxFifo' \in Seq(Packet) /\ Len(rxFifo') = Len(rxFifo) - 1
      /\ \A i \in 1..Len(rxFifo') : i + 1 \in 1..Len(rxFifo) /\ rxFifo'[i] = rxFifo[i + 1]
  BY HeadTail
<1>2. Waiting \in Seq(Nat) /\ Len(Waiting) = Len(rxFifo)
      /\ \A i \in 1..Len(rxFifo) : Waiting[i] = rxFifo[i].id
  BY IdsOf DEF Waiting
<1>3. Waiting' \in Seq(Nat) /\ Len(Waiting') = Len(rxFifo')
      /\ \A i \in 1..Len(rxFifo') : Waiting'[i] = rxFifo'[i].id
  BY <1>1, IdsOf DEF Waiting
<1>4. Waiting # <<>>
  BY <1>1, <1>2
<1>5. /\ Head(Waiting) = Waiting[1]
      /\ Tail(Waiting) \in Seq(Nat) /\ Len(Tail(Waiting)) = Len(Waiting) - 1
      /\ \A i \in 1..Len(Tail(Waiting)) : Tail(Waiting)[i] = Waiting[i + 1]
  BY <1>2, <1>4, HeadTail
<1>6. \A i \in 1..Len(Waiting') : Waiting'[i] = Tail(Waiting)[i]
  BY <1>1, <1>2, <1>3, <1>5
<1>7. Len(Waiting') = Len(Tail(Waiting))
  BY <1>1, <1>2, <1>3, <1>5
<1>8. Waiting' = Tail(Waiting)
  BY <1>3, <1>5, <1>6, <1>7, SameSequence
<1>9. QED
  BY <1>1, <1>2, <1>4, <1>5, <1>8

-----------------------------------------------------------------------------
(* The write under way. *)

\* Where no write runs and the transmitter holds nothing there is none.
LEMMA NoFate ==
    ASSUME pc \in {"idle", "toRx", "toTx", "rssi"} \cup ReadSteps
    PROVE  Fate = "none"
  BY DEF Fate, ReadSteps, BootSteps

LEMMA NoFateAfter ==
    ASSUME pc' \in {"idle", "toRx", "toTx", "rssi"} \cup ReadSteps
    PROVE  Fate' = "none"
  BY DEF Fate, ReadSteps, BootSteps

LEMMA SameFate ==
    ASSUME UNCHANGED <<pc, count, acked, writes, maxRT, txFifo>>
    PROVE  Fate' = Fate
  BY DEF Fate, BootSteps

LEMMA StillIf ==
    ASSUME UNCHANGED Seen, Fate' = Fate
    PROVE  Still
  BY WaitingKept DEF Seen, Still, Radio!vars, Radio!reception, Radio!transmission

-----------------------------------------------------------------------------
(* Every step is a step of the abstract radio, or none. *)

LEMMA ChipSteps ==
    ASSUME IInv, Chip
    PROVE  Radio!Receive \/ Radio!Transmit \/ Radio!GiveUp \/ Still
<1>1. CASE ChipReceives
  <2>1. PICK p \in Pipes, w \in Widths :
           rxFifo' = Append(rxFifo, [id |-> arrivals + 1, pipe |-> p, width |-> w])
    BY <1>1 DEF ChipReceives
  <2>2. [id |-> arrivals + 1, pipe |-> p, width |-> w] \in Packet
    BY RadioLinkAssumption DEF IInv, TypeOK, HistoryTypeOK, Packet
  <2>3. Waiting' = Append(Waiting, arrivals + 1)
    BY <2>1, <2>2, WaitingGrown DEF IInv, TypeOK, FifosTypeOK
  <2>4. Fate' = Fate
    BY <1>1, SameFate DEF ChipReceives, driver, local, tx
  <2>5. QED
    BY <1>1, <2>3, <2>4 DEF ChipReceives, Radio!Receive, Radio!transmission
<1>2. CASE ChipStarts
  BY <1>2, SameFate, StillIf DEF ChipStarts, driver, local, flags, history, Seen
<1>3. CASE ChipSent
  <2>1. Loaded /\ pc \in {"wPoll", "bootDisable", "bootConfig"}
    BY <1>3 DEF ChipSent, IInv, TxInv, TxAlways
  <2>2. acked' = writes /\ txFifo' = <<>> /\ UNCHANGED <<pc, count, writes, maxRT>>
    BY <1>3, <2>1, Singleton DEF ChipSent, Loaded, driver, local
  <2>3. txFifo # <<>> /\ acked # writes
    BY <2>1, Singleton DEF Loaded
  <2>4. CASE pc = "wPoll"
    <3>1. Fate = "pending" /\ Fate' = "sent"
      BY <1>3, <2>2, <2>3, <2>4 DEF ChipSent, Fate, IInv, TxInv, TxWriting, Pending, Done, Failed, Flagless
    <3>2. QED
      BY <1>3, <2>2, <3>1, WaitingKept DEF ChipSent, Radio!Transmit, Radio!reception
  <2>5. CASE pc \in {"bootDisable", "bootConfig"}
    <3>1. Fate = "cut" /\ Fate' = "none"
      BY <2>2, <2>3, <2>5 DEF Fate, BootSteps
    <3>2. QED
      BY <1>3, <2>2, <3>1, WaitingKept DEF ChipSent, Radio!Transmit, Radio!reception
  <2>6. QED
    BY <2>1, <2>4, <2>5
<1>4. CASE ChipGivesUp
  <2>1. Loaded /\ pc \in {"wPoll", "bootDisable", "bootConfig"}
    BY <1>4 DEF ChipGivesUp, IInv, TxInv, TxAlways
  <2>2. maxRT' = TRUE /\ UNCHANGED <<pc, count, txFifo, rxFifo, arrivals, writes, acked, lastRead>>
    BY <1>4 DEF ChipGivesUp, driver, local, history
  <2>3. CASE pc = "wPoll"
    <3>1. Fate = "pending" /\ Fate' = "failed"
      BY <1>4, <2>1, <2>2, <2>3 DEF ChipGivesUp, Fate, Loaded, IInv, TxInv, TxWriting, Pending, Done, Failed, Flagless
    <3>2. QED
      BY <2>2, <3>1, WaitingKept DEF Radio!GiveUp, Radio!reception
  <2>4. CASE pc \in {"bootDisable", "bootConfig"}
    <3>1. Fate' = Fate
      BY <2>2, <2>4 DEF Fate, BootSteps
    <3>2. QED
      BY <2>2, <3>1, StillIf DEF Seen
  <2>5. QED
    BY <2>1, <2>3, <2>4
<1>5. QED
  BY <1>1, <1>2, <1>3, <1>4 DEF Chip, ChipReports

LEMMA CallSteps ==
    ASSUME IInv, Call \/ SetMode
    PROVE  Radio!Write \/ Radio!Lose \/ Still
<1>1. CASE \E n \in WriteCounts : BeginWrite(n)
  <2>1. Fate = "none"
    BY <1>1, NoFate DEF BeginWrite
  <2>2. acked # writes + 1 /\ acked' = acked /\ writes' = writes + 1
    BY <1>1 DEF BeginWrite, IInv, TypeOK, HistoryTypeOK, TxInv, TxAlways
  <2>3. Fate' = "pending"
    BY <1>1, <2>2 DEF BeginWrite, Fate
  <2>4. QED
    BY <1>1, <2>1, <2>2, <2>3, WaitingKept DEF BeginWrite, Radio!Write, Radio!reception
<1>2. CASE FlushRx
  <2>1. Fate' = Fate
    BY <1>2, SameFate DEF FlushRx, driver, local, flags, tx, history
  <2>2. QED
    BY <1>2, <2>1, WaitingEmptied DEF FlushRx, history, Radio!Lose, Radio!transmission
<1>3. CASE \/ PowerUp \/ PowerDown \/ WriteNothing \/ BeginRssi
           \/ \E level \in BOOLEAN : SetCe(level) \/ SetAutoAck(level)
           \/ \E p \in Pipes, n \in ReadCounts : BeginRead(p, n)
           \/ SetMode
  <2>1. /\ pc \in {"idle", "toRx", "toTx", "rssi"} \cup ReadSteps
        /\ pc' \in {"idle", "toRx", "toTx", "rssi"} \cup ReadSteps
    BY <1>3 DEF PowerUp, PowerDown, WriteNothing, BeginRssi, SetCe, SetAutoAck, BeginRead, SetMode,
       SetReceiveMode, SetTransmitMode, PowerUpFirst, driver, ReadSteps
  <2>2. UNCHANGED Seen
    BY <1>3 DEF PowerUp, PowerDown, WriteNothing, BeginRssi, SetCe, SetAutoAck, BeginRead, SetMode,
       SetReceiveMode, SetTransmitMode, PowerUpFirst, others, history, Seen
  <2>3. QED
    BY <2>1, <2>2, NoFate, NoFateAfter, StillIf
<1>4. QED
  BY <1>1, <1>2, <1>3 DEF Call

LEMMA WriteIsHeld ==
    ASSUME IInv, WriteStep
    PROVE  Radio!Return \/ Still
<1>1. CASE WriteTransmitMode \/ WritePulse \/ WritePoll
  <2>1. Fate' = Fate
    BY <1>1 DEF WriteTransmitMode, WritePulse, WritePoll, Fate, local, flags, tx, history
  <2>2. QED
    BY <1>1, <2>1, StillIf DEF WriteTransmitMode, WritePulse, WritePoll, tx, history, Seen
<1>2. CASE WriteStatus
  <2>1. count > 0 /\ count \in Int /\ (Done \/ Failed)
    BY <1>2 DEF WriteStatus, IInv, TypeOK, DriverTypeOK, TxInv, TxWriting
  <2>2. Fate' = Fate
    BY <1>2, <2>1 DEF WriteStatus, WriteResult, Fate, Done, Failed, Loaded, history
  <2>3. QED
    BY <1>2, <2>2, StillIf DEF WriteStatus, history, Seen
<1>3. CASE WriteRestore
  <2>1. Fate \in {"sent", "failed"}
    BY <1>3 DEF WriteRestore, Fate
  <2>2. Fate' = "none"
    BY <1>3, NoFateAfter DEF WriteRestore, Return
  <2>3. QED
    BY <1>3, <2>1, <2>2, WaitingKept DEF WriteRestore, history, Radio!Return, Radio!reception
<1>4. QED
  BY <1>1, <1>2, <1>3 DEF WriteStep

LEMMA ReadIsHeld ==
    ASSUME IInv, ReadStep \/ RssiStep
    PROVE  Radio!Read \/ Radio!Lose \/ Still
<1>1. Fate = "none" /\ Fate' = "none"
  <2>1. /\ pc \in {"idle", "toRx", "toTx", "rssi"} \cup ReadSteps
        /\ pc' \in {"idle", "toRx", "toTx", "rssi"} \cup ReadSteps
    BY DEF ReadStep, RssiStep, ReadWidth, ReadFlush, ReadPayload, ReadClear, RssiReturn, RssiSample,
       Return, ReadSteps
  <2>2. QED
    BY <2>1, NoFate, NoFateAfter
<1>2. CASE ReadPayload
  <2>1. rxFifo \in Seq(Packet) /\ rxFifo # <<>>
    BY <1>2 DEF ReadPayload, IInv, TypeOK, FifosTypeOK, RxInv, HeadStays
  <2>2. QED
    BY <1>1, <1>2, <2>1, WaitingTaken DEF ReadPayload, RemainingPackets, Radio!Read, Radio!transmission
<1>3. CASE ReadFlush \/ \E rpd \in 0..1 : RssiSample(rpd)
  BY <1>1, <1>3, WaitingEmptied DEF ReadFlush, RssiSample, history, Radio!Lose, Radio!transmission
<1>4. CASE ReadWidth \/ ReadClear \/ RssiReturn
  BY <1>1, <1>4, StillIf DEF ReadWidth, ReadClear, RssiReturn, history, Seen
<1>5. QED
  BY <1>2, <1>3, <1>4 DEF ReadStep, RssiStep

LEMMA ResetSteps ==
    ASSUME IInv, Restart \/ BootStep
    PROVE  Radio!Reset \/ Radio!Forget \/ Still
<1>1. CASE Restart
  <2>1. Fate' = IF txFifo # <<>> THEN "cut" ELSE "none"
    BY <1>1 DEF Restart, tx, Fate, BootSteps
  <2>2. CASE txFifo # <<>> /\ Fate \notin {"pending", "failed"}
    <3>1. Loaded /\ acked # writes
      BY <2>2 DEF IInv, TxInv, TxAlways, Loaded
    <3>2. pc \in BootSteps
      BY <2>2, <3>1, Singleton DEF Fate, IInv, TypeOK, DriverTypeOK, Steps, ReadSteps, WriteSteps,
         TxInv, TxElsewhere, TxWriting, Calm
    <3>3. Fate' = Fate
      BY <2>1, <2>2, <3>2 DEF Fate, BootSteps
    <3>4. QED
      BY <1>1, <3>3, StillIf DEF Restart, Seen
  <2>3. QED
    BY <1>1, <2>1, <2>2, WaitingKept DEF Restart, Radio!Reset, Radio!reception
<1>2. CASE BootFlush
  <2>1. Fate \in {"none", "cut"} /\ Fate' = "none"
    BY <1>2, NoFateAfter DEF BootFlush, Fate
  <2>2. QED
    BY <1>2, <2>1, WaitingEmptied DEF BootFlush, history, Radio!Forget
<1>3. CASE BootDisable \/ BootConfig \/ BootClear
  <2>1. UNCHANGED Seen /\ UNCHANGED txFifo /\ pc \in BootSteps /\ pc' \in BootSteps
    BY <1>3 DEF BootDisable, BootConfig, BootClear, BootSteps, tx, history, Seen
  <2>2. QED
    BY <2>1, StillIf DEF Fate, BootSteps
<1>4. QED
  BY <1>1, <1>2, <1>3 DEF BootStep

-----------------------------------------------------------------------------
\* The driver on its chip is the radio of PacketRadio, whatever the FIFO's depth and
\* size, and without any bound on packets, writes or resets.
THEOREM Implements == Spec => IsPacketRadio
<1>1. Init => Radio!Init
  <2> SUFFICES ASSUME Init PROVE Radio!Init
    OBVIOUS
  <2>1. Waiting = <<>>
    BY WaitingEmpty DEF Init
  <2>2. Fate = "none"
    BY DEF Init, Fate
  <2>3. QED
    BY <2>1, <2>2 DEF Init, Radio!Init
<1>2. IInv /\ [Next]_vars => [Radio!Next]_Radio!vars
  <2> SUFFICES ASSUME IInv, [Next]_vars PROVE Radio!Next \/ Still
    BY DEF Still
  <2>1. CASE UNCHANGED vars
    BY <2>1, SameFate, StillIf DEF vars, driver, local, flags, tx, history, Seen
  <2>2. CASE Next
    BY <2>2, ChipSteps, CallSteps, WriteIsHeld, ReadIsHeld, ResetSteps DEF Next, Advance, Radio!Next
  <2>3. QED
    BY <2>1, <2>2
<1>3. QED
  BY <1>1, <1>2, InductiveInvariant, PTL DEF Spec, IsPacketRadio, Radio!Spec
=============================================================================
