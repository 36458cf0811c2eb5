----------------------------- MODULE RadioLink -----------------------------
(***************************************************************************)
(* The packet path of the nRF24L01+ driver (src/nRF24L01P/nRF24L01P.cpp):  *)
(* mode changes, write, read, getRSSI and the constructor, interleaved     *)
(* with the radio chip they drive.                                         *)
(*                                                                         *)
(* The driver is one thread.  It talks to the chip in SPI transactions, and *)
(* between two of them the chip goes on receiving, finishing a transmission *)
(* or giving one up: pc names the next transaction of the call under way,   *)
(* "idle" when there is none.  The microcontroller may be reset at any      *)
(* moment; the chip keeps its registers and FIFOs, and the constructor runs *)
(* again.                                                                   *)
(***************************************************************************)
EXTENDS Integers, Sequences

CONSTANTS
    Pipes,          \* the receive pipes (NRF24L01P_PIPE_P0 .. P5)
    Widths,         \* payload widths the air can deliver, oversized ones too
    WriteCounts,    \* values the application passes as write's count
    ReadCounts,     \* values the application passes as read's count
    FifoSize,       \* bytes in a payload: _NRF24L01P_TX/RX_FIFO_SIZE, 32
    FifoDepth,      \* payloads the chip's RX FIFO holds, 3
    RssiSamples,    \* iterations of getRSSI's loop, 256
    RssiModulus,    \* values of its uint8_t accumulator, 256
    MaxArrivals,    \* bound: packets the air delivers
    MaxWrites,      \* bound: payloads the application writes
    MaxRestarts     \* bound: resets of the microcontroller

ASSUME RadioLinkAssumption ==
    /\ Pipes \subseteq 0..5
    /\ Widths \subseteq Nat
    /\ WriteCounts \subseteq Int
    /\ ReadCounts \subseteq Int
    /\ FifoSize \in Nat \ {0}
    /\ FifoDepth \in Nat \ {0}
    /\ RssiSamples \in Nat \ {0}
    /\ RssiModulus \in Nat \ {0}
    /\ MaxArrivals \in Nat
    /\ MaxWrites \in Nat
    /\ MaxRestarts \in Nat

VARIABLES
    \* The driver: its mode field and the locals of the call under way, with the
    \* packet a read has taken and, history, the samples that hit in getRSSI.
    mode, pc, count, pipe, savedCe, savedMode, taken, sampled, rssi, hits,
    \* The CE pin and the chip's CONFIG, EN_AA and STATUS bits.
    ce, pwrUp, primRx, autoAck, rxDR, txDS, maxRT,
    \* The chip's FIFOs, and whether it is transmitting.
    txFifo, rxFifo, onAir,
    \* History: what a property needs to look back at.
    arrivals, writes, acked, lastRead, wantCe, wantRx, restarts

local   == <<count, pipe, savedCe, savedMode, taken, sampled, rssi, hits>>
driver  == <<mode, pc, local>>
config  == <<ce, pwrUp, primRx, autoAck>>
flags   == <<rxDR, txDS, maxRT>>
tx      == <<txFifo, onAir>>
\* What the application asked for last: CE's level, and whether RX mode.
wants   == <<wantCe, wantRx>>
\* The history apart from wantRx.
others  == <<arrivals, writes, acked, lastRead, wantCe, restarts>>
history == <<arrivals, writes, acked, lastRead, wants, restarts>>
vars    == <<driver, config, flags, tx, rxFifo, history>>

Modes   == {"UNKNOWN", "POWER_DOWN", "STANDBY", "RX", "TX"}
WriteSteps == {"wMode", "wPulse", "wPoll", "wStatus", "wRestore"}
ReadSteps  == {"rWidth", "rFlush", "rPayload", "rClear"}
BootSteps  == {"bootDisable", "bootConfig", "bootClear", "bootFlush"}
Steps   == {"idle", "toRx", "toTx", "rssi"}
             \cup WriteSteps \cup ReadSteps \cup BootSteps

Packet  == [id : Nat, pipe : 0..5, width : Nat]
NoPacket == [id |-> 0, pipe |-> 0, width |-> 0]

\* Between calls the locals do not exist.
ForgetLocals ==
    /\ count' = 0 /\ pipe' = 0 /\ savedCe' = FALSE /\ savedMode' = "UNKNOWN"
    /\ taken' = NoPacket /\ sampled' = 0 /\ rssi' = 0 /\ hits' = 0

Return == pc' = "idle" /\ ForgetLocals

Clamp(n) == IF n > FifoSize THEN FifoSize ELSE n

-----------------------------------------------------------------------------
(* The chip, as the driver relies on it. *)

\* The receiver is on only in RX with CE high.
Listening == pwrUp /\ primRx /\ ce

\* A packet for an enabled pipe: queued, and RX_DR raised.  With the RX FIFO
\* full the chip discards it, which is no step.
ChipReceives ==
    /\ Listening
    /\ Len(rxFifo) < FifoDepth
    /\ arrivals < MaxArrivals
    /\ arrivals' = arrivals + 1
    /\ \E p \in Pipes, w \in Widths :
          rxFifo' = Append(rxFifo, [id |-> arrivals + 1, pipe |-> p, width |-> w])
    /\ rxDR' = TRUE
    /\ UNCHANGED <<driver, config, txDS, maxRT, tx,
                   writes, acked, lastRead, wants, restarts>>

\* CE high in TX mode starts the oldest payload; MAX_RT blocks the transmitter.
CanStart == pwrUp /\ ~primRx /\ ~maxRT /\ txFifo # <<>>

ChipStarts ==
    /\ ce /\ CanStart /\ ~onAir
    /\ onAir' = TRUE
    /\ UNCHANGED <<driver, config, flags, txFifo, rxFifo, history>>

\* Sent, and acknowledged if auto-acknowledgement is on.
ChipSent ==
    /\ onAir
    /\ onAir' = FALSE
    /\ txFifo' = Tail(txFifo)
    /\ acked' = Head(txFifo)
    /\ txDS' = TRUE
    /\ UNCHANGED <<driver, config, rxDR, maxRT, rxFifo,
                   arrivals, writes, lastRead, wants, restarts>>

\* No acknowledgement after the last retransmission; the payload stays queued.
ChipGivesUp ==
    /\ onAir /\ autoAck
    /\ onAir' = FALSE
    /\ maxRT' = TRUE
    /\ UNCHANGED <<driver, config, rxDR, txDS, txFifo, rxFifo, history>>

-----------------------------------------------------------------------------
(* Mode changes. *)

\* Faulty variant: CONFIG is not written back.
RaisePowerUnwritten == mode' = "STANDBY" /\ UNCHANGED pwrUp

\* powerUp(): PRIM_RX and CE are left as they are.
RaisePower ==
    /\ pwrUp' = TRUE
    /\ mode' = "STANDBY"

PowerUp ==
    /\ pc = "idle"
    /\ RaisePower
    /\ wantRx' = FALSE
    /\ UNCHANGED <<pc, local, ce, primRx, autoAck, flags, tx, rxFifo, others>>

PowerDown ==
    /\ pc = "idle"
    /\ pwrUp' = FALSE
    /\ mode' = "POWER_DOWN"
    /\ wantRx' = FALSE
    /\ UNCHANGED <<pc, local, ce, primRx, autoAck, flags, tx, rxFifo, others>>

\* The call to powerUp() that opens setReceiveMode and setTransmitMode.  It
\* waits 4.5 ms with CE as it was: the chip may receive before PRIM_RX changes.
PowerUpFirst(next) ==
    /\ pc = "idle" /\ mode = "POWER_DOWN"
    /\ RaisePower
    /\ pc' = next
    /\ UNCHANGED <<local, ce, primRx, autoAck, flags, tx, rxFifo, history>>

EnterMode(m) ==
    /\ primRx' = (m = "RX")
    /\ mode' = m

SetReceiveMode ==
    \/ PowerUpFirst("toRx")
    \/ /\ \/ pc = "idle" /\ mode # "POWER_DOWN"
          \/ pc = "toRx"
       /\ EnterMode("RX")
       /\ wantRx' = TRUE
       /\ pc' = "idle"
       /\ UNCHANGED <<local, ce, pwrUp, autoAck, flags, tx, rxFifo, others>>

SetTransmitMode ==
    \/ PowerUpFirst("toTx")
    \/ /\ \/ pc = "idle" /\ mode # "POWER_DOWN"
          \/ pc = "toTx"
       /\ EnterMode("TX")
       /\ wantRx' = FALSE
       /\ pc' = "idle"
       /\ UNCHANGED <<local, ce, pwrUp, autoAck, flags, tx, rxFifo, others>>

\* enable() and disable().
SetCe(level) ==
    /\ pc = "idle"
    /\ ce' = level
    /\ wantCe' = level
    /\ UNCHANGED <<driver, pwrUp, primRx, autoAck, flags, tx, rxFifo,
                   arrivals, writes, acked, lastRead, wantRx, restarts>>

\* enableAutoAcknowledge(pipe 0) and disableAutoAcknowledge().
SetAutoAck(on) ==
    /\ pc = "idle"
    /\ autoAck' = on
    /\ UNCHANGED <<driver, ce, pwrUp, primRx, flags, tx, rxFifo, history>>

-----------------------------------------------------------------------------
(* write(pipe, data, count). *)

\* CE is already low when the count turns out not to be positive.
WriteNothing ==
    /\ pc = "idle"
    /\ \E n \in WriteCounts : n <= 0
    /\ ce' = FALSE
    /\ UNCHANGED <<driver, pwrUp, primRx, autoAck, flags, tx, rxFifo, history>>

\* Save CE and drop it, clear the two flags, load the payload, save the mode.
BeginWrite(n) ==
    /\ pc = "idle" /\ n > 0
    /\ writes < MaxWrites
    /\ savedCe' = ce
    /\ savedMode' = mode
    /\ ce' = FALSE
    /\ txDS' = FALSE
    /\ maxRT' = FALSE
    /\ count' = Clamp(n)
    /\ writes' = writes + 1
    /\ txFifo' = Append(txFifo, writes + 1)
    /\ pc' = "wMode"
    /\ UNCHANGED <<mode, pipe, taken, sampled, rssi, hits, pwrUp, primRx, autoAck, rxDR, onAir,
                   rxFifo, arrivals, acked, lastRead, wants, restarts>>

\* setTransmitMode(): CE is low, so nothing reaches the chip between the
\* powerUp it may start with and the mode change.
WriteTransmitMode ==
    /\ pc = "wMode"
    /\ pwrUp' = (mode = "POWER_DOWN" \/ pwrUp)
    /\ EnterMode("TX")
    /\ pc' = "wPulse"
    /\ UNCHANGED <<local, ce, autoAck, flags, tx, rxFifo, history>>

\* CE high for 10 us and low again: long enough to start a transmission.
WritePulse ==
    /\ pc = "wPulse"
    /\ onAir' = (onAir \/ CanStart)
    /\ pc' = "wPoll"
    /\ UNCHANGED <<mode, local, config, flags, txFifo, rxFifo, history>>

\* The polling loop ends when the chip reports either outcome.
WritePoll ==
    /\ pc = "wPoll"
    /\ txDS \/ maxRT
    /\ pc' = "wStatus"
    /\ UNCHANGED <<mode, local, config, flags, tx, rxFifo, history>>

\* Faulty variants: MAX_RT is not looked at; the payload is not flushed.
WriteResultBlind == count
PayloadsUnflushed == txFifo

\* What the second status read decides: MAX_RT flushes the payload and makes
\* the result -1.
WriteResult == IF maxRT THEN -1 ELSE count
PayloadsLeft == IF maxRT THEN <<>> ELSE txFifo

WriteStatus ==
    /\ pc = "wStatus"
    /\ count' = WriteResult
    /\ txFifo' = PayloadsLeft
    /\ txDS' = FALSE
    /\ maxRT' = FALSE
    /\ pc' = "wRestore"
    /\ UNCHANGED <<mode, pipe, savedCe, savedMode, taken, sampled, rssi, hits, config,
                   rxDR, onAir, rxFifo, history>>

\* Faulty variants: the mode, or CE, is not restored.
NeverReturnsToRx == FALSE
CeLeftLow == FALSE

ReturnsToRx == savedMode = "RX"
CeToRestore == savedCe

\* Back to RX if that is where the call came from, CE as it was, return.
WriteRestore ==
    /\ pc = "wRestore"
    /\ IF ReturnsToRx THEN EnterMode("RX") ELSE UNCHANGED <<mode, primRx>>
    /\ ce' = CeToRestore
    /\ Return
    /\ UNCHANGED <<pwrUp, autoAck, flags, tx, rxFifo, history>>

-----------------------------------------------------------------------------
(* readable(pipe) and read(pipe, data, count). *)

\* Faulty variants: the pipe is not compared, or is off by one.
ReadableAnyPipe(p) == rxDR /\ rxFifo # <<>>
ReadableNextPipe(p) == rxDR /\ rxFifo # <<>> /\ Head(rxFifo).pipe = p + 1

\* RX_DR set, and RX_P_NO (the pipe of the oldest packet, 7 if none) matches.
Readable(p) == rxDR /\ rxFifo # <<>> /\ Head(rxFifo).pipe = p

\* A read with no positive count, or of a pipe that is not readable, returns 0
\* and changes nothing.
BeginRead(p, n) ==
    /\ pc = "idle" /\ n > 0
    /\ Readable(p)
    /\ count' = Clamp(n)
    /\ pipe' = p
    /\ pc' = "rWidth"
    /\ UNCHANGED <<mode, savedCe, savedMode, taken, sampled, rssi, hits, config,
                   flags, tx, rxFifo, history>>

\* R_RX_PL_WID: an impossible width condemns the FIFO.
ReadWidth ==
    /\ pc = "rWidth"
    /\ LET w == Head(rxFifo).width IN
          IF w > FifoSize
            THEN pc' = "rFlush" /\ UNCHANGED count
            ELSE /\ pc' = "rPayload"
                 /\ count' = IF w < count THEN w ELSE count
    /\ UNCHANGED <<mode, pipe, savedCe, savedMode, taken, sampled, rssi, hits,
                   config, flags, tx, rxFifo, history>>

\* The whole RX FIFO goes, RX_DR stays; read returns -1.
ReadFlush ==
    /\ pc = "rFlush"
    /\ rxFifo' = <<>>
    /\ Return
    /\ UNCHANGED <<mode, config, flags, tx, history>>

\* Faulty variant: the payload stays in the FIFO.
RemainingUnpopped == rxFifo

RemainingPackets == Tail(rxFifo)

\* R_RX_PAYLOAD takes the oldest packet, whatever part of it is wanted.
ReadPayload ==
    /\ pc = "rPayload"
    /\ taken' = Head(rxFifo)
    /\ lastRead' = Head(rxFifo).id
    /\ rxFifo' = RemainingPackets
    /\ pc' = "rClear"
    /\ UNCHANGED <<mode, count, pipe, savedCe, savedMode, sampled, rssi, hits, config,
                   flags, tx, arrivals, writes, acked, wants, restarts>>

\* RX_DR is cleared, also for packets still queued; read returns count.
ReadClear ==
    /\ pc = "rClear"
    /\ rxDR' = FALSE
    /\ Return
    /\ UNCHANGED <<mode, config, txDS, maxRT, tx, rxFifo, history>>

-----------------------------------------------------------------------------
(* flushRx() and getRSSI(). *)

FlushRx ==
    /\ pc = "idle"
    /\ rxFifo' = <<>>
    /\ UNCHANGED <<driver, config, flags, tx, history>>

BeginRssi ==
    /\ pc = "idle"
    /\ pc' = "rssi"
    /\ UNCHANGED <<mode, local, config, flags, tx, rxFifo, history>>

\* Faulty variant: = for +=.
LastSample(sum, rpd) == rpd

AddSample(sum, rpd) == (sum + rpd) % RssiModulus

\* One round: add the RPD bit in eight bits, then flush what has arrived.
RssiSample(rpd) ==
    /\ pc = "rssi" /\ sampled < RssiSamples
    /\ rssi' = AddSample(rssi, rpd)
    /\ hits' = hits + rpd
    /\ sampled' = sampled + 1
    /\ rxFifo' = <<>>
    /\ UNCHANGED <<mode, pc, count, pipe, savedCe, savedMode, taken, config, flags,
                   tx, history>>

RssiReturn ==
    /\ pc = "rssi" /\ sampled = RssiSamples
    /\ Return
    /\ UNCHANGED <<mode, config, flags, tx, rxFifo, history>>

-----------------------------------------------------------------------------
(* Reset and the constructor. *)

\* The driver's memory is lost and the CE pin floats; the chip notices nothing.
Restart ==
    /\ restarts < MaxRestarts
    /\ restarts' = restarts + 1
    /\ mode' = "UNKNOWN"
    /\ pc' = "bootDisable"
    /\ ForgetLocals
    /\ ce' \in BOOLEAN
    /\ UNCHANGED <<pwrUp, primRx, autoAck, flags, tx, rxFifo,
                   arrivals, writes, acked, lastRead, wants>>

BootDisable ==
    /\ pc = "bootDisable"
    /\ ce' = FALSE
    /\ wantCe' = FALSE /\ wantRx' = FALSE
    /\ pc' = "bootConfig"
    /\ UNCHANGED <<mode, local, pwrUp, primRx, autoAck, flags, tx, rxFifo,
                   arrivals, writes, acked, lastRead, restarts>>

\* CONFIG = 0 powers the chip down, which abandons a transmission under way.
BootConfig ==
    /\ pc = "bootConfig"
    /\ pwrUp' = FALSE
    /\ primRx' = FALSE
    /\ onAir' = FALSE
    /\ pc' = "bootClear"
    /\ UNCHANGED <<mode, local, ce, autoAck, flags, txFifo, rxFifo, history>>

BootClear ==
    /\ pc = "bootClear"
    /\ rxDR' = FALSE /\ txDS' = FALSE /\ maxRT' = FALSE
    /\ pc' = "bootFlush"
    /\ UNCHANGED <<mode, local, config, tx, rxFifo, history>>

\* Both FIFOs are flushed, the defaults written (no auto-acknowledgement), and
\* the driver is ready.
BootFlush ==
    /\ pc = "bootFlush"
    /\ txFifo' = <<>>
    /\ rxFifo' = <<>>
    /\ autoAck' = FALSE
    /\ mode' = "POWER_DOWN"
    /\ pc' = "idle"
    /\ UNCHANGED <<local, ce, pwrUp, primRx, flags, onAir, history>>

-----------------------------------------------------------------------------
\* Power-on: the chip's reset values, the pin at any level, the constructor next.
Init ==
    /\ mode = "UNKNOWN" /\ pc = "bootDisable"
    /\ count = 0 /\ pipe = 0 /\ savedCe = FALSE /\ savedMode = "UNKNOWN"
    /\ taken = NoPacket /\ sampled = 0 /\ rssi = 0 /\ hits = 0
    /\ ce \in BOOLEAN /\ pwrUp = FALSE /\ primRx = FALSE /\ autoAck = TRUE
    /\ rxDR = FALSE /\ txDS = FALSE /\ maxRT = FALSE
    /\ txFifo = <<>> /\ rxFifo = <<>> /\ onAir = FALSE
    /\ arrivals = 0 /\ writes = 0 /\ acked = 0 /\ lastRead = 0
    /\ wantCe = FALSE /\ wantRx = FALSE /\ restarts = 0

ChipReports == ChipSent \/ ChipGivesUp

Chip == ChipReceives \/ ChipStarts \/ ChipReports

\* What the application may call next.
Call ==
    \/ PowerUp \/ PowerDown
    \/ \E level \in BOOLEAN : SetCe(level) \/ SetAutoAck(level)
    \/ WriteNothing
    \/ \E n \in WriteCounts : BeginWrite(n)
    \/ \E p \in Pipes, n \in ReadCounts : BeginRead(p, n)
    \/ FlushRx \/ BeginRssi

\* What the driver does next in the call under way.
WriteStep ==
    WriteTransmitMode \/ WritePulse \/ WritePoll \/ WriteStatus \/ WriteRestore
ReadStep  == ReadWidth \/ ReadFlush \/ ReadPayload \/ ReadClear
RssiStep  == RssiReturn \/ \E rpd \in 0..1 : RssiSample(rpd)
BootStep  == BootDisable \/ BootConfig \/ BootClear \/ BootFlush

Advance == WriteStep \/ ReadStep \/ RssiStep \/ BootStep

SetMode == SetReceiveMode \/ SetTransmitMode

Next == Chip \/ Call \/ SetMode \/ Advance \/ Restart

Spec == Init /\ [][Next]_vars

\* The program counter moves on while a call is under way, and a transmission
\* ends: by TX_DS, or by MAX_RT after finitely many retransmissions.
SetModeReturns == pc \in {"toRx", "toTx"} /\ SetMode

LiveSpec == Spec /\ WF_vars(Advance \/ SetModeReturns) /\ WF_vars(ChipReports)

-----------------------------------------------------------------------------
(* The abstract radio: what has become of the payload can be told from pc. *)

Fate ==
    IF pc \in {"wMode", "wPulse", "wPoll", "wStatus"}
    THEN IF acked = writes THEN "sent" ELSE IF maxRT THEN "failed" ELSE "pending"
    ELSE IF pc = "wRestore" THEN IF count > 0 THEN "sent" ELSE "failed"
    ELSE IF pc \in BootSteps /\ txFifo # <<>> THEN "cut"
    ELSE "none"

Waiting == [i \in DOMAIN rxFifo |-> rxFifo[i].id]

Radio == INSTANCE PacketRadio
         WITH waiting <- Waiting, arrived <- arrivals, given <- lastRead,
              writing <- Fate, written <- writes, sent <- acked

-----------------------------------------------------------------------------
(* Properties. *)

DriverTypeOK ==
    /\ mode \in Modes /\ pc \in Steps
    /\ count \in Int /\ pipe \in 0..5
    /\ savedCe \in BOOLEAN /\ savedMode \in Modes
    /\ taken \in Packet
    /\ sampled \in Nat /\ hits \in Nat /\ rssi \in 0..(RssiModulus - 1)

ChipTypeOK ==
    /\ ce \in BOOLEAN /\ pwrUp \in BOOLEAN /\ primRx \in BOOLEAN /\ autoAck \in BOOLEAN
    /\ rxDR \in BOOLEAN /\ txDS \in BOOLEAN /\ maxRT \in BOOLEAN /\ onAir \in BOOLEAN

FifosTypeOK ==
    /\ txFifo \in Seq(Nat) /\ Len(txFifo) <= 1
    /\ rxFifo \in Seq(Packet) /\ Len(rxFifo) <= FifoDepth

HistoryTypeOK ==
    /\ arrivals \in Nat /\ writes \in Nat /\ acked \in Nat /\ lastRead \in Nat
    /\ wantCe \in BOOLEAN /\ wantRx \in BOOLEAN /\ restarts \in Nat

\* Every variable has its type; the TX FIFO never holds two payloads, though
\* the chip has room for three.
TypeOK == DriverTypeOK /\ ChipTypeOK /\ FifosTypeOK /\ HistoryTypeOK

\* Between calls the cached mode field agrees with the chip's CONFIG register,
\* whatever was called, interrupted or reset before (mode, every method).
ModeMatchesChip ==
    pc = "idle" =>
        /\ mode # "UNKNOWN"
        /\ mode = "POWER_DOWN" <=> ~pwrUp
        /\ mode = "RX" => primRx
        /\ mode = "TX" => ~primRx

\* Between calls the transmitter has nothing left over from any earlier write,
\* completed, failed or cut short by a reset: no payload, no flag, no carrier.
TxQuiet ==
    pc = "idle" => txFifo = <<>> /\ ~onAir /\ ~txDS /\ ~maxRT

\* What write is about to return is true of the payload of this very call:
\* a positive count exactly when the chip reported that payload done.
WriteReportsTruth ==
    pc = "wRestore" => (count > 0 <=> acked = writes)

\* The chip never transmits a payload of a call that is over: a write that
\* returned -1 stays unsent.
OnlyCurrentPayloadIsSent ==
    [][acked' # acked => acked' = writes /\ pc \in {"wPoll"} \cup BootSteps]_vars

\* What read is about to return comes from a packet of the pipe asked for, no
\* longer than the packet and never from one of impossible width, although
\* packets keep arriving between readable() and the transfer.
ReadIsHonest ==
    pc = "rClear" =>
        /\ taken.pipe = pipe
        /\ count <= taken.width /\ taken.width <= FifoSize

\* Packets are read at most once and in the order they arrived: everything
\* queued is newer than the last packet handed out, and sorted.
ReadsInOrder ==
    /\ \A i \in 1..Len(rxFifo) : lastRead < rxFifo[i].id /\ rxFifo[i].id <= arrivals
    /\ \A i, j \in 1..Len(rxFifo) : i < j => rxFifo[i].id < rxFifo[j].id

\* A node that listens goes on listening: if setReceiveMode and enable are the
\* last it asked for, the receiver is on whenever a call has returned, although
\* each write switches the chip to transmit and lowers CE.
ListeningSurvivesCalls ==
    pc = "idle" /\ wantRx /\ wantCe => Listening

\* CE is, between calls, at the level enable() or disable() last gave it: every
\* method that lowers it puts it back ("Save the CE state", write, setRegister).
CeAsRequested ==
    pc = "idle" => ce = wantCe

\* getRSSI's eight-bit sum is the number of samples above the threshold, unless
\* every one of the 256 was, when it is 0.
RssiCountsSamples ==
    pc = "rssi" /\ sampled = RssiSamples =>
        rssi = IF hits = RssiModulus THEN 0 ELSE hits

\* readable: "true if there is data waiting in the given pipe" (nRF24L01P.h).
WaitingPacketIsReadable ==
    pc = "idle" /\ rxFifo # <<>> => Readable(Head(rxFifo).pipe)

\* The driver and the chip together are the radio that PacketRadio promises:
\* through all interleavings, resets included, each packet is read at most once
\* and in order, each payload goes out at most once and within its own write, and
\* the write's result is what became of it (write, read, the constructor).
IsPacketRadio == Radio!Spec

\* Every call returns and every boot completes: in particular write's polling
\* loop, which has no timeout, always sees TX_DS or MAX_RT.
CallsReturn == pc # "idle" ~> pc = "idle"

\* An application that polls: it comes back again and again to read every pipe.
Polls == \A p \in Pipes : SF_vars(\E n \in ReadCounts : BeginRead(p, n))

\* A polling application takes the oldest packet if RX_DR announces it between
\* two calls.
FlaggedPacketIsTaken ==
    Polls =>
    \A i \in 1..MaxArrivals :
        (pc = "idle" /\ rxDR /\ rxFifo # <<>> /\ Head(rxFifo).id = i)
            ~> (rxFifo = <<>> \/ Head(rxFifo).id # i)
=============================================================================
