------------------------------- MODULE Dht11 -------------------------------
(***************************************************************************)
(* The temperature and humidity sensor (src/dht11/Dht11.cpp): read() polls  *)
(* one wire while the sensor drives it.  After a start pulse the sensor     *)
(* answers, low and high, and sends five bytes, for each bit a low and then *)
(* a short or a long high.  The driver counts the bits by the level changes *)
(* it sees; every wait for a change ends after LoopLimit polls.             *)
(*                                                                          *)
(* The sensor may stop at any point or answer late, and an interrupt may    *)
(* keep the driver from polling: it then misses a change of level, or       *)
(* measures a pulse wrongly.  These are counted as slips.                   *)
(***************************************************************************)
EXTENDS Integers, FiniteSets, FiniteSetsExt

CONSTANTS
    ByteBits,       \* bits in a byte, 8
    LoopLimit,      \* polls before a wait is given up, 10000
    SettleTime,     \* what the start-up timer must reach, 1500 ms
    Transmissions,  \* the five bytes a sensor may send
    MaxSlips        \* bound: slips within one transfer

\* A byte is the set of its bits that are one.
Bits == 0..(ByteBits - 1)
Bytes == 0..4
Nothing == [b \in Bytes |-> {}]
TotalBits == 5 * ByteBits

Value(b) == MapThenSumSet(LAMBDA k : 2 ^ k, b)

\* Faulty variant: the sum is not compared.
AnySumHolds(b) == TRUE

\* The uint8_t sum of the first and third byte; the others "are always zero".
ChecksumHolds(b) == Value(b[4]) = (Value(b[0]) + Value(b[2])) % 2 ^ ByteBits

ASSUME Dht11Assumption ==
    /\ ByteBits \in Nat \ {0}
    /\ LoopLimit \in Nat
    /\ SettleTime \in Nat
    /\ MaxSlips \in Nat
    /\ Transmissions \subseteq [Bytes -> SUBSET Bits]

\* What the driver relies on.
ASSUME SensorAssumption ==
    \A t \in Transmissions :
        /\ t[1] = {} /\ t[3] = {}
        /\ Value(t[4]) = (Value(t[0]) + Value(t[2])) % 2 ^ ByteBits

VARIABLES
    \* The object, and the locals of the read under way.
    humidity, temperature, pc, bits, idx, cnt, i, loopCnt, long, result,
    \* Its start-up timer.
    timer, running,
    \* The sensor: where it is in what it sends.
    phase, byte, bit, sent,
    \* Whether the driver has seen the present level, and history: what went
    \* wrong in the transfer.
    seen, slips, late

values   == <<humidity, temperature>>
position == <<idx, cnt, i>>
locals   == <<bits, position, loopCnt, long>>
clock    == <<timer, running>>
sensor   == <<phase, byte, bit, sent>>
faults   == <<slips, late>>
vars     == <<values, pc, locals, result, clock, sensor, seen, faults>>

Results == {"none", "OK", "ERROR_CHECKSUM", "ERROR_TIMEOUT"}
Waits == {"ackLow", "ackHigh", "bitLow", "bitHigh"}
Steps == {"idle", "settle", "start"} \cup Waits
Phases == {"silent", "ackLow", "ackHigh", "low", "high", "end", "released"}

Level(p) == IF p \in {"ackLow", "low", "end"} THEN 0 ELSE 1

\* Between reads the locals do not exist.
NoLocals ==
    /\ bits' = Nothing /\ idx' = 0 /\ cnt' = ByteBits - 1 /\ i' = 0
    /\ loopCnt' = 0 /\ long' = FALSE

Return(r) == pc' = "idle" /\ result' = r /\ NoLocals

-----------------------------------------------------------------------------
(* The sensor, as the driver relies on it. *)

NextByte(b, k) == IF k = 0 THEN b + 1 ELSE b
NextBit(k) == IF k = 0 THEN ByteBits - 1 ELSE k - 1

LastBit == byte = 4 /\ bit = 0

Advance ==
    \/ phase = "silent" /\ phase' = "ackLow" /\ UNCHANGED <<byte, bit>>
    \/ phase = "ackLow" /\ phase' = "ackHigh" /\ UNCHANGED <<byte, bit>>
    \/ phase = "ackHigh" /\ phase' = "low" /\ UNCHANGED <<byte, bit>>
    \/ phase = "low" /\ phase' = "high" /\ UNCHANGED <<byte, bit>>
    \/ /\ phase = "high" /\ ~LastBit
       /\ phase' = "low" /\ byte' = NextByte(byte, bit) /\ bit' = NextBit(bit)
    \/ phase = "high" /\ LastBit /\ phase' = "end" /\ UNCHANGED <<byte, bit>>
    \/ phase = "end" /\ phase' = "released" /\ UNCHANGED <<byte, bit>>

\* A change of level that the driver is in time to see, or that nobody waits for.
SensorMoves ==
    /\ seen \/ pc \notin Waits
    /\ Advance
    /\ seen' = FALSE
    /\ UNCHANGED <<values, pc, locals, result, clock, sent, faults>>

\* A second change before the driver polls: a level was missed.  If it was a low
\* one, the high pulses around it are one to the driver, and long.
SensorOutruns ==
    /\ ~seen /\ pc \in Waits
    /\ slips < MaxSlips
    /\ slips' = slips + 1
    /\ Advance
    /\ long' = (long \/ (pc = "bitHigh" /\ Level(phase) = 0))
    /\ UNCHANGED <<values, pc, bits, position, loopCnt, result, clock, sent, seen, late>>

-----------------------------------------------------------------------------
(* The timer. *)

\* Faulty variant: the constructor does not start it.
TimerForgotten == FALSE

\* The constructor starts the timer; the first read stops it for good.
TimerStarts == TRUE

\* Readings beyond SettleTime are not told apart.
ClockTicks ==
    /\ running /\ timer < SettleTime
    /\ timer' = timer + 1
    /\ UNCHANGED <<values, pc, locals, result, running, sensor, seen, faults>>

-----------------------------------------------------------------------------
(* read(). *)

BeginRead ==
    /\ pc = "idle"
    /\ pc' = "settle"
    /\ result' = "none"
    /\ UNCHANGED <<values, locals, clock, sensor, seen, faults>>

Settle ==
    /\ pc = "settle"
    /\ timer >= SettleTime
    /\ running' = FALSE
    /\ pc' = "start"
    /\ UNCHANGED <<values, locals, result, timer, sensor, seen, faults>>

\* 18 ms low, 40 us high, then an input: the sensor makes ready to answer.
StartPulse ==
    /\ pc = "start"
    /\ phase' = "silent" /\ byte' = 0 /\ bit' = ByteBits - 1
    /\ sent' \in Transmissions
    /\ seen' = TRUE /\ slips' = 0 /\ late' = FALSE
    /\ loopCnt' = LoopLimit
    /\ pc' = "ackLow"
    /\ UNCHANGED <<values, bits, position, long, result, clock>>

\* The level that each of the loops waits to end.
Awaited(step) == IF step \in {"ackLow", "bitLow"} THEN 0 ELSE 1

Unchanged == pc \in Waits /\ Level(phase) = Awaited(pc)
Changed(step) == pc = step /\ Level(phase) # Awaited(step)

Exhausted == loopCnt = 0

PollAgain ==
    /\ Unchanged /\ ~Exhausted
    /\ loopCnt' = loopCnt - 1
    /\ seen' = TRUE
    /\ UNCHANGED <<values, pc, bits, position, long, result, clock, sensor, faults>>

GiveUp ==
    /\ Unchanged /\ Exhausted
    /\ Return("ERROR_TIMEOUT")
    /\ UNCHANGED <<values, clock, sensor, seen, faults>>

\* The next wait; its first poll is the one that ended this one.
GoOn(step) ==
    /\ pc' = step
    /\ loopCnt' = LoopLimit
    /\ seen' = TRUE
    /\ UNCHANGED <<values, result, clock, sensor, slips>>

\* An answer that has not begun is taken for the end of its low part.
AckLowEnds ==
    /\ Changed("ackLow")
    /\ late' = (phase = "silent")
    /\ GoOn("ackHigh")
    /\ UNCHANGED <<bits, position, long>>

AckHighEnds ==
    /\ Changed("ackHigh")
    /\ GoOn("bitLow")
    /\ UNCHANGED <<bits, position, long, late>>

\* The high pulse that the timer t is started for.
BitLowEnds ==
    /\ Changed("bitLow")
    /\ long' = (phase = "ackHigh" \/ (phase = "high" /\ bit \in sent[byte]))
    /\ GoOn("bitHigh")
    /\ UNCHANGED <<bits, position, late>>

\* Faulty variants: cnt is never set back; one bit too many is read; the bits of a
\* byte are stored in the wrong order.
BitAfterOnly(k) == k - 1
OneTooMany == i = TotalBits
ReceivedReversed(one) ==
    [bits EXCEPT ![idx] = IF one THEN @ \cup {ByteBits - 1 - cnt} ELSE @]

BitAfter(k) == IF k = 0 THEN ByteBits - 1 ELSE k - 1
AllRead == i + 1 = TotalBits

\* bits[idx] |= 1 << cnt if the pulse was long; what was measured may be wrong.
Received(one) ==
    [bits EXCEPT ![idx] = IF one THEN @ \cup {cnt} ELSE @]

Measure(one) ==
    \/ one = long /\ UNCHANGED slips
    \/ one # long /\ slips < MaxSlips /\ slips' = slips + 1

BitHighEnds ==
    /\ Changed("bitHigh") /\ ~AllRead
    /\ \E one \in BOOLEAN : Measure(one) /\ bits' = Received(one)
    /\ cnt' = BitAfter(cnt)
    /\ idx' = NextByte(idx, cnt)
    /\ i' = i + 1
    /\ pc' = "bitLow" /\ loopCnt' = LoopLimit /\ seen' = TRUE /\ long' = FALSE
    /\ UNCHANGED <<values, result, clock, sensor, late>>

\* The last bit: both values are replaced, then the sum is looked at.
Finish ==
    /\ Changed("bitHigh") /\ AllRead
    /\ \E one \in BOOLEAN :
          /\ Measure(one)
          /\ humidity' = Value(Received(one)[0])
          /\ temperature' = Value(Received(one)[2])
          /\ Return(IF ChecksumHolds(Received(one)) THEN "OK" ELSE "ERROR_CHECKSUM")
    /\ seen' = TRUE
    /\ UNCHANGED <<clock, sensor, late>>

-----------------------------------------------------------------------------
\* The constructor, at power-on and after a reset; the sensor is not reset.
Construct ==
    /\ humidity' = 0 /\ temperature' = 0
    /\ Return("none")
    /\ timer' = 0 /\ running' = TimerStarts
    /\ UNCHANGED <<sensor, seen, faults>>

Init ==
    /\ humidity = 0 /\ temperature = 0 /\ pc = "idle" /\ result = "none"
    /\ bits = Nothing /\ idx = 0 /\ cnt = ByteBits - 1 /\ i = 0
    /\ loopCnt = 0 /\ long = FALSE
    /\ timer = 0 /\ running = TimerStarts
    /\ phase = "released" /\ byte = 4 /\ bit = 0 /\ sent = Nothing
    /\ seen = TRUE /\ slips = 0 /\ late = FALSE

Read ==
    \/ Settle \/ StartPulse \/ PollAgain \/ GiveUp
    \/ AckLowEnds \/ AckHighEnds \/ BitLowEnds \/ BitHighEnds \/ Finish

Next == SensorMoves \/ SensorOutruns \/ ClockTicks \/ BeginRead \/ Read \/ Construct

Spec == Init /\ [][Next]_vars

\* The processor goes on polling and its clock runs.  Nothing is asked of the
\* sensor.
LiveSpec == Spec /\ WF_vars(Read) /\ WF_vars(ClockTicks)

-----------------------------------------------------------------------------
(* Properties. *)

\* The constructor's zero, or the value of a byte.
Readings == {0} \cup {Value(b) : b \in SUBSET Bits}

TypeOK ==
    /\ humidity \in Readings /\ temperature \in Readings
    /\ pc \in Steps /\ result \in Results
    /\ bits \in [Bytes -> SUBSET Bits]
    /\ idx \in 0..5 /\ cnt \in Bits /\ i \in 0..TotalBits
    /\ loopCnt \in 0..LoopLimit /\ long \in BOOLEAN
    /\ timer \in 0..SettleTime /\ running \in BOOLEAN
    /\ phase \in Phases /\ byte \in Bytes /\ bit \in Bits
    /\ sent \in [Bytes -> SUBSET Bits]
    /\ seen \in BOOLEAN /\ slips \in 0..MaxSlips /\ late \in BOOLEAN

Disturbances == slips + (IF late THEN 1 ELSE 0)

\* A read that returns OK has the values the sensor sent, even if one thing went
\* wrong: a pulse measured wrongly, a level missed, or an answer that came so late
\* that every bit is taken for the next one (read's checksum and its timeouts).
OkMeansTrue ==
    result = "OK" /\ Disturbances <= 1 =>
        humidity = Value(sent[0]) /\ temperature = Value(sent[2])

\* A checksum is only wrong when something went wrong on the wire: bits are
\* counted into the right places of the right bytes.
ErrorIsExplained == result = "ERROR_CHECKSUM" => Disturbances > 0

\* Every bit is written within the array bits[5].
WithinArray == pc \in Waits => idx <= 4

\* A read returns, though the sensor may fall silent at any point and the timer
\* that it waits for is stopped by the first read and never started again.
ReadReturns == pc # "idle" ~> pc = "idle"
=============================================================================
