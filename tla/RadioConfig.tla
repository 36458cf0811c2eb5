---------------------------- MODULE RadioConfig ----------------------------
(***************************************************************************)
(* The nRF24L01+ driver's settings as the application uses them            *)
(* (src/nRF24L01P/nRF24L01P.cpp): any sequence of setters, mode changes and *)
(* resets.  Settings share registers, and setters read, mask and write, so  *)
(* each has to leave the others alone; asked remembers what was asked for.  *)
(***************************************************************************)
EXTENDS RadioRegisters

CONSTANTS           \* what the application passes
    AskedPowers, AskedRates, AskedCrcs, AskedFrequencies, AskedSizes,
    AskedAddresses, AskedWidths,
    AddressedPipes, \* the pipes given addresses
    SwitchedPipes,  \* the pipes given sizes, enabled and disabled
    AskedDelays     \* enableAutoRetransmit's delay

ASSUME RadioConfigAssumption ==
    /\ AskedPowers \subseteq Powers
    /\ AskedRates \subseteq Rates
    /\ AskedCrcs \subseteq CrcWidths
    /\ AskedFrequencies \subseteq Frequencies
    /\ AskedSizes \subseteq Sizes
    /\ AddressedPipes \subseteq AllPipes
    /\ SwitchedPipes \subseteq AllPipes
    /\ AskedAddresses \subseteq Addresses
    /\ AskedWidths \subseteq Width
    /\ AskedDelays \subseteq Nat

VARIABLES
    reg,            \* the chip's registers
    mode,           \* the driver's mode field
    asked           \* history: the arguments of the last calls
vars == <<reg, mode, asked>>

Modes == {"POWER_DOWN", "STANDBY", "RX", "TX"}

\* An address as asked for: its bytes and how many of them were given.
AskedAddress == [address : Addresses, width : 1..5]

Asked ==
    [power : Powers, rate : Rates, crc : CrcWidths, frequency : Frequencies,
     aw : Width, pipes : SUBSET AllPipes,
     size : [AllPipes -> Sizes], autoAck : SUBSET AllPipes,
     tx : AskedAddress, rxa : [AllPipes -> AskedAddress]]

TypeOK == reg \in Registers /\ mode \in Modes /\ asked \in Asked

\* What the constructor asks for; of what it leaves alone, the chip's values.
ByConstructor(a) ==
    [a EXCEPT !.power = DefaultPower, !.rate = DefaultRate, !.crc = DefaultCrc,
              !.frequency = DefaultFrequency, !.aw = 5, !.pipes = {0}, !.size[0] = DefaultSize, !.autoAck = {},
              !.tx = [address |-> E7s, width |-> 5],
              !.rxa[0] = [address |-> E7s, width |-> 5]]

AtPowerOn ==
    [power |-> 0, rate |-> 2000, crc |-> 8, frequency |-> 2402,
     aw |-> 5, pipes |-> {0, 1},
     size |-> PowerOnReset.rxPw, autoAck |-> AllPipes,
     tx |-> [address |-> E7s, width |-> 5],
     rxa |-> [p \in AllPipes |-> [address |-> PowerOnReset.rxAddr[p],
                                  width |-> IF p \in {0, 1} THEN 5 ELSE 1]]]

Init ==
    /\ reg = Constructed(PowerOnReset)
    /\ mode = "POWER_DOWN"
    /\ asked = ByConstructor(AtPowerOn)

-----------------------------------------------------------------------------

AskPower ==
    \E p \in AskedPowers :
       /\ reg' = SetRfOutputPower(reg, p)
       /\ asked' = [asked EXCEPT !.power = p]
       /\ UNCHANGED mode

AskRate ==
    \E d \in AskedRates :
       /\ reg' = SetAirDataRate(reg, d)
       /\ asked' = [asked EXCEPT !.rate = d]
       /\ UNCHANGED mode

AskCrc ==
    \E w \in AskedCrcs :
       /\ reg' = SetCrcWidth(reg, w)
       /\ asked' = [asked EXCEPT !.crc = w]
       /\ UNCHANGED mode

AskFrequency ==
    \E f \in AskedFrequencies :
       /\ reg' = SetRfFrequency(reg, f)
       /\ asked' = [asked EXCEPT !.frequency = f]
       /\ UNCHANGED mode

PowerUp ==
    /\ reg' = SetPower(reg, TRUE)
    /\ mode' = "STANDBY"
    /\ UNCHANGED asked

PowerDown ==
    /\ reg' = SetPower(reg, FALSE)
    /\ mode' = "POWER_DOWN"
    /\ UNCHANGED asked

\* setReceiveMode and setTransmitMode, which power up if need be.
SetMode(m) ==
    /\ reg' = SetPrimRx(IF mode = "POWER_DOWN" THEN SetPower(reg, TRUE) ELSE reg, m = "RX")
    /\ mode' = m
    /\ UNCHANGED asked

AskSize ==
    \E n \in AskedSizes, p \in SwitchedPipes :
       /\ reg' = SetTransferSize(reg, n, p)
       /\ asked' = [asked EXCEPT !.size[p] = n]
       /\ UNCHANGED mode

AskRxAddress ==
    \E a \in AskedAddresses, w \in AskedWidths, p \in AddressedPipes :
       /\ reg' = SetRxAddress(reg, a, w, p)
       /\ asked' = [asked EXCEPT !.pipes = @ \cup {p},
                                 !.aw = IF p \in {0, 1} THEN w ELSE @,
                                 !.rxa[p] = [address |-> a,
                                             width |-> IF p \in {0, 1} THEN w ELSE 1]]
       /\ UNCHANGED mode

AskTxAddress ==
    \E a \in AskedAddresses, w \in AskedWidths :
       /\ reg' = SetTxAddress(reg, a, w)
       /\ asked' = [asked EXCEPT !.aw = w, !.tx = [address |-> a, width |-> w]]
       /\ UNCHANGED mode

AskPipe ==
    /\ \E p \in SwitchedPipes :
          \/ /\ reg' = EnablePipe(reg, p)
             /\ asked' = [asked EXCEPT !.pipes = @ \cup {p}]
          \/ /\ reg' = DisablePipe(reg, p)
             /\ asked' = [asked EXCEPT !.pipes = @ \ {p}]
    /\ UNCHANGED mode

AskNoPipe ==
    /\ reg' = DisableAllRxPipes(reg)
    /\ asked' = [asked EXCEPT !.pipes = {}]
    /\ UNCHANGED mode

AskAutoAck ==
    /\ \E p \in SwitchedPipes :
          /\ reg' = EnableAutoAck(reg, p)
          /\ asked' = [asked EXCEPT !.autoAck = @ \cup {p}]
    /\ UNCHANGED mode

AskNoAutoAck ==
    /\ reg' = DisableAutoAck(reg)
    /\ asked' = [asked EXCEPT !.autoAck = {}]
    /\ UNCHANGED mode

AskRetransmit ==
    /\ \E d \in AskedDelays : reg' = EnableAutoRetransmit(reg, d, 15)
    /\ UNCHANGED <<mode, asked>>

AskNoRetransmit ==
    /\ reg' = DisableAutoRetransmit(reg)
    /\ UNCHANGED <<mode, asked>>

AskDynamicPayload ==
    /\ \/ \E p \in SwitchedPipes : reg' = EnableDynamicPayload(reg, p)
       \/ reg' = DisableDynamicPayload(reg)
    /\ UNCHANGED <<mode, asked>>

\* The microcontroller is reset; the chip keeps its registers.
Construct ==
    /\ reg' = Constructed(reg)
    /\ mode' = "POWER_DOWN"
    /\ asked' = ByConstructor(asked)

Settings == AskPower \/ AskRate \/ AskCrc \/ AskFrequency
ModeCalls == PowerUp \/ PowerDown \/ \E m \in {"RX", "TX"} : SetMode(m)
Addressing == AskRxAddress \/ AskTxAddress
Switches == AskSize \/ AskPipe \/ AskNoPipe \/ AskAutoAck \/ AskNoAutoAck
Link == AskRetransmit \/ AskNoRetransmit \/ AskDynamicPayload

Next == Settings \/ ModeCalls \/ Addressing \/ Switches \/ Link \/ Construct

Spec == Init /\ [][Next]_vars

-----------------------------------------------------------------------------
(* Properties. *)

\* Whatever was set since, in the same register or another, every getter returns
\* the value last asked for, and the power and mode bits are those of the mode
\* field (the masks in nRF24L01P.cpp:231-492).
SettingsAsAsked ==
    /\ GetRfOutputPower(reg) = asked.power
    /\ GetAirDataRate(reg) = asked.rate
    /\ GetCrcWidth(reg) = asked.crc
    /\ GetRfFrequency(reg) = asked.frequency
    /\ IsUp(reg) = (mode # "POWER_DOWN")
    /\ mode = "RX" => IsRx(reg)
    /\ mode = "TX" => ~IsRx(reg)

\* Transfer sizes, enabled pipes and auto-acknowledge, pipe by pipe: a pipe is
\* enabled by setting its address (nRF24L01P.h:293) and disabled by name or with
\* the others.
PipesAsAsked ==
    /\ reg.enRxAddr = asked.pipes
    /\ reg.enAA = asked.autoAck
    /\ \A p \in AllPipes : GetTransferSize(reg, p) = asked.size[p]

\* The bytes b of an address, as far as the asked ones go, are those asked for.
SameBytes(b, a, w) ==
    \A i \in 1..5 : i <= a.width /\ i <= w => b[i] = a.address[i]

\* One address width serves every pipe and the transmitter, the last one given.
\* Up to that width each getter returns the bytes it was given; pipes 2..5 have
\* their low byte and pipe 1's others (nRF24L01P.h:163-166).
AddressesAsAsked ==
    /\ reg.aw = asked.aw
    /\ SameBytes(GetTxAddress(reg), asked.tx, reg.aw)
    /\ \A p \in AllPipes :
          /\ SameBytes(GetRxAddress(reg, p), asked.rxa[p], reg.aw)
          /\ p > 1 => \A i \in 2..5 : GetRxAddress(reg, p)[i] = GetRxAddress(reg, 1)[i]

=============================================================================
