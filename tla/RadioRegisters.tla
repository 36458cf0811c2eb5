--------------------------- MODULE RadioRegisters ---------------------------
(***************************************************************************)
(* The configuration half of the nRF24L01+ driver                          *)
(* (src/nRF24L01P/nRF24L01P.cpp): every setter as a function from register  *)
(* contents to register contents, every getter as a function of them.       *)
(*                                                                          *)
(* A register whose bits are masked is the set of its one-bits, so that     *)
(* x | m is x \cup m and x & ~m is x \ m.  An address is five bytes, the     *)
(* least significant first.  The setters' error() exits change nothing and  *)
(* are left out: the arguments are those the switch statements accept.      *)
(***************************************************************************)
EXTENDS Integers, Sequences

AllPipes  == 0..5
Width     == 3..5                           \* bytes in an address
Addresses == [1..5 -> 0..255]
Powers    == {0, -6, -12, -18}
Rates     == {250, 1000, 2000}
CrcWidths == {0, 8, 16}
Frequencies == 2400..2525
Sizes     == 0..32

Bits      == 0..7
Registers ==
    [config : SUBSET Bits, rfSetup : SUBSET Bits, rfCh : 0..127, aw : Width,
     enRxAddr : SUBSET AllPipes, enAA : SUBSET AllPipes,
     ard : 0..15, arc : 0..15, feature : SUBSET Bits, dynpd : SUBSET AllPipes,
     rxAddr : [AllPipes -> Addresses], txAddr : Addresses,
     rxPw : [AllPipes -> 0..63]]

-----------------------------------------------------------------------------
(* CONFIG: PRIM_RX is bit 0, PWR_UP 1, CRC0 2, EN_CRC 3. *)

\* The value a field holds the code of; a getter that knows none has error(), 0.
Decode(codes, field) ==
    IF \E v \in DOMAIN codes : codes[v] = field
    THEN CHOOSE v \in DOMAIN codes : codes[v] = field
    ELSE 0

PrimRx  == {0}
PwrUp   == {1}
CrcMask == {2, 3}
CrcBits == [w \in CrcWidths |->
              {b \in CrcMask : (b = 3 /\ w # 0) \/ (b = 2 /\ w = 16)}]

\* Faulty variant: the old width's bits are not cleared.
CrcUnmasked(r, w) == [r EXCEPT !.config = @ \cup CrcBits[w]]

SetCrcWidth(r, w) == [r EXCEPT !.config = (@ \ CrcMask) \cup CrcBits[w]]

\* EN_CRC clear with CRC0 set is no code.
GetCrcWidth(r) == Decode(CrcBits, r.config \cap CrcMask)

\* The CONFIG writes of powerUp, powerDown, setReceiveMode and setTransmitMode.
SetPower(r, on)   == [r EXCEPT !.config = IF on THEN @ \cup PwrUp ELSE @ \ PwrUp]
SetPrimRx(r, on)  == [r EXCEPT !.config = IF on THEN @ \cup PrimRx ELSE @ \ PrimRx]

IsUp(r) == PwrUp \subseteq r.config
IsRx(r) == PrimRx \subseteq r.config

-----------------------------------------------------------------------------
(* RF_CH, and RF_SETUP: RF_PWR in bits 1 and 2, RF_DR in bits 3 and 5. *)

\* Faulty variant: the frequency's low byte, not its distance from 2400.
FrequencyByte(r, f) == [r EXCEPT !.rfCh = f % 256]

SetRfFrequency(r, f) == [r EXCEPT !.rfCh = (f - 2400) % 128]
GetRfFrequency(r)    == r.rfCh + 2400

PwrMask == {1, 2}
PwrBits == [p \in Powers |->
              {b \in PwrMask : (b = 2 /\ p \in {0, -6}) \/ (b = 1 /\ p \in {0, -12})}]

\* Faulty variant: RF_SETUP is written without what it held.
PowerClobbering(r, p) == [r EXCEPT !.rfSetup = PwrBits[p]]

SetRfOutputPower(r, p) == [r EXCEPT !.rfSetup = (@ \ PwrMask) \cup PwrBits[p]]

GetRfOutputPower(r) == Decode(PwrBits, r.rfSetup \cap PwrMask)

DrMask == {3, 5}
DrBits == [d \in Rates |-> {b \in DrMask : (b = 5 /\ d = 250) \/ (b = 3 /\ d = 2000)}]

SetAirDataRate(r, d) == [r EXCEPT !.rfSetup = (@ \ DrMask) \cup DrBits[d]]

\* Both bits set is no code.
GetAirDataRate(r) == Decode(DrBits, r.rfSetup \cap DrMask)

-----------------------------------------------------------------------------
(* RX_PW_Px. *)

SetTransferSize(r, n, p) == [r EXCEPT !.rxPw[p] = n % 64]
GetTransferSize(r, p)    == r.rxPw[p] % 64

-----------------------------------------------------------------------------
(* Addresses.  SETUP_AW is one register for all of them. *)

\* The width low bytes of a go out; the register keeps its other bytes.
Overwrite(old, a, w) == [i \in 1..5 |-> IF i <= w THEN a[i] ELSE old[i]]

\* Faulty variant: every pipe takes the width it is given.
EveryPipe(p) == p \in AllPipes

OwnWidth(p) == p \in {0, 1}

SetRxAddress(r, a, w, p) ==
    [r EXCEPT !.aw = IF OwnWidth(p) THEN w ELSE @,
              !.rxAddr[p] = Overwrite(@, a, IF OwnWidth(p) THEN w ELSE 1),
              !.enRxAddr = @ \cup {p}]

SetTxAddress(r, a, w) == [r EXCEPT !.aw = w, !.txAddr = Overwrite(@, a, w)]

\* The w low bytes as an unsigned long long.
LowBytes(b, w) == [i \in 1..5 |-> IF i <= w THEN b[i] ELSE 0]

\* Pipes 2..5 have one byte of their own, pipe 1's above it.
GetRxAddress(r, p) ==
    IF OwnWidth(p) THEN LowBytes(r.rxAddr[p], r.aw)
    ELSE [LowBytes(r.rxAddr[1], r.aw) EXCEPT ![1] = r.rxAddr[p][1]]

GetTxAddress(r) == LowBytes(r.txAddr, r.aw)

EnablePipe(r, p)  == [r EXCEPT !.enRxAddr = @ \cup {p}]
DisablePipe(r, p) == [r EXCEPT !.enRxAddr = @ \ {p}]

\* Faulty variant: the pipes enabled before the reset stay enabled.
PipesKept(r) == r

DisableAllRxPipes(r) == [r EXCEPT !.enRxAddr = {}]

-----------------------------------------------------------------------------
(* EN_AA, SETUP_RETR, FEATURE and DYNPD. *)

EnableAutoAck(r, p) == [r EXCEPT !.enAA = @ \cup {p}]
DisableAutoAck(r)   == [r EXCEPT !.enAA = {}]

\* delay << 4 masked with 0xF0, count masked with 0x0F.
EnableAutoRetransmit(r, delay, count) ==
    [r EXCEPT !.ard = delay % 16, !.arc = count % 16]
DisableAutoRetransmit(r) == [r EXCEPT !.ard = 0, !.arc = 0]

EnDpl == {2}

EnableDynamicPayload(r, p) ==
    [r EXCEPT !.feature = @ \cup EnDpl, !.dynpd = @ \cup {p}]

\* feature &= !(1 << 2): ! yields 0, so every FEATURE bit goes.  DYNPD stays.
DisableDynamicPayload(r) == [r EXCEPT !.feature = {}]

IsDynamic(r, p) == EnDpl \subseteq r.feature /\ p \in r.dynpd


-----------------------------------------------------------------------------
(* The chip's values at power-on, and what the constructor makes of the     *)
(* values it finds: FEATURE, DYNPD and what belongs to pipes 1..5 stay.     *)

E7s == [i \in 1..5 |-> 231]

PowerOnReset ==
    [config |-> {3}, rfSetup |-> {1, 2, 3}, rfCh |-> 2, aw |-> 5,
     enRxAddr |-> {0, 1}, enAA |-> AllPipes, ard |-> 0, arc |-> 3,
     feature |-> {}, dynpd |-> {},
     rxAddr |-> [p \in AllPipes |->
                   IF p = 0 THEN E7s
                   ELSE [i \in 1..5 |-> IF i = 1 /\ p > 1 THEN 193 + p ELSE 194]],
     txAddr |-> E7s,
     rxPw |-> [p \in AllPipes |-> 0]]

DefaultFrequency == 2402
DefaultPower     == 0
DefaultRate      == 1000
DefaultCrc       == 8
DefaultSize      == 4

\* The radio's own settings, then the addresses and the link.
DefaultRadio(r) ==
    SetCrcWidth(
      SetAirDataRate(
        SetRfOutputPower(
          SetRfFrequency(DisableAllRxPipes([r EXCEPT !.config = {}]),
                         DefaultFrequency),
          DefaultPower),
        DefaultRate),
      DefaultCrc)

DefaultLink(r) ==
    SetTransferSize(
      DisableAutoRetransmit(DisableAutoAck(SetRxAddress(SetTxAddress(r, E7s, 5), E7s, 5, 0))),
      DefaultSize, 0)

Constructed(r) == DefaultLink(DefaultRadio(r))

=============================================================================
