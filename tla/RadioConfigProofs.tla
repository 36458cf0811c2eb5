------------------------- MODULE RadioConfigProofs -------------------------
(***************************************************************************)
(* That the driver's settings do not disturb one another, for every set of *)
(* values the application passes.  A getter decodes a field of a register;  *)
(* the inductive invariant says that each field holds the code of the value *)
(* last asked for, and each address register the bytes.                     *)
(***************************************************************************)
EXTENDS RadioConfig, RadioRegistersProofs

-----------------------------------------------------------------------------
(* The inductive invariant. *)

\* The registers r hold the codes of what a asks for, in mode m.
Fields(r, m, a) ==
    /\ r.rfSetup \cap PwrMask = PwrBits[a.power]
    /\ r.rfSetup \cap DrMask = DrBits[a.rate]
    /\ r.config \cap CrcMask = CrcBits[a.crc]
    /\ r.rfCh = a.frequency - 2400
    /\ r.config \cap PwrUp = IF m = "POWER_DOWN" THEN {} ELSE PwrUp
    /\ m = "RX" => r.config \cap PrimRx = PrimRx
    /\ m = "TX" => r.config \cap PrimRx = {}

Switched(r, a) == r.enRxAddr = a.pipes /\ r.enAA = a.autoAck
Sized(r, a)    == \A p \in AllPipes : r.rxPw[p] = a.size[p]

\* b begins with the bytes given in a.
Begins(b, a) == \A i \in 1..5 : i <= a.width => b[i] = a.address[i]

Sent(r, a)      == r.aw = a.aw /\ Begins(r.txAddr, a.tx)
Addressed(r, a) == \A p \in AllPipes : /\ Begins(r.rxAddr[p], a.rxa[p])
                                       /\ p > 1 => a.rxa[p].width = 1

FieldsHold    == Fields(reg, mode, asked)
PipesHold     == Switched(reg, asked) /\ Sized(reg, asked)
AddressesHold == Sent(reg, asked) /\ Addressed(reg, asked)

IInv == TypeOK /\ FieldsHold /\ PipesHold /\ AddressesHold

-----------------------------------------------------------------------------
(* Every action preserves it. *)

\* setRfOutputPower keeps the data rate, which shares RF_SETUP.
LEMMA AskPowerPreserves ==
    ASSUME IInv, AskPower
    PROVE  IInv'
<1> USE RadioConfigAssumption DEF IInv, TypeOK
<1>0. PICK p \in AskedPowers : reg' = SetRfOutputPower(reg, p)
                /\ asked' = [asked EXCEPT !.power = p] /\ mode' = mode
      BY DEF AskPower
<1> p \in Powers /\ reg \in Registers
      OBVIOUS
<1>1. TypeOK'
      BY ZenonT(60), <1>0, BitsStayBits DEF SetRfOutputPower, Registers, Asked
<1>2. FieldsHold'
      BY <1>0, FieldWritten, FieldKept, CodesInFields, FieldsApart
         DEF SetRfOutputPower, FieldsHold, Fields, Registers, Asked
<1>3. PipesHold'
      BY <1>0 DEF SetRfOutputPower, PipesHold, Switched, Sized, Registers, Asked
<1>4. AddressesHold'
      BY <1>0 DEF SetRfOutputPower, AddressesHold, Sent, Addressed, Begins, Registers, Asked
<1> QED BY <1>1, <1>2, <1>3, <1>4

\* setAirDataRate keeps the power.
LEMMA AskRatePreserves ==
    ASSUME IInv, AskRate
    PROVE  IInv'
<1> USE RadioConfigAssumption DEF IInv, TypeOK
<1>0. PICK d \in AskedRates : reg' = SetAirDataRate(reg, d)
                /\ asked' = [asked EXCEPT !.rate = d] /\ mode' = mode
      BY DEF AskRate
<1> d \in Rates /\ reg \in Registers
      OBVIOUS
<1>1. TypeOK'
      BY ZenonT(60), <1>0, BitsStayBits DEF SetAirDataRate, Registers, Asked
<1>2. FieldsHold'
      BY <1>0, FieldWritten, FieldKept, CodesInFields, FieldsApart
         DEF SetAirDataRate, FieldsHold, Fields, Registers, Asked
<1>3. PipesHold'
      BY <1>0 DEF SetAirDataRate, PipesHold, Switched, Sized, Registers, Asked
<1>4. AddressesHold'
      BY <1>0 DEF SetAirDataRate, AddressesHold, Sent, Addressed, Begins, Registers, Asked
<1> QED BY <1>1, <1>2, <1>3, <1>4

\* setCrcWidth keeps PWR_UP and PRIM_RX, which share CONFIG.
LEMMA AskCrcPreserves ==
    ASSUME IInv, AskCrc
    PROVE  IInv'
<1> USE RadioConfigAssumption DEF IInv, TypeOK
<1>0. PICK w \in AskedCrcs : reg' = SetCrcWidth(reg, w)
                /\ asked' = [asked EXCEPT !.crc = w] /\ mode' = mode
      BY DEF AskCrc
<1> w \in CrcWidths /\ reg \in Registers
      OBVIOUS
<1>1. TypeOK'
      BY ZenonT(60), <1>0, BitsStayBits DEF SetCrcWidth, Registers, Asked
<1>2. FieldsHold'
      BY <1>0, FieldWritten, FieldKept, CodesInFields, FieldsApart
         DEF SetCrcWidth, FieldsHold, Fields, Registers, Asked
<1>3. PipesHold'
      BY <1>0 DEF SetCrcWidth, PipesHold, Switched, Sized, Registers, Asked
<1>4. AddressesHold'
      BY <1>0 DEF SetCrcWidth, AddressesHold, Sent, Addressed, Begins, Registers, Asked
<1> QED BY <1>1, <1>2, <1>3, <1>4

\* setRfFrequency is alone in RF_CH, and 2400..2525 fit its seven bits.
LEMMA AskFrequencyPreserves ==
    ASSUME IInv, AskFrequency
    PROVE  IInv'
<1> USE RadioConfigAssumption DEF IInv, TypeOK
<1>0. PICK f \in AskedFrequencies : reg' = SetRfFrequency(reg, f)
                /\ asked' = [asked EXCEPT !.frequency = f] /\ mode' = mode
      BY DEF AskFrequency
<1> f \in Frequencies /\ reg \in Registers
      OBVIOUS
<1>1. TypeOK'
      BY SMTT(60), <1>0 DEF SetRfFrequency, Registers, Asked, Frequencies
<1>2. FieldsHold'
      BY <1>0 DEF SetRfFrequency, FieldsHold, Fields, Registers, Asked, Frequencies
<1>3. PipesHold'
      BY <1>0 DEF SetRfFrequency, PipesHold, Switched, Sized, Registers, Asked
<1>4. AddressesHold'
      BY <1>0 DEF SetRfFrequency, AddressesHold, Sent, Addressed, Begins, Registers, Asked
<1> QED BY <1>1, <1>2, <1>3, <1>4

\* powerUp keeps the CRC width.
LEMMA PowerUpPreserves ==
    ASSUME IInv, PowerUp
    PROVE  IInv'
<1> USE RadioConfigAssumption DEF IInv, TypeOK
<1>0. reg' = [reg EXCEPT !.config = reg.config \cup PwrUp]
      /\ asked' = asked /\ mode' = "STANDBY" /\ reg \in Registers
      BY DEF PowerUp, SetPower
<1>1. TypeOK'
      BY ZenonT(60), <1>0, BitsStayBits DEF Registers, Modes
<1>2. FieldsHold'
      <2>1. reg'.config \cap PwrUp = IF mode' = "POWER_DOWN" THEN {} ELSE PwrUp
            BY <1>0, FieldWritten DEF Registers
      <2>2. reg'.config \cap CrcMask = reg.config \cap CrcMask
            BY <1>0, BitsApart, FieldsApart DEF Registers
      <2> QED BY <1>0, <2>1, <2>2 DEF FieldsHold, Fields, Registers
<1>3. PipesHold'
      BY <1>0 DEF PipesHold, Switched, Sized, Registers
<1>4. AddressesHold'
      BY <1>0 DEF AddressesHold, Sent, Addressed, Begins, Registers
<1> QED BY <1>1, <1>2, <1>3, <1>4

\* powerDown keeps the CRC width.
LEMMA PowerDownPreserves ==
    ASSUME IInv, PowerDown
    PROVE  IInv'
<1> USE RadioConfigAssumption DEF IInv, TypeOK
<1>0. reg' = [reg EXCEPT !.config = reg.config \ PwrUp]
      /\ asked' = asked /\ mode' = "POWER_DOWN" /\ reg \in Registers
      BY DEF PowerDown, SetPower
<1>1. TypeOK'
      BY ZenonT(60), <1>0, BitsStayBits DEF Registers, Modes
<1>2. FieldsHold'
      <2>1. reg'.config \cap PwrUp = IF mode' = "POWER_DOWN" THEN {} ELSE PwrUp
            BY <1>0, FieldWritten DEF Registers
      <2>2. reg'.config \cap CrcMask = reg.config \cap CrcMask
            BY <1>0, BitsApart, FieldsApart DEF Registers
      <2> QED BY <1>0, <2>1, <2>2 DEF FieldsHold, Fields, Registers
<1>3. PipesHold'
      BY <1>0 DEF PipesHold, Switched, Sized, Registers
<1>4. AddressesHold'
      BY <1>0 DEF AddressesHold, Sent, Addressed, Begins, Registers
<1> QED BY <1>1, <1>2, <1>3, <1>4

\* setReceiveMode and setTransmitMode keep the CRC width and leave the chip powered.
LEMMA SetModePreserves ==
    ASSUME IInv, NEW m \in {"RX", "TX"}, SetMode(m)
    PROVE  IInv'
<1> USE RadioConfigAssumption DEF IInv, TypeOK
<1> DEFINE up == IF mode = "POWER_DOWN" THEN reg.config \cup PwrUp ELSE reg.config
           c  == IF m = "RX" THEN up \cup PrimRx ELSE up \ PrimRx
<1>0. reg' = [reg EXCEPT !.config = c]
      /\ asked' = asked /\ mode' = m /\ reg \in Registers
      BY DEF SetMode, SetPower, SetPrimRx, Registers
<1>a. up \in SUBSET Bits /\ c \in SUBSET Bits
      BY <1>0, BitsStayBits DEF Registers
<1>b. up \cap PwrUp = PwrUp /\ up \cap CrcMask = reg.config \cap CrcMask
      BY BitsApart, FieldsApart DEF FieldsHold, Fields
<1>c. c \cap PwrUp = PwrUp /\ c \cap CrcMask = reg.config \cap CrcMask
      BY <1>b, BitsApart, FieldsApart
<1>d. c \cap PrimRx = IF m = "RX" THEN PrimRx ELSE {}
      OBVIOUS
<1> HIDE DEF up, c
<1>1. TypeOK'
      BY <1>0, <1>a DEF Registers, Modes
<1>2. FieldsHold'
      BY <1>0, <1>c, <1>d DEF FieldsHold, Fields, Registers
<1>3. PipesHold'
      BY <1>0 DEF PipesHold, Switched, Sized, Registers
<1>4. AddressesHold'
      BY <1>0 DEF AddressesHold, Sent, Addressed, Begins, Registers
<1> QED BY <1>1, <1>2, <1>3, <1>4

\* setTransferSize writes one pipe's register.
LEMMA AskSizePreserves ==
    ASSUME IInv, AskSize
    PROVE  IInv'
<1> USE RadioConfigAssumption DEF IInv, TypeOK
<1>0. PICK n \in AskedSizes, p \in SwitchedPipes :
            /\ reg' = [reg EXCEPT !.rxPw[p] = n % 64]
            /\ asked' = [asked EXCEPT !.size[p] = n] /\ mode' = mode
      BY DEF AskSize, SetTransferSize
<1> n \in 0..32 /\ n % 64 = n /\ p \in AllPipes /\ reg \in Registers
      BY DEF Sizes
<1>1. TypeOK'
      <2>1. n \in 0..63 /\ n \in Sizes
            BY DEF Sizes
      <2> QED BY ZenonT(60), <1>0, <2>1 DEF Registers, Asked
<1>2. FieldsHold'
      BY <1>0 DEF FieldsHold, Fields, Registers, Asked
<1>3. PipesHold'
      BY <1>0 DEF PipesHold, Switched, Sized, Registers, Asked
<1>4. AddressesHold'
      BY <1>0 DEF AddressesHold, Sent, Addressed, Begins, Registers, Asked
<1> QED BY <1>1, <1>2, <1>3, <1>4

\* setRxAddress writes one pipe's address, the shared width and the enabling bit.
LEMMA AskRxAddressPreserves ==
    ASSUME IInv, AskRxAddress
    PROVE  IInv'
<1> USE RadioConfigAssumption DEF IInv, TypeOK
<1>0. PICK a \in AskedAddresses, w \in AskedWidths, p \in AddressedPipes :
            /\ reg' = SetRxAddress(reg, a, w, p)
            /\ asked' = [asked EXCEPT !.pipes = @ \cup {p},
                                      !.aw = IF p \in {0, 1} THEN w ELSE @,
                                      !.rxa[p] = [address |-> a,
                                                  width |-> IF p \in {0, 1} THEN w ELSE 1]]
            /\ mode' = mode
      BY DEF AskRxAddress
<1> DEFINE own == IF p \in {0, 1} THEN w ELSE 1
           new == Overwrite(reg.rxAddr[p], a, own)
<1> w \in Width /\ a \in Addresses /\ p \in AllPipes /\ reg \in Registers /\ asked \in Asked
      OBVIOUS
<1>a. own \in 1..5 /\ (p > 1 => own = 1)
      BY DEF Width, AllPipes
<1>b. reg.rxAddr[p] \in Addresses
      BY DEF Registers
<1>c. new \in Addresses /\ \A i \in 1..5 : i <= own => new[i] = a[i]
      BY <1>a, <1>b, Overwritten
<1>d. reg' = [reg EXCEPT !.aw = IF p \in {0, 1} THEN w ELSE @,
                         !.rxAddr[p] = new, !.enRxAddr = @ \cup {p}]
      BY <1>0 DEF SetRxAddress, OwnWidth
<1>e. asked' = [asked EXCEPT !.pipes = @ \cup {p},
                             !.aw = IF p \in {0, 1} THEN w ELSE @,
                             !.rxa[p] = [address |-> a, width |-> own]]
      BY <1>0
<1> HIDE DEF own, new
<1>1. TypeOK'
      <2>1. reg' \in Registers
            BY ZenonT(60), <1>c, <1>d DEF Registers
      <2>2. asked' \in Asked
            BY <1>a, <1>e DEF Asked, AskedAddress
      <2> QED BY <1>0, <2>1, <2>2
<1>2. FieldsHold'
      BY <1>0, <1>d, <1>e DEF FieldsHold, Fields, Registers, Asked
<1>3. PipesHold'
      BY <1>d, <1>e DEF PipesHold, Switched, Sized, Registers, Asked
<1>4. AddressesHold'
      <2>1. reg'.aw = asked'.aw /\ Begins(reg'.txAddr, asked'.tx)
            BY <1>d, <1>e DEF AddressesHold, Sent, Addressed, Begins, Registers, Asked
      <2>2. ASSUME NEW q \in AllPipes
            PROVE  Begins(reg'.rxAddr[q], asked'.rxa[q]) /\ (q > 1 => asked'.rxa[q].width = 1)
            <3>1. CASE q = p
                  <4>1. reg'.rxAddr[q] = new /\ asked'.rxa[q] = [address |-> a, width |-> own]
                        BY <1>d, <1>e, <3>1 DEF Registers, Asked
                  <4> QED BY <1>a, <1>c, <3>1, <4>1 DEF Begins
            <3>2. CASE q # p
                  <4>1. reg'.rxAddr[q] = reg.rxAddr[q] /\ asked'.rxa[q] = asked.rxa[q]
                        BY <1>d, <1>e, <3>2 DEF Registers, Asked
                  <4> QED BY <4>1 DEF AddressesHold, Sent, Addressed, Begins
            <3> QED BY <3>1, <3>2
      <2> QED BY <2>1, <2>2 DEF AddressesHold, Sent, Addressed
<1> QED BY <1>1, <1>2, <1>3, <1>4

\* setTxAddress writes its address and the shared width.
LEMMA AskTxAddressPreserves ==
    ASSUME IInv, AskTxAddress
    PROVE  IInv'
<1> USE RadioConfigAssumption DEF IInv, TypeOK
<1>0. PICK a \in AskedAddresses, w \in AskedWidths :
            /\ reg' = [reg EXCEPT !.aw = w, !.txAddr = Overwrite(reg.txAddr, a, w)]
            /\ asked' = [asked EXCEPT !.aw = w, !.tx = [address |-> a, width |-> w]]
            /\ mode' = mode
      BY DEF AskTxAddress, SetTxAddress
<1> DEFINE new == Overwrite(reg.txAddr, a, w)
<1> w \in Width /\ w \in 1..5 /\ a \in Addresses /\ reg \in Registers /\ asked \in Asked
      BY DEF Width
<1>a. new \in Addresses /\ \A i \in 1..5 : i <= w => new[i] = a[i]
      BY Overwritten DEF Registers
<1> HIDE DEF new
<1>1. TypeOK'
      BY ZenonT(60), <1>0, <1>a DEF new, Registers, Asked, AskedAddress
<1>2. FieldsHold'
      BY <1>0 DEF FieldsHold, Fields, Registers, Asked
<1>3. PipesHold'
      BY <1>0 DEF PipesHold, Switched, Sized, Registers, Asked
<1>4. AddressesHold'
      <2>1. reg'.aw = w /\ reg'.txAddr = new /\ reg'.rxAddr = reg.rxAddr
            BY <1>0 DEF Registers, new
      <2>2. asked'.aw = w /\ asked'.tx = [address |-> a, width |-> w] /\ asked'.rxa = asked.rxa
            BY <1>0 DEF Asked
      <2> QED BY <1>a, <2>1, <2>2 DEF AddressesHold, Sent, Addressed, Begins
<1> QED BY <1>1, <1>2, <1>3, <1>4

\* A step of these changes only the enabled pipes or the auto-acknowledge.
LEMMA SwitchPreserves ==
    ASSUME IInv, AskPipe \/ AskNoPipe \/ AskAutoAck \/ AskNoAutoAck
    PROVE  IInv'
<1> USE RadioConfigAssumption DEF IInv, TypeOK
<1> reg \in Registers /\ asked \in Asked
    OBVIOUS
<1> DEFINE SwitchedTo(e, k) ==
             /\ reg' = [reg EXCEPT !.enRxAddr = e, !.enAA = k]
             /\ asked' = [asked EXCEPT !.pipes = e, !.autoAck = k]
             /\ mode' = mode
<1>a. ASSUME NEW e \in SUBSET AllPipes, NEW k \in SUBSET AllPipes, SwitchedTo(e, k)
      PROVE  IInv'
      <2>1. TypeOK'
            BY ZenonT(60), <1>a DEF Registers, Asked
      <2>2. FieldsHold'
            BY <1>a DEF FieldsHold, Fields, Registers, Asked
      <2>3. PipesHold'
            BY <1>a DEF PipesHold, Switched, Sized, Registers, Asked
      <2>4. AddressesHold'
            BY <1>a DEF AddressesHold, Sent, Addressed, Begins, Registers, Asked
      <2> QED BY <2>1, <2>2, <2>3, <2>4
<1>b. reg.enRxAddr \in SUBSET AllPipes /\ reg.enAA \in SUBSET AllPipes
      /\ asked.pipes = reg.enRxAddr /\ asked.autoAck = reg.enAA
      BY DEF Registers, PipesHold, Switched, Sized
<1>1. CASE AskPipe
      <2>0. mode' = mode
            BY <1>1 DEF AskPipe
      <2>1. PICK p \in SwitchedPipes :
                  \/ reg' = EnablePipe(reg, p) /\ asked' = [asked EXCEPT !.pipes = @ \cup {p}]
                  \/ reg' = DisablePipe(reg, p) /\ asked' = [asked EXCEPT !.pipes = @ \ {p}]
            BY <1>1 DEF AskPipe
      <2>2. CASE reg' = EnablePipe(reg, p) /\ asked' = [asked EXCEPT !.pipes = @ \cup {p}]
            <3>1. SwitchedTo(reg.enRxAddr \cup {p}, reg.enAA)
                  BY <2>0, <1>b, <2>2 DEF EnablePipe, Registers, Asked
            <3> HIDE DEF SwitchedTo
            <3> QED BY <1>a, <1>b, <3>1
      <2>3. CASE reg' = DisablePipe(reg, p) /\ asked' = [asked EXCEPT !.pipes = @ \ {p}]
            <3>1. SwitchedTo(reg.enRxAddr \ {p}, reg.enAA)
                  BY <2>0, <1>b, <2>3 DEF DisablePipe, Registers, Asked
            <3> HIDE DEF SwitchedTo
            <3> QED BY <1>a, <1>b, <3>1
      <2> QED BY <2>1, <2>2, <2>3
<1>2. CASE AskNoPipe
      <2>1. SwitchedTo({}, reg.enAA)
            BY <1>2, <1>b DEF AskNoPipe, DisableAllRxPipes, Registers, Asked
      <2> HIDE DEF SwitchedTo
      <2> QED BY <1>a, <1>b, <2>1
<1>3. CASE AskAutoAck
      <2>1. PICK p \in SwitchedPipes :
                  /\ reg' = [reg EXCEPT !.enAA = @ \cup {p}]
                  /\ asked' = [asked EXCEPT !.autoAck = @ \cup {p}]
                  /\ mode' = mode
            BY <1>3 DEF AskAutoAck, EnableAutoAck
      <2>2. SwitchedTo(reg.enRxAddr, reg.enAA \cup {p})
            BY <1>b, <2>1 DEF Registers, Asked
      <2> HIDE DEF SwitchedTo
      <2> QED BY <1>a, <1>b, <2>2
<1>4. CASE AskNoAutoAck
      <2>1. SwitchedTo(reg.enRxAddr, {})
            BY <1>4, <1>b DEF AskNoAutoAck, DisableAutoAck, Registers, Asked
      <2> HIDE DEF SwitchedTo
      <2> QED BY <1>a, <1>b, <2>1
<1> QED BY <1>1, <1>2, <1>3, <1>4

\* The retransmit and dynamic payload registers are read by no getter here.
LEMMA LinkPreserves ==
    ASSUME IInv, Link
    PROVE  IInv'
<1> USE RadioConfigAssumption DEF IInv, TypeOK
<1> reg \in Registers /\ asked \in Asked
    OBVIOUS
<1>0. /\ reg' \in Registers /\ asked' \in Asked /\ mode' = mode
      /\ reg'.config = reg.config /\ reg'.rfSetup = reg.rfSetup /\ reg'.rfCh = reg.rfCh
      /\ reg'.enRxAddr = reg.enRxAddr /\ reg'.enAA = reg.enAA /\ reg'.rxPw = reg.rxPw
      /\ reg'.aw = reg.aw /\ reg'.txAddr = reg.txAddr /\ reg'.rxAddr = reg.rxAddr
      /\ asked' = asked
      <2>1. CASE AskRetransmit
            <3>1. PICK d \in AskedDelays :
                        /\ reg' = [reg EXCEPT !.ard = d % 16, !.arc = 15 % 16]
                        /\ asked' = asked /\ mode' = mode
                  BY <2>1 DEF AskRetransmit, EnableAutoRetransmit
            <3>2. d % 16 \in 0..15 /\ 15 % 16 \in 0..15
                  OBVIOUS
            <3> QED BY ZenonT(60), <3>1, <3>2 DEF Registers, Asked
      <2>2. CASE AskNoRetransmit
            <3>1. /\ reg' = [reg EXCEPT !.ard = 0, !.arc = 0]
                  /\ asked' = asked /\ mode' = mode
                  BY <2>2 DEF AskNoRetransmit, DisableAutoRetransmit
            <3>2. 0 \in 0..15
                  OBVIOUS
            <3>3. reg' \in Registers /\ asked' \in Asked
                  BY ZenonT(60), <3>1, <3>2 DEF Registers, Asked
            <3> QED BY ZenonT(60), <3>1, <3>3 DEF Registers, Asked
      <2>3. CASE AskDynamicPayload
            <3>1. asked' = asked /\ mode' = mode
                  BY <2>3 DEF AskDynamicPayload
            <3>2. CASE reg' = DisableDynamicPayload(reg)
                  BY <3>1, <3>2 DEF DisableDynamicPayload, Registers
            <3>3. CASE \E p \in SwitchedPipes : reg' = EnableDynamicPayload(reg, p)
                  <4>1. PICK p \in SwitchedPipes :
                              reg' = [reg EXCEPT !.feature = reg.feature \cup EnDpl,
                                                 !.dynpd = reg.dynpd \cup {p}]
                        BY <3>3 DEF EnableDynamicPayload
                  <4>2. /\ reg.feature \cup EnDpl \in SUBSET Bits
                        /\ reg.dynpd \cup {p} \in SUBSET AllPipes
                        BY DEF Registers, EnDpl, Bits
                  <4> QED BY ZenonT(60), <3>1, <4>1, <4>2 DEF Registers
            <3> QED BY <2>3, <3>2, <3>3 DEF AskDynamicPayload
      <2> QED BY <2>1, <2>2, <2>3 DEF Link
<1>1. TypeOK'
      BY <1>0
<1>2. FieldsHold'
      BY <1>0 DEF FieldsHold, Fields, Asked
<1>3. PipesHold'
      BY <1>0 DEF PipesHold, Switched, Sized, Asked
<1>4. AddressesHold'
      BY <1>0 DEF AddressesHold, Sent, Addressed, Begins, Asked
<1> QED BY <1>1, <1>2, <1>3, <1>4


-----------------------------------------------------------------------------
(* The constructor: what it makes of any registers. *)

\* Whatever the registers held: the constructor's settings are made, and what it
\* does not write still agrees with what was asked for.
LEMMA ConstructedHolds ==
    ASSUME NEW r \in Registers, NEW a \in Asked, Sized(r, a), Addressed(r, a)
    PROVE  LET s == Constructed(r)
               b == ByConstructor(a)
           IN  /\ s \in Registers /\ b \in Asked
               /\ Fields(s, "POWER_DOWN", b) /\ Switched(s, b) /\ Sized(s, b)
               /\ Sent(s, b) /\ Addressed(s, b)
<1> DEFINE s == Constructed(r)
           b == ByConstructor(a)
           e7 == [address |-> E7s, width |-> 5]
<1>1. /\ {} \in SUBSET Bits /\ 0 \in Powers /\ 1000 \in Rates /\ 8 \in CrcWidths
      /\ r.rfSetup \in SUBSET Bits
      BY DEF Powers, Rates, CrcWidths, Registers
<1>2. /\ s \in Registers
      /\ s.config = ({} \ CrcMask) \cup CrcBits[8]
      /\ s.rfSetup = (((r.rfSetup \ PwrMask) \cup PwrBits[0]) \ DrMask) \cup DrBits[1000]
      /\ s.rfCh = 2 /\ s.enRxAddr = {0} /\ s.enAA = {} /\ s.aw = 5
      /\ \A i \in 1..5 : s.txAddr[i] = E7s[i] /\ s.rxAddr[0][i] = E7s[i]
      /\ \A p \in AllPipes \ {0} : s.rxAddr[p] = r.rxAddr[p] /\ s.rxPw[p] = r.rxPw[p]
      /\ s.rxPw[0] = 4
      <2> DEFINE d == DefaultRadio(r)
      <2>1. /\ d \in Registers
            /\ d.config = ({} \ CrcMask) \cup CrcBits[8]
            /\ d.rfSetup = (((r.rfSetup \ PwrMask) \cup PwrBits[0]) \ DrMask) \cup DrBits[1000]
            /\ d.rfCh = 2 /\ d.enRxAddr = {} /\ d.rxPw = r.rxPw
            /\ d.txAddr = r.txAddr /\ d.rxAddr = r.rxAddr
            BY DefaultRadioFields
      <2>2. s = DefaultLink(d)
            BY DEF Constructed
      <2> HIDE DEF d, s
      <2> QED BY <2>1, <2>2, DefaultLinkFields
<1> HIDE DEF s
<1>3. /\ s.config \cap CrcMask = CrcBits[8] /\ s.config \cap PwrUp = {}
      /\ s.rfSetup \cap PwrMask = PwrBits[0] /\ s.rfSetup \cap DrMask = DrBits[1000]
      BY <1>1, <1>2, FieldWritten, FieldKept, CodesInFields, FieldsApart
<1>4. /\ b.power = 0 /\ b.rate = 1000 /\ b.crc = 8 /\ b.frequency = 2402 /\ b.aw = 5
      /\ b.pipes = {0} /\ b.autoAck = {} /\ b.tx = e7
      /\ b.size = [a.size EXCEPT ![0] = 4] /\ b.rxa = [a.rxa EXCEPT ![0] = e7]
      /\ b = [a EXCEPT !.power = 0, !.rate = 1000, !.crc = 8, !.frequency = 2402, !.aw = 5,
                       !.pipes = {0}, !.size = b.size, !.autoAck = {},
                       !.tx = e7, !.rxa = b.rxa]
      BY DEF ByConstructor, DefaultPower, DefaultRate, DefaultCrc, DefaultFrequency,
             DefaultSize, Asked
<1> HIDE DEF b
<1>5. e7 \in AskedAddress /\ e7.address = E7s /\ e7.width = 5
      BY DEF E7s, Addresses, AskedAddress
<1> HIDE DEF e7
<1>6. /\ b.size \in [AllPipes -> Sizes] /\ b.size[0] = 4
      /\ b.rxa \in [AllPipes -> AskedAddress] /\ b.rxa[0] = e7
      /\ \A p \in AllPipes \ {0} : b.size[p] = a.size[p] /\ b.rxa[p] = a.rxa[p]
      BY <1>4, <1>5 DEF Asked, AllPipes, Sizes
<1>7. b \in Asked
      <2>1. /\ 0 \in Powers /\ 1000 \in Rates /\ 8 \in CrcWidths /\ 2402 \in Frequencies
            /\ 5 \in Width /\ {0} \in SUBSET AllPipes /\ {} \in SUBSET AllPipes /\ 0 \in Nat
            BY DEF Powers, Rates, CrcWidths, Frequencies, Width, AllPipes
      <2> QED BY <1>4, <1>5, <1>6, <2>1 DEF Asked
<1>8. Fields(s, "POWER_DOWN", b)
      BY <1>2, <1>3, <1>4 DEF Fields
<1>9. Switched(s, b)
      BY <1>2, <1>4 DEF Switched
<1>10. Sized(s, b)
      <2>1. \A p \in AllPipes : r.rxPw[p] = a.size[p]
            BY DEF Sized
      <2>2. /\ s.rxPw[0] = b.size[0]
            /\ \A p \in AllPipes \ {0} : s.rxPw[p] = r.rxPw[p] /\ b.size[p] = a.size[p]
            BY <1>2, <1>6
      <2>3. \A p \in AllPipes : s.rxPw[p] = b.size[p]
            BY <2>1, <2>2
      <2> QED BY <2>3 DEF Sized
<1>11. Sent(s, b)
      BY <1>2, <1>4, <1>5 DEF Sent, Begins
<1>12. Addressed(s, b)
      <2>1. ASSUME NEW p \in AllPipes \ {0}
            PROVE  Begins(s.rxAddr[p], b.rxa[p]) /\ (p > 1 => b.rxa[p].width = 1)
            BY <1>2, <1>6 DEF Addressed
      <2>2. Begins(s.rxAddr[0], b.rxa[0])
            BY <1>2, <1>5, <1>6 DEF Begins
      <2>3. ASSUME NEW p \in AllPipes
            PROVE  Begins(s.rxAddr[p], b.rxa[p]) /\ (p > 1 => b.rxa[p].width = 1)
            <3>1. CASE p = 0
                  BY <2>2, <3>1
            <3>2. CASE p # 0
                  BY <2>1, <3>2
            <3> QED BY <3>1, <3>2
      <2> QED BY <2>3 DEF Addressed
<1> QED BY <1>2, <1>7, <1>8, <1>9, <1>10, <1>11, <1>12 DEF s, b

\* The chip's power-on values, constructed.
LEMMA InitHolds == Init => IInv
<1> SUFFICES ASSUME Init PROVE IInv
    OBVIOUS
<1>1. PowerOnReset \in Registers
      BY DEF PowerOnReset, Registers, E7s, Addresses, AllPipes, Bits, Width
<1>2. AtPowerOn \in Asked
      BY DEF AtPowerOn, PowerOnReset, Asked, AskedAddress, E7s, Addresses, AllPipes,
             Powers, Rates, CrcWidths, Frequencies, Sizes, Width
<1>3. Sized(PowerOnReset, AtPowerOn) /\ Addressed(PowerOnReset, AtPowerOn)
      BY DEF Sized, Addressed, Begins, AtPowerOn, PowerOnReset, AllPipes
<1> QED BY <1>1, <1>2, <1>3, ConstructedHolds
        DEF Init, IInv, TypeOK, Modes, FieldsHold, PipesHold, AddressesHold

\* The constructor, from whatever registers a reset leaves.
LEMMA ConstructPreserves ==
    ASSUME IInv, Construct
    PROVE  IInv'
    BY ConstructedHolds
    DEF Construct, IInv, TypeOK, Modes, FieldsHold, PipesHold, AddressesHold

\* FieldsHold, PipesHold and AddressesHold are inductive together.
THEOREM InductiveInvariant == Spec => []IInv
<1>1. Init => IInv
      BY InitHolds
<1>2. IInv /\ [Next]_vars => IInv'
      <2> SUFFICES ASSUME IInv, [Next]_vars PROVE IInv'
          OBVIOUS
      <2>1. CASE Settings
            BY <2>1, AskPowerPreserves, AskRatePreserves, AskCrcPreserves, AskFrequencyPreserves
            DEF Settings
      <2>2. CASE ModeCalls
            BY <2>2, PowerUpPreserves, PowerDownPreserves, SetModePreserves DEF ModeCalls
      <2>3. CASE Addressing
            BY <2>3, AskRxAddressPreserves, AskTxAddressPreserves DEF Addressing
      <2>4. CASE Switches
            BY <2>4, AskSizePreserves, SwitchPreserves DEF Switches
      <2>5. CASE Link
            BY <2>5, LinkPreserves
      <2>6. CASE Construct
            BY <2>6, ConstructPreserves
      <2>7. CASE UNCHANGED vars
            BY <2>7 DEF vars, IInv, TypeOK, FieldsHold, PipesHold, AddressesHold
      <2> QED BY <2>1, <2>2, <2>3, <2>4, <2>5, <2>6, <2>7 DEF Next
<1> QED BY <1>1, <1>2, PTL DEF Spec

-----------------------------------------------------------------------------
(* The results. *)

\* Registers, mode field and requests always have their types.
THEOREM TypeCorrect == Spec => []TypeOK
<1>1. IInv => TypeOK
      BY DEF IInv
<1> QED BY <1>1, InductiveInvariant, PTL

\* Every getter returns what was last asked for, whatever was set since.
THEOREM SettingsKept == Spec => []SettingsAsAsked
<1>1. IInv => SettingsAsAsked
      <2> SUFFICES ASSUME IInv PROVE SettingsAsAsked
          OBVIOUS
      <2> USE DEF IInv, TypeOK, FieldsHold, Fields
      <2>1. asked.power \in Powers /\ asked.rate \in Rates /\ asked.crc \in CrcWidths
            /\ asked.frequency \in Frequencies
            BY DEF Asked
      <2>2. /\ GetRfOutputPower(reg) = asked.power
            /\ GetAirDataRate(reg) = asked.rate
            /\ GetCrcWidth(reg) = asked.crc
            BY <2>1, Decoded
      <2>3. GetRfFrequency(reg) = asked.frequency
            BY <2>1 DEF GetRfFrequency, Frequencies
      <2>4. IsUp(reg) = (mode # "POWER_DOWN")
            BY DEF IsUp, PwrUp
      <2>5. (mode = "RX" => IsRx(reg)) /\ (mode = "TX" => ~IsRx(reg))
            BY DEF IsRx, PrimRx
      <2> QED BY <2>2, <2>3, <2>4, <2>5 DEF SettingsAsAsked
<1> QED BY <1>1, InductiveInvariant, PTL

\* Sizes, enabled pipes and auto-acknowledge stay apart, pipe by pipe.
THEOREM PipesStayApart == Spec => []PipesAsAsked
<1>1. IInv => PipesAsAsked
      <2> SUFFICES ASSUME IInv PROVE PipesAsAsked
          OBVIOUS
      <2>1. \A p \in AllPipes : asked.size[p] \in Sizes /\ reg.rxPw[p] = asked.size[p]
            BY DEF IInv, TypeOK, Asked, PipesHold, Sized
      <2>2. \A n \in Sizes : n % 64 = n
            BY DEF Sizes
      <2>3. \A p \in AllPipes : reg.rxPw[p] % 64 = asked.size[p]
            BY <2>1, <2>2
      <2> QED BY <2>3 DEF IInv, PipesHold, Switched, PipesAsAsked, GetTransferSize
<1> QED BY <1>1, InductiveInvariant, PTL

\* Each getter returns the bytes of the address last given, as far as the shared
\* width goes, and pipes 2..5 have pipe 1's upper bytes.
THEOREM AddressesKept == Spec => []AddressesAsAsked
<1>1. IInv => AddressesAsAsked
      <2> SUFFICES ASSUME IInv PROVE AddressesAsAsked
          OBVIOUS
      <2> USE DEF IInv, AddressesHold
      <2>1. reg.aw = asked.aw /\ SameBytes(GetTxAddress(reg), asked.tx, reg.aw)
            BY DEF Sent, Begins, SameBytes, GetTxAddress, LowBytes
      <2>2. ASSUME NEW p \in AllPipes, OwnWidth(p)
            PROVE  SameBytes(GetRxAddress(reg, p), asked.rxa[p], reg.aw)
            BY <2>2 DEF Addressed, Begins, SameBytes, GetRxAddress, LowBytes
      <2>3. ASSUME NEW p \in AllPipes, ~OwnWidth(p)
            PROVE  /\ SameBytes(GetRxAddress(reg, p), asked.rxa[p], reg.aw)
                   /\ \A i \in 2..5 : GetRxAddress(reg, p)[i] = GetRxAddress(reg, 1)[i]
            <3>1. p > 1 /\ asked.rxa[p].width = 1 /\ reg.rxAddr[p][1] = asked.rxa[p].address[1]
                  BY <2>3 DEF Addressed, Begins, AllPipes, OwnWidth
            <3>2. GetRxAddress(reg, p) =
                    [LowBytes(reg.rxAddr[1], reg.aw) EXCEPT ![1] = reg.rxAddr[p][1]]
                  BY <2>3 DEF GetRxAddress
            <3>3. GetRxAddress(reg, 1) = LowBytes(reg.rxAddr[1], reg.aw)
                  BY DEF GetRxAddress, OwnWidth
            <3> QED BY <3>1, <3>2, <3>3 DEF SameBytes, LowBytes
      <2>4. \A p \in AllPipes : p > 1 => ~OwnWidth(p)
            BY DEF AllPipes, OwnWidth
      <2> QED BY <2>1, <2>2, <2>3, <2>4 DEF AddressesAsAsked
<1> QED BY <1>1, InductiveInvariant, PTL

=============================================================================
