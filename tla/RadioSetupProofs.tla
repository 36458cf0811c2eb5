-------------------------- MODULE RadioSetupProofs --------------------------
(***************************************************************************)
(* What set-up achieves for any number of boards and any addresses.  A      *)
(* board's registers depend only on the setters executed since the          *)
(* constructor, whatever was in them before: Common, AsNode and AsGateway   *)
(* say which fields are settled after n setters.                            *)
(***************************************************************************)
EXTENDS RadioSetup, RadioRegistersProofs

\* After n setters of either program; n is -1 before the constructor.
Common(r, n) ==
    /\ r.aw = 5
    /\ n >= 0 => r.enAA = {}
    /\ n >= 2 => PwrUp \subseteq r.config
    /\ n >= 3 => r.rfSetup \cap DrMask = DrBits[250]
    /\ n >= 5 => r.rfCh = 8
    /\ n >= 6 => r.config \cap CrcMask = CrcBits[8]

AsNode(r, n, address) ==
    /\ n >= 0 => r.enRxAddr = {0}
    /\ n >= 7 => r.txAddr = address
    /\ n >= 8 => r.rxAddr[0] = address
    /\ n >= 9 => r.rxPw[0] = 32
    /\ n >= 10 => PrimRx \subseteq r.config

AsGateway(r, n) ==
    /\ n >= 0 => r.enRxAddr = {0} \cup {p \in GatewayPipes : n >= 7 + p}
    /\ n >= 7 => r.rxAddr[0] = GatewayAddress(0)
    /\ n >= 8 => r.rxAddr[1] = GatewayAddress(1)
    /\ n >= 9 => r.rxAddr[2][1] = 2
    /\ \A p \in GatewayPipes : n >= 10 + p => r.rxPw[p] = 32
    /\ n >= 13 => PrimRx \subseteq r.config

StepsIn(ro) == IF ro = "node" THEN NodeSteps ELSE GatewaySteps

\* A board flashed with program ro, n setters on, with registers r and CE c.
Settled(ro, r, n, address) ==
    /\ n \in -1..(StepsIn(ro) + 1)
    /\ Common(r, n)
    /\ ro = "node" => AsNode(r, n, address)
    /\ ro = "gateway" => AsGateway(r, n)

Enabled(ro, c, n) == n >= 0 => (c <=> n > StepsIn(ro))

Board(b) ==
    /\ Settled(role[b], reg[b], step[b], NodeAddress[b])
    /\ Enabled(role[b], ce[b], step[b])

Typed ==
    /\ role \in [Boards -> Roles] /\ reg \in [Boards -> Registers]
    /\ ce \in [Boards -> BOOLEAN] /\ step \in [Boards -> Int]

IInv == Typed /\ \A b \in Boards : Board(b)

-----------------------------------------------------------------------------
(* What one setter does to the fields above. *)

Link(r)     == <<r.aw, r.enAA, r.enRxAddr>>
Address(r)  == <<r.txAddr, r.rxAddr, r.rxPw>>
Radio(r)    == <<r.rfSetup, r.rfCh>>

\* The three CONFIG writes, with their flags.
PowerOff(r) == [r EXCEPT !.config = @ \ PwrUp]
PowerOn(r)  == [r EXCEPT !.config = @ \cup PwrUp]
Receive(r)  == [r EXCEPT !.config = @ \cup PrimRx]

\* The flags of setReceiveMode, powerUp and powerDown, spelt out.
LEMMA Flags ==
    ASSUME NEW r
    PROVE  /\ SetPower(r, FALSE) = PowerOff(r) /\ SetPower(r, TRUE) = PowerOn(r)
           /\ SetPrimRx(r, TRUE) = Receive(r)
    BY DEF SetPower, SetPrimRx, PowerOff, PowerOn, Receive

\* Replacing CONFIG touches nothing else.
LEMMA ConfigReplaced ==
    ASSUME NEW r \in Registers, NEW c \in SUBSET Bits, NEW s, s = [r EXCEPT !.config = c]
    PROVE  /\ s \in Registers /\ s.config = c
           /\ Link(s) = Link(r) /\ Address(s) = Address(r) /\ Radio(s) = Radio(r)
<1>1. s \in Registers
  BY ZenonT(60) DEF Registers
<1>2. s.config = c /\ Link(s) = Link(r) /\ Address(s) = Address(r) /\ Radio(s) = Radio(r)
  BY DEF Registers, Link, Address, Radio
<1>3. QED
  BY <1>1, <1>2

\* A CONFIG write touches nothing else, and sets its bit.
LEMMA ConfigSet ==
    ASSUME NEW r \in Registers, NEW s,
           s = PowerOff(r) \/ s = PowerOn(r) \/ s = Receive(r)
    PROVE  /\ s \in Registers
           /\ Link(s) = Link(r) /\ Address(s) = Address(r) /\ Radio(s) = Radio(r)
           /\ s = PowerOn(r) => PwrUp \subseteq s.config
           /\ s = Receive(r) => s.config = r.config \cup PrimRx
<1>1. r.config \in SUBSET Bits
  BY DEF Registers
<1>2. r.config \cup PrimRx \in SUBSET Bits /\ r.config \cup PwrUp \in SUBSET Bits /\ r.config \ PwrUp \in SUBSET Bits
  BY <1>1, BitsStayBits
<1>3. CASE s = PowerOff(r)
  <2>1. PICK c \in SUBSET Bits : c = r.config \ PwrUp
    BY <1>2, Zenon
  <2>2. s = [r EXCEPT !.config = c]
    BY <1>3, <2>1 DEF PowerOff
  <2>3. /\ s \in Registers /\ s.config = c
        /\ Link(s) = Link(r) /\ Address(s) = Address(r) /\ Radio(s) = Radio(r)
    BY <2>2, ConfigReplaced
  <2>4. s = PowerOn(r) => s.config = r.config \cup PwrUp
    BY DEF PowerOn, Registers
  <2>5. s = Receive(r) => s.config = r.config \cup PrimRx
    BY DEF Receive, Registers
  <2>6. QED
    BY <2>3, <2>4, <2>5
<1>4. CASE s = PowerOn(r)
  <2>1. PICK c \in SUBSET Bits : c = r.config \cup PwrUp
    BY <1>2, Zenon
  <2>2. s = [r EXCEPT !.config = c]
    BY <1>4, <2>1 DEF PowerOn
  <2>3. /\ s \in Registers /\ s.config = c
        /\ Link(s) = Link(r) /\ Address(s) = Address(r) /\ Radio(s) = Radio(r)
    BY <2>2, ConfigReplaced
  <2>4. s = Receive(r) => s.config = r.config \cup PrimRx
    BY DEF Receive, Registers
  <2>5. QED
    BY <2>1, <2>3, <2>4
<1>5. CASE s = Receive(r)
  <2>1. PICK c \in SUBSET Bits : c = r.config \cup PrimRx
    BY <1>2, Zenon
  <2>2. s = [r EXCEPT !.config = c]
    BY <1>5, <2>1 DEF Receive
  <2>3. /\ s \in Registers /\ s.config = c
        /\ Link(s) = Link(r) /\ Address(s) = Address(r) /\ Radio(s) = Radio(r)
    BY <2>2, ConfigReplaced
  <2>4. s = PowerOn(r) => s.config = r.config \cup PwrUp
    BY DEF PowerOn, Registers
  <2>5. QED
    BY <2>1, <2>3, <2>4
<1>6. QED
  BY <1>3, <1>4, <1>5

\* setReceiveMode touches PRIM_RX only.
LEMMA PrimRxSet ==
    ASSUME NEW r \in Registers, NEW s, s = Receive(r)
    PROVE  /\ s \in Registers /\ s.aw = r.aw /\ s.enAA = r.enAA /\ s.enRxAddr = r.enRxAddr
           /\ s.txAddr = r.txAddr /\ s.rxAddr = r.rxAddr /\ s.rxPw = r.rxPw
           /\ Radio(s) = Radio(r) /\ PrimRx \subseteq s.config
           /\ s.config \cap CrcMask = r.config \cap CrcMask
           /\ PwrUp \subseteq r.config => PwrUp \subseteq s.config
<1>1. /\ s \in Registers /\ Link(s) = Link(r) /\ Address(s) = Address(r) /\ Radio(s) = Radio(r)
      /\ s.config = r.config \cup PrimRx
  BY ConfigSet
<1>2. /\ s.aw = r.aw /\ s.enAA = r.enAA /\ s.enRxAddr = r.enRxAddr
      /\ s.txAddr = r.txAddr /\ s.rxAddr = r.rxAddr /\ s.rxPw = r.rxPw
  BY <1>1 DEF Link, Address
<1>3. /\ PrimRx \subseteq s.config /\ s.config \cap CrcMask = r.config \cap CrcMask
      /\ PwrUp \subseteq r.config => PwrUp \subseteq s.config
  BY <1>1, FieldsApart
<1>4. QED
  BY <1>1, <1>2, <1>3

\* Replacing RF_SETUP touches nothing else.
LEMMA RfSetupReplaced ==
    ASSUME NEW r \in Registers, NEW c \in SUBSET Bits, NEW s, s = [r EXCEPT !.rfSetup = c]
    PROVE  /\ s \in Registers /\ Link(s) = Link(r) /\ Address(s) = Address(r)
           /\ s.config = r.config /\ s.rfCh = r.rfCh /\ s.rfSetup = c
<1>1. s \in Registers
  BY ZenonT(60) DEF Registers
<1>2. /\ Link(s) = Link(r) /\ Address(s) = Address(r)
      /\ s.config = r.config /\ s.rfCh = r.rfCh /\ s.rfSetup = c
  BY DEF Registers, Link, Address
<1>3. QED
  BY <1>1, <1>2

\* setAirDataRate changes RF_DR and leaves the rest of RF_SETUP to its masks.
LEMMA RateSet ==
    ASSUME NEW r \in Registers, NEW s, s = SetAirDataRate(r, 250)
    PROVE  /\ s \in Registers /\ Link(s) = Link(r) /\ Address(s) = Address(r)
           /\ s.config = r.config /\ s.rfCh = r.rfCh /\ s.rfSetup \cap DrMask = DrBits[250]
<1>1. 250 \in Rates /\ r.rfSetup \in SUBSET Bits
  BY DEF Rates, Registers
<1>2. \A x \in SUBSET Bits, d \in Rates : (x \ DrMask) \cup DrBits[d] \in SUBSET Bits
  BY BitsStayBits
<1>3. PICK c \in SUBSET Bits : c = (r.rfSetup \ DrMask) \cup DrBits[250]
  BY <1>1, <1>2, Zenon
<1>4. c \cap DrMask = DrBits[250]
  BY <1>1, <1>3, CodesInFields, FieldWritten
<1>5. s = [r EXCEPT !.rfSetup = c]
  BY <1>3 DEF SetAirDataRate
<1>6. QED
  BY <1>4, <1>5, RfSetupReplaced

\* setRfOutputPower leaves the rate of the same register as it was.
LEMMA PowerSet ==
    ASSUME NEW r \in Registers, NEW s, s = SetRfOutputPower(r, 0)
    PROVE  /\ s \in Registers /\ Link(s) = Link(r) /\ Address(s) = Address(r)
           /\ s.config = r.config /\ s.rfCh = r.rfCh
           /\ s.rfSetup \cap DrMask = r.rfSetup \cap DrMask
<1>1. 0 \in Powers /\ r.rfSetup \in SUBSET Bits
  BY DEF Powers, Registers
<1>2. \A x \in SUBSET Bits, q \in Powers : (x \ PwrMask) \cup PwrBits[q] \in SUBSET Bits
  BY BitsStayBits
<1>3. PICK c \in SUBSET Bits : c = (r.rfSetup \ PwrMask) \cup PwrBits[0]
  BY <1>1, <1>2, Zenon
<1>4. c \cap DrMask = r.rfSetup \cap DrMask
  BY <1>1, <1>3, CodesInFields, FieldsApart, FieldKept
<1>5. s = [r EXCEPT !.rfSetup = c]
  BY <1>3 DEF SetRfOutputPower
<1>6. /\ s \in Registers /\ Link(s) = Link(r) /\ Address(s) = Address(r)
      /\ s.config = r.config /\ s.rfCh = r.rfCh /\ s.rfSetup = c
  BY <1>5, RfSetupReplaced
<1>7. QED
  BY <1>4, <1>6, Zenon

\* setRfFrequency writes a register of its own.
LEMMA FrequencySet ==
    ASSUME NEW r \in Registers, NEW s, s = SetRfFrequency(r, 2408)
    PROVE  /\ s \in Registers /\ Link(s) = Link(r) /\ Address(s) = Address(r)
           /\ s.config = r.config /\ s.rfCh = 8 /\ s.rfSetup = r.rfSetup
<1>1. s = [r EXCEPT !.rfCh = 8]
  BY DEF SetRfFrequency
<1>2. s \in Registers
  BY SMTT(60), <1>1 DEF Registers
<1>3. /\ Link(s) = Link(r) /\ Address(s) = Address(r)
      /\ s.config = r.config /\ s.rfCh = 8 /\ s.rfSetup = r.rfSetup
  BY <1>1 DEF Registers, Link, Address
<1>4. QED
  BY <1>2, <1>3

\* setCrcWidth leaves PWR_UP, in the same register, as powerUp set it.
LEMMA CrcSet ==
    ASSUME NEW r \in Registers, NEW s,
           s = SetCrcWidth(r, 8)
    PROVE  /\ s \in Registers /\ Link(s) = Link(r) /\ Address(s) = Address(r) /\ Radio(s) = Radio(r)
           /\ s.config \cap CrcMask = CrcBits[8]
           /\ PwrUp \subseteq r.config => PwrUp \subseteq s.config
<1> DEFINE c == (r.config \ CrcMask) \cup CrcBits[8]
<1>1. 8 \in CrcWidths /\ r.config \in SUBSET Bits
  BY DEF CrcWidths, Registers
<1>2. c \in SUBSET Bits /\ c \cap CrcMask = CrcBits[8]
  BY <1>1, BitsStayBits, CodesInFields, FieldWritten
<1>3. PwrUp \subseteq r.config => PwrUp \subseteq c
  BY FieldsApart
<1>4. s = [r EXCEPT !.config = c]
  BY DEF SetCrcWidth
<1> HIDE DEF c
<1>5. /\ s \in Registers /\ s.config = c
      /\ Link(s) = Link(r) /\ Address(s) = Address(r) /\ Radio(s) = Radio(r)
  BY <1>2, <1>4, ConfigReplaced
<1>6. QED
  BY <1>2, <1>3, <1>5

\* setTxAddress with all five bytes: nothing of the old address is left.
LEMMA TxAddressSet ==
    ASSUME NEW r \in Registers, NEW a \in Addresses, NEW s,
           s = SetTxAddress(r, a, 5)
    PROVE  /\ s \in Registers /\ s.aw = 5 /\ s.enAA = r.enAA /\ s.enRxAddr = r.enRxAddr
           /\ s.config = r.config /\ Radio(s) = Radio(r)
           /\ s.txAddr = a /\ s.rxAddr = r.rxAddr /\ s.rxPw = r.rxPw
<1>1. Overwrite(r.txAddr, a, 5) = a
  BY DEF Overwrite, Addresses
<1>2. s = [r EXCEPT !.aw = 5, !.txAddr = a]
  BY <1>1 DEF SetTxAddress, Registers
<1>3. 5 \in Width
  BY DEF Width
<1>4. s \in Registers
  BY ZenonT(60), <1>2, <1>3 DEF Registers
<1>5. /\ s.aw = 5 /\ s.enAA = r.enAA /\ s.enRxAddr = r.enRxAddr /\ s.config = r.config /\ Radio(s) = Radio(r)
      /\ s.txAddr = a /\ s.rxAddr = r.rxAddr /\ s.rxPw = r.rxPw
  BY <1>2 DEF Registers, Radio
<1>6. QED
  BY <1>4, <1>5

\* setRxAddress: all of the address on pipes 0 and 1, its first byte on the others,
\* and the pipe is enabled.
LEMMA RxAddressSet ==
    ASSUME NEW r \in Registers, r.aw = 5, NEW a \in Addresses, NEW p \in GatewayPipes, NEW s,
           s = SetRxAddress(r, a, 5, p)
    PROVE  /\ s \in Registers /\ s.aw = 5 /\ s.enAA = r.enAA /\ s.enRxAddr = r.enRxAddr \cup {p}
           /\ s.config = r.config /\ Radio(s) = Radio(r)
           /\ s.txAddr = r.txAddr /\ s.rxPw = r.rxPw
           /\ p < 2 => s.rxAddr[p] = a
           /\ s.rxAddr[p][1] = a[1]
           /\ \A q \in AllPipes \ {p} : s.rxAddr[q] = r.rxAddr[q]
<1> DEFINE w == IF OwnWidth(p) THEN 5 ELSE 1
           b == Overwrite(r.rxAddr[p], a, w)
           x == [r.rxAddr EXCEPT ![p] = b]
           e == r.enRxAddr \cup {p}
<1>1. p \in AllPipes /\ p \in 0..2 /\ 5 \in Width
  BY DEF GatewayPipes, AllPipes, Width
<1>2. r.rxAddr \in [AllPipes -> Addresses] /\ r.enRxAddr \in SUBSET AllPipes
  BY DEF Registers
<1>3. w \in 1..5 /\ (p < 2 => w = 5)
  BY <1>1 DEF OwnWidth
<1>4. b \in Addresses /\ \A i \in 1..5 : i <= w => b[i] = a[i]
  BY <1>1, <1>2, <1>3, Overwritten
<1>5. b[1] = a[1] /\ (p < 2 => b = a)
  <2>1. b[1] = a[1]
    BY <1>3, <1>4
  <2>2. ASSUME p < 2 PROVE b = a
    <3>1. \A i \in 1..5 : b[i] = a[i]
      BY <1>3, <1>4, <2>2
    <3>2. b = [i \in 1..5 |-> b[i]] /\ a = [i \in 1..5 |-> a[i]]
      BY <1>4 DEF Addresses
    <3> HIDE DEF b, w
    <3>3. QED
      BY <3>1, <3>2
  <2>3. QED
    BY <2>1, <2>2
<1>6. s = [r EXCEPT !.aw = 5, !.rxAddr = x, !.enRxAddr = e]
  BY <1>2 DEF SetRxAddress, Registers
<1>7. x \in [AllPipes -> Addresses] /\ x[p] = b /\ \A q \in AllPipes \ {p} : x[q] = r.rxAddr[q]
  BY <1>1, <1>2, <1>4
<1>8. e \in SUBSET AllPipes
  BY <1>1, <1>2
<1> HIDE DEF w, b, x, e
<1>9. s \in Registers
  BY ZenonT(60), <1>1, <1>6, <1>7, <1>8 DEF Registers
<1>10. /\ s.aw = 5 /\ s.enAA = r.enAA /\ s.enRxAddr = e /\ s.config = r.config /\ Radio(s) = Radio(r)
       /\ s.txAddr = r.txAddr /\ s.rxPw = r.rxPw /\ s.rxAddr = x
  BY <1>6 DEF Registers, Radio
<1>11. QED
  BY <1>5, <1>7, <1>9, <1>10 DEF e

\* Replacing the sizes touches nothing else.
LEMMA SizesReplaced ==
    ASSUME NEW r \in Registers, NEW x \in [AllPipes -> 0..63], NEW s, s = [r EXCEPT !.rxPw = x]
    PROVE  /\ s \in Registers /\ Link(s) = Link(r) /\ s.config = r.config /\ Radio(s) = Radio(r)
           /\ s.rxPw = x /\ s.txAddr = r.txAddr /\ s.rxAddr = r.rxAddr
<1>1. s \in Registers
  BY ZenonT(60) DEF Registers
<1>2. /\ Link(s) = Link(r) /\ s.config = r.config /\ Radio(s) = Radio(r)
      /\ s.rxPw = x /\ s.txAddr = r.txAddr /\ s.rxAddr = r.rxAddr
  BY DEF Registers, Link, Radio
<1>3. QED
  BY <1>1, <1>2

\* setTransferSize changes the size of its pipe only.
LEMMA SizeSet ==
    ASSUME NEW r \in Registers, NEW p \in GatewayPipes, NEW s,
           s = SetTransferSize(r, 32, p)
    PROVE  /\ s \in Registers /\ Link(s) = Link(r) /\ s.config = r.config /\ Radio(s) = Radio(r)
           /\ s.txAddr = r.txAddr /\ s.rxAddr = r.rxAddr
           /\ s.rxPw[p] = 32 /\ \A q \in AllPipes \ {p} : s.rxPw[q] = r.rxPw[q]
<1> DEFINE x == [r.rxPw EXCEPT ![p] = 32]
<1>1. p \in AllPipes
  BY DEF GatewayPipes, AllPipes
<1>2. r.rxPw \in [AllPipes -> 0..63]
  BY DEF Registers
<1>3. x \in [AllPipes -> 0..63] /\ x[p] = 32 /\ \A q \in AllPipes \ {p} : x[q] = r.rxPw[q]
  BY <1>1, <1>2
<1>4. s = [r EXCEPT !.rxPw = x]
  BY DEF SetTransferSize, Registers
<1> HIDE DEF x
<1>5. /\ s \in Registers /\ Link(s) = Link(r) /\ s.config = r.config /\ Radio(s) = Radio(r)
      /\ s.rxPw = x /\ s.txAddr = r.txAddr /\ s.rxAddr = r.rxAddr
  BY <1>3, <1>4, SizesReplaced
<1>6. QED
  BY <1>3, <1>5

-----------------------------------------------------------------------------
(* One setter of either program, on a board that has executed n. *)

\* A setter of both programs settles its field and disturbs none of the others.
LEMMA CommonStepKept ==
    ASSUME NEW r \in Registers, NEW n \in 0..5, NEW s, NEW address, Common(r, n),
           \/ n = 0 /\ s = PowerOff(r)
           \/ n = 1 /\ s = PowerOn(r)
           \/ n = 2 /\ s = SetAirDataRate(r, 250)
           \/ n = 3 /\ s = SetRfOutputPower(r, 0)
           \/ n = 4 /\ s = SetRfFrequency(r, 2408)
           \/ n = 5 /\ s = SetCrcWidth(r, 8)
    PROVE  /\ s \in Registers /\ Common(s, n + 1)
           /\ AsNode(r, n, address) => AsNode(s, n + 1, address)
           /\ AsGateway(r, n) => AsGateway(s, n + 1)
<1>1. s \in Registers /\ Link(s) = Link(r)
  <2>1. CASE s = PowerOff(r) \/ s = PowerOn(r)
    BY <2>1, ConfigSet
  <2>2. QED
    BY <2>1, RateSet, PowerSet, FrequencySet, CrcSet
<1>2. s.aw = r.aw /\ s.enAA = r.enAA /\ s.enRxAddr = r.enRxAddr
  BY <1>1 DEF Link
<1>3. Common(s, n + 1)
  <2>1. CASE n = 0
    BY <1>2, <2>1 DEF Common
  <2>2. CASE n = 1
    BY <1>2, <2>2, ConfigSet DEF Common
  <2>3. CASE n = 2
    <3>1. s.config = r.config /\ s.rfSetup \cap DrMask = DrBits[250]
      BY <2>3, RateSet
    <3>2. QED
      BY <1>2, <2>3, <3>1 DEF Common
  <2>4. CASE n = 3
    <3>1. s.config = r.config /\ s.rfSetup \cap DrMask = r.rfSetup \cap DrMask
      BY <2>4, PowerSet
    <3>2. QED
      BY <1>2, <2>4, <3>1 DEF Common
  <2>5. CASE n = 4
    <3>1. s.config = r.config /\ s.rfSetup = r.rfSetup /\ s.rfCh = 8
      BY <2>5, FrequencySet
    <3>2. QED
      BY <1>2, <2>5, <3>1 DEF Common
  <2>6. CASE n = 5
    <3>1. Radio(s) = Radio(r) /\ s.config \cap CrcMask = CrcBits[8]
          /\ (PwrUp \subseteq r.config => PwrUp \subseteq s.config)
      BY <2>6, CrcSet
    <3>2. s.rfSetup = r.rfSetup /\ s.rfCh = r.rfCh
      BY <3>1 DEF Radio
    <3>3. QED
      BY <1>2, <2>6, <3>1, <3>2 DEF Common
  <2>7. QED
    BY <2>1, <2>2, <2>3, <2>4, <2>5, <2>6
<1>4. AsNode(r, n, address) => AsNode(s, n + 1, address)
  BY <1>2 DEF AsNode
<1>5. AsGateway(r, n) => AsGateway(s, n + 1)
  BY <1>2 DEF AsGateway, GatewayPipes
<1>6. QED
  BY <1>1, <1>3, <1>4, <1>5

\* After the common settings, the fields both programs set stay as they are.
LEMMA CommonStays ==
    ASSUME NEW r, NEW s, NEW n \in 6..12, Common(r, n),
           s.aw = 5, s.enAA = r.enAA, Radio(s) = Radio(r),
           s.config \cap CrcMask = r.config \cap CrcMask,
           PwrUp \subseteq r.config => PwrUp \subseteq s.config
    PROVE  Common(s, n + 1)
    BY DEF Common, Radio

\* A setter of the node's program settles its field, and keeps what is settled.
LEMMA NodeStepKept ==
    ASSUME NEW r \in Registers, NEW n \in 6..9, NEW s, NEW address \in Addresses,
           Common(r, n), AsNode(r, n, address),
           \/ n = 6 /\ s = SetTxAddress(r, address, 5)
           \/ n = 7 /\ s = SetRxAddress(r, address, 5, 0)
           \/ n = 8 /\ s = SetTransferSize(r, 32, 0)
           \/ n = 9 /\ s = Receive(r)
    PROVE  s \in Registers /\ Common(s, n + 1) /\ AsNode(s, n + 1, address)
<1>1. r.aw = 5 /\ 0 \in GatewayPipes
  BY DEF Common, GatewayPipes
<1>2. CASE n = 6
  <2>1. /\ s \in Registers /\ s.aw = 5 /\ s.enAA = r.enAA /\ s.enRxAddr = r.enRxAddr
        /\ s.config = r.config /\ Radio(s) = Radio(r) /\ s.txAddr = address
    BY <1>2, TxAddressSet
  <2>2. AsNode(s, n + 1, address)
    BY <1>2, <2>1 DEF AsNode
  <2>3. QED
    BY <2>1, <2>2, CommonStays
<1>3. CASE n = 7
  <2>1. /\ s \in Registers /\ s.aw = 5 /\ s.enAA = r.enAA /\ s.enRxAddr = r.enRxAddr \cup {0}
        /\ s.config = r.config /\ Radio(s) = Radio(r)
        /\ s.txAddr = r.txAddr /\ s.rxAddr[0] = address
    BY <1>1, <1>3, RxAddressSet
  <2>2. AsNode(s, n + 1, address)
    BY <1>3, <2>1 DEF AsNode
  <2>3. QED
    BY <2>1, <2>2, CommonStays
<1>4. CASE n = 8
  <2>1. /\ s \in Registers /\ Link(s) = Link(r) /\ s.config = r.config /\ Radio(s) = Radio(r)
        /\ s.txAddr = r.txAddr /\ s.rxAddr = r.rxAddr /\ s.rxPw[0] = 32
    BY <1>1, <1>4, SizeSet
  <2>2. s.aw = 5 /\ s.enAA = r.enAA /\ s.enRxAddr = r.enRxAddr
    BY <1>1, <2>1 DEF Link
  <2>3. AsNode(s, n + 1, address)
    BY <1>4, <2>1, <2>2 DEF AsNode
  <2>4. QED
    BY <2>1, <2>2, <2>3, CommonStays
<1>5. CASE n = 9
  <2>1. /\ s \in Registers /\ s.aw = r.aw /\ s.enAA = r.enAA /\ s.enRxAddr = r.enRxAddr
        /\ s.txAddr = r.txAddr /\ s.rxAddr = r.rxAddr /\ s.rxPw = r.rxPw
        /\ Radio(s) = Radio(r) /\ PrimRx \subseteq s.config
        /\ s.config \cap CrcMask = r.config \cap CrcMask
        /\ PwrUp \subseteq r.config => PwrUp \subseteq s.config
    BY <1>5, PrimRxSet
  <2>2. AsNode(s, n + 1, address)
    BY <1>5, <2>1 DEF AsNode
  <2>3. QED
    BY <1>1, <2>1, <2>2, CommonStays
<1>6. QED
  BY <1>2, <1>3, <1>4, <1>5

\* A setter of the gateway's program does, for each of its three pipes.
LEMMA GatewayStepKept ==
    ASSUME NEW r \in Registers, NEW n \in 6..12, NEW s, Common(r, n), AsGateway(r, n),
           \/ \E p \in GatewayPipes :
                \/ n = 6 + p /\ s = SetRxAddress(r, GatewayAddress(p), 5, p)
                \/ n = 9 + p /\ s = SetTransferSize(r, 32, p)
           \/ n = 12 /\ s = Receive(r)
    PROVE  s \in Registers /\ Common(s, n + 1) /\ AsGateway(s, n + 1)
<1>1. r.aw = 5 /\ \A p \in GatewayPipes : GatewayAddress(p) \in Addresses /\ GatewayAddress(p)[1] = p
  BY DEF Common, GatewayPipes, GatewayAddress, Addresses
<1>2. ASSUME NEW p \in GatewayPipes, n = 6 + p, s = SetRxAddress(r, GatewayAddress(p), 5, p)
      PROVE  s \in Registers /\ Common(s, n + 1) /\ AsGateway(s, n + 1)
  <2>1. /\ s \in Registers /\ s.aw = 5 /\ s.enAA = r.enAA /\ s.enRxAddr = r.enRxAddr \cup {p}
        /\ s.config = r.config /\ Radio(s) = Radio(r) /\ s.rxPw = r.rxPw
        /\ p < 2 => s.rxAddr[p] = GatewayAddress(p)
        /\ s.rxAddr[p][1] = p
        /\ \A q \in AllPipes \ {p} : s.rxAddr[q] = r.rxAddr[q]
    BY <1>1, <1>2, RxAddressSet
  <2>2. s.enRxAddr = {0} \cup {q \in GatewayPipes : n + 1 >= 7 + q}
    BY <1>2, <2>1 DEF AsGateway, GatewayPipes
  <2>3. AsGateway(s, n + 1)
    BY <1>2, <2>1, <2>2 DEF AsGateway, GatewayPipes, AllPipes
  <2>4. QED
    BY <2>1, <2>3, CommonStays
<1>3. ASSUME NEW p \in GatewayPipes, n = 9 + p, s = SetTransferSize(r, 32, p)
      PROVE  s \in Registers /\ Common(s, n + 1) /\ AsGateway(s, n + 1)
  <2>1. /\ s \in Registers /\ Link(s) = Link(r) /\ s.config = r.config /\ Radio(s) = Radio(r)
        /\ s.rxAddr = r.rxAddr /\ s.rxPw[p] = 32
        /\ \A q \in AllPipes \ {p} : s.rxPw[q] = r.rxPw[q]
    BY <1>3, SizeSet
  <2>2. s.aw = 5 /\ s.enAA = r.enAA /\ s.enRxAddr = r.enRxAddr
    BY <1>1, <2>1 DEF Link
  <2>3. s.enRxAddr = {0} \cup {q \in GatewayPipes : n + 1 >= 7 + q}
    BY <1>3, <2>2 DEF AsGateway, GatewayPipes
  <2>4. AsGateway(s, n + 1)
    BY <1>3, <2>1, <2>3 DEF AsGateway, GatewayPipes, AllPipes
  <2>5. QED
    BY <2>1, <2>2, <2>4, CommonStays
<1>4. ASSUME n = 12, s = Receive(r)
      PROVE  s \in Registers /\ Common(s, n + 1) /\ AsGateway(s, n + 1)
  <2>1. /\ s \in Registers /\ s.aw = r.aw /\ s.enAA = r.enAA /\ s.enRxAddr = r.enRxAddr
        /\ s.rxAddr = r.rxAddr /\ s.rxPw = r.rxPw
        /\ Radio(s) = Radio(r) /\ PrimRx \subseteq s.config
        /\ s.config \cap CrcMask = r.config \cap CrcMask
        /\ PwrUp \subseteq r.config => PwrUp \subseteq s.config
    BY <1>4, PrimRxSet
  <2>2. s.enRxAddr = {0} \cup {q \in GatewayPipes : n + 1 >= 7 + q}
    BY <1>4, <2>1 DEF AsGateway, GatewayPipes
  <2>3. AsGateway(s, n + 1)
    BY <1>4, <2>1, <2>2 DEF AsGateway, GatewayPipes
  <2>4. QED
    BY <1>1, <2>1, <2>3, CommonStays
<1>5. QED
  BY <1>2, <1>3, <1>4

-----------------------------------------------------------------------------
(* The invariant. *)

\* The powered-on boards satisfy it.
LEMMA InitSettled == Init => IInv
<1> SUFFICES ASSUME Init PROVE IInv
  OBVIOUS
<1>1. PowerOnReset \in Registers /\ PowerOnReset.aw = 5
  <2>1. E7s \in Addresses
    BY DEF E7s, Addresses
  <2>2. [p \in AllPipes |-> IF p = 0 THEN E7s ELSE [i \in 1..5 |-> IF i = 1 /\ p > 1 THEN 193 + p ELSE 194]]
          \in [AllPipes -> Addresses]
    BY <2>1 DEF AllPipes, Addresses
  <2>3. [p \in AllPipes |-> 0] \in [AllPipes -> 0..63]
    OBVIOUS
  <2>4. {3} \in SUBSET Bits /\ {1, 2, 3} \in SUBSET Bits /\ {0, 1} \in SUBSET AllPipes /\ 5 \in Width
        /\ 2 \in 0..127 /\ 0 \in 0..15 /\ 3 \in 0..15
    BY DEF Bits, AllPipes, Width
  <2>5. PICK x : x = [p \in AllPipes |-> IF p = 0 THEN E7s ELSE [i \in 1..5 |-> IF i = 1 /\ p > 1 THEN 193 + p ELSE 194]]
    OBVIOUS
  <2>6. PICK y : y = [p \in AllPipes |-> 0]
    OBVIOUS
  <2>7. PowerOnReset = [config |-> {3}, rfSetup |-> {1, 2, 3}, rfCh |-> 2, aw |-> 5,
                        enRxAddr |-> {0, 1}, enAA |-> AllPipes, ard |-> 0, arc |-> 3,
                        feature |-> {}, dynpd |-> {}, rxAddr |-> x, txAddr |-> E7s, rxPw |-> y]
    BY <2>5, <2>6, Zenon DEF PowerOnReset
  <2>8. x \in [AllPipes -> Addresses] /\ y \in [AllPipes -> 0..63]
    BY <2>2, <2>3, <2>5, <2>6, Zenon
  <2>9. QED
    BY <2>1, <2>4, <2>7, <2>8 DEF Registers
<1>2. Typed
  BY <1>1, RadioSetupAssumption DEF Init, Typed, Roles
<1>3. ASSUME NEW b \in Boards PROVE Board(b)
  <2>1. reg[b] = PowerOnReset /\ step[b] = -1
    BY DEF Init
  <2>2. Settled(role[b], reg[b], step[b], NodeAddress[b])
    BY <1>1, <2>1 DEF Settled, StepsIn, NodeSteps, GatewaySteps, CommonSteps, Common, AsNode, AsGateway, GatewayPipes
  <2>3. Enabled(role[b], ce[b], step[b])
    BY <2>1 DEF Enabled
  <2>4. QED
    BY <2>2, <2>3 DEF Board
<1>4. QED
  BY <1>2, <1>3 DEF IInv

\* A step of board b leaves the others as they are.
LEMMA OneBoard ==
    ASSUME IInv, NEW b \in Boards,
           NEW ro \in Roles, NEW r \in Registers, NEW c \in BOOLEAN, NEW n \in Int,
           role' = [role EXCEPT ![b] = ro], reg' = [reg EXCEPT ![b] = r],
           ce' = [ce EXCEPT ![b] = c], step' = [step EXCEPT ![b] = n],
           Settled(ro, r, n, NodeAddress[b]), Enabled(ro, c, n)
    PROVE  IInv'
<1>1. Typed'
  BY DEF IInv, Typed
<1>2. ASSUME NEW d \in Boards PROVE Board(d)'
  <2>1. CASE d = b
    <3>1. role'[d] = ro /\ reg'[d] = r /\ ce'[d] = c /\ step'[d] = n
      BY <2>1 DEF IInv, Typed
    <3>2. QED
      BY <2>1, <3>1, Zenon DEF Board
  <2>2. CASE d # b
    <3>1. role'[d] = role[d] /\ reg'[d] = reg[d] /\ ce'[d] = ce[d] /\ step'[d] = step[d]
      BY <2>2 DEF IInv, Typed
    <3>2. QED
      BY <3>1, Zenon DEF Board, IInv
  <2>3. QED
    BY <2>1, <2>2
<1>3. QED
  BY <1>1, <1>2 DEF IInv

\* What a board's program has settled, each of its steps keeps and extends.
LEMMA StepSettled == IInv /\ [Next]_vars => IInv'
<1> SUFFICES ASSUME IInv, [Next]_vars PROVE IInv'
  OBVIOUS
<1>1. ASSUME UNCHANGED vars PROVE IInv'
  BY <1>1 DEF IInv, Typed, Board, vars
<1>2. ASSUME NEW b \in Boards, Construct(b) \/ SetUp(b) \/ Enable(b) \/ Reset(b)
      PROVE  IInv'
  <2>0. /\ role[b] \in Roles /\ reg[b] \in Registers /\ ce[b] \in BOOLEAN /\ step[b] \in Int
        /\ NodeAddress[b] \in Addresses
        /\ role = [role EXCEPT ![b] = role[b]] /\ reg = [reg EXCEPT ![b] = reg[b]]
        /\ ce = [ce EXCEPT ![b] = ce[b]]
    BY RadioSetupAssumption DEF IInv, Typed
  <2>1. Settled(role[b], reg[b], step[b], NodeAddress[b]) /\ Enabled(role[b], ce[b], step[b])
    BY DEF IInv, Board
  <2>2. StepsOf(b) = StepsIn(role[b]) /\ StepsIn(role[b]) \in {10, 13}
        /\ (role[b] = "node" => StepsIn(role[b]) = 10) /\ (role[b] = "gateway" => StepsIn(role[b]) = 13)
    BY DEF StepsOf, StepsIn, NodeSteps, GatewaySteps, CommonSteps
  <2>3. CASE Construct(b)
    <3>1. PICK r : r = Constructed(reg[b])
      OBVIOUS
    <3>2. r \in Registers /\ r.aw = 5 /\ r.enAA = {} /\ r.enRxAddr = {0}
      BY <2>0, <3>1, ConstructedFields
    <3>3. Settled(role[b], r, 0, NodeAddress[b])
      <4>1. {p \in GatewayPipes : 0 >= 7 + p} = {}
        BY DEF GatewayPipes
      <4>2. QED
        BY <2>2, <3>2, <4>1 DEF Settled, Common, AsNode, AsGateway, GatewayPipes
    <3>4. Enabled(role[b], FALSE, 0)
      BY <2>2 DEF Enabled
    <3>5. /\ reg' = [reg EXCEPT ![b] = r] /\ ce' = [ce EXCEPT ![b] = FALSE]
          /\ step' = [step EXCEPT ![b] = 0] /\ role' = [role EXCEPT ![b] = role[b]]
      BY <2>0, <2>3, <3>1, Zenon DEF Construct
    <3>6. FALSE \in BOOLEAN /\ 0 \in Int
      OBVIOUS
    <3>7. QED
      BY <2>0, <3>2, <3>3, <3>4, <3>5, <3>6, OneBoard, Zenon
  <2>4. CASE SetUp(b)
    <3>1. step' = [step EXCEPT ![b] = step[b] + 1] /\ UNCHANGED <<role, ce>>
      BY <2>4 DEF SetUp
    <3>2. PICK r \in Registers : reg' = [reg EXCEPT ![b] = r] /\ Settled(role[b], r, step[b] + 1, NodeAddress[b])
                                /\ step[b] >= 0 /\ step[b] < StepsIn(role[b])
      <4>1. CASE CommonStep(b)
        <5>1. \/ Set(b, 0, PowerOff(reg[b]))
              \/ Set(b, 1, PowerOn(reg[b]))
              \/ Set(b, 2, SetAirDataRate(reg[b], 250))
              \/ Set(b, 3, SetRfOutputPower(reg[b], 0))
              \/ Set(b, 4, SetRfFrequency(reg[b], 2408))
              \/ Set(b, 5, SetCrcWidth(reg[b], 8))
          BY <4>1 DEF CommonStep, SetPower, PowerOff, PowerOn
        <5>2. PICK n, r : /\ n \in 0..5 /\ Set(b, n, r)
                          /\ \/ n = 0 /\ r = PowerOff(reg[b])
                             \/ n = 1 /\ r = PowerOn(reg[b])
                             \/ n = 2 /\ r = SetAirDataRate(reg[b], 250)
                             \/ n = 3 /\ r = SetRfOutputPower(reg[b], 0)
                             \/ n = 4 /\ r = SetRfFrequency(reg[b], 2408)
                             \/ n = 5 /\ r = SetCrcWidth(reg[b], 8)
          BY <5>1
        <5>3. step[b] = n /\ reg' = [reg EXCEPT ![b] = r]
          BY <5>2, Zenon DEF Set
        <5>4. Common(reg[b], n)
          BY <2>1, <5>3 DEF Settled
        <5>5. /\ r \in Registers /\ Common(r, n + 1)
              /\ AsNode(reg[b], n, NodeAddress[b]) => AsNode(r, n + 1, NodeAddress[b])
              /\ AsGateway(reg[b], n) => AsGateway(r, n + 1)
          BY <2>0, <5>2, <5>4, CommonStepKept
        <5>6. Settled(role[b], r, step[b] + 1, NodeAddress[b])
          BY <2>1, <2>2, <5>2, <5>3, <5>5 DEF Settled
        <5>7. step[b] >= 0 /\ step[b] < StepsIn(role[b])
          BY <2>2, <5>2, <5>3
        <5>8. QED
          BY <5>3, <5>5, <5>6, <5>7, Zenon
      <4>2. CASE NodeStep(b)
        <5>1. PICK n, r : /\ Set(b, n, r)
                          /\ \/ n = CommonSteps /\ r = SetTxAddress(reg[b], NodeAddress[b], 5)
                             \/ n = CommonSteps + 1 /\ r = SetRxAddress(reg[b], NodeAddress[b], 5, 0)
                             \/ n = CommonSteps + 2 /\ r = SetTransferSize(reg[b], 32, 0)
                             \/ n = CommonSteps + 3 /\ r = SetPrimRx(reg[b], TRUE)
          BY <4>2, Zenon DEF NodeStep
        <5>2. role[b] = "node" /\ step[b] = n /\ reg' = [reg EXCEPT ![b] = r]
          BY <4>2, <5>1, Zenon DEF NodeStep, Set
        <5>3. PICK v : v = Receive(reg[b]) /\ v = SetPrimRx(reg[b], TRUE)
          BY Flags, Zenon
        <5>4. \/ n = CommonSteps /\ r = SetTxAddress(reg[b], NodeAddress[b], 5)
              \/ n = CommonSteps + 1 /\ r = SetRxAddress(reg[b], NodeAddress[b], 5, 0)
              \/ n = CommonSteps + 2 /\ r = SetTransferSize(reg[b], 32, 0)
              \/ n = CommonSteps + 3 /\ r = v
          BY <5>1, <5>3, Zenon
        <5>5. n \in 6..9
          BY <5>4 DEF CommonSteps, GatewayPipes
        <5>6. \/ n = 6 /\ r = SetTxAddress(reg[b], NodeAddress[b], 5)
              \/ n = 7 /\ r = SetRxAddress(reg[b], NodeAddress[b], 5, 0)
              \/ n = 8 /\ r = SetTransferSize(reg[b], 32, 0)
              \/ n = 9 /\ r = v
          BY <5>4 DEF CommonSteps, GatewayPipes
        <5>7. Common(reg[b], n) /\ AsNode(reg[b], n, NodeAddress[b])
          BY <2>1, <5>2 DEF Settled
        <5>8. r \in Registers /\ Common(r, n + 1) /\ AsNode(r, n + 1, NodeAddress[b])
          BY <2>0, <5>3, <5>5, <5>6, <5>7, NodeStepKept, Zenon
        <5>9. Settled(role[b], r, step[b] + 1, NodeAddress[b])
          BY <2>1, <2>2, <5>2, <5>5, <5>8 DEF Settled
        <5>10. step[b] >= 0 /\ step[b] < StepsIn(role[b])
          BY <2>2, <5>2, <5>5
        <5>11. QED
          BY <5>2, <5>8, <5>9, <5>10, Zenon
      <4>3. CASE GatewayStep(b)
        <5>1. PICK n, r : /\ Set(b, n, r)
                          /\ \/ \E p \in GatewayPipes :
                                  \/ n = CommonSteps + p /\ r = SetRxAddress(reg[b], GatewayAddress(p), 5, p)
                                  \/ n = CommonSteps + 3 + p /\ r = SetTransferSize(reg[b], 32, p)
                             \/ n = CommonSteps + 6 /\ r = SetPrimRx(reg[b], TRUE)
          BY <4>3, Zenon DEF GatewayStep
        <5>2. role[b] = "gateway" /\ step[b] = n /\ reg' = [reg EXCEPT ![b] = r]
          BY <4>3, <5>1, Zenon DEF GatewayStep, Set
        <5>3. PICK v : v = Receive(reg[b]) /\ v = SetPrimRx(reg[b], TRUE)
          BY Flags, Zenon
        <5>4. \/ \E p \in GatewayPipes :
                                \/ n = CommonSteps + p /\ r = SetRxAddress(reg[b], GatewayAddress(p), 5, p)
                                \/ n = CommonSteps + 3 + p /\ r = SetTransferSize(reg[b], 32, p)
              \/ n = CommonSteps + 6 /\ r = v
          BY <5>1, <5>3, Zenon
        <5>5. n \in 6..12
          BY <5>4 DEF CommonSteps, GatewayPipes
        <5>6. \/ \E p \in GatewayPipes :
                   \/ n = 6 + p /\ r = SetRxAddress(reg[b], GatewayAddress(p), 5, p)
                   \/ n = 9 + p /\ r = SetTransferSize(reg[b], 32, p)
              \/ n = 12 /\ r = v
          BY <5>4 DEF CommonSteps, GatewayPipes
        <5>7. Common(reg[b], n) /\ AsGateway(reg[b], n)
          BY <2>1, <5>2 DEF Settled
        <5>8. r \in Registers /\ Common(r, n + 1) /\ AsGateway(r, n + 1)
          BY <2>0, <5>3, <5>5, <5>6, <5>7, GatewayStepKept, Zenon
        <5>9. Settled(role[b], r, step[b] + 1, NodeAddress[b])
          BY <2>1, <2>2, <5>2, <5>5, <5>8 DEF Settled
        <5>10. step[b] >= 0 /\ step[b] < StepsIn(role[b])
          BY <2>2, <5>2, <5>5
        <5>11. QED
          BY <5>2, <5>8, <5>9, <5>10, Zenon
      <4>4. QED
        BY <2>4, <4>1, <4>2, <4>3 DEF SetUp
    <3>3. Enabled(role[b], ce[b], step[b] + 1)
      BY <2>0, <2>1, <2>2, <3>2 DEF Enabled
    <3>4. PICK ro, c, n : ro = role[b] /\ c = ce[b] /\ n = step[b] + 1
      BY Zenon
    <3>5. ro \in Roles /\ c \in BOOLEAN /\ n \in Int
      <4>1. step[b] + 1 \in Int
        BY <2>0
      <4>2. QED
        BY <2>0, <3>4, <4>1, Zenon
    <3>6. role' = [role EXCEPT ![b] = ro] /\ ce' = [ce EXCEPT ![b] = c] /\ step' = [step EXCEPT ![b] = n]
      BY <2>0, <3>1, <3>4, Zenon
    <3>7. Settled(ro, r, n, NodeAddress[b]) /\ Enabled(ro, c, n)
      BY <3>2, <3>3, <3>4, Zenon
    <3>8. QED
      BY <3>2, <3>5, <3>6, <3>7, OneBoard, Zenon
  <2>5. CASE Enable(b)
    <3>1. /\ step[b] = StepsIn(role[b]) /\ step' = [step EXCEPT ![b] = step[b] + 1]
          /\ ce' = [ce EXCEPT ![b] = TRUE]
          /\ role' = [role EXCEPT ![b] = role[b]] /\ reg' = [reg EXCEPT ![b] = reg[b]]
      BY <2>0, <2>2, <2>5 DEF Enable
    <3>2. Settled(role[b], reg[b], step[b] + 1, NodeAddress[b])
      <4>1. Common(reg[b], step[b] + 1)
        BY <2>1, <2>2, <3>1 DEF Settled, Common
      <4>2. role[b] = "node" => AsNode(reg[b], step[b] + 1, NodeAddress[b])
        BY <2>1, <2>2, <3>1 DEF Settled, AsNode
      <4>3. role[b] = "gateway" => AsGateway(reg[b], step[b] + 1)
        BY <2>1, <2>2, <3>1 DEF Settled, AsGateway, GatewayPipes
      <4>4. QED
        BY <2>1, <2>2, <3>1, <4>1, <4>2, <4>3 DEF Settled
    <3>3. Enabled(role[b], TRUE, step[b] + 1)
      BY <2>2, <3>1 DEF Enabled
    <3>4. PICK ro, r, c, n : ro = role[b] /\ r = reg[b] /\ c = TRUE /\ n = step[b] + 1
      BY Zenon
    <3>5. ro \in Roles /\ r \in Registers /\ c \in BOOLEAN /\ n \in Int
      <4>1. step[b] + 1 \in Int
        BY <2>0
      <4>2. QED
        BY <2>0, <3>4, <4>1, Zenon
    <3>6. /\ role' = [role EXCEPT ![b] = ro] /\ reg' = [reg EXCEPT ![b] = r]
          /\ ce' = [ce EXCEPT ![b] = c] /\ step' = [step EXCEPT ![b] = n]
      BY <3>1, <3>4, Zenon
    <3>7. Settled(ro, r, n, NodeAddress[b]) /\ Enabled(ro, c, n)
      BY <3>2, <3>3, <3>4, Zenon
    <3>8. QED
      BY <3>5, <3>6, <3>7, OneBoard, Zenon
  <2>6. CASE Reset(b)
    <3>1. PICK ro \in Roles : role' = [role EXCEPT ![b] = ro]
      BY <2>6 DEF Reset
    <3>2. /\ step' = [step EXCEPT ![b] = -1]
          /\ reg' = [reg EXCEPT ![b] = reg[b]] /\ ce' = [ce EXCEPT ![b] = ce[b]]
      BY <2>0, <2>6 DEF Reset
    <3>3. PICK r, c, n : r = reg[b] /\ c = ce[b] /\ n = -1
      BY Zenon
    <3>4. r \in Registers /\ c \in BOOLEAN /\ n \in Int
      <4>1. -1 \in Int
        OBVIOUS
      <4>2. QED
        BY <2>0, <3>3, <4>1, Zenon
    <3>5. /\ reg' = [reg EXCEPT ![b] = r] /\ ce' = [ce EXCEPT ![b] = c] /\ step' = [step EXCEPT ![b] = n]
      BY <3>2, <3>3, Zenon
    <3>6. Settled(ro, r, n, NodeAddress[b])
      BY <2>1, <3>3 DEF Settled, Common, AsNode, AsGateway, GatewayPipes, StepsIn, NodeSteps, GatewaySteps, CommonSteps
    <3>7. Enabled(ro, c, n)
      BY <3>3 DEF Enabled
    <3>8. QED
      BY <3>1, <3>4, <3>5, <3>6, <3>7, OneBoard, Zenon
  <2>7. QED
    BY <1>2, <2>3, <2>4, <2>5, <2>6
<1>3. QED
  BY <1>1, <1>2 DEF Next

-----------------------------------------------------------------------------
(* What the boards rely on. *)

\* Every reachable board has settled what its program's setters so far settle.
THEOREM BoardsSettled == Spec => []IInv
  BY InitSettled, StepSettled, PTL DEF Spec

\* A board that is set up is on the air with the settings of both programs.
LEMMA OnAir ==
    ASSUME IInv, NEW b \in Boards, Ready(b)
    PROVE  /\ Listening(b)
           /\ reg[b].aw = 5 /\ reg[b].enAA = {}
           /\ GetRfFrequency(reg[b]) = 2408 /\ GetAirDataRate(reg[b]) = 250 /\ GetCrcWidth(reg[b]) = 8
           /\ role[b] = "node" => AsNode(reg[b], 11, NodeAddress[b])
           /\ role[b] = "gateway" => AsGateway(reg[b], 14)
<1>1. Settled(role[b], reg[b], step[b], NodeAddress[b]) /\ Enabled(role[b], ce[b], step[b]) /\ role[b] \in Roles
  BY DEF IInv, Board, Typed
<1>2. StepsOf(b) = StepsIn(role[b]) /\ StepsIn(role[b]) \in {10, 13}
      /\ (role[b] = "node" => StepsIn(role[b]) = 10) /\ (role[b] = "gateway" => StepsIn(role[b]) = 13)
  BY DEF StepsOf, StepsIn, NodeSteps, GatewaySteps, CommonSteps
<1>3. step[b] = StepsIn(role[b]) + 1
  BY <1>1, <1>2 DEF Settled, Ready
<1>4. /\ reg[b].aw = 5 /\ reg[b].enAA = {} /\ PwrUp \subseteq reg[b].config /\ reg[b].rfCh = 8
      /\ reg[b].rfSetup \cap DrMask = DrBits[250] /\ reg[b].config \cap CrcMask = CrcBits[8]
  BY <1>1, <1>2, <1>3 DEF Settled, Common
<1>5. role[b] = "node" => AsNode(reg[b], 11, NodeAddress[b])
  BY <1>1, <1>2, <1>3 DEF Settled
<1>6. role[b] = "gateway" => AsGateway(reg[b], 14)
  BY <1>1, <1>2, <1>3 DEF Settled
<1>7. PrimRx \subseteq reg[b].config
  BY <1>1, <1>5, <1>6 DEF AsNode, AsGateway, Roles
<1>8. Listening(b)
  BY <1>1, <1>2, <1>3, <1>4, <1>7 DEF Enabled, Listening, IsUp, IsRx
<1>9. 250 \in Rates /\ 8 \in CrcWidths
  BY DEF Rates, CrcWidths
<1>10. GetAirDataRate(reg[b]) = 250 /\ GetCrcWidth(reg[b]) = 8
  BY <1>4, <1>9, Decoded
<1>11. GetRfFrequency(reg[b]) = 2408
  BY <1>4 DEF GetRfFrequency
<1>12. QED
  BY <1>4, <1>5, <1>6, <1>8, <1>10, <1>11

\* The receiver is never on before the board's set-up is complete.
THEOREM NeverHalfSetUp == Spec => []ReceivesOnlyWhenReady
<1>1. IInv => ReceivesOnlyWhenReady
  <2> SUFFICES ASSUME IInv, NEW b \in Boards, step[b] >= 0, Listening(b) PROVE Ready(b)
    BY DEF ReceivesOnlyWhenReady
  <2>1. Enabled(role[b], ce[b], step[b]) /\ ce[b]
    BY DEF IInv, Board, Listening
  <2>2. step[b] > StepsIn(role[b])
    BY <2>1 DEF Enabled
  <2>3. QED
    BY <2>2 DEF Ready, StepsOf, StepsIn
<1>2. QED
  BY <1>1, BoardsSettled, PTL

\* All five bytes of an address are the address.
LEMMA AllBytes ==
    ASSUME NEW a \in Addresses
    PROVE  LowBytes(a, 5) = a
    BY DEF LowBytes, Addresses

\* The gateway reads back the three addresses it wrote, pipe 2's upper bytes from pipe 1.
LEMMA GatewayReadsBack ==
    ASSUME NEW r \in Registers, r.aw = 5, AsGateway(r, 14)
    PROVE  /\ r.enRxAddr = GatewayPipes
           /\ \A p \in GatewayPipes : GetRxAddress(r, p) = GatewayAddress(p) /\ GetTransferSize(r, p) = 32
<1>1. /\ r.enRxAddr = {0} \cup {p \in GatewayPipes : 14 >= 7 + p}
      /\ r.rxAddr[0] = GatewayAddress(0) /\ r.rxAddr[1] = GatewayAddress(1) /\ r.rxAddr[2][1] = 2
      /\ \A p \in GatewayPipes : r.rxPw[p] = 32
  BY DEF AsGateway, GatewayPipes
<1>2. r.enRxAddr = GatewayPipes
  BY <1>1 DEF GatewayPipes
<1>3. \A p \in GatewayPipes : GatewayAddress(p) \in Addresses
  BY DEF GatewayPipes, GatewayAddress, Addresses
<1>4. GetRxAddress(r, 0) = GatewayAddress(0) /\ GetRxAddress(r, 1) = GatewayAddress(1)
  <2>1. GatewayAddress(0) \in Addresses /\ GatewayAddress(1) \in Addresses
    BY <1>3 DEF GatewayPipes
  <2>2. LowBytes(r.rxAddr[0], r.aw) = GatewayAddress(0) /\ LowBytes(r.rxAddr[1], r.aw) = GatewayAddress(1)
    BY <1>1, <2>1, AllBytes
  <2>3. QED
    BY <2>2 DEF GetRxAddress, OwnWidth
<1>5. GetRxAddress(r, 2) = GatewayAddress(2)
  <2>1. GatewayAddress(1) \in Addresses
    BY <1>3 DEF GatewayPipes
  <2>2. LowBytes(r.rxAddr[1], r.aw) = GatewayAddress(1)
    BY <1>1, <2>1, AllBytes
  <2>3. GetRxAddress(r, 2) = [GatewayAddress(1) EXCEPT ![1] = 2]
    BY <1>1, <2>2 DEF GetRxAddress, OwnWidth
  <2>4. [GatewayAddress(1) EXCEPT ![1] = 2] = GatewayAddress(2)
    BY DEF GatewayAddress
  <2>5. QED
    BY <2>3, <2>4
<1>6. \A p \in GatewayPipes : GetTransferSize(r, p) = 32
  BY <1>1 DEF GetTransferSize
<1>7. QED
  BY <1>2, <1>4, <1>5, <1>6 DEF GatewayPipes

\* Set-up boards hear one another exactly where the programs expect it.
THEOREM SetUpBoardsHear == Spec => []FramesReachTheirPipe
<1>1. IInv => FramesReachTheirPipe
  <2> SUFFICES ASSUME IInv, NEW a \in Boards, NEW b \in Boards,
                      role[a] = "node", Ready(a), Ready(b)
               PROVE  Accepting(b, a, FrameSize) = Expected(b, NodeAddress[a])
    BY DEF FramesReachTheirPipe
  <2>1. NodeAddress[a] \in Addresses /\ NodeAddress[b] \in Addresses /\ role[b] \in Roles
        /\ reg[a] \in Registers /\ reg[b] \in Registers
    BY RadioSetupAssumption DEF IInv, Typed
  <2>2. SameAir(reg[a], reg[b]) /\ Listening(b)
    BY OnAir DEF SameAir
  <2>3. GetTxAddress(reg[a]) = NodeAddress[a]
    <3>1. reg[a].aw = 5 /\ reg[a].txAddr = NodeAddress[a]
      BY OnAir DEF AsNode
    <3>2. QED
      BY <2>1, <3>1, AllBytes DEF GetTxAddress
  <2>4. Accepting(b, a, FrameSize) =
          {p \in reg[b].enRxAddr : /\ GetRxAddress(reg[b], p) = NodeAddress[a]
                                   /\ IsDynamic(reg[b], p) \/ GetTransferSize(reg[b], p) = 32}
    BY <2>2, <2>3, Zenon DEF Accepting, FrameSize
  <2>5. CASE role[b] = "gateway"
    <3>1. /\ reg[b].enRxAddr = GatewayPipes
          /\ \A p \in GatewayPipes : GetRxAddress(reg[b], p) = GatewayAddress(p) /\ GetTransferSize(reg[b], p) = 32
      BY <2>1, <2>5, OnAir, GatewayReadsBack
    <3>2. QED
      BY <2>4, <2>5, <3>1 DEF Expected
  <2>6. CASE role[b] = "node"
    <3>1. /\ reg[b].aw = 5 /\ reg[b].enRxAddr = {0} /\ reg[b].rxAddr[0] = NodeAddress[b] /\ reg[b].rxPw[0] = 32
      BY <2>6, OnAir DEF AsNode
    <3>2. GetRxAddress(reg[b], 0) = NodeAddress[b]
      BY <2>1, <3>1, AllBytes DEF GetRxAddress, OwnWidth
    <3>3. GetTransferSize(reg[b], 0) = 32
      BY <3>1 DEF GetTransferSize
    <3>4. QED
      BY <2>4, <2>6, <3>1, <3>2, <3>3 DEF Expected
  <2>7. QED
    BY <2>1, <2>5, <2>6 DEF Roles
<1>2. QED
  BY <1>1, BoardsSettled, PTL

=============================================================================
