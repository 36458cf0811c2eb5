------------------------ MODULE RadioRegistersProofs ------------------------
(***************************************************************************)
(* Facts about the setters as functions on registers: bit fields, their     *)
(* codes, addresses, and what the constructor makes of any registers.        *)
(***************************************************************************)
EXTENDS RadioRegisters, TLAPS

-----------------------------------------------------------------------------
(* Fields of a register. *)

\* What is written to a field is what the field then holds.
LEMMA FieldWritten ==
    ASSUME NEW x, NEW mask, NEW b, b \subseteq mask
    PROVE  ((x \ mask) \cup b) \cap mask = b
    OBVIOUS

\* Writing a field leaves a field apart from it as it was.
LEMMA FieldKept ==
    ASSUME NEW x, NEW mask, NEW b, NEW other,
           b \subseteq mask, mask \cap other = {}
    PROVE  ((x \ mask) \cup b) \cap other = x \cap other
    OBVIOUS

\* The codes of the powers, rates and CRC widths, each in its own field.
LEMMA CodesInFields ==
    /\ \A p \in Powers : PwrBits[p] \subseteq PwrMask
    /\ \A d \in Rates : DrBits[d] \subseteq DrMask
    /\ \A w \in CrcWidths : CrcBits[w] \subseteq CrcMask
    BY DEF Powers, PwrBits, PwrMask, Rates, DrBits, DrMask, CrcWidths, CrcBits, CrcMask

\* The fields of CONFIG are apart, and those of RF_SETUP.
LEMMA FieldsApart ==
    /\ PwrMask \cap DrMask = {} /\ DrMask \cap PwrMask = {}
    /\ CrcMask \cap PwrUp = {} /\ CrcMask \cap PrimRx = {}
    /\ PwrUp \cap CrcMask = {} /\ PrimRx \cap CrcMask = {}
    /\ PwrUp \cap PrimRx = {} /\ PrimRx \cap PwrUp = {}
    BY DEF PwrMask, DrMask, CrcMask, PwrUp, PrimRx

\* Different settings have different codes.
LEMMA CodesDiffer ==
    /\ \A p, q \in Powers : PwrBits[p] = PwrBits[q] => p = q
    /\ \A d, e \in Rates : DrBits[d] = DrBits[e] => d = e
    /\ \A v, w \in CrcWidths : CrcBits[v] = CrcBits[w] => v = w
<1>1. ASSUME NEW p \in Powers, NEW q \in Powers, PwrBits[p] = PwrBits[q] PROVE p = q
      <2>1. \A b \in PwrMask : b \in PwrBits[p] <=> b \in PwrBits[q]
            BY <1>1
      <2> QED BY <2>1 DEF PwrBits, PwrMask, Powers
<1>2. ASSUME NEW d \in Rates, NEW e \in Rates, DrBits[d] = DrBits[e] PROVE d = e
      <2>1. \A b \in DrMask : b \in DrBits[d] <=> b \in DrBits[e]
            BY <1>2
      <2> QED BY <2>1 DEF DrBits, DrMask, Rates
<1>3. ASSUME NEW v \in CrcWidths, NEW w \in CrcWidths, CrcBits[v] = CrcBits[w] PROVE v = w
      <2>1. \A b \in CrcMask : b \in CrcBits[v] <=> b \in CrcBits[w]
            BY <1>3
      <2> QED BY <2>1 DEF CrcBits, CrcMask, CrcWidths
<1> QED BY <1>1, <1>2, <1>3

\* The code of each setting is the one its getter decodes to it.
LEMMA Decoded ==
    ASSUME NEW r
    PROVE  /\ \A p \in Powers : r.rfSetup \cap PwrMask = PwrBits[p] => GetRfOutputPower(r) = p
           /\ \A d \in Rates : r.rfSetup \cap DrMask = DrBits[d] => GetAirDataRate(r) = d
           /\ \A w \in CrcWidths : r.config \cap CrcMask = CrcBits[w] => GetCrcWidth(r) = w
<1>1. DOMAIN PwrBits = Powers /\ DOMAIN DrBits = Rates /\ DOMAIN CrcBits = CrcWidths
      BY DEF PwrBits, DrBits, CrcBits
<1>2. \A p \in Powers : r.rfSetup \cap PwrMask = PwrBits[p] => GetRfOutputPower(r) = p
      BY <1>1, CodesDiffer DEF GetRfOutputPower, Decode
<1>3. \A d \in Rates : r.rfSetup \cap DrMask = DrBits[d] => GetAirDataRate(r) = d
      BY <1>1, CodesDiffer DEF GetAirDataRate, Decode
<1>4. \A w \in CrcWidths : r.config \cap CrcMask = CrcBits[w] => GetCrcWidth(r) = w
      BY <1>1, CodesDiffer DEF GetCrcWidth, Decode
<1> QED BY <1>2, <1>3, <1>4

\* Whatever is masked and written, a register of bits is one.
LEMMA BitsStayBits ==
    /\ \A x \in SUBSET Bits, p \in Powers : (x \ PwrMask) \cup PwrBits[p] \in SUBSET Bits
    /\ \A x \in SUBSET Bits, d \in Rates : (x \ DrMask) \cup DrBits[d] \in SUBSET Bits
    /\ \A x \in SUBSET Bits, w \in CrcWidths : (x \ CrcMask) \cup CrcBits[w] \in SUBSET Bits
    /\ \A x \in SUBSET Bits : {x \cup PwrUp, x \ PwrUp, x \cup PrimRx, x \ PrimRx} \subseteq SUBSET Bits
<1>1. PwrMask \subseteq Bits /\ DrMask \subseteq Bits /\ CrcMask \subseteq Bits
      /\ PwrUp \subseteq Bits /\ PrimRx \subseteq Bits
      BY DEF PwrMask, DrMask, CrcMask, PwrUp, PrimRx, Bits
<1> QED BY <1>1, CodesInFields

\* Setting or clearing a field of one kind leaves one apart from it as it was.
LEMMA BitsApart ==
    ASSUME NEW x, NEW m, NEW other, m \cap other = {}
    PROVE  (x \cup m) \cap other = x \cap other /\ (x \ m) \cap other = x \cap other
    OBVIOUS

-----------------------------------------------------------------------------
(* Addresses, and the constructor. *)

\* The bytes written are those given, the others those there were.
LEMMA Overwritten ==
    ASSUME NEW old \in Addresses, NEW a \in Addresses, NEW w \in 1..5
    PROVE  /\ Overwrite(old, a, w) \in Addresses
           /\ \A i \in 1..5 : i <= w => Overwrite(old, a, w)[i] = a[i]
    BY DEF Overwrite, Addresses

\* The constructor's first half: CONFIG, the radio's settings and the pipes off.
LEMMA DefaultRadioFields ==
    ASSUME NEW r \in Registers
    PROVE  LET s == DefaultRadio(r)
           IN  /\ s \in Registers
               /\ s.config = ({} \ CrcMask) \cup CrcBits[8]
               /\ s.rfSetup = (((r.rfSetup \ PwrMask) \cup PwrBits[0]) \ DrMask) \cup DrBits[1000]
               /\ s.rfCh = 2 /\ s.enRxAddr = {} /\ s.rxPw = r.rxPw
               /\ s.txAddr = r.txAddr /\ s.rxAddr = r.rxAddr
<1> DEFINE r1 == DisableAllRxPipes([r EXCEPT !.config = {}])
           r2 == SetRfFrequency(r1, 2402)
           r3 == SetRfOutputPower(r2, 0)
           r4 == SetAirDataRate(r3, 1000)
           s  == SetCrcWidth(r4, 8)
<1>1. /\ r1 \in Registers /\ r1.config = {} /\ r1.enRxAddr = {}
      /\ r1.rfSetup = r.rfSetup /\ r1.rxPw = r.rxPw
      /\ r1.txAddr = r.txAddr /\ r1.rxAddr = r.rxAddr
      BY ZenonT(60) DEF DisableAllRxPipes, Registers
<1> HIDE DEF r1
<1>2. /\ r2 \in Registers /\ r2.config = {} /\ r2.enRxAddr = {} /\ r2.rfCh = 2
      /\ r2.rfSetup = r.rfSetup /\ r2.rxPw = r.rxPw
      /\ r2.txAddr = r.txAddr /\ r2.rxAddr = r.rxAddr
      BY <1>1 DEF SetRfFrequency, Registers
<1> HIDE DEF r2
<1>3. /\ r3 \in Registers /\ r3.config = {} /\ r3.enRxAddr = {} /\ r3.rfCh = 2
      /\ r3.rfSetup = (r.rfSetup \ PwrMask) \cup PwrBits[0] /\ r3.rxPw = r.rxPw
      /\ r3.txAddr = r.txAddr /\ r3.rxAddr = r.rxAddr
      <2>1. r2.rfSetup \in SUBSET Bits /\ 0 \in Powers
            BY <1>2 DEF Registers, Powers
      <2> QED BY ZenonT(60), <1>2, <2>1, BitsStayBits DEF SetRfOutputPower, Registers
<1> HIDE DEF r3
<1>4. /\ r4 \in Registers /\ r4.config = {} /\ r4.enRxAddr = {} /\ r4.rfCh = 2
      /\ r4.rfSetup = (((r.rfSetup \ PwrMask) \cup PwrBits[0]) \ DrMask) \cup DrBits[1000]
      /\ r4.rxPw = r.rxPw /\ r4.txAddr = r.txAddr /\ r4.rxAddr = r.rxAddr
      <2>1. r3.rfSetup \in SUBSET Bits /\ 1000 \in Rates
            BY <1>3 DEF Registers, Rates
      <2> DEFINE v == (r3.rfSetup \ DrMask) \cup DrBits[1000]
      <2>2. v \in SUBSET Bits /\ r4 = [r3 EXCEPT !.rfSetup = v]
            BY <2>1, BitsStayBits DEF SetAirDataRate
      <2>3. v = (((r.rfSetup \ PwrMask) \cup PwrBits[0]) \ DrMask) \cup DrBits[1000]
            BY <1>3
      <2> HIDE DEF v, r4
      <2> QED BY <1>3, <2>2, <2>3 DEF Registers
<1> HIDE DEF r4
<1>5. /\ s \in Registers /\ s.config = ({} \ CrcMask) \cup CrcBits[8]
      /\ s.rfSetup = r4.rfSetup /\ s.enRxAddr = {} /\ s.rfCh = 2
      /\ s.rxPw = r.rxPw /\ s.txAddr = r.txAddr /\ s.rxAddr = r.rxAddr
      <2>1. r4.config \in SUBSET Bits /\ 8 \in CrcWidths
            BY <1>4 DEF Registers, CrcWidths
      <2> DEFINE v == (r4.config \ CrcMask) \cup CrcBits[8]
      <2>2. v \in SUBSET Bits /\ s = [r4 EXCEPT !.config = v]
            BY <2>1, BitsStayBits DEF SetCrcWidth
      <2>3. v = ({} \ CrcMask) \cup CrcBits[8]
            BY <1>4
      <2> HIDE DEF v, s
      <2> QED BY <1>4, <2>2, <2>3 DEF Registers
<1>6. DefaultRadio(r) = s
      BY DEF DefaultRadio, r1, r2, r3, r4, DefaultFrequency, DefaultPower, DefaultRate, DefaultCrc
<1> QED BY <1>4, <1>5, <1>6

\* Its second half: addresses, acknowledgement and pipe 0's size.
LEMMA DefaultLinkFields ==
    ASSUME NEW r \in Registers
    PROVE  LET s == DefaultLink(r)
           IN  /\ s \in Registers
               /\ s.config = r.config /\ s.rfSetup = r.rfSetup /\ s.rfCh = r.rfCh
               /\ s.aw = 5 /\ s.enRxAddr = r.enRxAddr \cup {0} /\ s.enAA = {}
               /\ \A i \in 1..5 : s.txAddr[i] = E7s[i] /\ s.rxAddr[0][i] = E7s[i]
               /\ \A p \in AllPipes \ {0} : s.rxAddr[p] = r.rxAddr[p] /\ s.rxPw[p] = r.rxPw[p]
               /\ s.rxPw[0] = 4
<1> DEFINE txa == Overwrite(r.txAddr, E7s, 5)
           rxa == Overwrite(r.rxAddr[0], E7s, 5)
           r1 == SetTxAddress(r, E7s, 5)
           r2 == SetRxAddress(r1, E7s, 5, 0)
           r3 == DisableAutoRetransmit(DisableAutoAck(r2))
           s  == SetTransferSize(r3, DefaultSize, 0)
<1>0. E7s \in Addresses /\ r.txAddr \in Addresses /\ r.rxAddr[0] \in Addresses
      <2>1. E7s \in Addresses
            BY DEF E7s, Addresses
      <2>2. r.txAddr \in Addresses /\ r.rxAddr \in [AllPipes -> Addresses] /\ 0 \in AllPipes
            BY DEF Registers, AllPipes
      <2> QED BY <2>1, <2>2
<1>a. /\ txa \in Addresses /\ rxa \in Addresses
      /\ \A i \in 1..5 : txa[i] = E7s[i] /\ rxa[i] = E7s[i]
      BY <1>0, Overwritten
<1>1. r1 = [r EXCEPT !.aw = 5, !.txAddr = txa]
      BY DEF SetTxAddress, Registers
<1> HIDE DEF txa, r1
<1>2. /\ r1 \in Registers /\ r1.rxAddr = r.rxAddr /\ r1.enRxAddr = r.enRxAddr /\ r1.txAddr = txa
      /\ r1.config = r.config /\ r1.rfSetup = r.rfSetup /\ r1.rfCh = r.rfCh /\ r1.rxPw = r.rxPw
      <2>1. 5 \in Width
            BY DEF Width
      <2> QED BY ZenonT(60), <1>1, <1>a, <2>1 DEF Registers
<1>3. r2 = [r1 EXCEPT !.aw = 5, !.rxAddr[0] = rxa, !.enRxAddr = r.enRxAddr \cup {0}]
      BY <1>2 DEF SetRxAddress, OwnWidth, Registers, AllPipes
<1> HIDE DEF rxa, r2
<1>4. /\ r2 \in Registers /\ r2.aw = 5 /\ r2.enRxAddr = r.enRxAddr \cup {0} /\ r2.txAddr = txa
      /\ r2.config = r.config /\ r2.rfSetup = r.rfSetup /\ r2.rfCh = r.rfCh /\ r2.rxPw = r.rxPw
      /\ r2.rxAddr[0] = rxa /\ \A p \in AllPipes \ {0} : r2.rxAddr[p] = r.rxAddr[p]
      <2>1. 0 \in AllPipes /\ 5 \in Width /\ r1.enRxAddr \in SUBSET AllPipes
            BY <1>2 DEF AllPipes, Width, Registers
      <2>2. r2.rxAddr = [r1.rxAddr EXCEPT ![0] = rxa] /\ r1.rxAddr \in [AllPipes -> Addresses]
            BY <1>2, <1>3 DEF Registers
      <2>3. r2.rxAddr \in [AllPipes -> Addresses]
            BY <1>a, <2>1, <2>2
      <2>4. r2 = [r1 EXCEPT !.aw = 5, !.rxAddr = r2.rxAddr, !.enRxAddr = r.enRxAddr \cup {0}]
            BY <1>2, <1>3 DEF Registers
      <2> DEFINE x == r2.rxAddr
                 e == r.enRxAddr \cup {0}
      <2>a. e \in SUBSET AllPipes /\ x \in [AllPipes -> Addresses]
            BY <1>2, <2>1, <2>3
      <2>b. r2 = [r1 EXCEPT !.aw = 5, !.rxAddr = x, !.enRxAddr = e]
            BY <2>4
      <2> HIDE DEF x, e
      <2>5. r2 \in Registers
            BY ZenonT(60), <1>2, <2>1, <2>a, <2>b DEF Registers
      <2> USE DEF x, e
      <2>6. /\ r2.aw = 5 /\ r2.enRxAddr = r.enRxAddr \cup {0} /\ r2.txAddr = txa
            /\ r2.config = r.config /\ r2.rfSetup = r.rfSetup /\ r2.rfCh = r.rfCh
            /\ r2.rxPw = r.rxPw
            BY <1>2, <1>3 DEF Registers
      <2> QED BY <1>2, <2>1, <2>2, <2>5, <2>6
<1>5. /\ r3 \in Registers /\ r3.aw = 5 /\ r3.enRxAddr = r.enRxAddr \cup {0} /\ r3.txAddr = txa
      /\ r3.config = r.config /\ r3.rfSetup = r.rfSetup /\ r3.rfCh = r.rfCh /\ r3.rxPw = r.rxPw
      /\ r3.rxAddr = r2.rxAddr /\ r3.enAA = {}
      <2>1. r3 = [r2 EXCEPT !.enAA = {}, !.ard = 0, !.arc = 0]
            BY DEF DisableAutoRetransmit, DisableAutoAck
      <2>2. 0 \in 0..15 /\ {} \in SUBSET AllPipes
            OBVIOUS
      <2> HIDE DEF r3
      <2> QED BY ZenonT(60), <1>4, <2>1, <2>2 DEF Registers
<1> HIDE DEF r3
<1>6. s = [r3 EXCEPT !.rxPw = [r.rxPw EXCEPT ![0] = 4]]
      BY <1>5 DEF SetTransferSize, DefaultSize, Registers
<1>7. [r.rxPw EXCEPT ![0] = 4] \in [AllPipes -> 0..63]
      BY DEF Registers, AllPipes
<1>8. s \in Registers /\ s.rxPw = [r.rxPw EXCEPT ![0] = 4] /\ s.rxAddr = r2.rxAddr
      /\ s.txAddr = txa /\ s.aw = 5 /\ s.enRxAddr = r.enRxAddr \cup {0} /\ s.enAA = {}
      /\ s.config = r.config /\ s.rfSetup = r.rfSetup /\ s.rfCh = r.rfCh
      BY <1>5, <1>6, <1>7 DEF Registers
<1>9. s.rxPw[0] = 4 /\ \A p \in AllPipes \ {0} : s.rxPw[p] = r.rxPw[p]
      BY <1>8 DEF Registers, AllPipes
<1>10. DefaultLink(r) = s
      BY DEF DefaultLink, r1, r2, r3
<1> HIDE DEF s
<1> QED BY ZenonT(60), <1>a, <1>4, <1>8, <1>9, <1>10

\* Whatever the registers held, the whole constructor.
LEMMA ConstructedFields ==
    ASSUME NEW r \in Registers
    PROVE  LET s == Constructed(r)
           IN  /\ s \in Registers
               /\ s.aw = 5 /\ s.enAA = {} /\ s.enRxAddr = {0}
<1> DEFINE d == DefaultRadio(r)
<1>1. d \in Registers /\ d.enRxAddr = {}
      BY DefaultRadioFields
<1>2. Constructed(r) = DefaultLink(d)
      BY DEF Constructed
<1> HIDE DEF d
<1> QED BY <1>1, <1>2, DefaultLinkFields
=============================================================================
