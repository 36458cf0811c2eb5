---------------------------- MODULE Dht11Proofs ----------------------------
(***************************************************************************)
(* Safety of Dht11 for bytes of any length, any loop limit and any number   *)
(* of slips.  What a read returns at its end depends on where sensor and    *)
(* driver are while it runs: InStep says it for every wait of a read in     *)
(* which at most one thing has gone wrong.  Either both are at the same bit *)
(* and the bits so far are those sent, but for one; or the sensor is ahead  *)
(* by a level that was missed, and will fall silent before the last bit is  *)
(* read; or the answer was late and every bit is the one before.  What the  *)
(* sum of the bytes then tells rests on the value of a set of bits, which   *)
(* comes first.                                                             *)
(***************************************************************************)
EXTENDS Dht11, FiniteSetTheorems, WellFoundedInduction, TLAPS

\* The driver's three ways to count the bits agree.
Counting ==
    /\ pc \in Waits => i = idx * ByteBits + (ByteBits - 1 - cnt) /\ i < TotalBits
    /\ pc \notin {"bitLow", "bitHigh"} => bits = Nothing /\ idx = 0 /\ cnt = ByteBits - 1 /\ i = 0

-----------------------------------------------------------------------------
(* Arithmetic of the positions. *)

LEMMA Constants ==
    /\ ByteBits \in Nat /\ ByteBits >= 1 /\ ByteBits - 1 \in Bits /\ 0 \in Bits
    /\ LoopLimit \in Nat /\ SettleTime \in Nat /\ MaxSlips \in Nat
    /\ TotalBits \in Nat /\ TotalBits >= 5
    /\ \A k \in Bits : k \in Nat /\ k < ByteBits
  BY Dht11Assumption DEF TotalBits, Bits

LEMMA Ranges ==
    /\ Nothing \in [Bytes -> SUBSET Bits]
    /\ LoopLimit \in 0..LoopLimit /\ 0 \in 0..LoopLimit /\ 0 \in 0..SettleTime
    /\ 0 \in 0..MaxSlips /\ 0 \in 0..TotalBits /\ 0 \in 0..5
    /\ 0 \in Bytes /\ 2 \in Bytes /\ 4 \in Bytes
    /\ Transmissions \subseteq [Bytes -> SUBSET Bits]
<1>1. Nothing \in [Bytes -> SUBSET Bits]
  BY DEF Nothing
<1>2. Transmissions \subseteq [Bytes -> SUBSET Bits]
  BY Dht11Assumption
<1>3. QED
  BY <1>1, <1>2, Constants DEF Bytes

LEMMA Strides ==
    ASSUME NEW b \in 0..5, NEW k \in Bits
    PROVE  /\ b * ByteBits \in Nat
           /\ b = 5 => b * ByteBits = TotalBits
           /\ b = 4 => b * ByteBits + ByteBits = TotalBits
           /\ b < 4 => b * ByteBits + ByteBits + ByteBits <= TotalBits
           /\ (b + 1) * ByteBits = b * ByteBits + ByteBits
<1>1. ByteBits \in Nat
  BY Constants
<1>2. b = 0 \/ b = 1 \/ b = 2 \/ b = 3 \/ b = 4 \/ b = 5
  OBVIOUS
<1>3. b * ByteBits \in Nat
  BY <1>1, <1>2
<1>4. (b + 1) * ByteBits = b * ByteBits + ByteBits
  BY <1>1, <1>2
<1>5. /\ b = 5 => b * ByteBits = TotalBits
      /\ b = 4 => b * ByteBits + ByteBits = TotalBits
      /\ b < 4 => b * ByteBits + ByteBits + ByteBits <= TotalBits
  BY <1>1, <1>2 DEF TotalBits
<1>6. QED
  BY <1>3, <1>4, <1>5

\* Until the last bit there is a byte for the next one; the last is the fifth's.
LEMMA Places ==
    ASSUME NEW b \in 0..5, NEW k \in Bits, NEW n \in Nat,
           n = b * ByteBits + (ByteBits - 1 - k), n < TotalBits
    PROVE  /\ b <= 4
           /\ n + 1 = TotalBits <=> (b = 4 /\ k = 0)
           /\ n + 1 = NextByte(b, k) * ByteBits + (ByteBits - 1 - BitAfter(k))
           /\ NextByte(b, k) \in 0..5 /\ BitAfter(k) \in Bits /\ NextBit(k) = BitAfter(k)
<1>1. /\ b \in Nat /\ b <= 5 /\ k \in Nat /\ k < ByteBits /\ ByteBits \in Nat /\ TotalBits \in Nat
      /\ ByteBits - 1 \in Bits
  BY Constants
<1>2. b <= 4
  BY <1>1, Strides
<1>3. n + 1 = TotalBits <=> (b = 4 /\ k = 0)
  <2>1. CASE b = 4
    BY <1>1, <2>1, Strides
  <2>2. CASE b < 4
    BY <1>1, <2>2, Strides
  <2>3. QED
    BY <1>1, <1>2, <2>1, <2>2
<1>4. BitAfter(k) \in Bits /\ NextBit(k) = BitAfter(k)
  BY <1>1 DEF BitAfter, NextBit, Bits
<1>5. NextByte(b, k) \in 0..5
  BY <1>1, <1>2 DEF NextByte
<1>6. n + 1 = NextByte(b, k) * ByteBits + (ByteBits - 1 - BitAfter(k))
  <2>1. CASE k = 0
    BY <1>1, <2>1, Strides DEF NextByte, BitAfter
  <2>2. CASE k # 0
    BY <1>1, <2>2, Strides DEF NextByte, BitAfter
  <2>3. QED
    BY <2>1, <2>2
<1>7. QED
  BY <1>2, <1>3, <1>4, <1>5, <1>6

-----------------------------------------------------------------------------
(* Types, and the counting of bits. *)

LEMMA Phased ==
    ASSUME TypeOK, Advance
    PROVE  phase' \in Phases /\ byte' \in Bytes /\ bit' \in Bits
<1>1. phase' \in Phases
  BY DEF Advance, Phases
<1>2. CASE UNCHANGED <<byte, bit>>
  BY <1>1, <1>2 DEF TypeOK
<1>3. CASE ~LastBit /\ byte' = NextByte(byte, bit) /\ bit' = NextBit(bit)
  <2>1. NextBit(bit) \in Bits
    BY Constants DEF TypeOK, NextBit, Bits
  <2>2. NextByte(byte, bit) \in Bytes
    BY <1>3, Constants DEF TypeOK, NextByte, LastBit, Bytes
  <2>3. QED
    BY <1>1, <1>3, <2>1, <2>2
<1>4. QED
  BY <1>2, <1>3 DEF Advance

LEMMA Forgotten ==
    ASSUME NoLocals
    PROVE  /\ bits' \in [Bytes -> SUBSET Bits] /\ bits' = Nothing
           /\ idx' = 0 /\ cnt' = ByteBits - 1 /\ i' = 0
           /\ idx' \in 0..5 /\ cnt' \in Bits /\ i' \in 0..TotalBits
           /\ loopCnt' \in 0..LoopLimit /\ long' \in BOOLEAN
<1>1. bits' = Nothing /\ idx' = 0 /\ cnt' = ByteBits - 1 /\ i' = 0 /\ loopCnt' = 0 /\ long' = FALSE
  BY DEF NoLocals, Nothing
<1>2. QED
  BY <1>1, Constants, Ranges

LEMMA OneReceived ==
    ASSUME TypeOK, NEW one \in BOOLEAN
    PROVE  Received(one) \in [Bytes -> SUBSET Bits]
  BY DEF TypeOK, Received

LEMMA Counted ==
    ASSUME TypeOK, NEW one \in BOOLEAN, Measure(one)
    PROVE  slips' \in 0..MaxSlips /\ slips' \in {slips, slips + 1} /\ (one # long => slips' = slips + 1)
  BY Constants DEF TypeOK, Measure

LEMMA InitTypeOK ==
    ASSUME Init
    PROVE  TypeOK
<1>1. bits \in [Bytes -> SUBSET Bits] /\ sent \in [Bytes -> SUBSET Bits]
  BY Ranges DEF Init
<1>2. humidity \in Readings /\ temperature \in Readings
  BY DEF Init, Readings
<1>3. pc \in Steps /\ result \in Results /\ phase \in Phases /\ running \in BOOLEAN
  BY DEF Init, Steps, Results, Phases, TimerStarts
<1>4. cnt \in Bits /\ bit \in Bits /\ byte \in Bytes /\ long \in BOOLEAN /\ seen \in BOOLEAN /\ late \in BOOLEAN
  BY Constants, Ranges DEF Init
<1>5. QED
  BY <1>1, <1>2, <1>3, <1>4, Ranges DEF Init, TypeOK

LEMMA TypeStep ==
    ASSUME TypeOK, Counting, [Next]_vars
    PROVE  TypeOK'
<1> USE DEF TypeOK, Steps, Waits
<1>1. CASE SensorMoves
  BY <1>1, Phased DEF SensorMoves, values, locals, position, clock, faults
<1>2. CASE SensorOutruns
  <2>1. slips' \in 0..MaxSlips
    BY <1>2, Constants DEF SensorOutruns
  <2>2. long' \in BOOLEAN
    BY <1>2 DEF SensorOutruns
  <2>3. QED
    BY <1>2, <2>1, <2>2, Phased DEF SensorOutruns, values, position, clock
<1>3. CASE ClockTicks
  BY <1>3, Constants DEF ClockTicks, values, locals, position, sensor, faults
<1>4. CASE BeginRead
  BY <1>4 DEF BeginRead, values, locals, position, clock, sensor, faults, Results
<1>5. CASE Settle
  BY <1>5 DEF Settle, values, locals, position, sensor, faults
<1>6. CASE StartPulse
  BY <1>6, Constants, Ranges DEF StartPulse, values, position, clock, Phases
<1>7. CASE PollAgain
  BY <1>7, Constants, Ranges DEF PollAgain, Exhausted, values, position, clock, sensor, faults
<1>8. CASE GiveUp
  BY <1>8, Forgotten DEF GiveUp, Return, values, clock, sensor, faults, Results
<1>9. CASE AckLowEnds
  BY <1>9, Constants, Ranges DEF AckLowEnds, GoOn, values, position, clock, sensor
<1>10. CASE AckHighEnds
  BY <1>10, Constants, Ranges DEF AckHighEnds, GoOn, values, position, clock, sensor
<1>11. CASE BitLowEnds
  BY <1>11, Constants, Ranges DEF BitLowEnds, GoOn, values, position, clock, sensor
<1>12. CASE BitHighEnds
  <2>1. PICK one \in BOOLEAN : Measure(one) /\ bits' = Received(one)
    BY <1>12 DEF BitHighEnds
  <2>2. bits' \in [Bytes -> SUBSET Bits] /\ slips' \in 0..MaxSlips
    BY <2>1, OneReceived, Counted
  <2>3. i = idx * ByteBits + (ByteBits - 1 - cnt) /\ i < TotalBits /\ i \in Nat
    BY <1>12, Constants DEF BitHighEnds, Changed, Counting
  <2>4. cnt' \in Bits /\ idx' \in 0..5
    BY <1>12, <2>3, Places DEF BitHighEnds
  <2>5. i' \in 0..TotalBits
    BY <1>12, <2>3, Constants DEF BitHighEnds
  <2>6. QED
    BY <1>12, <2>2, <2>4, <2>5, Ranges DEF BitHighEnds, values, clock, sensor
<1>13. CASE Finish
  <2>1. PICK one \in BOOLEAN :
          /\ Measure(one)
          /\ humidity' = Value(Received(one)[0])
          /\ temperature' = Value(Received(one)[2])
          /\ Return(IF ChecksumHolds(Received(one)) THEN "OK" ELSE "ERROR_CHECKSUM")
    BY <1>13 DEF Finish
  <2>2. humidity' \in Readings /\ temperature' \in Readings
    BY <2>1, OneReceived DEF Readings, Bytes
  <2>3. pc' \in Steps /\ result' \in Results
    BY <2>1 DEF Return, Results
  <2>4. QED
    BY <1>13, <2>1, <2>2, <2>3, Counted, Forgotten DEF Finish, Return, clock, sensor
<1>14. CASE Construct
  BY <1>14, Constants, Forgotten DEF Construct, Return, sensor, faults, Readings, Results, TimerStarts
<1>15. CASE UNCHANGED vars
  BY <1>15 DEF vars, values, locals, position, clock, sensor, faults
<1>16. QED
  BY <1>1, <1>2, <1>3, <1>4, <1>5, <1>6, <1>7, <1>8, <1>9, <1>10, <1>11, <1>12, <1>13, <1>14, <1>15
     DEF Next, Read

LEMMA CountingStep ==
    ASSUME TypeOK, Counting, [Next]_vars
    PROVE  Counting'
<1> USE DEF Counting, Waits
<1>1. CASE UNCHANGED <<pc, bits, position>>
  BY <1>1 DEF position
<1>2. CASE BeginRead \/ Settle \/ StartPulse
  <2>1. UNCHANGED <<bits, position>> /\ pc \notin Waits /\ pc' \in {"settle", "start", "ackLow"}
    BY <1>2 DEF BeginRead, Settle, StartPulse, locals
  <2>2. bits' = Nothing /\ idx' = 0 /\ cnt' = ByteBits - 1 /\ i' = 0
    BY <2>1 DEF position
  <2>3. 0 = 0 * ByteBits + (ByteBits - 1 - (ByteBits - 1)) /\ 0 < TotalBits
    BY Constants
  <2>4. QED
    BY <2>1, <2>2, <2>3
<1>3. CASE GiveUp \/ Finish \/ Construct
  <2>1. NoLocals /\ pc' = "idle"
    BY <1>3 DEF GiveUp, Finish, Construct, Return
  <2>2. QED
    BY <2>1, Forgotten
<1>4. CASE AckLowEnds \/ AckHighEnds \/ BitLowEnds
  BY <1>4 DEF AckLowEnds, AckHighEnds, BitLowEnds, GoOn, Changed, position
<1>5. CASE BitHighEnds
  <2>1. i = idx * ByteBits + (ByteBits - 1 - cnt) /\ i < TotalBits /\ i \in Nat /\ i + 1 # TotalBits
    BY <1>5, Constants DEF BitHighEnds, Changed, AllRead, TypeOK
  <2>2. i + 1 = NextByte(idx, cnt) * ByteBits + (ByteBits - 1 - BitAfter(cnt))
    BY <2>1, Places DEF TypeOK
  <2>3. i' = idx' * ByteBits + (ByteBits - 1 - cnt') /\ i' < TotalBits
    BY <1>5, <2>1, <2>2, Constants DEF BitHighEnds
  <2>4. pc' = "bitLow"
    BY <1>5 DEF BitHighEnds
  <2>5. QED
    BY <2>3, <2>4
<1>6. CASE SensorMoves \/ SensorOutruns \/ ClockTicks \/ PollAgain \/ UNCHANGED vars
  BY <1>1, <1>6 DEF SensorMoves, SensorOutruns, ClockTicks, PollAgain, vars, locals
<1>7. QED
  BY <1>2, <1>3, <1>4, <1>5, <1>6 DEF Next, Read

-----------------------------------------------------------------------------
(* The value of a byte: what its sum over the bits that are one is. *)

\* Every set of naturals that is not empty has a least member.
LEMMA Smallest ==
    ASSUME NEW T \in SUBSET Nat, T # {}
    PROVE  \E m \in T : \A n \in T : m <= n
<1> DEFINE Below == {0..n : n \in T}
<1>1. Below \subseteq FiniteSubsetsOf(Nat) /\ Below # {}
  <2>1. \A n \in Nat : 0..n \subseteq Nat /\ IsFiniteSet(0..n)
    BY FS_Interval
  <2>2. Below # {}
    OBVIOUS
  <2>3. QED
    BY <2>1, <2>2 DEF FiniteSubsetsOf
<1>2. PICK A \in Below : \A B \in Below : <<B, A>> \notin StrictSubsetOrdering(Nat)
  BY <1>1, FS_StrictSubsetOrderingWellFounded, WFMin
<1>3. PICK m \in T : A = 0..m
  OBVIOUS
<1>4. ASSUME NEW n \in T, n < m
      PROVE  FALSE
  <2>1. 0..n \in Below /\ 0..n \subseteq Nat /\ 0..m \subseteq Nat
    OBVIOUS
  <2>2. 0..n \subseteq 0..m /\ m \in 0..m /\ m \notin 0..n
    BY <1>4
  <2>3. <<0..n, 0..m>> \in StrictSubsetOrdering(Nat)
    BY <2>1, <2>2 DEF StrictSubsetOrdering
  <2>4. QED
    BY <1>2, <1>3, <2>1, <2>3
<1>5. QED
  BY <1>4

LEMMA Induction ==
    ASSUME NEW T, 0 \in T, \A n \in Nat : n \in T => n + 1 \in T
    PROVE  Nat \subseteq T
<1>1. SUFFICES ASSUME Nat \ T # {}
               PROVE  FALSE
  OBVIOUS
<1>2. PICK m \in Nat \ T : \A n \in Nat \ T : m <= n
  BY <1>1, Smallest
<1>3. m # 0 /\ m - 1 \in Nat /\ m - 1 \in T
  BY <1>2
<1>4. QED
  BY <1>2, <1>3

\* A set of bits has its first member's weight more than it has without it.
FirstOf(s) == CHOOSE x \in s : TRUE
Sums(b, f) == [s \in SUBSET b |-> IF s = {} THEN 0 ELSE 2 ^ FirstOf(s) + f[s \ {FirstOf(s)}]]

LEMMA ValueIs ==
    ASSUME NEW b
    PROVE  Value(b) = (CHOOSE f : f = Sums(b, f))[b]
  BY Zenon DEF Value, MapThenSumSet, MapThenFoldSet, Sums, FirstOf

\* Powers of two count the sets of naturals below the exponent.
LEMMA Power ==
    ASSUME NEW n \in Nat
    PROVE  2 ^ n \in Nat /\ 2 ^ n = Cardinality(SUBSET (1..n)) /\ IsFiniteSet(SUBSET (1..n))
<1>1. IsFiniteSet(1..n) /\ Cardinality(1..n) = n
  BY FS_Interval
<1>2. IsFiniteSet(SUBSET (1..n)) /\ Cardinality(SUBSET (1..n)) = 2 ^ n
  BY <1>1, FS_SUBSET
<1>3. QED
  BY <1>2, FS_CardinalityType

LEMMA Doubles ==
    ASSUME NEW n \in Nat
    PROVE  2 ^ (n + 1) = 2 * 2 ^ n /\ 2 ^ n >= 1
<1>1. PICK m \in Nat : m = n + 1
  OBVIOUS
<1>2. PICK A, B, C : A = SUBSET (1..n) /\ C = SUBSET (1..m) /\ B = {s \cup {m} : s \in A}
  OBVIOUS
<1>3. 1..m = (1..n) \cup {m} /\ m \notin 1..n
  BY <1>1
<1>4. C = A \cup B /\ A \cap B = {}
  <2>1. \A s \in A : m \notin s
    BY <1>2, <1>3
  <2>2. A \cap B = {}
    BY <1>2, <2>1
  <2>3. A \subseteq C /\ B \subseteq C
    BY <1>2, <1>3
  <2>4. ASSUME NEW s \in C, s \notin A
        PROVE  s \in B
    <3>1. m \in s
      BY <1>2, <1>3, <2>4
    <3>2. s \ {m} \in A /\ s = (s \ {m}) \cup {m}
      BY <1>2, <1>3, <3>1
    <3>3. QED
      BY <1>2, <3>2
  <2>5. QED
    BY <2>2, <2>3, <2>4
<1>5. IsFiniteSet(A) /\ IsFiniteSet(C) /\ Cardinality(A) = 2 ^ n /\ Cardinality(C) = 2 ^ m /\ 2 ^ n \in Nat
  BY <1>2, Power
<1>6. IsFiniteSet(B) /\ Cardinality(B) = Cardinality(A)
  <2> DEFINE f == [s \in A |-> s \cup {m}]
  <2>1. \A s \in A : m \notin s
    BY <1>2, <1>3
  <2>2. \A s, t \in A : s \cup {m} = t \cup {m} => s = t
    BY <2>1
  <2>3. f \in Bijection(A, B)
    <3>1. f \in [A -> B]
      BY <1>2
    <3>2. \A s, t \in A : f[s] = f[t] => s = t
      BY <2>2
    <3>3. \A u \in B : \E s \in A : f[s] = u
      BY <1>2
    <3> HIDE DEF f
    <3>4. QED
      BY <3>1, <3>2, <3>3 DEF Bijection, Injection, Surjection, IsInjective
  <2>4. ExistsBijection(A, B)
    BY <2>3 DEF ExistsBijection
  <2>5. QED
    BY <1>5, <2>4, FS_Bijection
<1>7. Cardinality(C) = Cardinality(A) + Cardinality(B)
  <2>1. Cardinality(A \cup B) = Cardinality(A) + Cardinality(B) - Cardinality(A \cap B)
    BY <1>5, <1>6, FS_Union
  <2>2. Cardinality(A \cap B) = 0
    BY <1>4, FS_EmptySet
  <2>3. QED
    BY <1>4, <1>5, <1>6, <2>1, <2>2
<1>8. 2 ^ n # 0
  <2>1. {} \in A
    BY <1>2
  <2>2. QED
    BY <1>5, <2>1, FS_EmptySet
<1>9. QED
  BY <1>1, <1>5, <1>6, <1>7, <1>8

\* A table of the sums over all sets of bits.
IsTable(S, g) ==
    /\ g \in [SUBSET S -> Nat] /\ g[{}] = 0
    /\ \A s \in SUBSET S : s # {} => g[s] = 2 ^ FirstOf(s) + g[s \ {FirstOf(s)}]

LEMMA FirstIn ==
    ASSUME NEW S, S \subseteq Nat, IsFiniteSet(S), NEW s \in SUBSET S, s # {}
    PROVE  /\ FirstOf(s) \in s /\ FirstOf(s) \in Nat /\ s \ {FirstOf(s)} \in SUBSET S
           /\ IsFiniteSet(s) /\ Cardinality(s) \in Nat
           /\ Cardinality(s \ {FirstOf(s)}) = Cardinality(s) - 1
<1>1. FirstOf(s) \in s
  BY DEF FirstOf
<1>2. IsFiniteSet(s) /\ Cardinality(s) \in Nat
  BY FS_Subset, FS_CardinalityType
<1>3. Cardinality(s \ {FirstOf(s)}) = Cardinality(s) - 1
  BY <1>1, <1>2, FS_RemoveElement
<1>4. QED
  BY <1>1, <1>2, <1>3

\* The table up to sets of n members.
TableTo(S, g, n) ==
    /\ g \in [SUBSET S -> Nat]
    /\ \A s \in SUBSET S : Cardinality(s) < n => g[s] = Sums(S, g)[s]

LEMMA SumsTyped ==
    ASSUME NEW S, S \subseteq Nat, IsFiniteSet(S), NEW g \in [SUBSET S -> Nat]
    PROVE  Sums(S, g) \in [SUBSET S -> Nat]
<1> SUFFICES ASSUME NEW s \in SUBSET S, s # {}
             PROVE  2 ^ FirstOf(s) + g[s \ {FirstOf(s)}] \in Nat
  BY DEF Sums
<1>1. FirstOf(s) \in Nat /\ s \ {FirstOf(s)} \in SUBSET S
  BY FirstIn
<1>2. 2 ^ FirstOf(s) \in Nat /\ g[s \ {FirstOf(s)}] \in Nat
  BY <1>1, Power
<1>3. QED
  BY <1>2

LEMMA TableGrows ==
    ASSUME NEW S, S \subseteq Nat, IsFiniteSet(S), NEW n \in Nat, NEW g, TableTo(S, g, n)
    PROVE  TableTo(S, Sums(S, g), n + 1)
<1>1. PICK h : h = Sums(S, g)
  OBVIOUS
<1>2. g \in [SUBSET S -> Nat] /\ h \in [SUBSET S -> Nat]
  BY <1>1, SumsTyped DEF TableTo
<1>3. ASSUME NEW s \in SUBSET S, Cardinality(s) < n + 1
      PROVE  h[s] = Sums(S, h)[s]
  <2>1. CASE s = {}
    BY <1>1, <2>1 DEF Sums
  <2>2. CASE s # {}
    <3>1. PICK r : r = s \ {FirstOf(s)}
      OBVIOUS
    <3>2. r \in SUBSET S /\ Cardinality(r) < n
      <4>1. r \in SUBSET S /\ Cardinality(s) \in Nat /\ Cardinality(r) = Cardinality(s) - 1
        BY <2>2, <3>1, FirstIn
      <4>2. QED
        BY <1>3, <4>1
    <3>3. g[r] = h[r]
      BY <1>1, <3>2 DEF TableTo
    <3>4. h[s] = 2 ^ FirstOf(s) + g[r]
      BY <1>1, <2>2, <3>1 DEF Sums
    <3>5. Sums(S, h)[s] = 2 ^ FirstOf(s) + h[r]
      BY <2>2, <3>1 DEF Sums
    <3>6. QED
      BY <3>3, <3>4, <3>5
  <2>3. QED
    BY <2>1, <2>2
<1>4. QED
  BY <1>1, <1>2, <1>3 DEF TableTo

LEMMA TableExists ==
    ASSUME NEW S, S \subseteq Nat, IsFiniteSet(S)
    PROVE  \E g : IsTable(S, g)
<1> DEFINE T == {n \in Nat : \E g : TableTo(S, g, n)}
<1>1. 0 \in T
  <2>1. TableTo(S, [s \in SUBSET S |-> 0], 0)
    <3>1. ASSUME NEW s \in SUBSET S
          PROVE  Cardinality(s) \in Nat
      BY FS_Subset, FS_CardinalityType
    <3>2. \A s \in SUBSET S : ~(Cardinality(s) < 0)
      BY <3>1
    <3>3. QED
      BY <3>2 DEF TableTo
  <2>2. QED
    BY <2>1
<1>2. ASSUME NEW n \in Nat, n \in T
      PROVE  n + 1 \in T
  <2>1. PICK g : TableTo(S, g, n)
    BY <1>2
  <2>2. TableTo(S, Sums(S, g), n + 1)
    BY <2>1, TableGrows
  <2>3. QED
    BY <2>2
<1>3. Nat \subseteq T
  <2> HIDE DEF T
  <2>1. QED
    BY <1>1, <1>2, Induction
<1>4. PICK n \in Nat : n = Cardinality(S) + 1 /\ Cardinality(S) \in Nat
  BY FS_CardinalityType
<1>5. PICK g : TableTo(S, g, n)
  BY <1>3, <1>4
<1>6. ASSUME NEW s \in SUBSET S
      PROVE  g[s] = Sums(S, g)[s]
  <2>1. Cardinality(s) \in Nat /\ Cardinality(s) <= Cardinality(S)
    BY FS_Subset, FS_CardinalityType
  <2>2. Cardinality(s) < n
    BY <1>4, <2>1
  <2>3. QED
    BY <1>5, <2>2 DEF TableTo
<1>7. g[{}] = 0
  BY <1>6 DEF Sums
<1>8. \A s \in SUBSET S : s # {} => g[s] = 2 ^ FirstOf(s) + g[s \ {FirstOf(s)}]
  BY <1>6 DEF Sums
<1>9. QED
  BY <1>5, <1>7, <1>8 DEF IsTable, TableTo

LEMMA ValueInTable ==
    ASSUME NEW S, S \subseteq Nat, IsFiniteSet(S), NEW g, IsTable(S, g), NEW s \in SUBSET S
    PROVE  Value(s) = g[s]
<1> DEFINE h == [r \in SUBSET s |-> g[r]]
<1>1. h = Sums(s, h)
  <2> SUFFICES ASSUME NEW r \in SUBSET s
               PROVE  g[r] = IF r = {} THEN 0 ELSE 2 ^ FirstOf(r) + h[r \ {FirstOf(r)}]
    BY DEF Sums
  <2>1. r \in SUBSET S /\ r \ {FirstOf(r)} \in SUBSET s
    OBVIOUS
  <2>2. h[r \ {FirstOf(r)}] = g[r \ {FirstOf(r)}]
    BY <2>1
  <2> HIDE DEF h
  <2>3. QED
    BY <2>1, <2>2 DEF IsTable
<1>2. PICK f : f = (CHOOSE v : v = Sums(s, v)) /\ f = Sums(s, f)
  <2> HIDE DEF h
  <2>1. QED
    BY <1>1
<1>3. \A r \in SUBSET s : f[r] = IF r = {} THEN 0 ELSE 2 ^ FirstOf(r) + f[r \ {FirstOf(r)}]
  BY <1>2 DEF Sums
<1> HIDE DEF h
<1> DEFINE T == {Cardinality(r) : r \in {q \in SUBSET s : f[q] # g[q]}}
<1>4. T = {}
  <2>1. SUFFICES ASSUME T # {}
                 PROVE  FALSE
    OBVIOUS
  <2>2. ASSUME NEW r \in SUBSET s
        PROVE  Cardinality(r) \in Nat
    BY FS_Subset, FS_CardinalityType
  <2>3. T \subseteq Nat
    BY <2>2
  <2>4. PICK m \in T : \A n \in T : m <= n
    <3> HIDE DEF T
    <3>1. QED
      BY <2>1, <2>3, Smallest
  <2>5. PICK r \in SUBSET s : f[r] # g[r] /\ m = Cardinality(r)
    BY <2>4
  <2>6. r \in SUBSET S
    OBVIOUS
  <2>7. CASE r = {}
    BY <1>3, <2>5, <2>7 DEF IsTable
  <2>8. CASE r # {}
    <3>1. PICK q : q = r \ {FirstOf(r)}
      OBVIOUS
    <3>2. q \in SUBSET s /\ Cardinality(r) \in Nat /\ Cardinality(q) = Cardinality(r) - 1
      BY <2>6, <2>8, <3>1, FirstIn
    <3>3. Cardinality(q) \notin T
      BY <2>4, <2>5, <3>2
    <3>4. f[q] = g[q]
      BY <3>2, <3>3
    <3>5. f[r] = 2 ^ FirstOf(r) + f[q] /\ g[r] = 2 ^ FirstOf(r) + g[q]
      BY <1>3, <2>6, <2>8, <3>1 DEF IsTable
    <3>6. QED
      BY <2>5, <3>4, <3>5
  <2>9. QED
    BY <2>7, <2>8
<1>5. f[s] = g[s]
  BY <1>4
<1>6. QED
  BY <1>2, <1>5, ValueIs

\* A finite set of bits.
SomeBits(s) == s \subseteq Nat /\ IsFiniteSet(s)

LEMMA ValueOfFirst ==
    ASSUME NEW s, SomeBits(s)
    PROVE  /\ Value(s) \in Nat /\ (s = {} => Value(s) = 0)
           /\ s # {} => /\ FirstOf(s) \in s /\ SomeBits(s \ {FirstOf(s)})
                        /\ Value(s) = 2 ^ FirstOf(s) + Value(s \ {FirstOf(s)})
<1>1. s \subseteq Nat /\ IsFiniteSet(s)
  BY DEF SomeBits
<1>2. PICK g : IsTable(s, g)
  BY <1>1, TableExists
<1>3. ASSUME NEW r \in SUBSET s
      PROVE  Value(r) = g[r]
  BY <1>1, <1>2, ValueInTable
<1>4. Value(s) = g[s] /\ g[s] \in Nat /\ g[{}] = 0
  BY <1>2, <1>3 DEF IsTable
<1>5. ASSUME s # {}
      PROVE  /\ FirstOf(s) \in s /\ SomeBits(s \ {FirstOf(s)})
             /\ Value(s) = 2 ^ FirstOf(s) + Value(s \ {FirstOf(s)})
  <2>1. PICK r : r = s \ {FirstOf(s)}
    OBVIOUS
  <2>2. r \in SUBSET s /\ FirstOf(s) \in s
    BY <1>5, <2>1 DEF FirstOf
  <2>3. IsFiniteSet(r)
    BY <1>1, <2>2, FS_Subset
  <2>4. g[s] = 2 ^ FirstOf(s) + g[r]
    BY <1>2, <1>5, <2>1 DEF IsTable
  <2>5. Value(r) = g[r]
    BY <1>3, <2>2
  <2>6. QED
    BY <1>1, <1>4, <2>1, <2>2, <2>3, <2>4, <2>5 DEF SomeBits
<1>6. QED
  BY <1>4, <1>5

LEMMA OneLess ==
    ASSUME NEW s, SomeBits(s), NEW x \in s
    PROVE  /\ SomeBits(s \ {x}) /\ x \in Nat /\ Cardinality(s) \in Nat
           /\ Cardinality(s \ {x}) = Cardinality(s) - 1
<1>1. s \subseteq Nat /\ IsFiniteSet(s)
  BY DEF SomeBits
<1>2. Cardinality(s) \in Nat /\ Cardinality(s \ {x}) = Cardinality(s) - 1
  BY <1>1, FS_CardinalityType, FS_RemoveElement
<1>3. IsFiniteSet(s \ {x})
  BY <1>1, FS_Subset
<1>4. QED
  BY <1>1, <1>2, <1>3 DEF SomeBits

LEMMA NoBits ==
    ASSUME NEW s, SomeBits(s), Cardinality(s) = 0
    PROVE  s = {}
  BY FS_EmptySet DEF SomeBits

\* In whatever order they are added.
AddsUp(s) == \A x \in s : Value(s) = 2 ^ x + Value(s \ {x})

LEMMA AddsUpNext ==
    ASSUME NEW n \in Nat, \A r : SomeBits(r) /\ Cardinality(r) = n => AddsUp(r),
           NEW s, SomeBits(s), Cardinality(s) = n + 1
    PROVE  AddsUp(s)
<1> SUFFICES ASSUME NEW x \in s
             PROVE  Value(s) = 2 ^ x + Value(s \ {x})
  BY DEF AddsUp
<1>1. PICK y : y = FirstOf(s)
  OBVIOUS
<1>2. y \in s /\ Value(s) = 2 ^ y + Value(s \ {y})
  BY <1>1, ValueOfFirst
<1>3. CASE x = y
  BY <1>2, <1>3
<1>4. CASE x # y
  <2>1. PICK p, q, r : p = s \ {x} /\ q = s \ {y} /\ r = p \ {y} /\ r = q \ {x}
    <3>1. (s \ {x}) \ {y} = (s \ {y}) \ {x}
      OBVIOUS
    <3>2. QED
      BY <3>1
  <2>2. SomeBits(p) /\ SomeBits(q) /\ Cardinality(p) = n /\ Cardinality(q) = n /\ x \in Nat /\ y \in Nat
    BY <1>2, <2>1, OneLess
  <2>3. AddsUp(p) /\ AddsUp(q)
    BY <2>2
  <2>4. Value(p) = 2 ^ y + Value(r)
    BY <1>2, <1>4, <2>1, <2>3 DEF AddsUp
  <2>5. Value(q) = 2 ^ x + Value(r)
    BY <1>4, <2>1, <2>3 DEF AddsUp
  <2>6. SomeBits(r)
    BY <1>2, <1>4, <2>1, <2>2, OneLess
  <2>7. 2 ^ x \in Nat /\ 2 ^ y \in Nat /\ Value(r) \in Nat
    BY <2>2, <2>6, Power, ValueOfFirst
  <2>8. Value(s) = 2 ^ y + (2 ^ x + Value(r))
    BY <1>2, <2>1, <2>5
  <2>9. Value(s) = 2 ^ x + (2 ^ y + Value(r))
    BY <2>7, <2>8
  <2>10. QED
    BY <2>1, <2>4, <2>9
<1>5. QED
  BY <1>3, <1>4

LEMMA Additive ==
    ASSUME NEW s, SomeBits(s)
    PROVE  AddsUp(s)
<1> DEFINE T == {n \in Nat : \A r : SomeBits(r) /\ Cardinality(r) = n => AddsUp(r)}
<1>1. 0 \in T
  <2>1. ASSUME NEW r, SomeBits(r), Cardinality(r) = 0
        PROVE  AddsUp(r)
    BY <2>1, NoBits DEF AddsUp
  <2>2. QED
    BY <2>1
<1>2. ASSUME NEW n \in Nat, n \in T
      PROVE  n + 1 \in T
  <2>1. \A r : SomeBits(r) /\ Cardinality(r) = n => AddsUp(r)
    BY <1>2
  <2>2. ASSUME NEW r, SomeBits(r), Cardinality(r) = n + 1
        PROVE  AddsUp(r)
    BY <2>1, <2>2, AddsUpNext
  <2>3. QED
    BY <2>2
<1>3. Nat \subseteq T
  <2> HIDE DEF T
  <2>1. QED
    BY <1>1, <1>2, Induction
<1>4. Cardinality(s) \in Nat
  BY FS_CardinalityType DEF SomeBits
<1>5. QED
  BY <1>3, <1>4

\* Shifted right by one bit.
Half(s) == {k \in Nat : k + 1 \in s}

\* What that does to a value.
Halved(s) ==
    /\ SomeBits(Half(s)) /\ Value(Half(s)) \in Nat
    /\ Value(s) = 2 * Value(Half(s)) + (IF 0 \in s THEN 1 ELSE 0)

LEMMA HalvedNext ==
    ASSUME NEW s, SomeBits(s), NEW x \in s, Halved(s \ {x})
    PROVE  Halved(s)
<1>1. PICK r : r = s \ {x}
  OBVIOUS
<1>2. x \in Nat /\ SomeBits(r) /\ s \subseteq Nat
  BY <1>1, OneLess DEF SomeBits
<1>3. Value(s) = 2 ^ x + Value(r)
  BY <1>1, Additive DEF AddsUp
<1>4. /\ SomeBits(Half(r)) /\ Value(Half(r)) \in Nat
      /\ Value(r) = 2 * Value(Half(r)) + (IF 0 \in r THEN 1 ELSE 0)
  BY <1>1 DEF Halved
<1>5. CASE x = 0
  <2>1. Half(s) = Half(r)
    BY <1>1, <1>5 DEF Half
  <2>2. 0 \notin r /\ 0 \in s
    BY <1>1, <1>5
  <2>3. 2 ^ x = 1
    BY <1>5
  <2>4. QED
    BY <1>3, <1>4, <2>1, <2>2, <2>3 DEF Halved
<1>6. CASE x # 0
  <2>1. PICK y \in Nat : y = x - 1 /\ x = y + 1
    BY <1>2, <1>6
  <2>2. Half(s) = Half(r) \cup {y} /\ y \notin Half(r)
    BY <1>1, <2>1 DEF Half
  <2>3. SomeBits(Half(s))
    <3>1. IsFiniteSet(Half(r) \cup {y})
      BY <1>4, FS_AddElement DEF SomeBits
    <3>2. QED
      BY <2>2, <3>1 DEF SomeBits, Half
  <2>4. Value(Half(s)) = 2 ^ y + Value(Half(r))
    <3>1. y \in Half(s) /\ Half(s) \ {y} = Half(r)
      BY <2>2
    <3>2. QED
      BY <2>3, <3>1, Additive DEF AddsUp
  <2>5. 2 ^ x = 2 * 2 ^ y /\ 2 ^ y \in Nat
    BY <2>1, Doubles, Power
  <2>6. 0 \in s <=> 0 \in r
    BY <1>1, <1>6
  <2>7. QED
    BY <1>3, <1>4, <2>3, <2>4, <2>5, <2>6 DEF Halved
<1>7. QED
  BY <1>5, <1>6

LEMMA Halving ==
    ASSUME NEW s, SomeBits(s)
    PROVE  Halved(s)
<1> DEFINE T == {n \in Nat : \A r : SomeBits(r) /\ Cardinality(r) = n => Halved(r)}
<1>1. 0 \in T
  <2>1. ASSUME NEW r, SomeBits(r), Cardinality(r) = 0
        PROVE  Halved(r)
    <3>1. r = {}
      BY <2>1, NoBits
    <3>2. Half(r) = r
      BY <3>1 DEF Half
    <3>3. Value(r) = 0
      BY <2>1, <3>1, ValueOfFirst
    <3>4. Value(Half(r)) = 0 /\ SomeBits(Half(r)) /\ 0 \notin r
      BY <2>1, <3>1, <3>2, <3>3
    <3>5. 0 = 2 * 0 + 0
      OBVIOUS
    <3>6. QED
      BY <3>3, <3>4, <3>5 DEF Halved
  <2>2. QED
    BY <2>1
<1>2. ASSUME NEW n \in Nat, n \in T
      PROVE  n + 1 \in T
  <2>1. ASSUME NEW r, SomeBits(r), Cardinality(r) = n + 1
        PROVE  Halved(r)
    <3>1. r # {}
      BY <2>1, FS_EmptySet
    <3>2. PICK x : x \in r
      BY <3>1
    <3>3. SomeBits(r \ {x}) /\ Cardinality(r \ {x}) = n
      BY <2>1, <3>2, OneLess
    <3>4. Halved(r \ {x})
      BY <1>2, <3>3
    <3>5. QED
      BY <2>1, <3>2, <3>4, HalvedNext
  <2>2. QED
    BY <2>1
<1>3. Nat \subseteq T
  <2> HIDE DEF T
  <2>1. QED
    BY <1>1, <1>2, Induction
<1>4. Cardinality(s) \in Nat
  BY FS_CardinalityType DEF SomeBits
<1>5. QED
  BY <1>3, <1>4

LEMMA HalfBelow ==
    ASSUME NEW n \in Nat, NEW s, s \subseteq 0..n
    PROVE  Half(s) \subseteq 0..(n - 1) /\ SomeBits(s)
<1>1. IsFiniteSet(s)
  <2>1. IsFiniteSet(0..n)
    BY FS_Interval
  <2>2. QED
    BY <2>1, FS_Subset
<1>2. QED
  BY <1>1 DEF SomeBits, Half

\* The value of n bits is below 2 ^ n.
LEMMA ValueBelow ==
    ASSUME NEW n \in Nat
    PROVE  \A s : s \subseteq 0..(n - 1) => Value(s) \in Nat /\ Value(s) < 2 ^ n
<1> DEFINE T == {m \in Nat : \A s : s \subseteq 0..(m - 1) => Value(s) \in Nat /\ Value(s) < 2 ^ m}
<1>1. 0 \in T
  <2>1. ASSUME NEW s, s \subseteq 0..(0 - 1)
        PROVE  Value(s) \in Nat /\ Value(s) < 2 ^ 0
    <3>1. s = {} /\ s \subseteq Nat /\ IsFiniteSet(s)
      <4>1. 0..(0 - 1) = {}
        OBVIOUS
      <4>2. s = {}
        BY <2>1, <4>1
      <4>3. QED
        BY <4>2, FS_EmptySet
    <3>2. Value(s) = 0
      BY <3>1, ValueOfFirst DEF SomeBits
    <3>3. QED
      BY <3>2, Doubles
  <2>2. QED
    BY <2>1
<1>2. ASSUME NEW m \in Nat, m \in T
      PROVE  m + 1 \in T
  <2>1. ASSUME NEW s, s \subseteq 0..(m + 1 - 1)
        PROVE  Value(s) \in Nat /\ Value(s) < 2 ^ (m + 1)
    <3>1. s \subseteq 0..m
      BY <2>1
    <3>2. Half(s) \subseteq 0..(m - 1) /\ Halved(s)
      BY <3>1, HalfBelow, Halving
    <3>3. Value(Half(s)) \in Nat /\ Value(Half(s)) < 2 ^ m
      BY <1>2, <3>2
    <3>4. Value(s) = 2 * Value(Half(s)) + (IF 0 \in s THEN 1 ELSE 0)
      BY <3>2 DEF Halved
    <3>5. 2 ^ (m + 1) = 2 * 2 ^ m /\ 2 ^ m \in Nat
      BY Doubles, Power
    <3>6. QED
      BY <3>3, <3>4, <3>5
  <2>2. QED
    BY <2>1
<1>3. Nat \subseteq T
  <2> HIDE DEF T
  <2>1. QED
    BY <1>1, <1>2, Induction
<1>4. QED
  BY <1>3

\* Different bits, different values.
LEMMA ValueTells ==
    ASSUME NEW n \in Nat
    PROVE  \A s, r : s \subseteq 0..(n - 1) /\ r \subseteq 0..(n - 1) /\ Value(s) = Value(r) => s = r
<1> DEFINE T == {m \in Nat : \A s, r : s \subseteq 0..(m - 1) /\ r \subseteq 0..(m - 1)
                                         /\ Value(s) = Value(r) => s = r}
<1>1. 0 \in T
  OBVIOUS
<1>2. ASSUME NEW m \in Nat, m \in T
      PROVE  m + 1 \in T
  <2>1. ASSUME NEW s, NEW r, s \subseteq 0..(m + 1 - 1), r \subseteq 0..(m + 1 - 1), Value(s) = Value(r)
        PROVE  s = r
    <3>1. s \subseteq 0..m /\ r \subseteq 0..m
      BY <2>1
    <3>2. /\ Half(s) \subseteq 0..(m - 1) /\ Halved(s)
          /\ Half(r) \subseteq 0..(m - 1) /\ Halved(r)
      BY <3>1, HalfBelow, Halving
    <3>3. PICK v \in Nat, w \in Nat : v = Value(Half(s)) /\ w = Value(Half(r))
      BY <3>2 DEF Halved
    <3>4. 2 * v + (IF 0 \in s THEN 1 ELSE 0) = 2 * w + (IF 0 \in r THEN 1 ELSE 0)
      BY <2>1, <3>2, <3>3 DEF Halved
    <3>5. v = w /\ (0 \in s <=> 0 \in r)
      BY <3>4
    <3>6. Half(s) = Half(r)
      BY <1>2, <3>2, <3>3, <3>5
    <3>7. ASSUME NEW k \in 0..m
          PROVE  k \in s <=> k \in r
      <4>1. CASE k = 0
        BY <3>5, <4>1
      <4>2. CASE k # 0
        <5>1. PICK j \in Nat : j + 1 = k
          BY <4>2
        <5>2. k \in s <=> j \in Half(s)
          BY <5>1 DEF Half
        <5>3. k \in r <=> j \in Half(r)
          BY <5>1 DEF Half
        <5>4. QED
          BY <3>6, <5>2, <5>3
      <4>3. QED
        BY <4>1, <4>2
    <3>8. QED
      BY <3>1, <3>7
  <2>2. QED
    BY <2>1
<1>3. Nat \subseteq T
  <2> HIDE DEF T
  <2>1. QED
    BY <1>1, <1>2, Induction
<1>4. QED
  BY <1>3

-----------------------------------------------------------------------------
(* What the sum of the bytes tells. *)

\* The sum of two bytes, in a byte.
LEMMA Wraps ==
    ASSUME NEW M \in Nat, NEW x \in Nat, x < 2 * M
    PROVE  x % M = IF x < M THEN x ELSE x - M
<1>1. M > 0
  OBVIOUS
<1>2. PICK q, r : q = x \div M /\ r = x % M
  OBVIOUS
<1>3. q \in Int /\ r \in Int /\ x = M * q + r /\ 0 <= r /\ r < M
  BY <1>1, <1>2
<1>4. CASE q <= 0 - 1
  <2>1. M * q <= 0 - M
    BY <1>1, <1>3, <1>4
  <2>2. QED
    BY <1>3, <2>1
<1>5. CASE q >= 2
  <2>1. M * q >= 2 * M
    BY <1>1, <1>3, <1>5
  <2>2. QED
    BY <1>3, <2>1
<1>6. CASE q = 0
  BY <1>2, <1>3, <1>6
<1>7. CASE q = 1
  BY <1>2, <1>3, <1>7
<1>8. QED
  BY <1>3, <1>4, <1>5, <1>6, <1>7

\* Bytes, and what their values are.
LEMMA ByteValue ==
    ASSUME NEW s, s \subseteq Bits
    PROVE  Value(s) \in Nat /\ Value(s) < 2 ^ ByteBits
<1>1. ByteBits \in Nat /\ s \subseteq 0..(ByteBits - 1)
  BY Constants DEF Bits
<1>2. QED
  BY <1>1, ValueBelow

LEMMA ByteTells ==
    ASSUME NEW s, NEW r, s \subseteq Bits, r \subseteq Bits, Value(s) = Value(r)
    PROVE  s = r
<1>1. ByteBits \in Nat /\ s \subseteq 0..(ByteBits - 1) /\ r \subseteq 0..(ByteBits - 1)
  BY Constants DEF Bits
<1>2. QED
  BY <1>1, ValueTells

\* One byte that is wrong is not offset by the others.
LEMMA OneTermTells ==
    ASSUME NEW M \in Nat, NEW v \in Nat, NEW w \in Nat, NEW u \in Nat, v < M, w < M, u < M,
           (v + u) % M = (w + u) % M
    PROVE  v = w
<1>1. PICK x \in Nat, y \in Nat : x = v + u /\ y = w + u
  OBVIOUS
<1>2. x < 2 * M /\ y < 2 * M
  BY <1>1
<1>3. /\ x % M = IF x < M THEN x ELSE x - M
      /\ y % M = IF y < M THEN y ELSE y - M
  BY <1>2, Wraps
<1>4. x % M = y % M
  BY <1>1
<1>5. (IF x < M THEN x ELSE x - M) = (IF y < M THEN y ELSE y - M)
  BY <1>3, <1>4
<1>6. QED
  BY <1>1, <1>5

\* The two differ in one byte.
OffByOne(r, t) == \E b \in Bytes : \A a \in Bytes \ {b} : r[a] = t[a]

\* A checksum that holds with one byte wrong: it is not one of the two values.
LEMMA WrongByteTold ==
    ASSUME NEW t \in Transmissions, NEW r \in [Bytes -> SUBSET Bits],
           OffByOne(r, t), ChecksumHolds(r)
    PROVE  r[0] = t[0] /\ r[2] = t[2]
<1>1. /\ t[0] \subseteq Bits /\ t[2] \subseteq Bits /\ t[4] \subseteq Bits
      /\ r[0] \subseteq Bits /\ r[2] \subseteq Bits /\ r[4] \subseteq Bits
  BY Ranges
<1>2. PICK M \in Nat : M = 2 ^ ByteBits
  BY Power, Constants
<1>3. PICK v0 \in Nat, v2 \in Nat, w0 \in Nat, w2 \in Nat :
         /\ v0 = Value(t[0]) /\ v2 = Value(t[2]) /\ w0 = Value(r[0]) /\ w2 = Value(r[2])
         /\ v0 < M /\ v2 < M /\ w0 < M /\ w2 < M
  BY <1>1, <1>2, ByteValue
<1>4. Value(t[4]) = (v0 + v2) % M
  BY <1>2, <1>3, SensorAssumption
<1>5. Value(r[4]) = (w0 + w2) % M
  BY <1>2, <1>3 DEF ChecksumHolds
<1>6. PICK b \in Bytes : \A a \in Bytes \ {b} : r[a] = t[a]
  BY DEF OffByOne
<1>7. b # 0 => r[0] = t[0]
  BY <1>6, Ranges
<1>8. b # 2 => r[2] = t[2]
  BY <1>6, Ranges
<1>9. b # 4 => r[4] = t[4]
  BY <1>6, Ranges
<1>10. CASE b = 0
  <2>1. w2 = v2
    BY <1>3, <1>8, <1>10
  <2>2. (v0 + v2) % M = (w0 + v2) % M
    BY <1>4, <1>5, <1>9, <1>10, <2>1
  <2>3. v0 = w0
    BY <1>3, <2>2, OneTermTells
  <2>4. QED
    BY <1>1, <1>3, <1>8, <1>10, <2>3, ByteTells
<1>11. CASE b = 2
  <2>1. w0 = v0
    BY <1>3, <1>7, <1>11
  <2>2. (v2 + v0) % M = (w2 + v0) % M
    <3>1. v2 + v0 = v0 + v2 /\ w2 + v0 = w0 + w2
      BY <2>1
    <3>2. QED
      BY <1>4, <1>5, <1>9, <1>11, <3>1
  <2>3. v2 = w2
    BY <1>3, <2>2, OneTermTells
  <2>4. QED
    BY <1>1, <1>3, <1>7, <1>11, <2>3, ByteTells
<1>12. QED
  BY <1>7, <1>8, <1>10, <1>11

\* Every bit taken for the next one.
Delayed(t) ==
    [b \in Bytes |-> {k \in Bits : IF k = ByteBits - 1 THEN b = 0 \/ 0 \in t[b - 1]
                                                      ELSE k + 1 \in t[b]}]

LEMMA DelayedBytes ==
    ASSUME NEW t \in Transmissions
    PROVE  /\ Delayed(t) \in [Bytes -> SUBSET Bits]
           /\ Delayed(t)[0] = Half(t[0]) \cup {ByteBits - 1}
           /\ Delayed(t)[2] = Half(t[2]) /\ Delayed(t)[4] = Half(t[4])
<1>1. t[1] = {} /\ t[3] = {}
  BY SensorAssumption
<1>2. t[0] \subseteq Bits /\ t[2] \subseteq Bits /\ t[4] \subseteq Bits
  BY Ranges
<1>3. ByteBits \in Nat /\ ByteBits >= 1 /\ Bits = 0..(ByteBits - 1)
  BY Constants DEF Bits
<1>4. Delayed(t)[0] = Half(t[0]) \cup {ByteBits - 1}
  <2>1. Delayed(t)[0] = {k \in Bits : IF k = ByteBits - 1 THEN TRUE ELSE k + 1 \in t[0]}
    BY Ranges DEF Delayed
  <2>2. QED
    BY <1>2, <1>3, <2>1 DEF Half
<1>5. Delayed(t)[2] = Half(t[2])
  <2>1. Delayed(t)[2] = {k \in Bits : IF k = ByteBits - 1 THEN FALSE ELSE k + 1 \in t[2]}
    BY <1>1, Ranges DEF Delayed
  <2>2. QED
    BY <1>2, <1>3, <2>1 DEF Half
<1>6. Delayed(t)[4] = Half(t[4])
  <2>1. Delayed(t)[4] = {k \in Bits : IF k = ByteBits - 1 THEN FALSE ELSE k + 1 \in t[4]}
    BY <1>1, Ranges DEF Delayed
  <2>2. QED
    BY <1>2, <1>3, <2>1 DEF Half
<1>7. QED
  BY <1>4, <1>5, <1>6 DEF Delayed

\* What a sensor measures: the two values together stay within a byte.
NoCarry == \A t \in Transmissions : Value(t[0]) + Value(t[2]) < 2 ^ ByteBits

\* Without a carry the first byte's extra bit cannot be in the sum.
LEMMA DelayTold ==
    ASSUME NoCarry, NEW t \in Transmissions
    PROVE  ~ChecksumHolds(Delayed(t))
<1>1. t[0] \subseteq Bits /\ t[2] \subseteq Bits /\ t[4] \subseteq Bits
  BY Ranges
<1>2. PICK n \in Nat : n + 1 = ByteBits /\ n = ByteBits - 1
  BY Constants
<1>3. PICK H \in Nat, M \in Nat : H = 2 ^ n /\ M = 2 ^ ByteBits /\ M = 2 * H /\ H >= 1
  BY <1>2, Power, Doubles
<1>4. ASSUME NEW s, s \subseteq Bits
      PROVE  Halved(s) /\ Half(s) \subseteq 0..(n - 1)
  <2>1. s \subseteq 0..n
    BY <1>2, <1>4 DEF Bits
  <2>2. QED
    BY <2>1, HalfBelow, Halving
<1>5. PICK a \in Nat, b \in Nat, c \in Nat :
         a = Value(Half(t[0])) /\ b = Value(Half(t[2])) /\ c = Value(Half(t[4]))
  BY <1>1, <1>4 DEF Halved
<1>6. PICK v0 \in Nat, v2 \in Nat, v4 \in Nat :
         v0 = Value(t[0]) /\ v2 = Value(t[2]) /\ v4 = Value(t[4])
  BY <1>1, ByteValue
<1>7. v0 >= 2 * a /\ v2 >= 2 * b /\ v4 <= 2 * c + 1 /\ v0 <= 2 * a + 1 /\ v2 <= 2 * b + 1 /\ v4 >= 2 * c
  <2>1. v0 = 2 * a + (IF 0 \in t[0] THEN 1 ELSE 0)
    BY <1>1, <1>4, <1>5, <1>6 DEF Halved
  <2>2. v2 = 2 * b + (IF 0 \in t[2] THEN 1 ELSE 0)
    BY <1>1, <1>4, <1>5, <1>6 DEF Halved
  <2>3. v4 = 2 * c + (IF 0 \in t[4] THEN 1 ELSE 0)
    BY <1>1, <1>4, <1>5, <1>6 DEF Halved
  <2>4. QED
    BY <2>1, <2>2, <2>3
<1>8. v0 + v2 < M
  BY <1>3, <1>6 DEF NoCarry
<1>9. v4 < M
  BY <1>1, <1>3, <1>6, ByteValue
<1>10. Value(Half(t[0]) \cup {n}) = H + a
  <2>1. Half(t[0]) \cup {n} \subseteq 0..n /\ n \notin Half(t[0])
    BY <1>1, <1>4
  <2>2. SomeBits(Half(t[0]) \cup {n})
    BY <2>1, HalfBelow
  <2>3. AddsUp(Half(t[0]) \cup {n})
    BY <2>2, Additive
  <2>4. (Half(t[0]) \cup {n}) \ {n} = Half(t[0])
    BY <2>1
  <2>5. QED
    BY <1>3, <1>5, <2>3, <2>4 DEF AddsUp
<1>11. /\ Value(Delayed(t)[0]) = H + a /\ Value(Delayed(t)[2]) = b /\ Value(Delayed(t)[4]) = c
  BY <1>2, <1>5, <1>10, DelayedBytes
<1>12. PICK x \in Nat : x = H + a + b
  OBVIOUS
<1>13. x < M /\ x >= H /\ c < H
  BY <1>3, <1>7, <1>8, <1>9, <1>12
<1>14. x % M = x
  BY <1>13, Wraps
<1>15. ChecksumHolds(Delayed(t)) => c = x % M
  BY <1>3, <1>11, <1>12 DEF ChecksumHolds
<1>16. QED
  BY <1>13, <1>14, <1>15

-----------------------------------------------------------------------------
(* Sensor and driver while at most one thing has gone wrong. *)

\* The place of a bit among those of a transmission.
Place(b, k) == b * ByteBits + (ByteBits - 1 - k)

\* How many changes of level the sensor has made since it was asked, and how many
\* the driver has counted.  One that waits for the level the sensor has is not late.
Cycle ==
    CASE phase = "silent" -> -1
      [] phase \in {"ackLow", "ackHigh"} -> 0
      [] phase \in {"low", "high"} -> 1 + Place(byte, bit)
      [] OTHER -> 1 + TotalBits
SensorAt == 2 * Cycle + Level(phase)
DriverAt == 2 * (IF pc \in {"bitLow", "bitHigh"} THEN 1 + i ELSE 0) + Awaited(pc)

\* A level was missed: the driver's count is two short.  The answer was late: it is
\* two over.
Ahead == SensorAt = DriverAt + 2 \/ (SensorAt = DriverAt + 3 /\ ~seen)
Behind == SensorAt = DriverAt - 2 \/ (SensorAt = DriverAt - 1 /\ ~seen)

\* Otherwise the sensor is at the driver's bit or at the next.
AtBit == byte = idx /\ bit = cnt
AtNextBit == byte = NextByte(idx, cnt) /\ bit = NextBit(cnt) /\ ~(idx = 4 /\ cnt = 0)

OnTime ==
    \/ pc = "ackLow" /\ phase \in {"silent", "ackLow"}
    \/ pc = "ackHigh" /\ phase = "ackHigh"
    \/ pc = "bitLow" /\ phase = "low"
    \/ pc = "bitHigh" /\ phase = "high"

Together ==
    /\ pc = "ackLow" =>
          AtBit /\ phase \in {"silent", "ackLow", "ackHigh"} /\ (phase = "ackHigh" => ~seen)
    /\ pc = "ackHigh" => AtBit /\ phase \in {"ackHigh", "low"} /\ (phase = "low" => ~seen)
    /\ pc = "bitLow" => AtBit /\ phase \in {"low", "high"} /\ (phase = "high" => ~seen)
    /\ pc = "bitHigh" =>
          /\ phase \in {"high", "low", "end"} /\ (phase # "high" => ~seen)
          /\ phase # "low" => AtBit
          /\ phase = "low" => AtNextBit
          /\ phase = "end" => idx = 4 /\ cnt = 0
          /\ long = (cnt \in sent[idx])

\* The bits received are the first ones of a line of bits.
Past(b, k) == b < idx \/ (b = idx /\ k > cnt)
BitsSoFar(line) == \A b \in Bytes : bits[b] = {k \in line[b] : Past(b, k)}
LongIn(line) == pc = "bitHigh" => long = (cnt \in line[idx])

\* What was sent, but for one byte at most, in which a bit was measured wrongly.
NearlySent(line) ==
    /\ line \in [Bytes -> SUBSET Bits]
    /\ OffByOne(line, sent)
    /\ line # sent => slips = 1
    /\ \A b \in Bytes : \A k \in Bits : ~Past(b, k) => (k \in line[b] <=> k \in sent[b])

InTime == ~late /\ Together /\ \E line : NearlySent(line) /\ BitsSoFar(line)
SensorAhead == slips = 1 /\ ~late /\ Ahead
SensorBehind ==
    slips = 0 /\ late /\ Behind /\ BitsSoFar(Delayed(sent)) /\ LongIn(Delayed(sent))

InStep ==
    /\ pc # "idle" => result = "none"
    /\ pc = "ackLow" => ~late
    /\ pc \in Waits => sent \in Transmissions
    /\ pc \in Waits /\ Disturbances <= 1 => InTime \/ SensorAhead \/ SensorBehind

\* A sensor that has sent no bit is at the first.
SensorWaits ==
    phase \in {"silent", "ackLow", "ackHigh"} => byte = 0 /\ bit = ByteBits - 1

LEMMA Disturbed ==
    TypeOK => /\ slips \in Nat /\ Disturbances \in Nat
              /\ Disturbances <= 1 <=> (slips = 0 \/ (slips = 1 /\ ~late))
              /\ Disturbances = 0 <=> (slips = 0 /\ ~late)
  BY Constants DEF TypeOK, Disturbances

LEMMA DisturbedNext ==
    TypeOK' => (/\ slips \in Nat /\ Disturbances \in Nat
                /\ Disturbances <= 1 <=> (slips = 0 \/ (slips = 1 /\ ~late))
                /\ Disturbances = 0 <=> (slips = 0 /\ ~late))'
  BY Disturbed, PTL

\* Two bits have different places.
LEMMA OnePlace ==
    ASSUME NEW b \in 0..5, NEW c \in 0..5, NEW k \in Bits, NEW j \in Bits, Place(b, k) = Place(c, j)
    PROVE  b = c /\ k = j
<1>1. /\ ByteBits \in Nat /\ k \in Nat /\ j \in Nat /\ k < ByteBits /\ j < ByteBits
  BY Constants
<1>2. b * ByteBits + (ByteBits - 1 - k) = c * ByteBits + (ByteBits - 1 - j)
  BY DEF Place
<1>3. ASSUME NEW x \in 0..5, NEW y \in 0..5, x < y
      PROVE  /\ x * ByteBits + ByteBits <= y * ByteBits
             /\ x * ByteBits \in Nat /\ y * ByteBits \in Nat
  <2>1. x = 0 \/ x = 1 \/ x = 2 \/ x = 3 \/ x = 4
    BY <1>3
  <2>2. y = 1 \/ y = 2 \/ y = 3 \/ y = 4 \/ y = 5
    BY <1>3
  <2>3. QED
    BY <1>1, <1>3, <2>1, <2>2
<1>4. ~(b < c)
  BY <1>1, <1>2, <1>3
<1>5. ~(c < b)
  BY <1>1, <1>2, <1>3
<1>6. b = c
  BY <1>4, <1>5
<1>7. b * ByteBits \in Nat
  BY Strides
<1>8. QED
  BY <1>1, <1>2, <1>6, <1>7

LEMMA PlaceTyped ==
    ASSUME NEW b \in 0..5, NEW k \in Bits
    PROVE  /\ Place(b, k) \in Nat
           /\ b <= 4 => Place(b, k) < TotalBits
           /\ Place(0, ByteBits - 1) = 0
  BY Strides, Constants DEF Place

\* The sensor makes one change of level at a time.
LEMMA Advances ==
    ASSUME TypeOK, SensorWaits, Advance
    PROVE  SensorAt \in Int /\ SensorAt' = SensorAt + 1 /\ Level(phase) \in {0, 1}
<1>1. byte \in 0..5 /\ byte \in Int /\ byte <= 4 /\ bit \in Bits /\ TotalBits \in Nat
  BY Constants DEF TypeOK, Bytes
<1>2. Place(byte, bit) \in Nat /\ Place(byte, bit) < TotalBits
  BY <1>1, PlaceTyped
<1>3. ~LastBit => Place(NextByte(byte, bit), NextBit(bit)) = Place(byte, bit) + 1
  BY <1>1, <1>2, Places DEF Place, LastBit
<1>4. LastBit => Place(byte, bit) + 1 = TotalBits
  BY <1>1, <1>2, Places DEF Place, LastBit
<1>5. CASE phase = "high" /\ ~LastBit
  <2>1. phase' = "low" /\ Place(byte', bit') = Place(byte, bit) + 1
    BY <1>3, <1>5 DEF Advance
  <2>2. SensorAt = 2 * (1 + Place(byte, bit)) + 1 /\ SensorAt' = 2 * (1 + Place(byte', bit')) + 0
    BY <1>5, <2>1 DEF SensorAt, Cycle, Level
  <2>3. QED
    BY <1>2, <2>1, <2>2 DEF Level
<1>6. CASE ~(phase = "high" /\ ~LastBit)
  <2>1. PICK p : p = Place(byte, bit)
    OBVIOUS
  <2>2. UNCHANGED <<byte, bit>>
    BY <1>6 DEF Advance
  <2>3. Place(byte', bit') = p
    BY <2>1, <2>2
  <2>4. p \in Nat /\ (LastBit => p + 1 = TotalBits)
    BY <1>2, <1>4, <2>1
  <2>5. SensorAt = 2 * (CASE phase = "silent" -> -1
                          [] phase \in {"ackLow", "ackHigh"} -> 0
                          [] phase \in {"low", "high"} -> 1 + p
                          [] OTHER -> 1 + TotalBits) + Level(phase)
    BY <2>1 DEF SensorAt, Cycle
  <2>6. SensorAt' = 2 * (CASE phase' = "silent" -> -1
                           [] phase' \in {"ackLow", "ackHigh"} -> 0
                           [] phase' \in {"low", "high"} -> 1 + p
                           [] OTHER -> 1 + TotalBits) + Level(phase')
    BY <2>3 DEF SensorAt, Cycle, TotalBits, Level
  <2>7. phase = "ackHigh" => p = 0
    BY <2>1, PlaceTyped, Constants, Ranges DEF SensorWaits
  <2>8. CASE phase = "silent"
    BY <2>5, <2>6, <2>8 DEF Advance, Level
  <2>9. CASE phase = "ackLow"
    BY <2>5, <2>6, <2>9 DEF Advance, Level
  <2>10. CASE phase = "ackHigh"
    BY <2>5, <2>6, <2>7, <2>10 DEF Advance, Level
  <2>11. CASE phase = "low"
    BY <2>4, <2>5, <2>6, <2>11 DEF Advance, Level
  <2>12. CASE phase = "high"
    BY <1>1, <1>6, <2>4, <2>5, <2>6, <2>12 DEF Advance, Level
  <2>13. CASE phase = "end"
    BY <1>1, <2>5, <2>6, <2>13 DEF Advance, Level
  <2>14. QED
    BY <2>8, <2>9, <2>10, <2>11, <2>12, <2>13 DEF Advance
<1>7. QED
  BY <1>5, <1>6

LEMMA SensorWaitsStep ==
    ASSUME TypeOK, SensorWaits, [Next]_vars
    PROVE  SensorWaits'
<1> USE DEF SensorWaits
<1>1. CASE UNCHANGED <<phase, byte, bit>>
  BY <1>1
<1>2. CASE Advance
  BY <1>2 DEF Advance
<1>3. CASE StartPulse
  BY <1>3 DEF StartPulse
<1>4. CASE SensorMoves \/ SensorOutruns
  BY <1>2, <1>4 DEF SensorMoves, SensorOutruns
<1>5. CASE ClockTicks \/ BeginRead \/ Settle \/ PollAgain \/ GiveUp \/ Finish \/ Construct \/ UNCHANGED vars
  BY <1>1, <1>5 DEF ClockTicks, BeginRead, Settle, PollAgain, GiveUp, Finish, Construct, vars, sensor
<1>6. CASE AckLowEnds \/ AckHighEnds \/ BitLowEnds \/ BitHighEnds
  BY <1>1, <1>6 DEF AckLowEnds, AckHighEnds, BitLowEnds, BitHighEnds, GoOn, sensor
<1>7. QED
  BY <1>3, <1>4, <1>5, <1>6 DEF Next, Read

\* The driver waits where its count says, and sees a change if the counts differ by
\* an odd number.
LEMMA Apart ==
    ASSUME TypeOK, pc \in Waits
    PROVE  /\ SensorAt \in Int /\ DriverAt \in Int
           /\ Level(phase) = Awaited(pc) => SensorAt # DriverAt + 3 /\ SensorAt # DriverAt - 1
           /\ Level(phase) # Awaited(pc) => SensorAt # DriverAt + 2 /\ SensorAt # DriverAt - 2
<1>1. byte \in 0..5 /\ bit \in Bits /\ TotalBits \in Nat /\ i \in Nat
  BY Constants DEF TypeOK, Bytes
<1>2. PICK c \in Int : c = Cycle
  <2>1. Place(byte, bit) \in Nat
    BY <1>1, PlaceTyped
  <2>2. QED
    BY <1>1, <2>1 DEF Cycle
<1>3. PICK d \in Int : d = IF pc \in {"bitLow", "bitHigh"} THEN 1 + i ELSE 0
  BY <1>1
<1>4. PICK x \in {0, 1}, y \in {0, 1} : x = Level(phase) /\ y = Awaited(pc)
  BY DEF Level, Awaited
<1>5. SensorAt = 2 * c + x /\ DriverAt = 2 * d + y
  BY <1>2, <1>3, <1>4 DEF SensorAt, DriverAt
<1>6. QED
  BY <1>4, <1>5

LEMMA LineStays ==
    ASSUME UNCHANGED <<idx, cnt, sent>>, NEW CONSTANT line
    PROVE  /\ UNCHANGED bits /\ BitsSoFar(line) => BitsSoFar(line)'
           /\ NearlySent(line) /\ slips' \in {slips, 1} => NearlySent(line)'
  BY DEF NearlySent, BitsSoFar, Past

LEMMA InTimeStays ==
    ASSUME UNCHANGED <<idx, cnt, sent, bits>>, slips' \in {slips, 1}, ~late', InTime, Together'
    PROVE  InTime'
<1>1. PICK line : NearlySent(line) /\ BitsSoFar(line)
  BY DEF InTime
<1>2. NearlySent(line)' /\ BitsSoFar(line)'
  BY <1>1, LineStays
<1>3. QED
  BY <1>2 DEF InTime

LEMMA StartInStep ==
    ASSUME TypeOK, Counting, StartPulse
    PROVE  InTime'
<1>1. bits' = Nothing /\ idx' = 0 /\ cnt' = ByteBits - 1
  BY DEF StartPulse, Counting, position
<1>2. sent' \in [Bytes -> SUBSET Bits]
  BY Ranges DEF StartPulse
<1>3. PICK line : line = sent'
  OBVIOUS
<1>4. \A b \in Bytes : \A k \in Bits : ~Past(b, k)'
  BY <1>1, Constants DEF Past, Bytes, Bits
<1>5. BitsSoFar(line)'
  <2>1. \A b \in Bytes : bits'[b] = {}
    BY <1>1 DEF Nothing
  <2>2. \A b \in Bytes : line[b] \subseteq Bits
    BY <1>2, <1>3
  <2>3. QED
    BY <1>4, <2>1, <2>2 DEF BitsSoFar
<1>6. NearlySent(line)'
  BY <1>2, <1>3, Ranges DEF NearlySent, OffByOne
<1>7. Together'
  BY <1>1 DEF StartPulse, Together, AtBit
<1>8. QED
  BY <1>5, <1>6, <1>7 DEF InTime, StartPulse

LEMMA MoveInStep ==
    ASSUME TypeOK, Together, OnTime, pc \in Waits, Advance, ~seen',
           UNCHANGED <<pc, idx, cnt, long, sent>>
    PROVE  Together'
<1>1. CASE pc = "bitHigh"
  <2>1. phase = "high" /\ AtBit /\ long = (cnt \in sent[idx])
    BY <1>1 DEF Together, OnTime
  <2>2. CASE LastBit
    BY <1>1, <2>1, <2>2 DEF Advance, Together, AtBit, LastBit
  <2>3. CASE ~LastBit
    BY <1>1, <2>1, <2>3 DEF Advance, Together, AtBit, AtNextBit, LastBit
  <2>4. QED
    BY <2>2, <2>3
<1>2. CASE pc # "bitHigh"
  <2>1. /\ AtBit /\ UNCHANGED <<byte, bit>>
        /\ \/ pc = "ackLow" /\ phase' \in {"ackLow", "ackHigh"}
           \/ pc = "ackHigh" /\ phase' = "low"
           \/ pc = "bitLow" /\ phase' = "high"
    BY <1>2 DEF Advance, Together, OnTime, Waits
  <2>2. AtBit'
    BY <2>1 DEF AtBit
  <2>3. QED
    BY <1>2, <2>1, <2>2 DEF Together
<1>3. QED
  BY <1>1, <1>2

\* A sensor that is not on time is one change ahead.
LEMMA OneAhead ==
    ASSUME TypeOK, Counting, Together, ~OnTime, pc \in Waits
    PROVE  SensorAt = DriverAt + 1
<1>1. i = Place(idx, cnt) /\ i < TotalBits /\ i \in Nat /\ idx \in 0..5 /\ cnt \in Bits /\ TotalBits \in Nat
  BY Constants DEF Counting, TypeOK, Place
<1>2. CASE pc = "ackLow"
  BY <1>2 DEF Together, OnTime, SensorAt, DriverAt, Cycle, Level, Awaited
<1>3. CASE pc = "ackHigh"
  <2>1. phase = "low" /\ Place(byte, bit) = Place(idx, cnt)
    BY <1>3 DEF Together, OnTime, AtBit
  <2>2. i = 0
    BY <1>3 DEF Counting
  <2>3. QED
    BY <1>1, <1>3, <2>1, <2>2 DEF SensorAt, DriverAt, Cycle, Level, Awaited
<1>4. CASE pc = "bitLow"
  <2>1. phase = "high" /\ Place(byte, bit) = Place(idx, cnt)
    BY <1>4 DEF Together, OnTime, AtBit
  <2>2. QED
    BY <1>1, <1>4, <2>1 DEF SensorAt, DriverAt, Cycle, Level, Awaited
<1>5. CASE pc = "bitHigh" /\ phase = "low"
  <2>1. byte = NextByte(idx, cnt) /\ bit = NextBit(cnt)
    BY <1>5 DEF Together, AtNextBit
  <2>2. Place(byte, bit) = i + 1
    BY <1>1, <2>1, Places DEF Place
  <2>3. QED
    BY <1>1, <1>5, <2>2 DEF SensorAt, DriverAt, Cycle, Level, Awaited
<1>6. CASE pc = "bitHigh" /\ phase = "end"
  <2>1. i + 1 = TotalBits
    BY <1>1, <1>6, Places DEF Together, Place
  <2>2. QED
    BY <1>1, <1>6, <2>1 DEF SensorAt, DriverAt, Cycle, Level, Awaited
<1>7. QED
  BY <1>2, <1>3, <1>4, <1>5, <1>6 DEF Together, OnTime, Waits

LEMMA SensorInStep ==
    ASSUME TypeOK, TypeOK', Counting, SensorWaits, SensorMoves, pc \in Waits,
           InTime \/ SensorAhead \/ SensorBehind
    PROVE  InTime' \/ SensorAhead' \/ SensorBehind'
<1>1. seen /\ ~seen' /\ Advance /\ UNCHANGED <<pc, bits, idx, cnt, i, long, sent, slips, late>>
  BY DEF SensorMoves, locals, position, faults
<1>2. SensorAt' = SensorAt + 1 /\ SensorAt \in Int
  BY <1>1, Advances
<1>3. DriverAt' = DriverAt /\ DriverAt \in Int
  BY <1>1, Apart DEF DriverAt
<1>4. CASE InTime
  <2>1. Together /\ OnTime
    BY <1>1, <1>4 DEF InTime, Together, OnTime, Waits
  <2>2. Together'
    BY <1>1, <2>1, MoveInStep
  <2>3. ~late' /\ slips' \in {slips, 1}
    BY <1>1, <1>4 DEF InTime
  <2>4. QED
    BY <1>1, <1>4, <2>2, <2>3, InTimeStays
<1>5. CASE SensorAhead
  BY <1>1, <1>2, <1>3, <1>5 DEF SensorAhead, Ahead
<1>6. CASE SensorBehind
  <2>1. Behind'
    BY <1>1, <1>2, <1>3, <1>6 DEF SensorBehind, Behind
  <2>2. PICK line : line = Delayed(sent)
    OBVIOUS
  <2>3. Delayed(sent)' = line
    BY <1>1, <2>2 DEF Delayed
  <2>4. BitsSoFar(line) /\ LongIn(line)
    BY <1>6, <2>2 DEF SensorBehind
  <2>5. BitsSoFar(line)' /\ LongIn(line)'
    BY <1>1, <2>4, LineStays DEF LongIn
  <2>6. QED
    BY <1>1, <1>6, <2>1, <2>3, <2>5 DEF SensorBehind
<1>7. QED
  BY <1>4, <1>5, <1>6

LEMMA OutrunInStep ==
    ASSUME TypeOK, Counting, SensorWaits, SensorOutruns, InTime, slips = 0
    PROVE  InTime' \/ SensorAhead'
<1>1. /\ pc \in Waits /\ ~seen' /\ Advance /\ UNCHANGED <<pc, bits, idx, cnt, i, sent, late>>
      /\ slips' = 1 /\ ~late'
      /\ long' = (long \/ (pc = "bitHigh" /\ Level(phase) = 0))
  BY DEF SensorOutruns, position, InTime
<1>2. CASE OnTime
  <2>1. Level(phase) = 1 \/ pc # "bitHigh"
    BY <1>2 DEF OnTime, Level
  <2>2. long' = long
    BY <1>1, <2>1 DEF TypeOK
  <2>3. Together'
    BY <1>1, <1>2, <2>2, MoveInStep DEF InTime
  <2>4. QED
    BY <1>1, <2>3, InTimeStays
<1>3. CASE ~OnTime
  <2>1. SensorAt = DriverAt + 1
    BY <1>1, <1>3, OneAhead DEF InTime
  <2>2. SensorAt' = SensorAt + 1 /\ SensorAt \in Int
    BY <1>1, Advances
  <2>3. DriverAt' = DriverAt /\ DriverAt \in Int
    BY <1>1, Apart DEF DriverAt
  <2>4. QED
    BY <1>1, <2>1, <2>2, <2>3 DEF SensorAhead, Ahead
<1>4. QED
  BY <1>2, <1>3

\* What the driver takes the line for, once it has measured the bit that it is at.
Measured(line, one) == [line EXCEPT ![idx] = IF one THEN @ \cup {cnt} ELSE @ \ {cnt}]

\* The bits up to the present one.
Reached(b, k) == Past(b, k) \/ (b = idx /\ k = cnt)

LEMMA MeasuredTyped ==
    ASSUME TypeOK, idx \in Bytes, NEW line \in [Bytes -> SUBSET Bits], NEW one \in BOOLEAN
    PROVE  /\ Measured(line, one) \in [Bytes -> SUBSET Bits]
           /\ \A b \in Bytes \ {idx} : Measured(line, one)[b] = line[b]
           /\ Measured(line, one)[idx] = IF one THEN line[idx] \cup {cnt} ELSE line[idx] \ {cnt}
  BY DEF Measured, TypeOK

LEMMA MeasuredRightly ==
    ASSUME TypeOK, idx \in Bytes, NEW line \in [Bytes -> SUBSET Bits], NEW one \in BOOLEAN,
           one = (cnt \in line[idx])
    PROVE  Measured(line, one) = line
<1>1. Measured(line, one)[idx] = line[idx]
  <2>1. Measured(line, one)[idx] = IF one THEN line[idx] \cup {cnt} ELSE line[idx] \ {cnt}
    BY MeasuredTyped
  <2>2. QED
    BY <2>1
<1>2. \A b \in Bytes : Measured(line, one)[b] = line[b]
  BY <1>1, MeasuredTyped
<1>3. Measured(line, one) \in [Bytes -> SUBSET Bits]
  BY MeasuredTyped
<1>4. QED
  BY <1>2, <1>3

\* A bit goes where the sensor took it from.
LEMMA BitReceived ==
    ASSUME TypeOK, idx \in Bytes, NEW line \in [Bytes -> SUBSET Bits], BitsSoFar(line),
           NEW one \in BOOLEAN
    PROVE  \A b \in Bytes : Received(one)[b] = {k \in Measured(line, one)[b] : Reached(b, k)}
<1> SUFFICES ASSUME NEW b \in Bytes
             PROVE  Received(one)[b] = {k \in Measured(line, one)[b] : Reached(b, k)}
  OBVIOUS
<1>1. bits[b] = {k \in line[b] : Past(b, k)}
  BY DEF BitsSoFar
<1>2. ~Past(idx, cnt)
  BY Constants DEF Past, TypeOK
<1>3. CASE b # idx
  <2>1. Received(one)[b] = bits[b]
    BY <1>3 DEF Received, TypeOK
  <2>2. Measured(line, one)[b] = line[b]
    BY <1>3, MeasuredTyped
  <2>3. QED
    BY <1>1, <1>3, <2>1, <2>2 DEF Reached
<1>4. CASE b = idx
  <2>1. /\ Received(one)[b] = IF one THEN bits[b] \cup {cnt} ELSE bits[b]
        /\ Measured(line, one)[b] = IF one THEN line[b] \cup {cnt} ELSE line[b] \ {cnt}
    BY <1>4, MeasuredTyped DEF Received, TypeOK
  <2>2. QED
    BY <1>1, <1>2, <1>4, <2>1 DEF Reached
<1>5. QED
  BY <1>3, <1>4

\* The bits up to one are those before the next.
LEMMA BitsBeforeNext ==
    ASSUME TypeOK, idx \in Bytes, cnt' = BitAfter(cnt), idx' = NextByte(idx, cnt),
           NEW b \in Bytes, NEW k \in Bits
    PROVE  Reached(b, k) <=> Past(b, k)'
<1>1. /\ k \in Int /\ k >= 0 /\ k < ByteBits /\ ByteBits \in Int
      /\ cnt \in Int /\ cnt >= 0 /\ idx \in Int /\ b \in Int
  BY Constants DEF TypeOK, Bytes, Bits
<1>2. CASE cnt = 0
  BY <1>1, <1>2 DEF NextByte, BitAfter, Reached, Past
<1>3. CASE cnt # 0
  BY <1>1, <1>3 DEF NextByte, BitAfter, Reached, Past
<1>4. QED
  BY <1>2, <1>3

LEMMA BitStored ==
    ASSUME TypeOK, idx \in Bytes, NEW CONSTANT line \in [Bytes -> SUBSET Bits], BitsSoFar(line),
           NEW one \in BOOLEAN, NEW CONSTANT m, m = Measured(line, one),
           bits' = Received(one), cnt' = BitAfter(cnt), idx' = NextByte(idx, cnt)
    PROVE  BitsSoFar(m)'
<1> SUFFICES ASSUME NEW b \in Bytes
             PROVE  bits'[b] = {k \in m[b] : Past(b, k)'}
  BY DEF BitsSoFar
<1>1. bits'[b] = {k \in m[b] : Reached(b, k)}
  BY BitReceived
<1>2. m[b] \subseteq Bits
  BY MeasuredTyped
<1>3. \A k \in m[b] : Reached(b, k) <=> Past(b, k)'
  BY <1>2, BitsBeforeNext
<1>4. QED
  BY <1>1, <1>3

\* One wrong measurement, at most, is one wrong byte, at most.
LEMMA NearlyMeasured ==
    ASSUME TypeOK, idx \in Bytes, pc = "bitHigh", Together, NEW line, NearlySent(line),
           NEW one \in BOOLEAN, Measure(one), slips' = 0 \/ slips' = 1
    PROVE  /\ Measured(line, one) \in [Bytes -> SUBSET Bits]
           /\ OffByOne(Measured(line, one), sent)
           /\ Measured(line, one) # sent => slips' = 1
           /\ \A b \in Bytes : \A k \in Bits :
                 ~Reached(b, k) => (k \in Measured(line, one)[b] <=> k \in sent[b])
<1>1. line \in [Bytes -> SUBSET Bits] /\ slips \in Nat /\ cnt \in Bits /\ ~Past(idx, cnt)
  BY Constants DEF NearlySent, TypeOK, Past
<1>2. long = (cnt \in line[idx])
  <2>1. long = (cnt \in sent[idx])
    BY DEF Together
  <2>2. cnt \in line[idx] <=> cnt \in sent[idx]
    BY <1>1 DEF NearlySent
  <2>3. QED
    BY <2>1, <2>2
<1>3. CASE one = long
  <2>1. Measured(line, one) = line
    BY <1>1, <1>2, <1>3, MeasuredRightly
  <2>2. slips' = slips
    BY <1>1, <1>3 DEF Measure
  <2>3. QED
    BY <2>1, <2>2 DEF NearlySent, Reached
<1>4. CASE one # long
  <2>1. slips' = 1 /\ slips = 0
    BY <1>1, <1>4 DEF Measure
  <2>2. line = sent
    BY <2>1 DEF NearlySent
  <2>3. /\ Measured(line, one) \in [Bytes -> SUBSET Bits]
        /\ \A b \in Bytes \ {idx} : Measured(line, one)[b] = sent[b]
        /\ Measured(line, one)[idx] = IF one THEN sent[idx] \cup {cnt} ELSE sent[idx] \ {cnt}
    BY <1>1, <2>2, MeasuredTyped
  <2>4. ASSUME NEW b \in Bytes, NEW k \in Bits, ~Reached(b, k)
        PROVE  k \in Measured(line, one)[b] <=> k \in sent[b]
    <3>1. CASE b = idx
      <4>1. k # cnt
        BY <2>4, <3>1 DEF Reached
      <4>2. QED
        BY <2>3, <3>1, <4>1
    <3>2. CASE b # idx
      BY <2>3, <3>2
    <3>3. QED
      BY <3>1, <3>2
  <2>5. OffByOne(Measured(line, one), sent)
    BY <2>3 DEF OffByOne
  <2>6. QED
    BY <2>1, <2>3, <2>4, <2>5
<1>5. QED
  BY <1>3, <1>4

LEMMA DriverAtBit ==
    ASSUME TypeOK, Counting, pc \in {"bitLow", "bitHigh"}
    PROVE  /\ idx \in Bytes /\ idx \in 0..5 /\ cnt \in Bits
           /\ i = Place(idx, cnt) /\ i < TotalBits /\ i \in Nat
<1>1. i = idx * ByteBits + (ByteBits - 1 - cnt) /\ i < TotalBits /\ i \in Nat
  BY Constants DEF Counting, TypeOK, Waits
<1>2. idx <= 4
  BY <1>1, Places DEF TypeOK
<1>3. QED
  BY <1>1, <1>2 DEF TypeOK, Bytes, Place

\* An answer that was late: what the sensor is at is the bit before.
LEMMA DelayedBit ==
    ASSUME TypeOK, Counting, SensorWaits, pc = "bitLow", SensorAt = DriverAt - 1
    PROVE  (phase = "ackHigh" \/ (phase = "high" /\ bit \in sent[byte]))
              <=> cnt \in Delayed(sent)[idx]
<1>1. /\ idx \in Bytes /\ idx \in 0..5 /\ cnt \in Bits
      /\ i = Place(idx, cnt) /\ i < TotalBits /\ i \in Nat
  BY DriverAtBit
<1>2. DriverAt = 2 * (1 + i)
  BY <1>1 DEF DriverAt, Awaited
<1>3. /\ byte \in Bytes /\ byte \in 0..5 /\ bit \in Bits /\ Place(byte, bit) \in Nat
      /\ TotalBits \in Nat
  BY Constants, PlaceTyped DEF TypeOK, Bytes
<1>4. \/ phase = "ackHigh" /\ i = 0
      \/ phase = "high" /\ Place(byte, bit) + 1 = i
  <2>1. PICK p : p = Place(byte, bit)
    OBVIOUS
  <2>2. /\ phase = "silent" => SensorAt = -1
        /\ phase = "ackLow" => SensorAt = 0
        /\ phase = "ackHigh" => SensorAt = 1
        /\ phase = "low" => SensorAt = 2 * (1 + p)
        /\ phase = "high" => SensorAt = 2 * (1 + p) + 1
        /\ phase \in {"end", "released"} => SensorAt >= 2 * (1 + TotalBits)
    BY <1>3, <2>1 DEF SensorAt, Cycle, Level
  <2>3. /\ p \in Nat /\ i \in Nat /\ i < TotalBits /\ TotalBits \in Nat
        /\ SensorAt = 2 * (1 + i) - 1
    BY <1>1, <1>2, <1>3, <2>1
  <2>4. phase \in {"silent", "ackLow", "ackHigh", "low", "high", "end", "released"}
    BY DEF TypeOK, Phases
  <2>5. (phase = "ackHigh" /\ i = 0) \/ (phase = "high" /\ p + 1 = i)
    BY <2>2, <2>3, <2>4
  <2>6. QED
    BY <2>1, <2>5
<1>5. cnt \in Delayed(sent)[idx] <=>
         IF cnt = ByteBits - 1 THEN idx = 0 \/ 0 \in sent[idx - 1] ELSE cnt + 1 \in sent[idx]
  BY <1>1 DEF Delayed
<1>6. CASE phase = "ackHigh" /\ i = 0
  <2>1. Place(idx, cnt) = Place(0, ByteBits - 1)
    BY <1>1, <1>6, PlaceTyped
  <2>2. idx = 0 /\ cnt = ByteBits - 1
    BY <1>1, <2>1, Ranges, Constants, OnePlace
  <2>3. QED
    BY <1>5, <1>6, <2>2
<1>7. CASE phase = "high" /\ Place(byte, bit) + 1 = i
  <2>1. /\ NextByte(byte, bit) \in 0..5 /\ BitAfter(bit) \in Bits
        /\ i = Place(NextByte(byte, bit), BitAfter(bit))
    BY <1>1, <1>3, <1>7, Places DEF Place
  <2>2. idx = NextByte(byte, bit) /\ cnt = BitAfter(bit)
    BY <1>1, <2>1, OnePlace
  <2>3. byte \in Nat /\ bit \in Nat /\ bit < ByteBits /\ ByteBits \in Nat
    BY <1>3, Constants DEF Bytes
  <2>4. CASE bit = 0
    <3>1. idx = byte + 1 /\ cnt = ByteBits - 1
      BY <2>2, <2>4 DEF NextByte, BitAfter
    <3>2. idx # 0 /\ idx - 1 = byte
      BY <2>3, <3>1
    <3>3. QED
      BY <1>5, <1>7, <2>4, <3>1, <3>2
  <2>5. CASE bit # 0
    <3>1. idx = byte /\ cnt = bit - 1
      BY <2>2, <2>5 DEF NextByte, BitAfter
    <3>2. cnt # ByteBits - 1 /\ cnt + 1 = bit
      BY <2>3, <3>1
    <3>3. QED
      BY <1>5, <1>7, <3>1, <3>2
  <2>6. QED
    BY <2>4, <2>5
<1>8. QED
  BY <1>4, <1>6, <1>7

\* The driver counts one change more.
LEMMA Counts ==
    ASSUME TypeOK, Counting, AckLowEnds \/ AckHighEnds \/ BitLowEnds \/ BitHighEnds
    PROVE  /\ pc \in Waits /\ Level(phase) # Awaited(pc) /\ UNCHANGED sensor
           /\ SensorAt' = SensorAt /\ DriverAt' = DriverAt + 1
           /\ SensorAt \in Int /\ DriverAt \in Int
<1>1. /\ pc \in Waits /\ Level(phase) # Awaited(pc) /\ UNCHANGED sensor
  BY DEF AckLowEnds, AckHighEnds, BitLowEnds, BitHighEnds, GoOn, Changed, Waits
<1>2. SensorAt' = SensorAt
  BY <1>1 DEF sensor, SensorAt, Cycle
<1>3. i \in Nat
  BY Constants DEF TypeOK
<1>4. DriverAt' = DriverAt + 1
  <2>1. CASE AckLowEnds
    BY <2>1 DEF AckLowEnds, Changed, GoOn, DriverAt, Awaited
  <2>2. CASE AckHighEnds
    <3>1. pc = "ackHigh" /\ pc' = "bitLow" /\ i = 0 /\ i' = 0
      BY <2>2 DEF AckHighEnds, Changed, GoOn, Counting, position
    <3>2. QED
      BY <3>1 DEF DriverAt, Awaited
  <2>3. CASE BitLowEnds
    <3>1. pc = "bitLow" /\ pc' = "bitHigh" /\ i' = i
      BY <2>3 DEF BitLowEnds, Changed, GoOn, position
    <3>2. QED
      BY <1>3, <3>1 DEF DriverAt, Awaited
  <2>4. CASE BitHighEnds
    <3>1. pc = "bitHigh" /\ pc' = "bitLow" /\ i' = i + 1
      BY <2>4 DEF BitHighEnds, Changed
    <3>2. DriverAt = 2 * (1 + i) + 1 /\ DriverAt' = 2 * (1 + (i + 1)) + 0
      BY <3>1 DEF DriverAt, Awaited
    <3>3. QED
      BY <1>3, <3>2
  <2>5. QED
    BY <2>1, <2>2, <2>3, <2>4
<1>5. QED
  BY <1>1, <1>2, <1>4, Apart

LEMMA AheadOn ==
    ASSUME TypeOK, Counting, AckLowEnds \/ AckHighEnds \/ BitLowEnds \/ BitHighEnds,
           Ahead \/ Behind
    PROVE  (Ahead => Ahead') /\ (Behind => Behind')
<1>1. /\ pc \in Waits /\ Level(phase) # Awaited(pc)
      /\ SensorAt' = SensorAt /\ DriverAt' = DriverAt + 1
      /\ SensorAt \in Int /\ DriverAt \in Int
  BY Counts
<1>2. SensorAt # DriverAt + 2 /\ SensorAt # DriverAt - 2
  BY <1>1, Apart
<1>3. Ahead => Ahead'
  <2>1. Ahead => SensorAt = DriverAt + 3
    BY <1>2 DEF Ahead
  <2>2. SensorAt = DriverAt + 3 => SensorAt' = DriverAt' + 2
    BY <1>1
  <2>3. QED
    BY <2>1, <2>2 DEF Ahead
<1>4. Behind => Behind'
  <2>1. Behind => SensorAt = DriverAt - 1
    BY <1>2 DEF Behind
  <2>2. SensorAt = DriverAt - 1 => SensorAt' = DriverAt' - 2
    BY <1>1
  <2>3. QED
    BY <2>1, <2>2 DEF Behind
<1>5. QED
  BY <1>3, <1>4

LEMMA PollInStep ==
    ASSUME TypeOK, PollAgain, InTime \/ SensorAhead \/ SensorBehind
    PROVE  InTime' \/ SensorAhead' \/ SensorBehind'
<1>1. /\ pc \in Waits /\ Level(phase) = Awaited(pc)
      /\ UNCHANGED <<pc, bits, idx, cnt, i, long, phase, byte, bit, sent, slips, late>>
  BY DEF PollAgain, Unchanged, position, sensor, faults
<1>2. /\ SensorAt' = SensorAt /\ DriverAt' = DriverAt
      /\ SensorAt # DriverAt + 3 /\ SensorAt # DriverAt - 1
  BY <1>1, Apart DEF SensorAt, Cycle, DriverAt
<1>3. CASE InTime
  <2>1. Together
    BY <1>3 DEF InTime
  <2>2. OnTime /\ phase # "silent"
    BY <1>1, <2>1 DEF Together, OnTime, Waits, Level, Awaited
  <2>3. Together'
    BY <1>1, <2>1, <2>2 DEF Together, OnTime, AtBit, AtNextBit
  <2>4. ~late' /\ slips' \in {slips, 1}
    BY <1>1, <1>3 DEF InTime
  <2>5. QED
    BY <1>1, <1>3, <2>3, <2>4, InTimeStays
<1>4. CASE SensorAhead
  BY <1>1, <1>2, <1>4 DEF SensorAhead, Ahead
<1>5. CASE SensorBehind
  <2>1. Behind'
    BY <1>2, <1>5 DEF SensorBehind, Behind
  <2>2. PICK line : line = Delayed(sent)
    OBVIOUS
  <2>3. Delayed(sent)' = line
    BY <1>1, <2>2 DEF Delayed
  <2>4. BitsSoFar(line)' /\ LongIn(line)'
    BY <1>1, <1>5, <2>2, LineStays DEF SensorBehind, LongIn
  <2>5. QED
    BY <1>1, <1>5, <2>1, <2>3, <2>4 DEF SensorBehind
<1>6. QED
  BY <1>3, <1>4, <1>5

LEMMA AckLowInStep ==
    ASSUME TypeOK, Counting, SensorWaits, AckLowEnds, ~late, slips = 0 \/ ~late',
           InTime \/ SensorAhead
    PROVE  InTime' \/ SensorAhead' \/ SensorBehind'
<1>1. /\ pc = "ackLow" /\ pc' = "ackHigh" /\ Level(phase) = 1 /\ seen'
      /\ late' = (phase = "silent")
      /\ UNCHANGED <<bits, idx, cnt, i, long, phase, byte, bit, sent, slips>>
  BY DEF AckLowEnds, Changed, GoOn, position, sensor, Level, Awaited
<1>2. CASE phase = "silent"
  <2>1. SensorAt' = -1 /\ DriverAt' = 1
    BY <1>1, <1>2 DEF SensorAt, DriverAt, Cycle, Level, Awaited
  <2>2. PICK line : line = Delayed(sent)
    OBVIOUS
  <2>3. BitsSoFar(line)'
    <3>1. bits' = Nothing /\ idx' = 0 /\ cnt' = ByteBits - 1
      BY <1>1 DEF Counting
    <3>2. line \in [Bytes -> SUBSET Bits]
      BY <2>2 DEF Delayed
    <3>3. \A b \in Bytes : bits'[b] = {}
      BY <3>1 DEF Nothing
    <3>4. \A b \in Bytes : \A k \in Bits : ~Past(b, k)'
      BY <3>1, Constants DEF Past, Bytes, Bits
    <3>5. QED
      BY <3>2, <3>3, <3>4 DEF BitsSoFar
  <2>4. LongIn(line)'
    BY <1>1 DEF LongIn
  <2>5. Delayed(sent)' = line
    BY <1>1, <2>2 DEF Delayed
  <2>6. slips' = 0 /\ late'
    BY <1>1, <1>2
  <2>7. Behind'
    BY <2>1 DEF Behind
  <2>8. QED
    BY <2>3, <2>4, <2>5, <2>6, <2>7 DEF SensorBehind
<1>3. CASE phase # "silent" /\ InTime
  <2>1. Together'
    BY <1>1, <1>3 DEF InTime, Together, AtBit, Level
  <2>2. QED
    BY <1>1, <1>3, <2>1, InTimeStays
<1>4. CASE phase # "silent" /\ SensorAhead
  BY <1>1, <1>4, AheadOn DEF SensorAhead
<1>5. QED
  BY <1>2, <1>3, <1>4

LEMMA LevelInStep ==
    ASSUME TypeOK, Counting, SensorWaits, AckHighEnds \/ BitLowEnds,
           InTime \/ SensorAhead \/ SensorBehind
    PROVE  InTime' \/ SensorAhead' \/ SensorBehind'
<1>1. UNCHANGED <<bits, idx, cnt, i, phase, byte, bit, sent, slips, late>>
  BY DEF AckHighEnds, BitLowEnds, GoOn, position, sensor
<1>2. CASE InTime
  <2>1. CASE AckHighEnds
    <3>1. Together'
      BY <1>1, <1>2, <2>1 DEF AckHighEnds, GoOn, Changed, Level, Awaited, InTime, Together, AtBit
    <3>2. QED
      BY <1>1, <1>2, <3>1, InTimeStays DEF InTime
  <2>2. CASE BitLowEnds
    <3>1. Together'
      BY <1>1, <1>2, <2>2 DEF BitLowEnds, GoOn, Changed, Level, Awaited, InTime, Together, AtBit
    <3>2. QED
      BY <1>1, <1>2, <3>1, InTimeStays DEF InTime
  <2>3. QED
    BY <2>1, <2>2
<1>3. CASE SensorAhead
  BY <1>1, <1>3, AheadOn DEF SensorAhead
<1>4. CASE SensorBehind
  <2>1. Behind /\ Behind'
    BY <1>4, AheadOn DEF SensorBehind
  <2>2. PICK line : line = Delayed(sent)
    OBVIOUS
  <2>3. Delayed(sent)' = line
    BY <1>1, <2>2 DEF Delayed
  <2>4. BitsSoFar(line)'
    BY <1>1, <1>4, <2>2, LineStays DEF SensorBehind
  <2>5. LongIn(line)'
    <3>1. CASE AckHighEnds
      BY <3>1 DEF AckHighEnds, GoOn, LongIn
    <3>2. CASE BitLowEnds
      <4>1. pc = "bitLow" /\ long' = (phase = "ackHigh" \/ (phase = "high" /\ bit \in sent[byte]))
        BY <3>2 DEF BitLowEnds, Changed
      <4>2. SensorAt # DriverAt - 2
        BY <3>2, Counts, Apart
      <4>3. SensorAt = DriverAt - 1
        BY <2>1, <4>2 DEF Behind
      <4>4. long' = (cnt \in line[idx])
        BY <2>2, <4>1, <4>3, DelayedBit
      <4>5. QED
        BY <1>1, <4>4 DEF LongIn
    <3>3. QED
      BY <3>1, <3>2
  <2>6. QED
    BY <1>1, <1>4, <2>1, <2>3, <2>4, <2>5 DEF SensorBehind
<1>5. QED
  BY <1>2, <1>3, <1>4

LEMMA BitInStep ==
    ASSUME TypeOK, TypeOK', Counting, BitHighEnds, sent \in Transmissions,
           slips' = 0 \/ (slips' = 1 /\ ~late'),
           InTime \/ SensorAhead \/ SensorBehind
    PROVE  InTime' \/ SensorAhead' \/ SensorBehind'
<1>1. /\ pc = "bitHigh" /\ pc' = "bitLow" /\ phase # "high" /\ i + 1 # TotalBits
      /\ cnt' = BitAfter(cnt) /\ idx' = NextByte(idx, cnt) /\ i' = i + 1
      /\ UNCHANGED <<phase, byte, bit, sent, late>>
  BY DEF BitHighEnds, Changed, Level, Awaited, AllRead, sensor
<1>2. /\ idx \in Bytes /\ idx \in 0..5 /\ cnt \in Bits /\ i = Place(idx, cnt)
      /\ i < TotalBits /\ i \in Nat /\ slips \in Nat
  BY <1>1, DriverAtBit, Constants DEF TypeOK
<1>3. PICK one \in BOOLEAN : Measure(one) /\ bits' = Received(one)
  BY DEF BitHighEnds
<1>4. CASE InTime
  <2>1. Together /\ ~late
    BY <1>4 DEF InTime
  <2>2. ~(idx = 4 /\ cnt = 0) /\ NextBit(cnt) = BitAfter(cnt)
    BY <1>1, <1>2, Places DEF Place
  <2>3. phase = "low" /\ AtNextBit
    BY <1>1, <2>1, <2>2 DEF Together
  <2>4. Together'
    BY <1>1, <2>2, <2>3 DEF Together, AtBit, AtNextBit
  <2>5. PICK line : NearlySent(line) /\ BitsSoFar(line)
    BY <1>4 DEF InTime
  <2>6. PICK m : m = Measured(line, one)
    OBVIOUS
  <2>7. /\ m \in [Bytes -> SUBSET Bits] /\ OffByOne(m, sent) /\ (m # sent => slips' = 1)
        /\ \A b \in Bytes : \A k \in Bits : ~Reached(b, k) => (k \in m[b] <=> k \in sent[b])
    BY <1>1, <1>2, <1>3, <2>1, <2>5, <2>6, NearlyMeasured
  <2>8. \A b \in Bytes : \A k \in Bits : Reached(b, k) <=> Past(b, k)'
    BY <1>1, <1>2, BitsBeforeNext
  <2>9. NearlySent(m)'
    BY <1>1, <2>7, <2>8 DEF NearlySent
  <2>10. BitsSoFar(m)'
    BY <1>1, <1>2, <1>3, <2>5, <2>6, BitStored DEF NearlySent
  <2>11. QED
    BY <1>1, <2>1, <2>4, <2>9, <2>10 DEF InTime
<1>5. CASE SensorAhead
  <2>1. slips' = 1 /\ ~late'
    BY <1>1, <1>3, <1>5 DEF SensorAhead, Measure
  <2>2. QED
    BY <1>5, <2>1, AheadOn DEF SensorAhead
<1>6. CASE SensorBehind
  <2>1. Behind' /\ slips' = 0 /\ late' /\ slips = 0
    BY <1>1, <1>6, AheadOn DEF SensorBehind
  <2>2. PICK line : line = Delayed(sent)
    OBVIOUS
  <2>3. Delayed(sent)' = line
    BY <1>1, <2>2 DEF Delayed
  <2>4. line \in [Bytes -> SUBSET Bits]
    BY <2>2 DEF Delayed
  <2>5. one = (cnt \in line[idx])
    BY <1>1, <1>3, <1>6, <2>1, <2>2 DEF Measure, SensorBehind, LongIn
  <2>6. line = Measured(line, one)
    BY <1>2, <2>4, <2>5, MeasuredRightly
  <2>7. BitsSoFar(line)'
    BY <1>1, <1>2, <1>3, <1>6, <2>2, <2>4, <2>6, BitStored DEF SensorBehind
  <2>8. QED
    BY <1>1, <2>1, <2>3, <2>7 DEF SensorBehind, LongIn
<1>7. QED
  BY <1>4, <1>5, <1>6

LEMMA StillInStep ==
    ASSUME UNCHANGED <<pc, bits, idx, cnt, i, long, phase, byte, bit, sent, seen, slips, late>>,
           InTime \/ SensorAhead \/ SensorBehind
    PROVE  InTime' \/ SensorAhead' \/ SensorBehind'
<1>1. SensorAt' = SensorAt /\ DriverAt' = DriverAt
  BY DEF SensorAt, Cycle, DriverAt
<1>2. CASE InTime
  <2>1. Together'
    BY <1>2 DEF InTime, Together, AtBit, AtNextBit
  <2>2. QED
    BY <1>2, <2>1, InTimeStays DEF InTime
<1>3. CASE SensorAhead
  BY <1>1, <1>3 DEF SensorAhead, Ahead
<1>4. CASE SensorBehind
  <2>1. Behind'
    BY <1>1, <1>4 DEF SensorBehind, Behind
  <2>2. PICK line : line = Delayed(sent)
    OBVIOUS
  <2>3. Delayed(sent)' = line
    BY <2>2 DEF Delayed
  <2>4. BitsSoFar(line)' /\ LongIn(line)'
    BY <1>4, <2>2, LineStays DEF SensorBehind, LongIn
  <2>5. QED
    BY <1>4, <2>1, <2>3, <2>4 DEF SensorBehind
<1>5. QED
  BY <1>2, <1>3, <1>4

LEMMA InStepStep ==
    ASSUME TypeOK, TypeOK', Counting, SensorWaits, InStep, [Next]_vars
    PROVE  InStep'
<1>1. /\ pc' # "idle" => result' = "none"
      /\ pc' = "ackLow" => ~late'
      /\ pc' \in Waits => sent' \in Transmissions
  <2> USE DEF InStep, Waits
  <2>1. CASE SensorMoves \/ SensorOutruns \/ ClockTicks \/ UNCHANGED vars
    BY <2>1 DEF SensorMoves, SensorOutruns, ClockTicks, vars, sensor, faults
  <2>2. CASE BeginRead \/ Settle \/ StartPulse
    BY <2>2 DEF BeginRead, Settle, StartPulse
  <2>3. CASE PollAgain
    BY <2>3 DEF PollAgain, Unchanged, sensor, faults
  <2>4. CASE GiveUp \/ Finish \/ Construct
    BY <2>4 DEF GiveUp, Finish, Construct, Return
  <2>5. CASE AckLowEnds \/ AckHighEnds \/ BitLowEnds
    BY <2>5 DEF AckLowEnds, AckHighEnds, BitLowEnds, GoOn, Changed, sensor
  <2>6. CASE BitHighEnds
    BY <2>6 DEF BitHighEnds, Changed, sensor
  <2>7. QED
    BY <2>1, <2>2, <2>3, <2>4, <2>5, <2>6 DEF Next, Read
<1>2. SUFFICES ASSUME pc' \in Waits, slips' = 0 \/ (slips' = 1 /\ ~late')
               PROVE  InTime' \/ SensorAhead' \/ SensorBehind'
  BY <1>1, DisturbedNext DEF InStep
<1>3. /\ slips \in Nat
      /\ pc \in Waits /\ (slips = 0 \/ (slips = 1 /\ ~late)) => InTime \/ SensorAhead \/ SensorBehind
  BY Disturbed DEF InStep
<1>4. CASE StartPulse
  BY <1>4, StartInStep
<1>5. CASE SensorMoves
  <2>1. pc \in Waits /\ UNCHANGED <<slips, late>>
    BY <1>2, <1>5 DEF SensorMoves, faults
  <2>2. QED
    BY <1>2, <1>3, <1>5, <2>1, SensorInStep
<1>6. CASE SensorOutruns
  <2>1. slips = 0 /\ ~late /\ pc \in Waits
    BY <1>2, <1>3, <1>6 DEF SensorOutruns
  <2>2. InTime
    BY <1>3, <2>1 DEF SensorAhead, SensorBehind
  <2>3. QED
    BY <1>6, <2>1, <2>2, OutrunInStep
<1>7. CASE PollAgain
  <2>1. pc \in Waits /\ UNCHANGED <<slips, late>>
    BY <1>7 DEF PollAgain, Unchanged, faults
  <2>2. QED
    BY <1>2, <1>3, <1>7, <2>1, PollInStep
<1>8. CASE AckLowEnds
  <2>1. pc \in Waits /\ ~late /\ UNCHANGED slips /\ (slips = 0 \/ slips = 1)
    BY <1>2, <1>8 DEF AckLowEnds, GoOn, Changed, InStep, Waits
  <2>2. InTime \/ SensorAhead
    BY <1>3, <2>1 DEF SensorBehind
  <2>3. QED
    BY <1>2, <1>8, <2>1, <2>2, AckLowInStep
<1>9. CASE AckHighEnds \/ BitLowEnds
  <2>1. pc \in Waits /\ UNCHANGED <<slips, late>>
    BY <1>9 DEF AckHighEnds, BitLowEnds, GoOn, Changed, Waits
  <2>2. QED
    BY <1>2, <1>3, <1>9, <2>1, LevelInStep
<1>10. CASE BitHighEnds
  <2>1. pc \in Waits /\ UNCHANGED late /\ (slips' = slips \/ slips' = slips + 1)
    BY <1>10 DEF BitHighEnds, Changed, Waits, Measure
  <2>2. slips = 0 \/ (slips = 1 /\ ~late)
    BY <1>2, <1>3, <2>1
  <2>3. sent \in Transmissions
    BY <2>1 DEF InStep
  <2>4. QED
    BY <1>2, <1>3, <1>10, <2>1, <2>2, <2>3, BitInStep
<1>11. CASE BeginRead \/ Settle \/ GiveUp \/ Finish \/ Construct
  BY <1>2, <1>11 DEF BeginRead, Settle, GiveUp, Finish, Construct, Return, Waits
<1>12. CASE ClockTicks \/ UNCHANGED vars
  <2>1. UNCHANGED <<pc, bits, idx, cnt, i, long, phase, byte, bit, sent, seen, slips, late>>
    BY <1>12 DEF ClockTicks, vars, locals, position, sensor, faults
  <2>2. QED
    BY <1>2, <1>3, <2>1, StillInStep
<1>13. QED
  BY <1>4, <1>5, <1>6, <1>7, <1>8, <1>9, <1>10, <1>11, <1>12 DEF Next, Read

-----------------------------------------------------------------------------
(* The end of a read. *)

LEMMA AllReached ==
    ASSUME TypeOK, Counting, Finish
    PROVE  /\ pc = "bitHigh" /\ Level(phase) = 0 /\ i + 1 = TotalBits /\ i \in Nat
           /\ idx \in Bytes /\ \A b \in Bytes : \A k \in Bits : Reached(b, k)
<1>1. pc = "bitHigh" /\ Level(phase) = 0 /\ i + 1 = TotalBits
  BY DEF Finish, Changed, AllRead, Level, Awaited
<1>2. /\ idx \in Bytes /\ idx \in 0..5 /\ cnt \in Bits /\ i = Place(idx, cnt)
      /\ i < TotalBits /\ i \in Nat
  BY <1>1, DriverAtBit
<1>3. idx = 4 /\ cnt = 0
  BY <1>1, <1>2, Places DEF Place
<1>4. \A b \in Bytes : \A k \in Bits : Reached(b, k)
  BY <1>3, Constants DEF Reached, Past, Bytes
<1>5. QED
  BY <1>1, <1>2, <1>4

LEMMA LineReceived ==
    ASSUME TypeOK, Counting, Finish, NEW line \in [Bytes -> SUBSET Bits], BitsSoFar(line),
           NEW one \in BOOLEAN
    PROVE  Received(one) = Measured(line, one)
<1>1. idx \in Bytes /\ \A b \in Bytes : \A k \in Bits : Reached(b, k)
  BY AllReached
<1>2. Measured(line, one) \in [Bytes -> SUBSET Bits]
  BY <1>1, MeasuredTyped
<1>3. Received(one) \in [Bytes -> SUBSET Bits]
  BY OneReceived
<1>4. ASSUME NEW b \in Bytes
      PROVE  Received(one)[b] = Measured(line, one)[b]
  <2>1. Received(one)[b] = {k \in Measured(line, one)[b] : Reached(b, k)}
    BY <1>1, BitReceived
  <2>2. Measured(line, one)[b] \subseteq Bits
    BY <1>2
  <2>3. QED
    BY <1>1, <2>1, <2>2
<1>5. QED
  BY <1>2, <1>3, <1>4

\* A sensor that is ahead has nothing left to end the last bit with.
LEMMA AheadCannotFinish ==
    ASSUME TypeOK, Counting, Finish, Ahead
    PROVE  FALSE
<1>1. pc = "bitHigh" /\ Level(phase) = 0 /\ i + 1 = TotalBits /\ i \in Nat
  BY AllReached
<1>2. SensorAt # DriverAt + 2
  BY <1>1, Apart DEF Waits, Awaited
<1>3. DriverAt = 2 * (1 + i) + 1
  BY <1>1 DEF DriverAt, Awaited
<1>4. SensorAt = 2 * (1 + i) + 1 + 3
  BY <1>2, <1>3 DEF Ahead
<1>5. PICK p \in Nat : p = Place(byte, bit) /\ p < TotalBits
  BY PlaceTyped DEF TypeOK, Bytes
<1>6. /\ phase = "ackLow" => SensorAt = 0
      /\ phase = "low" => SensorAt = 2 * (1 + p)
      /\ phase = "end" => SensorAt = 2 * (1 + (i + 1))
  BY <1>1, <1>5 DEF SensorAt, Cycle, Level
<1>7. phase \in {"ackLow", "low", "end"}
  BY <1>1 DEF Level
<1>8. QED
  BY <1>1, <1>4, <1>5, <1>6, <1>7

\* What a read has at its end, if at most one thing went wrong: what was sent, but
\* for one byte at most, or all of it a bit late.
LEMMA WhatIsRead ==
    ASSUME TypeOK, TypeOK', Counting, InStep, Finish, NEW one \in BOOLEAN, Measure(one),
           slips' = 0 \/ (slips' = 1 /\ ~late)
    PROVE  /\ sent \in Transmissions /\ UNCHANGED <<sent, late>>
           /\ \/ OffByOne(Received(one), sent) /\ (slips' = 0 => Received(one) = sent)
              \/ late /\ Received(one) = Delayed(sent)
<1>1. pc = "bitHigh" /\ pc \in Waits /\ idx \in Bytes
  BY AllReached DEF Waits
<1>2. UNCHANGED <<sent, late>> /\ sent \in Transmissions
  BY <1>1 DEF Finish, sensor, InStep
<1>3. slips \in Nat /\ (slips = 0 \/ (slips = 1 /\ ~late))
  BY Disturbed DEF Measure
<1>4. InTime \/ SensorAhead \/ SensorBehind
  BY <1>1, <1>3, Disturbed DEF InStep
<1>5. CASE InTime
  <2>1. PICK line : NearlySent(line) /\ BitsSoFar(line)
    BY <1>5 DEF InTime
  <2>2. Received(one) = Measured(line, one)
    BY <2>1, LineReceived DEF NearlySent
  <2>3. OffByOne(Measured(line, one), sent) /\ (Measured(line, one) # sent => slips' = 1)
    BY <1>1, <1>5, <2>1, NearlyMeasured DEF InTime
  <2>4. QED
    BY <1>2, <2>2, <2>3
<1>6. CASE SensorBehind
  <2>1. Delayed(sent) \in [Bytes -> SUBSET Bits]
    BY DEF Delayed
  <2>2. Received(one) = Measured(Delayed(sent), one)
    BY <1>6, <2>1, LineReceived DEF SensorBehind
  <2>3. one = long
    BY <1>3, <1>6 DEF Measure, SensorBehind
  <2>4. Measured(Delayed(sent), one) = Delayed(sent)
    BY <1>1, <1>6, <2>1, <2>3, MeasuredRightly DEF SensorBehind, LongIn
  <2>5. QED
    BY <1>2, <1>6, <2>2, <2>4 DEF SensorBehind
<1>7. QED
  BY <1>4, <1>5, <1>6, AheadCannotFinish DEF SensorAhead

\* What is received without a fault is what was sent, and its sum is right.
LEMMA AllReceived ==
    ASSUME TypeOK, TypeOK', Counting, InStep, Finish,
           NEW one \in BOOLEAN, Measure(one), slips' = 0, ~late
    PROVE  ChecksumHolds(Received(one))
<1>1. Received(one) = sent /\ sent \in Transmissions
  BY WhatIsRead
<1>2. Value(sent[4]) = (Value(sent[0]) + Value(sent[2])) % 2 ^ ByteBits
  BY <1>1, SensorAssumption
<1>3. QED
  BY <1>1, <1>2 DEF ChecksumHolds

LEMMA ExplainedStep ==
    ASSUME TypeOK, TypeOK', Counting, InStep, ErrorIsExplained, [Next]_vars
    PROVE  ErrorIsExplained'
<1> SUFFICES ASSUME result' = "ERROR_CHECKSUM", slips' = 0, ~late'
             PROVE  FALSE
  BY DisturbedNext DEF ErrorIsExplained
<1>1. result = "ERROR_CHECKSUM" => pc = "idle" /\ ~(slips = 0 /\ ~late)
  BY Disturbed DEF ErrorIsExplained, InStep
<1>2. CASE SensorMoves \/ ClockTicks \/ UNCHANGED vars
  BY <1>1, <1>2 DEF SensorMoves, ClockTicks, vars, faults
<1>3. CASE SensorOutruns
  BY <1>3 DEF SensorOutruns, TypeOK
<1>4. CASE BeginRead \/ GiveUp \/ Construct
  BY <1>4 DEF BeginRead, GiveUp, Construct, Return
<1>5. CASE Settle \/ StartPulse \/ PollAgain
  BY <1>1, <1>5 DEF Settle, StartPulse, PollAgain, Unchanged, Waits
<1>6. CASE AckLowEnds \/ AckHighEnds \/ BitLowEnds \/ BitHighEnds
  BY <1>1, <1>6 DEF AckLowEnds, AckHighEnds, BitLowEnds, BitHighEnds, GoOn, Changed
<1>7. CASE Finish
  <2>1. PICK one \in BOOLEAN :
          Measure(one) /\ Return(IF ChecksumHolds(Received(one)) THEN "OK" ELSE "ERROR_CHECKSUM")
    BY <1>7 DEF Finish
  <2>2. ~late
    BY <1>7 DEF Finish
  <2>3. ChecksumHolds(Received(one))
    BY <1>7, <2>1, <2>2, AllReceived
  <2>4. QED
    BY <2>1, <2>3 DEF Return
<1>8. QED
  BY <1>2, <1>3, <1>4, <1>5, <1>6, <1>7 DEF Next, Read

\* A late answer is told if the sum of what was sent has no carry; the rest always.
TrueUnlessLate == NoCarry \/ ~late => OkMeansTrue

LEMMA TrueStep ==
    ASSUME TypeOK, TypeOK', Counting, InStep, TrueUnlessLate, [Next]_vars
    PROVE  TrueUnlessLate'
<1> SUFFICES ASSUME NoCarry \/ ~late', result' = "OK", slips' = 0 \/ (slips' = 1 /\ ~late')
             PROVE  humidity' = Value(sent'[0]) /\ temperature' = Value(sent'[2])
  BY DisturbedNext DEF TrueUnlessLate, OkMeansTrue
<1>1. /\ result = "OK" => pc = "idle"
      /\ (NoCarry \/ ~late) /\ result = "OK" /\ (slips = 0 \/ (slips = 1 /\ ~late)) =>
            humidity = Value(sent[0]) /\ temperature = Value(sent[2])
  BY Disturbed DEF TrueUnlessLate, OkMeansTrue, InStep
<1>2. CASE SensorMoves \/ ClockTicks \/ UNCHANGED vars
  <2>1. UNCHANGED <<result, slips, late, sent, humidity, temperature>>
    BY <1>2 DEF SensorMoves, ClockTicks, vars, faults, values, sensor
  <2>2. QED
    BY <1>1, <2>1
<1>3. CASE SensorOutruns
  BY <1>1, <1>3 DEF SensorOutruns, Waits
<1>4. CASE BeginRead \/ GiveUp \/ Construct
  BY <1>4 DEF BeginRead, GiveUp, Construct, Return
<1>5. CASE Settle \/ StartPulse \/ PollAgain
  BY <1>1, <1>5 DEF Settle, StartPulse, PollAgain, Unchanged, Waits
<1>6. CASE AckLowEnds \/ AckHighEnds \/ BitLowEnds \/ BitHighEnds
  BY <1>1, <1>6 DEF AckLowEnds, AckHighEnds, BitLowEnds, BitHighEnds, GoOn, Changed
<1>7. CASE Finish
  <2>1. PICK one \in BOOLEAN :
          /\ Measure(one)
          /\ humidity' = Value(Received(one)[0])
          /\ temperature' = Value(Received(one)[2])
          /\ Return(IF ChecksumHolds(Received(one)) THEN "OK" ELSE "ERROR_CHECKSUM")
    BY <1>7 DEF Finish
  <2>2. ChecksumHolds(Received(one))
    BY <2>1 DEF Return
  <2>3. late' = late
    BY <1>7 DEF Finish
  <2>4. /\ sent \in Transmissions /\ sent' = sent
        /\ \/ OffByOne(Received(one), sent)
           \/ late' /\ Received(one) = Delayed(sent)
    BY <1>7, <2>1, <2>3, WhatIsRead
  <2>5. OffByOne(Received(one), sent)
    BY <2>2, <2>4, DelayTold
  <2>6. Received(one)[0] = sent[0] /\ Received(one)[2] = sent[2]
    BY <2>1, <2>2, <2>4, <2>5, OneReceived, WrongByteTold
  <2>7. QED
    BY <2>1, <2>4, <2>6
<1>8. QED
  BY <1>2, <1>3, <1>4, <1>5, <1>6, <1>7 DEF Next, Read

-----------------------------------------------------------------------------
IInv == TypeOK /\ Counting /\ SensorWaits /\ InStep /\ ErrorIsExplained

LEMMA InitIInv ==
    ASSUME Init
    PROVE  IInv
<1>1. TypeOK
  BY InitTypeOK
<1>2. Counting /\ SensorWaits /\ InStep /\ ErrorIsExplained
  BY DEF Init, Counting, SensorWaits, InStep, ErrorIsExplained, Waits
<1>3. QED
  BY <1>1, <1>2 DEF IInv

\* Types and counts hold, driver and sensor are in step unless two things went wrong,
\* and a wrong sum says that one did.
THEOREM InductiveInvariant == Spec => []IInv
<1>1. Init => IInv
  BY InitIInv
<1>2. IInv /\ [Next]_vars => IInv'
  BY TypeStep, CountingStep, SensorWaitsStep, InStepStep, ExplainedStep DEF IInv
<1>3. QED
  BY <1>1, <1>2, PTL DEF Spec

LEMMA AlwaysTrueUnlessLate == Spec => []TrueUnlessLate
<1>1. Init => TrueUnlessLate
  BY DEF Init, TrueUnlessLate, OkMeansTrue
<1>2. IInv /\ IInv' /\ TrueUnlessLate /\ [Next]_vars => TrueUnlessLate'
  BY TrueStep DEF IInv
<1>3. QED
  BY <1>1, <1>2, InductiveInvariant, PTL DEF Spec

\* A read that returns OK has the values the sensor sent, even if one pulse was measured
\* wrongly, one level missed, or the answer came a bit late: read()'s checksum and its
\* timeouts see to it, for a sensor whose two values never add up to more than a byte.
THEOREM OkIsTrue ==
    ASSUME NoCarry
    PROVE  Spec => []OkMeansTrue
<1>1. TrueUnlessLate => OkMeansTrue
  BY DEF TrueUnlessLate
<1>2. QED
  BY <1>1, AlwaysTrueUnlessLate, PTL

\* Without that assumption it still holds of every read whose answer was in time.
THEOREM OkIsTrueInTime == Spec => [](~late => OkMeansTrue)
<1>1. TrueUnlessLate => (~late => OkMeansTrue)
  BY DEF TrueUnlessLate
<1>2. QED
  BY <1>1, AlwaysTrueUnlessLate, PTL

\* The type invariant, for bytes of any length and any number of slips.
THEOREM TypeCorrect == Spec => []TypeOK
  BY InductiveInvariant, PTL DEF IInv

\* read() writes no bit beyond the array bits[5]: the counter of the loop that ends
\* it and the two counters that say where a bit goes agree.
THEOREM StaysWithinArray == Spec => []WithinArray
<1>1. IInv => WithinArray
  <2> SUFFICES ASSUME IInv, pc \in Waits
               PROVE  idx <= 4
    BY DEF WithinArray
  <2>1. i = idx * ByteBits + (ByteBits - 1 - cnt) /\ i < TotalBits /\ i \in Nat
    BY Constants DEF IInv, Counting, TypeOK
  <2>2. QED
    BY <2>1, Places DEF IInv, TypeOK
<1>2. QED
  BY <1>1, InductiveInvariant, PTL

\* read() returns ERROR_CHECKSUM only if a level was missed, a pulse measured wrongly
\* or the answer was late: whatever the sensor sends otherwise is read as it is.
THEOREM ErrorsExplained == Spec => []ErrorIsExplained
  BY InductiveInvariant, PTL DEF IInv
=============================================================================
