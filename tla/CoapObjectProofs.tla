-------------------------- MODULE CoapObjectProofs --------------------------
(***************************************************************************)
(* What the handlers of a CoapPDU do to any message, and to one whose      *)
(* bytes are laid out as a message.  The loops of the code are recursive   *)
(* functions in the model: Recursion, with the fact that a set of naturals *)
(* has a least member, is what makes their equations available.            *)
(***************************************************************************)
EXTENDS CoapObject, FiniteSetTheorems, SequenceTheorems, TLAPS

-----------------------------------------------------------------------------
(* Induction and recursion, as statements about sets and functions. *)

\* Every set of naturals that is not empty has a least member: of the finite sets
\* 0..n, n in it, one contains no other.
LEMMA Smallest ==
    ASSUME NEW T \in SUBSET Nat, T # {}
    PROVE  \E m \in T : \A n \in T : m <= n
<1> DEFINE Below == {0..n : n \in T}
<1>1. Below \subseteq FiniteSubsetsOf(Nat) /\ Below # {}
  <2>1. \A n \in Nat : 0..n \subseteq Nat /\ IsFiniteSet(0..n)
    BY FS_Interval
  <2>2. Below # {}
    OBVIOUS
  <2>3. QED
    BY <2>1, <2>2 DEF FiniteSubsetsOf
<1>2. PICK A \in Below : \A B \in Below : <<B, A>> \notin StrictSubsetOrdering(Nat)
  BY <1>1, FS_StrictSubsetOrderingWellFounded, WFMin
<1>3. PICK m \in T : A = 0..m
  OBVIOUS
<1>4. ASSUME NEW n \in T, n < m
      PROVE  FALSE
  <2>1. 0..n \in Below /\ 0..n \subseteq Nat /\ 0..m \subseteq Nat
    OBVIOUS
  <2>2. 0..n \subseteq 0..m /\ m \in 0..m /\ m \notin 0..n
    BY <1>4
  <2>3. <<0..n, 0..m>> \in StrictSubsetOrdering(Nat)
    BY <2>1, <2>2 DEF StrictSubsetOrdering
  <2>4. QED
    BY <1>2, <1>3, <2>1, <2>3
<1>5. QED
  BY <1>4

LEMMA Induction ==
    ASSUME NEW T, 0 \in T, \A n \in Nat : n \in T => n + 1 \in T
    PROVE  Nat \subseteq T
<1>1. SUFFICES ASSUME Nat \ T # {}
               PROVE  FALSE
  OBVIOUS
<1>2. PICK m \in Nat \ T : \A n \in Nat \ T : m <= n
  BY <1>1, Smallest
<1>3. m # 0 /\ m - 1 \in Nat /\ m - 1 \in T
  BY <1>2
<1>4. QED
  BY <1>2, <1>3

\* F gives each member of D a value in R that depends only on the values at members
\* of D that measure less.
Recursive(D, R, F, size, bound) ==
    /\ R # {} /\ F \in [[D -> R] -> [D -> R]]
    /\ bound \in Nat /\ size \in [D -> Nat] /\ \A d \in D : size[d] <= bound
    /\ \A f, g \in [D -> R] : \A d \in D :
          (\A e \in D : size[e] < size[d] => f[e] = g[e]) => F[f][d] = F[g][d]

\* Such an F defines a function on D.
LEMMA Recursion ==
    ASSUME NEW D, NEW R, NEW F, NEW size, NEW bound, Recursive(D, R, F, size, bound)
    PROVE  \E f \in [D -> R] : f = F[f]
<1> USE DEF Recursive
<1> PICK r : r \in R
  OBVIOUS
<1> DEFINE start == [d \in D |-> r]
<1> start \in [D -> R]
  OBVIOUS
<1> DEFINE Good(f, n) == \A d \in D : size[d] < n => f[d] = F[f][d]
           T == {n \in Nat : \E f \in [D -> R] : Good(f, n)}
<1>1. 0 \in T
  <2>1. Good(start, 0)
    OBVIOUS
  <2>2. QED
    BY <2>1
<1>2. ASSUME NEW n \in Nat, n \in T
      PROVE  n + 1 \in T
  <2>1. PICK f \in [D -> R] : Good(f, n)
    BY <1>2
  <2>2. F[f] \in [D -> R]
    OBVIOUS
  <2>3. ASSUME NEW d \in D, size[d] < n + 1
        PROVE  F[f][d] = F[F[f]][d]
    <3>1. \A e \in D : size[e] < size[d] => f[e] = F[f][e]
      BY <2>1, <2>3
    <3>2. QED
      BY <2>2, <3>1
  <2>4. Good(F[f], n + 1)
    BY <2>3
  <2>5. QED
    BY <2>2, <2>4
<1>3. bound + 1 \in T
  <2> HIDE DEF T
  <2>1. Nat \subseteq T
    BY <1>1, <1>2, Induction
  <2>2. QED
    BY <2>1
<1>4. PICK f \in [D -> R] : Good(f, bound + 1)
  BY <1>3
<1>5. \A d \in D : f[d] = F[f][d]
  BY <1>4
<1>6. f = F[f]
  BY <1>5
<1>7. QED
  BY <1>6

\* A function of 0..n defined step by step.
Steps(R, n, base, G, f) == [k \in 0..n |-> IF k = 0 THEN base ELSE G[<<f[k - 1], k>>]]

LEMMA Iteration ==
    ASSUME NEW R, NEW n \in Nat, NEW base \in R, NEW G \in [R \X (1..n) -> R]
    PROVE  \E f \in [0..n -> R] : f = Steps(R, n, base, G, f)
<1> DEFINE D == 0..n
           F == [f \in [D -> R] |-> Steps(R, n, base, G, f)]
           size == [k \in D |-> k]
<1>1. ASSUME NEW f \in [D -> R], NEW k \in D
      PROVE  k # 0 => k - 1 \in D /\ <<f[k - 1], k>> \in R \X (1..n) /\ G[<<f[k - 1], k>>] \in R
  <2>1. k # 0 => k - 1 \in D /\ k \in 1..n
    OBVIOUS
  <2>2. QED
    BY <2>1
<1>2. F \in [[D -> R] -> [D -> R]]
  BY <1>1 DEF Steps
<1>3. ASSUME NEW f \in [D -> R], NEW g \in [D -> R], NEW k \in D,
             \A e \in D : size[e] < size[k] => f[e] = g[e]
      PROVE  F[f][k] = F[g][k]
  <2>1. k # 0 => k - 1 \in D /\ k - 1 < k
    OBVIOUS
  <2>2. k # 0 => f[k - 1] = g[k - 1]
    BY <1>3, <2>1
  <2>3. QED
    BY <2>2 DEF Steps
<1>4. Recursive(D, R, F, size, n)
  <2>1. size \in [D -> Nat] /\ \A k \in D : size[k] <= n
    OBVIOUS
  <2>2. \A f, g \in [D -> R] : \A k \in D :
          (\A e \in D : size[e] < size[k] => f[e] = g[e]) => F[f][k] = F[g][k]
    BY <1>3
  <2> HIDE DEF D, F, size
  <2>3. QED
    BY <1>2, <2>1, <2>2 DEF Recursive
<1>5. \E f \in [D -> R] : f = F[f]
  <2> HIDE DEF D, F, size
  <2>1. QED
    BY <1>4, Recursion
<1>6. QED
  BY <1>5

LEMMA Iterated ==
    ASSUME NEW R, NEW n \in Nat, NEW base \in R, NEW G \in [R \X (1..n) -> R],
           NEW f, f = Steps(R, n, base, G, f)
    PROVE  /\ f \in [0..n -> R] /\ f[0] = base
           /\ \A k \in 1..n : k - 1 \in 0..n /\ f[k] = G[<<f[k - 1], k>>]
<1> DEFINE T == {k \in Nat : k <= n => f[k] \in R}
<1>1. 0 \in T
  BY DEF Steps
<1>2. ASSUME NEW k \in Nat, k \in T
      PROVE  k + 1 \in T
  <2> SUFFICES ASSUME k + 1 <= n
               PROVE  f[k + 1] \in R
    OBVIOUS
  <2>1. f[k] \in R /\ k + 1 \in 0..n /\ k + 1 \in 1..n /\ k + 1 # 0 /\ (k + 1) - 1 = k
    BY <1>2
  <2>2. f[k + 1] = G[<<f[k], k + 1>>]
    BY <2>1 DEF Steps
  <2>3. QED
    BY <2>1, <2>2
<1>3. Nat \subseteq T
  <2> HIDE DEF T
  <2>1. QED
    BY <1>1, <1>2, Induction
<1>4. f \in [0..n -> R]
  <2>1. \A k \in 0..n : f[k] \in R
    BY <1>3
  <2>2. QED
    BY <2>1 DEF Steps
<1>5. \A k \in 1..n : k - 1 \in 0..n /\ f[k] = G[<<f[k - 1], k>>]
  <2> TAKE k \in 1..n
  <2>1. k \in 0..n /\ k # 0 /\ k - 1 \in 0..n
    OBVIOUS
  <2>2. QED
    BY <2>1 DEF Steps
<1>6. f[0] = base
  BY DEF Steps
<1>7. QED
  BY <1>4, <1>5, <1>6

\* What holds beyond a bound, and at a position if at all behind it, holds everywhere.
LEMMA Downward ==
    ASSUME NEW bound \in Nat, NEW T, \A i \in Nat : i > bound => i \in T,
           \A i \in Nat : i <= bound /\ (\A j \in Nat : j > i => j \in T) => i \in T
    PROVE  Nat \subseteq T
<1> DEFINE Left == {bound - i : i \in {j \in Nat : j <= bound /\ j \notin T}}
<1>1. SUFFICES ASSUME NEW k \in Nat, k \notin T
               PROVE  FALSE
  OBVIOUS
<1>2. bound - k \in Left /\ Left \subseteq Nat
  BY <1>1
<1>3. PICK m \in Left : \A n \in Left : m <= n
  <2> HIDE DEF Left
  <2>1. QED
    BY <1>2, Smallest
<1>4. PICK i \in Nat : i <= bound /\ i \notin T /\ m = bound - i
  BY <1>3
<1>5. ASSUME NEW j \in Nat, j > i
      PROVE  j \in T
  <2>1. CASE j > bound
    BY <2>1
  <2>2. CASE j <= bound /\ j \notin T
    <3>1. bound - j \in Left
      BY <2>2
    <3>2. m <= bound - j
      BY <1>3, <3>1
    <3>3. QED
      BY <1>4, <1>5, <3>2
  <2>3. QED
    BY <2>1, <2>2
<1>6. QED
  BY <1>4, <1>5

-----------------------------------------------------------------------------
(* Bytes. *)

LEMMA AtIsByte ==
    ASSUME NEW b \in Seq(Byte), NEW i
    PROVE  At(b, i) \in Byte
<1>1. 0 \in Byte
  BY DEF Byte
<1>2. i \in DOMAIN b => b[i] \in Byte
  BY LenProperties, ElementOfSeq
<1>3. QED
  BY <1>1, <1>2 DEF At, Garbage

LEMMA Sliced ==
    ASSUME NEW b \in Seq(Byte), NEW i \in Int, NEW n \in Nat
    PROVE  /\ Slice(b, i, n) \in Seq(Byte) /\ Len(Slice(b, i, n)) = n
           /\ \A j \in 1..n : Slice(b, i, n)[j] = At(b, i + j - 1)
<1>1. \A j \in 1..n : At(b, i + j - 1) \in Byte
  BY AtIsByte
<1>2. QED
  BY <1>1, IsASeq DEF Slice

LEMMA Resized ==
    ASSUME NEW b \in Seq(Byte), NEW n \in Nat
    PROVE  /\ Resize(b, n) \in Seq(Byte) /\ Len(Resize(b, n)) = n
           /\ \A j \in 1..n : Resize(b, n)[j] = At(b, j)
           /\ \A j \in 1..n : j <= Len(b) => Resize(b, n)[j] = b[j]
<1> DEFINE r == Resize(b, n)
<1>1. r \in Seq(Byte) /\ Len(r) = n /\ \A j \in 1..n : r[j] = At(b, 1 + j - 1)
  BY Sliced DEF Resize
<1> HIDE DEF r
<1>2. \A j \in 1..n : r[j] = At(b, j)
  <2> TAKE j \in 1..n
  <2>1. 1 + j - 1 = j
    OBVIOUS
  <2>2. QED
    BY <1>1, <2>1
<1>3. \A j \in 1..n : j <= Len(b) => At(b, j) = b[j]
  BY LenProperties DEF At
<1>4. QED
  BY <1>1, <1>2, <1>3 DEF r

LEMMA Overwritten ==
    ASSUME NEW b \in Seq(Byte), NEW i \in Int, NEW s \in Seq(Byte)
    PROVE  /\ Overwrite(b, i, s) \in Seq(Byte) /\ Len(Overwrite(b, i, s)) = Len(b)
           /\ \A j \in 1..Len(b) : i <= j /\ j < i + Len(s) => Overwrite(b, i, s)[j] = s[j - i + 1]
           /\ \A j \in 1..Len(b) : j < i \/ j >= i + Len(s) => Overwrite(b, i, s)[j] = b[j]
<1>1. \A j \in 1..Len(b) : (IF j \in i..(i + Len(s) - 1) THEN s[j - i + 1] ELSE b[j]) \in Byte
  BY LenProperties, ElementOfSeq
<1>2. /\ Overwrite(b, i, s) \in Seq(Byte) /\ Len(Overwrite(b, i, s)) = Len(b)
      /\ \A j \in 1..Len(b) :
            Overwrite(b, i, s)[j] = IF j \in i..(i + Len(s) - 1) THEN s[j - i + 1] ELSE b[j]
  BY <1>1, LenProperties, IsASeq, SMTT(30) DEF Overwrite
<1>3. \A j \in 1..Len(b) : j \in i..(i + Len(s) - 1) <=> i <= j /\ j < i + Len(s)
  BY LenProperties
<1>4. \A j \in 1..Len(b) : j < i \/ j >= i + Len(s) => ~(i <= j /\ j < i + Len(s))
  BY LenProperties
<1>5. QED
  BY <1>2, <1>3, <1>4

LEMMA ShiftedUp ==
    ASSUME NEW b \in Seq(Byte), NEW offset \in Int, NEW amount \in Int
    PROVE  /\ ShiftPDUUp(b, offset, amount) \in Seq(Byte)
           /\ Len(ShiftPDUUp(b, offset, amount)) = Len(b)
           /\ \A j \in 1..Len(b) : ShiftPDUUp(b, offset, amount)[j] =
                 IF j > Len(b) - amount THEN At(b, j - offset) ELSE b[j]
<1>1. \A j \in 1..Len(b) : (IF j > Len(b) - amount THEN At(b, j - offset) ELSE b[j]) \in Byte
  BY AtIsByte, ElementOfSeq
<1>2. QED
  BY <1>1, LenProperties, IsASeq DEF ShiftPDUUp

LEMMA ShiftedDown ==
    ASSUME NEW b \in Seq(Byte), NEW start \in Int, NEW offset \in Int, NEW amount \in Int
    PROVE  /\ ShiftPDUDown(b, start, offset, amount) \in Seq(Byte)
           /\ Len(ShiftPDUDown(b, start, offset, amount)) = Len(b)
           /\ \A j \in 1..Len(b) : ShiftPDUDown(b, start, offset, amount)[j] =
                 IF j \in start..(start + amount - 1) THEN At(b, j + offset) ELSE b[j]
<1>1. \A j \in 1..Len(b) :
         (IF j \in start..(start + amount - 1) THEN At(b, j + offset) ELSE b[j]) \in Byte
  BY AtIsByte, ElementOfSeq
<1>2. QED
  BY <1>1, LenProperties, IsASeq DEF ShiftPDUDown

LEMMA Halves ==
    ASSUME NEW n \in Word
    PROVE  n \div 256 \in Byte /\ n % 256 \in Byte /\ 256 * (n \div 256) + (n % 256) = n
<1>1. n \in Int /\ 0 <= n /\ n < 65536
  BY DEF Word
<1>2. n \div 256 \in Int /\ 0 <= n \div 256 /\ n \div 256 <= 255
  BY <1>1
<1>3. n % 256 \in Byte /\ 256 * (n \div 256) + (n % 256) = n
  BY <1>1 DEF Byte
<1>4. QED
  BY <1>2, <1>3 DEF Byte

LEMMA Joined ==
    ASSUME NEW h \in Byte, NEW l \in Byte
    PROVE  /\ h * 256 + l \in Word
           /\ (h * 256 + l) \div 256 = h /\ (h * 256 + l) % 256 = l
<1>1. h \in Int /\ l \in Int /\ 0 <= h /\ h <= 255 /\ 0 <= l /\ l <= 255
  BY DEF Byte
<1>2. h * 256 + l \in Word
  <2>1. h * 256 + l \in Int
    BY <1>1
  <2>2. 0 <= h * 256 + l /\ h * 256 + l < 65536
    BY <1>1
  <2>3. QED
    BY <1>1, <2>1, <2>2 DEF Word
<1>3. (h * 256 + l) \div 256 = h
  BY <1>1
<1>4. (h * 256 + l) % 256 = l
  BY <1>1
<1>5. QED
  BY <1>2, <1>3, <1>4

\* A number of two bytes survives htons, its division into bytes, and ntohs.
LEMMA Swapped ==
    ASSUME NEW n \in Word
    PROVE  HTONS(n) \in Word /\ HTONS(HTONS(n)) = n
<1>1. PICK h \in Byte, l \in Byte : h = n \div 256 /\ l = n % 256 /\ n = h * 256 + l
  <2>1. n \div 256 \in Byte /\ n % 256 \in Byte /\ n = (n \div 256) * 256 + (n % 256)
    <3>1. n \div 256 \in Int
      BY DEF Word
    <3>2. QED
      BY <3>1, Halves
  <2>2. QED
    BY <2>1
<1>2. CASE Swaps
  <2>1. HTONS(n) = l * 256 + h
    BY <1>1, <1>2 DEF HTONS
  <2>2. HTONS(l * 256 + h) = n
    BY <1>1, <1>2, Joined DEF HTONS
  <2>3. QED
    BY <2>1, <2>2, Joined
<1>3. CASE ~Swaps
  BY <1>3 DEF HTONS
<1>4. QED
  BY <1>2, <1>3

LEMMA TwoBytesAreBytes ==
    ASSUME NEW n \in Word
    PROVE  TwoBytes(n) \in Seq(Byte) /\ Len(TwoBytes(n)) = 2
<1>1. PICK m \in Word : m = HTONS(n)
  BY Swapped
<1>2. m \div 256 \in Byte /\ m % 256 \in Byte
  BY Halves
<1>3. TwoBytes(n) = <<m \div 256, m % 256>>
  BY <1>1 DEF TwoBytes
<1>4. QED
  BY <1>2, <1>3

LEMMA TwoBytesRead ==
    ASSUME NEW b \in Seq(Byte), NEW i \in Int, NEW n \in Word,
           At(b, i) = TwoBytes(n)[1], At(b, i + 1) = TwoBytes(n)[2]
    PROVE  FromTwoBytes(b, i) = n
<1>1. PICK m \in Word : m = HTONS(n) /\ HTONS(m) = n
  BY Swapped
<1>2. At(b, i) = m \div 256 /\ At(b, i + 1) = m % 256
  BY <1>1 DEF TwoBytes
<1>3. PICK h \in Byte, l \in Byte : h = m \div 256 /\ l = m % 256 /\ 256 * h + l = m
  BY Halves
<1>4. At(b, i) * 256 + At(b, i + 1) = m
  BY <1>2, <1>3 DEF Byte
<1>5. QED
  BY <1>1, <1>4 DEF FromTwoBytes

-----------------------------------------------------------------------------
(* Options as they are decoded. *)

Option == [at : Nat, next : Nat, number : Word, value : Seq(Byte)]

LEMMA U16IsWord ==
    ASSUME NEW n \in Int
    PROVE  U16(n) \in Word
  BY DEF U16, Word

LEMMA U16OfWord ==
    ASSUME NEW n \in Word
    PROVE  U16(n) = n
  BY DEF U16, Word

LEMMA ExtraBytes ==
    ASSUME NEW n
    PROVE  ComputeExtraBytes(n) \in 0..2
  BY DEF ComputeExtraBytes

LEMMA FromTwoBytesIsWord ==
    ASSUME NEW b \in Seq(Byte), NEW i
    PROVE  FromTwoBytes(b, i) \in Word
<1>1. PICK h \in Byte, l \in Byte : h = At(b, i) /\ l = At(b, i + 1)
  BY AtIsByte
<1>2. PICK n \in Word : n = h * 256 + l
  BY Joined
<1>3. QED
  BY <1>1, <1>2, Swapped DEF FromTwoBytes

LEMMA DeltaIsWord ==
    ASSUME NEW b \in Seq(Byte), NEW i \in Int
    PROVE  GetOptionDelta(b, i) \in Word
<1>1. PICK x \in Byte, y \in Byte : x = At(b, i) /\ y = At(b, i + 1)
  BY AtIsByte
<1>2. PICK w \in Word : w = FromTwoBytes(b, i + 1)
  BY FromTwoBytesIsWord
<1>3. w + 269 \in Int
  BY DEF Word
<1>4. U16(w + 269) \in Word
  BY <1>3, U16IsWord
<1>5. y + 13 \in Word /\ x \div 16 \in Word
  BY DEF Byte, Word
<1>6. QED
  BY <1>1, <1>2, <1>4, <1>5 DEF GetOptionDelta

LEMMA LengthIsWord ==
    ASSUME NEW b \in Seq(Byte), NEW i \in Int
    PROVE  GetOptionValueLength(b, i) \in Word
<1> DEFINE skip == IF At(b, i) \div 16 \in {13, 14} THEN At(b, i) \div 16 - 12 ELSE 0
<1>1. PICK x \in Byte, y \in Byte : x = At(b, i) /\ y = At(b, i + skip + 1)
  BY AtIsByte
<1>2. PICK w \in Word : w = FromTwoBytes(b, i + skip + 1)
  BY FromTwoBytesIsWord
<1>3. w + 269 \in Int
  BY DEF Word
<1>4. U16(w + 269) \in Word
  BY <1>3, U16IsWord
<1>5. y + 13 \in Word /\ x % 16 \in Word
  BY DEF Byte, Word
<1>6. QED
  BY <1>1, <1>2, <1>4, <1>5 DEF GetOptionValueLength

LEMMA SizeOfOption ==
    ASSUME NEW delta, NEW length \in Word
    PROVE  EncodedSize(delta, length) \in Nat /\ EncodedSize(delta, length) >= 1 + length
<1>1. ComputeExtraBytes(delta) \in 0..2 /\ ComputeExtraBytes(length) \in 0..2
  BY ExtraBytes
<1>2. length \in Nat
  BY DEF Word
<1>3. QED
  BY <1>1, <1>2 DEF EncodedSize

OptionHere(b, i, previous) ==
    OptionAt(b, i, previous, GetOptionDelta(b, i), GetOptionValueLength(b, i))

LEMMA OptionTyped ==
    ASSUME NEW b \in Seq(Byte), NEW i \in Nat, NEW previous \in Nat
    PROVE  /\ OptionHere(b, i, previous) \in Option
           /\ OptionHere(b, i, previous).at = i /\ OptionHere(b, i, previous).next > i
<1>1. PICK d \in Word, n \in Word : d = GetOptionDelta(b, i) /\ n = GetOptionValueLength(b, i)
  BY DeltaIsWord, LengthIsWord
<1>2. PICK e \in Nat : e = EncodedSize(d, n) /\ e >= 1 + n
  BY SizeOfOption
<1>3. d \in Nat /\ n \in Nat
  BY DEF Word
<1>4. previous + d \in Int /\ i + e - n \in Int /\ i + e \in Nat /\ i + e > i
  BY <1>2, <1>3
<1>5. U16(previous + d) \in Word /\ Slice(b, i + e - n, n) \in Seq(Byte)
  BY <1>3, <1>4, U16IsWord, Sliced
<1>6. OptionHere(b, i, previous) = [at |-> i, next |-> i + e, number |-> U16(previous + d),
                                    value |-> Slice(b, i + e - n, n)]
  BY <1>1, <1>2 DEF OptionHere, OptionAt
<1>7. QED
  BY <1>4, <1>5, <1>6 DEF Option

-----------------------------------------------------------------------------
(* The walk over the options. *)

Positions == Nat \X Nat

\* Nothing is left to walk.
AtEnd(b, i) == i > Len(b) \/ At(b, i) = Marker

WalkFrom(b, w, q) ==
    IF AtEnd(b, q[1]) THEN << >>
    ELSE << OptionHere(b, q[1], q[2]) >>
            \o w[<<OptionHere(b, q[1], q[2]).next, OptionHere(b, q[1], q[2]).number>>]

WalkMeasure(b) == [q \in Positions |-> IF q[1] > Len(b) THEN 0 ELSE Len(b) + 1 - q[1]]

LEMMA WalkExists ==
    ASSUME NEW b \in Seq(Byte)
    PROVE  \E w \in [Positions -> Seq(Option)] : w = [q \in Positions |-> WalkFrom(b, w, q)]
<1> DEFINE R == Seq(Option)
           F == [w \in [Positions -> R] |-> [q \in Positions |-> WalkFrom(b, w, q)]]
           size == WalkMeasure(b)
<1>1. ASSUME NEW w \in [Positions -> R], NEW q \in Positions
      PROVE  WalkFrom(b, w, q) \in R
  <2>1. PICK o \in Option : o = OptionHere(b, q[1], q[2])
    BY OptionTyped DEF Positions
  <2>2. <<o.next, o.number>> \in Positions
    BY <2>1 DEF Option, Positions, Word
  <2>3. w[<<o.next, o.number>>] \in R /\ <<o>> \in R
    BY <2>2
  <2>4. QED
    BY <2>1, <2>3, EmptySeq, ConcatProperties DEF WalkFrom
<1>2. F \in [[Positions -> R] -> [Positions -> R]]
  BY <1>1
<1>3. Len(b) \in Nat
  BY LenProperties
<1>4. size \in [Positions -> Nat] /\ \A q \in Positions : size[q] <= Len(b) + 1
  BY <1>3 DEF WalkMeasure, Positions
<1>5. R # {}
  BY EmptySeq
<1>6. ASSUME NEW f \in [Positions -> R], NEW g \in [Positions -> R], NEW q \in Positions,
             \A e \in Positions : size[e] < size[q] => f[e] = g[e]
      PROVE  F[f][q] = F[g][q]
  <2>1. F[f][q] = WalkFrom(b, f, q) /\ F[g][q] = WalkFrom(b, g, q)
    OBVIOUS
  <2>2. CASE AtEnd(b, q[1])
    BY <2>1, <2>2 DEF WalkFrom
  <2>3. CASE ~AtEnd(b, q[1])
    <3>1. PICK o \in Option : o = OptionHere(b, q[1], q[2]) /\ o.next > q[1]
      BY OptionTyped DEF Positions
    <3> DEFINE e == <<o.next, o.number>>
    <3>2. e \in Positions /\ e[1] = o.next
      BY <3>1 DEF Option, Positions, Word
    <3> HIDE DEF e
    <3>3. size[e] < size[q]
      BY <1>3, <2>3, <3>1, <3>2, SMTT(30) DEF WalkMeasure, AtEnd, Positions
    <3>4. f[e] = g[e]
      BY <1>6, <3>2, <3>3
    <3>5. QED
      BY <2>1, <2>3, <3>1, <3>4 DEF WalkFrom, e
  <2>4. QED
    BY <2>2, <2>3
<1>7. \E w \in [Positions -> R] : w = F[w]
  <2> HIDE DEF R, F, size
  <2>1. PICK bound \in Nat : bound = Len(b) + 1
    BY <1>3
  <2>2. Recursive(Positions, R, F, size, bound)
    BY <1>2, <1>4, <1>5, <1>6, <2>1 DEF Recursive
  <2>3. QED
    BY <2>2, Recursion
<1>8. QED
  BY <1>7

LEMMA WalkUnfolds ==
    ASSUME NEW b, \E w : w = [q \in Positions |-> WalkFrom(b, w, q)]
    PROVE  OptionsWalk(b) = [q \in Positions |-> WalkFrom(b, OptionsWalk(b), q)]
  BY Zenon DEF OptionsWalk, WalkFrom, AtEnd, OptionHere, Positions

LEMMA Walked ==
    ASSUME NEW b \in Seq(Byte)
    PROVE  /\ OptionsWalk(b) \in [Positions -> Seq(Option)]
           /\ \A q \in Positions : OptionsWalk(b)[q] = WalkFrom(b, OptionsWalk(b), q)
<1>1. PICK w \in [Positions -> Seq(Option)] : w = [q \in Positions |-> WalkFrom(b, w, q)]
  BY WalkExists
<1>2. OptionsWalk(b) = [q \in Positions |-> WalkFrom(b, OptionsWalk(b), q)]
  BY <1>1, WalkUnfolds
<1>3. PICK v : v = OptionsWalk(b)
  OBVIOUS
<1>4. v = [q \in Positions |-> WalkFrom(b, v, q)]
  BY <1>2, <1>3
<1> DEFINE Same == {i \in Nat : \A p \in Nat : v[<<i, p>>] = w[<<i, p>>]}
<1>5. ASSUME NEW i \in Nat, \A j \in Nat : j > i => j \in Same
      PROVE  i \in Same
  <2> SUFFICES ASSUME NEW p \in Nat
               PROVE  v[<<i, p>>] = w[<<i, p>>]
    OBVIOUS
  <2>1. PICK o \in Option : o = OptionHere(b, i, p) /\ o.next > i
    BY OptionTyped
  <2>2. o.next \in Nat /\ o.number \in Nat
    BY DEF Option, Word
  <2>3. v[<<o.next, o.number>>] = w[<<o.next, o.number>>]
    BY <1>5, <2>1, <2>2
  <2>4. <<i, p>> \in Positions
    BY DEF Positions
  <2>5. v[<<i, p>>] = WalkFrom(b, v, <<i, p>>) /\ w[<<i, p>>] = WalkFrom(b, w, <<i, p>>)
    BY <1>1, <1>4, <2>4
  <2>6. QED
    BY <2>1, <2>3, <2>5 DEF WalkFrom
<1>6. \A i \in Nat : i > Len(b) => i \in Same
  <2> TAKE i \in Nat
  <2> SUFFICES ASSUME i > Len(b), NEW p \in Nat
               PROVE  v[<<i, p>>] = w[<<i, p>>]
    OBVIOUS
  <2>1. <<i, p>> \in Positions
    BY DEF Positions
  <2>2. v[<<i, p>>] = << >> /\ w[<<i, p>>] = << >>
    BY <1>1, <1>4, <2>1 DEF WalkFrom, AtEnd
  <2>3. QED
    BY <2>2
<1>7. Nat \subseteq Same
  <2> HIDE DEF Same
  <2>1. PICK bound \in Nat : bound = Len(b)
    BY LenProperties
  <2>2. QED
    BY <1>5, <1>6, <2>1, Downward
<1>8. v = w
  <2>1. \A q \in Positions : v[q] = w[q]
    BY <1>7 DEF Positions
  <2>2. QED
    BY <1>1, <1>4, <2>1
<1>9. QED
  BY <1>1, <1>3, <1>4, <1>8

(***************************************************************************)
(* A chain: the options from position i on, number p being the one before  *)
(* them, each where the one before it ends, and the end behind the last.   *)
(***************************************************************************)
StartOf(s, i, k) == IF k = 1 THEN i ELSE s[k - 1].next

Before(s, p, k) == IF k = 1 THEN p ELSE s[k - 1].number

Chain(b, i, p, s) ==
    /\ s \in Seq(Option)
    /\ \A k \in 1..Len(s) : /\ ~AtEnd(b, StartOf(s, i, k))
                            /\ s[k] = OptionHere(b, StartOf(s, i, k), Before(s, p, k))
    /\ AtEnd(b, EndOf(s, i))

LEMMA ChainTyped ==
    ASSUME NEW b \in Seq(Byte), NEW i \in Nat, NEW p \in Nat, NEW s, Chain(b, i, p, s)
    PROVE  /\ s \in Seq(Option) /\ Len(s) \in Nat /\ DOMAIN s = 1..Len(s)
           /\ \A k \in 1..Len(s) : s[k] \in Option /\ s[k].next > s[k].at
                                    /\ s[k].at = StartOf(s, i, k) /\ s[k].at <= Len(b)
           /\ EndOf(s, i) \in Nat
<1>1. s \in Seq(Option) /\ Len(s) \in Nat /\ DOMAIN s = 1..Len(s)
  BY LenProperties DEF Chain
<1>2. \A k \in 1..Len(s) : s[k] \in Option
  BY <1>1, ElementOfSeq
<1>3. \A k \in 1..Len(s) : StartOf(s, i, k) \in Nat /\ Before(s, p, k) \in Nat
  <2> TAKE k \in 1..Len(s)
  <2>1. k # 1 => k - 1 \in 1..Len(s)
    BY <1>1
  <2>2. k # 1 => s[k - 1].next \in Nat /\ s[k - 1].number \in Nat
    BY <1>2, <2>1 DEF Option, Word
  <2>3. QED
    BY <2>2 DEF StartOf, Before
<1>4. \A k \in 1..Len(s) : s[k].next > s[k].at /\ s[k].at = StartOf(s, i, k)
  BY <1>3, OptionTyped DEF Chain
<1>5. \A k \in 1..Len(s) : s[k].at <= Len(b)
  BY <1>3, <1>4, LenProperties DEF Chain, AtEnd
<1>6. EndOf(s, i) \in Nat
  <2>1. s # << >> => Len(s) \in 1..Len(s)
    BY <1>1, EmptySeq
  <2>2. QED
    BY <1>2, <2>1 DEF EndOf, Option
<1>7. QED
  BY <1>1, <1>2, <1>4, <1>5, <1>6

\* A chain is empty, or an option and the chain behind it.
Splits(b, i, s, o, t) ==
    /\ s # << >> /\ s = << o >> \o t /\ Chain(b, o.next, o.number, t)
    /\ Len(t) = Len(s) - 1 /\ s[1] = o /\ EndOf(t, o.next) = EndOf(s, i)
    /\ \A k \in 1..Len(t) : t[k] = s[k + 1]

LEMMA ChainSplits ==
    ASSUME NEW b \in Seq(Byte), NEW i \in Nat, NEW p \in Nat, NEW s, Chain(b, i, p, s),
           ~AtEnd(b, i), NEW o, o = OptionHere(b, i, p)
    PROVE  Splits(b, i, s, o, Tail(s))
<1>1. s \in Seq(Option) /\ Len(s) \in Nat /\ \A k \in 1..Len(s) : s[k] \in Option
  BY ChainTyped
<1>2. s # << >>
  BY DEF Chain, EndOf
<1>3. PICK t : t = Tail(s)
  OBVIOUS
<1>4. /\ 1 \in 1..Len(s) /\ t \in Seq(Option) /\ Len(t) = Len(s) - 1
      /\ \A k \in 1..Len(t) : t[k] = s[k + 1]
  BY <1>1, <1>2, <1>3, EmptySeq, HeadTailProperties
<1>5. s[1] = OptionHere(b, i, p)
  BY <1>4 DEF Chain, StartOf, Before
<1>6. \A k \in 1..Len(t) :
         /\ k + 1 \in 1..Len(s)
         /\ StartOf(t, s[1].next, k) = StartOf(s, i, k + 1)
         /\ Before(t, s[1].number, k) = Before(s, p, k + 1)
  <2> TAKE k \in 1..Len(t)
  <2>1. k + 1 \in 1..Len(s) /\ k + 1 # 1 /\ (k + 1) - 1 = k
    BY <1>1, <1>4
  <2>2. k # 1 => k - 1 \in 1..Len(t) /\ t[k - 1] = s[k]
    <3>1. k # 1 => k - 1 \in 1..Len(t) /\ (k - 1) + 1 = k
      BY <1>1, <1>4
    <3>2. QED
      BY <1>4, <3>1
  <2>3. QED
    BY <2>1, <2>2 DEF StartOf, Before
<1>7. EndOf(t, s[1].next) = EndOf(s, i)
  <2>1. CASE t = << >>
    <3>1. Len(s) = 1
      BY <1>1, <1>4, <2>1, EmptySeq
    <3>2. QED
      BY <1>2, <2>1, <3>1 DEF EndOf
  <2>2. CASE t # << >>
    <3>1. Len(t) \in 1..Len(t) /\ Len(t) + 1 = Len(s)
      BY <1>1, <1>4, <2>2, EmptySeq
    <3>2. QED
      BY <1>2, <1>4, <2>2, <3>1 DEF EndOf
  <2>3. QED
    BY <2>1, <2>2
<1>8. Chain(b, s[1].next, s[1].number, t)
  <2>1. \A k \in 1..Len(t) :
           /\ ~AtEnd(b, StartOf(t, s[1].next, k))
           /\ t[k] = OptionHere(b, StartOf(t, s[1].next, k), Before(t, s[1].number, k))
    BY <1>4, <1>6 DEF Chain
  <2>2. QED
    BY <1>4, <1>7, <2>1 DEF Chain
<1>9. s = << s[1] >> \o t
  <2>1. << s[1] >> \in Seq(Option) /\ Len(<< s[1] >>) = 1 /\ << s[1] >>[1] = s[1]
    BY <1>1, <1>4
  <2>2. PICK u \in Seq(Option) : u = << s[1] >> \o t
    BY <1>4, <2>1, ConcatProperties
  <2>3. Len(u) = 1 + Len(t) /\ \A k \in 1..Len(u) : u[k] = IF k <= 1 THEN s[1] ELSE t[k - 1]
    BY <1>4, <2>1, <2>2, ConcatProperties
  <2>4. Len(u) = Len(s) /\ \A k \in 1..Len(s) : u[k] = s[k]
    <3>1. Len(u) = Len(s)
      BY <1>1, <1>4, <2>3
    <3>2. ASSUME NEW k \in 1..Len(s)
          PROVE  u[k] = s[k]
      <4>1. k # 1 => ~(k <= 1) /\ k - 1 \in 1..Len(t) /\ (k - 1) + 1 = k
        BY <1>1, <1>4
      <4>2. QED
        BY <1>4, <2>3, <3>1, <4>1
    <3>3. QED
      BY <3>1, <3>2
  <2>5. QED
    BY <1>1, <2>2, <2>4, SeqEqual
<1>10. Splits(b, i, s, o, t)
  BY <1>2, <1>4, <1>5, <1>7, <1>8, <1>9 DEF Splits
<1>11. QED
  BY <1>3, <1>10

LEMMA ChainJoins ==
    ASSUME NEW b \in Seq(Byte), NEW i \in Nat, NEW p \in Nat, ~AtEnd(b, i), NEW o, NEW t,
           o = OptionHere(b, i, p), Chain(b, o.next, o.number, t)
    PROVE  Chain(b, i, p, << o >> \o t)
<1>1. o \in Option /\ o.next \in Nat /\ o.number \in Nat
  <2>1. o \in Option
    BY OptionTyped
  <2>2. QED
    BY <2>1 DEF Option, Word
<1>2. t \in Seq(Option) /\ Len(t) \in Nat /\ \A k \in 1..Len(t) : t[k] \in Option
  BY <1>1, ChainTyped
<1>3. PICK s : s = << o >> \o t
  OBVIOUS
<1>4. /\ s \in Seq(Option) /\ Len(s) = Len(t) + 1
      /\ \A k \in 1..Len(s) : s[k] = IF k = 1 THEN o ELSE t[k - 1]
  <2>1. << o >> \in Seq(Option) /\ Len(<< o >>) = 1 /\ << o >>[1] = o
    BY <1>1
  <2>2. /\ s \in Seq(Option) /\ Len(s) = 1 + Len(t)
        /\ \A k \in 1..Len(s) : s[k] = IF k <= 1 THEN << o >>[k] ELSE t[k - 1]
    BY <1>2, <1>3, <2>1, ConcatProperties
  <2>3. QED
    BY <1>2, <2>1, <2>2
<1>5. ASSUME NEW k \in 1..Len(s)
      PROVE  /\ ~AtEnd(b, StartOf(s, i, k))
             /\ s[k] = OptionHere(b, StartOf(s, i, k), Before(s, p, k))
  <2>1. CASE k = 1
    BY <1>4, <2>1 DEF StartOf, Before
  <2>2. CASE k # 1
    <3>1. k - 1 \in 1..Len(t) /\ k - 1 \in 1..Len(s)
      BY <1>2, <1>4, <2>2
    <3>2. s[k] = t[k - 1] /\ s[k - 1] = IF k - 1 = 1 THEN o ELSE t[k - 1 - 1]
      BY <1>4, <2>2, <3>1
    <3>3. StartOf(s, i, k) = StartOf(t, o.next, k - 1) /\ Before(s, p, k) = Before(t, o.number, k - 1)
      BY <2>2, <3>2 DEF StartOf, Before
    <3>4. QED
      BY <3>1, <3>2, <3>3 DEF Chain
  <2>3. QED
    BY <2>1, <2>2
<1>6. EndOf(s, i) = EndOf(t, o.next)
  <2>1. s # << >> /\ Len(s) \in 1..Len(s)
    BY <1>2, <1>4, EmptySeq
  <2>2. CASE t = << >>
    <3>1. Len(s) = 1
      BY <1>4, <2>2, EmptySeq
    <3>2. QED
      BY <1>4, <2>1, <2>2, <3>1 DEF EndOf
  <2>3. CASE t # << >>
    <3>1. Len(s) # 1 /\ Len(s) - 1 = Len(t)
      BY <1>2, <1>4, <2>3, EmptySeq
    <3>2. QED
      BY <1>4, <2>1, <2>3, <3>1 DEF EndOf
  <2>4. QED
    BY <2>2, <2>3
<1>7. QED
  BY <1>3, <1>4, <1>5, <1>6 DEF Chain

LEMMA EmptyChain ==
    ASSUME NEW b, NEW i, NEW p, NEW s, AtEnd(b, i)
    PROVE  /\ s = << >> => Chain(b, i, p, s)
           /\ Chain(b, i, p, s) => s = << >>
<1>1. << >> \in Seq(Option) /\ Len(<< >>) = 0
  BY EmptySeq
<1>2. Chain(b, i, p, s) => s = << >>
  <2> SUFFICES ASSUME Chain(b, i, p, s), s # << >>
               PROVE  FALSE
    OBVIOUS
  <2>1. 1 \in 1..Len(s)
    BY EmptySeq, LenProperties DEF Chain
  <2>2. QED
    BY <2>1 DEF Chain, StartOf
<1>3. ASSUME s = << >>
      PROVE  Chain(b, i, p, s)
  <2>1. s \in Seq(Option) /\ 1..Len(s) = {} /\ EndOf(s, i) = i
    BY <1>1, <1>3 DEF EndOf
  <2>2. QED
    BY <2>1 DEF Chain
<1>4. QED
  BY <1>2, <1>3

\* The walk is a chain, and there is no other.
LEMMA WalkIsChain ==
    ASSUME NEW b \in Seq(Byte)
    PROVE  \A i, p \in Nat : Chain(b, i, p, OptionsWalk(b)[<<i, p>>])
<1>1. PICK w : w = OptionsWalk(b) /\ \A q \in Positions : w[q] = WalkFrom(b, w, q)
  BY Walked
<1> DEFINE T == {i \in Nat : \A p \in Nat : Chain(b, i, p, w[<<i, p>>])}
<1>2. ASSUME NEW i \in Nat, NEW p \in Nat
      PROVE  w[<<i, p>>] = WalkFrom(b, w, <<i, p>>)
  <2>1. <<i, p>> \in Positions
    BY DEF Positions
  <2>2. QED
    BY <1>1, <2>1
<1>3. ASSUME NEW i \in Nat, AtEnd(b, i)
      PROVE  i \in T
  <2> SUFFICES ASSUME NEW p \in Nat
               PROVE  Chain(b, i, p, w[<<i, p>>])
    OBVIOUS
  <2>1. w[<<i, p>>] = << >>
    BY <1>2, <1>3 DEF WalkFrom
  <2>2. QED
    BY <1>3, <2>1, EmptyChain
<1>4. ASSUME NEW i \in Nat, ~AtEnd(b, i), \A j \in Nat : j > i => j \in T
      PROVE  i \in T
  <2> SUFFICES ASSUME NEW p \in Nat
               PROVE  Chain(b, i, p, w[<<i, p>>])
    OBVIOUS
  <2>1. PICK o \in Option : o = OptionHere(b, i, p) /\ o.next > i
    BY OptionTyped
  <2>2. o.next \in Nat /\ o.number \in Nat
    BY DEF Option, Word
  <2>3. PICK t : t = w[<<o.next, o.number>>]
    OBVIOUS
  <2>4. Chain(b, o.next, o.number, t)
    BY <1>4, <2>1, <2>2, <2>3
  <2>5. w[<<i, p>>] = << o >> \o t
    BY <1>2, <1>4, <2>1, <2>3 DEF WalkFrom
  <2>6. QED
    BY <1>4, <2>1, <2>4, <2>5, ChainJoins
<1>5. Nat \subseteq T
  <2>1. PICK bound \in Nat : bound = Len(b)
    BY LenProperties
  <2>2. \A i \in Nat : i > bound => i \in T
    BY <1>3, <2>1 DEF AtEnd
  <2>3. \A i \in Nat : i <= bound /\ (\A j \in Nat : j > i => j \in T) => i \in T
    BY <1>3, <1>4
  <2> HIDE DEF T
  <2>4. QED
    BY <2>2, <2>3, Downward
<1>6. QED
  BY <1>1, <1>5

LEMMA OneChain ==
    ASSUME NEW b \in Seq(Byte)
    PROVE  \A i, p \in Nat : \A s, t : Chain(b, i, p, s) /\ Chain(b, i, p, t) => s = t
<1> DEFINE T == {i \in Nat : \A p \in Nat : \A s, t : Chain(b, i, p, s) /\ Chain(b, i, p, t) => s = t}
<1>1. ASSUME NEW i \in Nat, AtEnd(b, i)
      PROVE  i \in T
  BY <1>1, EmptyChain
<1>2. ASSUME NEW i \in Nat, ~AtEnd(b, i), \A j \in Nat : j > i => j \in T
      PROVE  i \in T
  <2> SUFFICES ASSUME NEW p \in Nat, NEW s, NEW t, Chain(b, i, p, s), Chain(b, i, p, t)
               PROVE  s = t
    OBVIOUS
  <2>1. PICK o \in Option : o = OptionHere(b, i, p) /\ o.next > i
    BY OptionTyped
  <2>2. o.next \in Nat /\ o.number \in Nat
    BY DEF Option, Word
  <2>3. s = << o >> \o Tail(s) /\ Chain(b, o.next, o.number, Tail(s))
    BY <1>2, <2>1, ChainSplits DEF Splits
  <2>4. t = << o >> \o Tail(t) /\ Chain(b, o.next, o.number, Tail(t))
    BY <1>2, <2>1, ChainSplits DEF Splits
  <2>5. Tail(s) = Tail(t)
    BY <1>2, <2>1, <2>2, <2>3, <2>4
  <2>6. QED
    BY <2>3, <2>4, <2>5
<1>3. Nat \subseteq T
  <2>1. PICK bound \in Nat : bound = Len(b)
    BY LenProperties
  <2>2. \A i \in Nat : i > bound => i \in T
    BY <1>1, <2>1 DEF AtEnd
  <2>3. \A i \in Nat : i <= bound /\ (\A j \in Nat : j > i => j \in T) => i \in T
    BY <1>1, <1>2
  <2> HIDE DEF T
  <2>4. QED
    BY <2>2, <2>3, Downward
<1>4. QED
  BY <1>3

\* The options of a chain do not overlap.
LEMMA ChainAscends ==
    ASSUME NEW b \in Seq(Byte), NEW i \in Nat, NEW p \in Nat, NEW s, Chain(b, i, p, s)
    PROVE  /\ \A j, k \in 1..Len(s) : j < k => s[j].next <= s[k].at
           /\ \A k \in 1..Len(s) : i <= s[k].at /\ s[k].next <= EndOf(s, i)
           /\ i <= EndOf(s, i)
<1>1. /\ Len(s) \in Nat /\ EndOf(s, i) \in Nat
      /\ \A k \in 1..Len(s) : s[k].at \in Nat /\ s[k].next \in Nat /\ s[k].next > s[k].at
      /\ \A k \in 1..Len(s) : s[k].at = StartOf(s, i, k)
  <2>1. \A k \in 1..Len(s) : s[k] \in Option
    BY ChainTyped
  <2>2. \A k \in 1..Len(s) : s[k].at \in Nat /\ s[k].next \in Nat
    BY <2>1 DEF Option
  <2>3. QED
    BY <2>2, ChainTyped
<1> DEFINE T == {n \in Nat : \A j \in 1..Len(s) :
                     j + n + 1 <= Len(s) => s[j].next <= s[j + n + 1].at}
<1>2. \A k \in 1..Len(s) : k # 1 => k - 1 \in 1..Len(s) /\ s[k].at = s[k - 1].next
  BY <1>1 DEF StartOf
<1>3. 0 \in T
  <2> SUFFICES ASSUME NEW j \in 1..Len(s), j + 0 + 1 <= Len(s)
               PROVE  s[j].next <= s[j + 0 + 1].at
    OBVIOUS
  <2>1. j + 0 + 1 = j + 1 /\ j + 1 \in 1..Len(s) /\ j + 1 # 1 /\ (j + 1) - 1 = j
    BY <1>1
  <2>2. s[j + 1].at = s[j].next
    BY <1>2, <2>1
  <2>3. QED
    BY <1>1, <2>1, <2>2
<1>4. ASSUME NEW n \in Nat, n \in T
      PROVE  n + 1 \in T
  <2> SUFFICES ASSUME NEW j \in 1..Len(s), j + (n + 1) + 1 <= Len(s)
               PROVE  s[j].next <= s[j + (n + 1) + 1].at
    BY SMTT(30)
  <2>1. PICK k \in 1..Len(s) : k = j + n + 1
    BY <1>1
  <2>2. s[j].next <= s[k].at
    BY <1>1, <1>4, <2>1
  <2>3. j + (n + 1) + 1 = k + 1 /\ k + 1 \in 1..Len(s) /\ k + 1 # 1 /\ (k + 1) - 1 = k
    BY <1>1, <2>1
  <2>4. s[k + 1].at = s[k].next
    BY <1>2, <2>3
  <2>5. s[j].next <= s[k + 1].at
    BY <1>1, <2>2, <2>4, SMTT(30)
  <2>6. QED
    BY <2>3, <2>5
<1>5. Nat \subseteq T
  <2> HIDE DEF T
  <2>1. QED
    BY <1>3, <1>4, Induction
<1>6. ASSUME NEW j \in 1..Len(s), NEW k \in 1..Len(s), j < k
      PROVE  s[j].next <= s[k].at
  <2>1. PICK n \in Nat : k = j + n + 1
    <3>1. k - j - 1 \in Nat /\ k = j + (k - j - 1) + 1
      BY <1>1, <1>6
    <3>2. QED
      BY <3>1
  <2>2. QED
    BY <1>1, <1>5, <2>1
<1>7. ASSUME NEW k \in 1..Len(s)
      PROVE  i <= s[k].at /\ s[k].next <= EndOf(s, i)
  <2>1. 1 \in 1..Len(s) /\ Len(s) \in 1..Len(s) /\ s # << >>
    BY <1>1, EmptySeq
  <2>2. s[1].at = i /\ EndOf(s, i) = s[Len(s)].next
    BY <1>1, <2>1 DEF StartOf, EndOf
  <2>3. k = 1 \/ s[1].next <= s[k].at
    BY <1>6, <2>1
  <2>4. k = Len(s) \/ s[k].next <= s[Len(s)].at
    BY <1>1, <1>6, <2>1
  <2>5. QED
    BY <1>1, <2>1, <2>2, <2>3, <2>4, SMTT(30)
<1>8. i <= EndOf(s, i)
  <2>1. CASE s = << >>
    BY <2>1 DEF EndOf
  <2>2. CASE s # << >>
    <3>1. 1 \in 1..Len(s)
      BY <1>1, <2>2, ChainTyped, EmptySeq
    <3>2. QED
      BY <1>1, <1>7, <3>1
  <2>3. QED
    BY <2>1, <2>2
<1>9. QED
  BY <1>6, <1>7, <1>8

LEMMA FirstOptionIs ==
    ASSUME NEW b \in Seq(Byte), Len(b) > 0
    PROVE  /\ GetTokenLength(b) \in 0..15
           /\ FirstOption(b) \in Nat /\ FirstOption(b) = 5 + GetTokenLength(b)
<1>1. b[1] \in Byte
  BY LenProperties, ElementOfSeq
<1>2. b[1] % 16 \in 0..15
  <2>1. PICK x \in Byte : x = b[1]
    BY <1>1
  <2>2. x % 16 \in 0..15
    BY DEF Byte
  <2>3. QED
    BY <2>1, <2>2
<1>3. QED
  BY <1>2, SMTT(30) DEF FirstOption, GetTokenLength, HeaderSize

LEMMA OptionsAreChain ==
    ASSUME NEW b \in Seq(Byte), Len(b) > 0
    PROVE  /\ Chain(b, FirstOption(b), 0, OptionsOf(b))
           /\ \A s : Chain(b, FirstOption(b), 0, s) => s = OptionsOf(b)
<1>1. PICK i \in Nat : i = FirstOption(b)
  BY FirstOptionIs
<1>2. OptionsOf(b) = OptionsWalk(b)[<<i, 0>>]
  BY <1>1 DEF OptionsOf, OptionsFrom
<1>3. Chain(b, i, 0, OptionsOf(b))
  BY <1>2, WalkIsChain
<1>4. QED
  BY <1>1, <1>3, OneChain

\* The first members of 1..n that are in P: they are 1..k.
Firsts(n, P) == {i \in 1..n : \A j \in 1..i : j \in P}

LEMMA FirstOnes ==
    ASSUME NEW n \in Nat, NEW P
    PROVE  /\ Cardinality(Firsts(n, P)) \in 0..n
           /\ \A j \in 1..Cardinality(Firsts(n, P)) : j \in P
           /\ Cardinality(Firsts(n, P)) < n => Cardinality(Firsts(n, P)) + 1 \notin P
<1> DEFINE I == Firsts(n, P)
<1> USE DEF Firsts
<1> DEFINE Out == {i \in 1..(n + 1) : i \notin P \/ i = n + 1}
<1>1. PICK m \in Out : \A i \in Out : m <= i
  <2>1. Out \in SUBSET Nat /\ Out # {}
    <3>1. n + 1 \in 1..(n + 1)
      OBVIOUS
    <3>2. QED
      BY <3>1
  <2> HIDE DEF Out
  <2>2. QED
    BY <2>1, Smallest
<1>2. m \in 1..(n + 1)
  OBVIOUS
<1>3. PICK k \in Nat : k = m - 1
  BY <1>2
<1>4. k \in 0..n /\ m = k + 1
  BY <1>2, <1>3
<1>5. \A j \in 1..k : j \in P
  BY <1>1, <1>4
<1>6. k < n => k + 1 \notin P
  BY <1>1, <1>4
<1>7. I = 1..k
  <2>1. 1..k \subseteq I
    BY <1>4, <1>5
  <2>2. \A i \in I : i \in 1..k
    <3> TAKE i \in I
    <3>1. i \in 1..n
      OBVIOUS
    <3>2. ASSUME i > k
          PROVE  FALSE
      <4>1. k + 1 \in 1..i /\ k < n
        BY <1>4, <3>1, <3>2
      <4>2. QED
        BY <1>6, <4>1
    <3>3. QED
      BY <1>4, <3>1, <3>2
  <2>3. QED
    BY <2>1, <2>2
<1>8. Cardinality(I) = k
  <2>1. Cardinality(1..k) = IF 1 > k THEN 0 ELSE k - 1 + 1
    BY FS_Interval
  <2>2. Cardinality(1..k) = k
    BY <2>1
  <2>3. QED
    BY <1>7, <2>2, Zenon
<1>9. QED
  BY <1>4, <1>5, <1>6, <1>7, <1>8

-----------------------------------------------------------------------------
(* Options as they are encoded. *)

LEMMA Extended ==
    ASSUME NEW n \in Word
    PROVE  /\ Nibble(n) \in 0..14 /\ Extension(n) \in Seq(Byte)
           /\ Len(Extension(n)) = ComputeExtraBytes(n)
<1>1. n \in Nat /\ U16(n) = n
  BY U16OfWord DEF Word
<1>2. Nibble(n) \in 0..14
  BY <1>1 DEF Nibble
<1>3. CASE n < 13
  <2>1. Extension(n) = << >> /\ ComputeExtraBytes(n) = 0
    BY <1>1, <1>3 DEF Extension, ComputeExtraBytes
  <2>2. << >> \in Seq(Byte) /\ Len(<< >>) = 0
    BY EmptySeq
  <2>3. QED
    BY <1>2, <2>1, <2>2
<1>4. CASE n >= 13 /\ n < 269
  <2>1. n - 13 \in Byte
    BY <1>1, <1>4 DEF Byte
  <2>2. Extension(n) = << n - 13 >> /\ ComputeExtraBytes(n) = 1
    BY <1>1, <1>4 DEF Extension, ComputeExtraBytes
  <2>3. QED
    BY <1>2, <2>1, <2>2
<1>5. CASE n >= 269
  <2>1. PICK m \in Word : m = n - 269
    <3>1. n - 269 \in Word
      BY <1>5 DEF Word
    <3>2. QED
      BY <3>1
  <2>2. TwoBytes(m) \in Seq(Byte) /\ Len(TwoBytes(m)) = 2
    BY TwoBytesAreBytes
  <2>3. ~(n < 13) /\ ~(n < 269)
    BY <1>1, <1>5
  <2>4. Extension(n) = TwoBytes(m) /\ ComputeExtraBytes(n) = 2
    BY <1>1, <2>1, <2>3 DEF Extension, ComputeExtraBytes
  <2>5. QED
    BY <1>2, <2>2, <2>4
<1>6. QED
  BY <1>1, <1>3, <1>4, <1>5

LEMMA HeaderByte ==
    ASSUME NEW h \in 0..15, NEW l \in 0..15
    PROVE  h * 16 + l \in Byte /\ (h * 16 + l) \div 16 = h /\ (h * 16 + l) % 16 = l
  BY DEF Byte

LEMMA Encoded ==
    ASSUME NEW delta \in Word, NEW value \in Seq(Byte), Len(value) \in Word
    PROVE  /\ EncodeOption(delta, value) \in Seq(Byte)
           /\ Len(EncodeOption(delta, value)) = EncodedSize(delta, Len(value))
<1>1. PICK n \in Word : n = Len(value)
  OBVIOUS
<1>2. PICK d, e : d = Extension(delta) /\ e = Extension(n)
  OBVIOUS
<1>3. /\ d \in Seq(Byte) /\ e \in Seq(Byte)
      /\ Len(d) = ComputeExtraBytes(delta) /\ Len(e) = ComputeExtraBytes(n)
  BY <1>2, Extended
<1>4. PICK h \in Byte : h = Nibble(delta) * 16 + Nibble(n)
  <2>1. PICK x \in 0..14, y \in 0..14 : x = Nibble(delta) /\ y = Nibble(n)
    BY Extended
  <2>2. x * 16 + y \in Byte
    BY DEF Byte
  <2>3. QED
    BY <2>1, <2>2
<1>5. << h >> \in Seq(Byte) /\ Len(<< h >>) = 1
  OBVIOUS
<1>6. << h >> \o d \in Seq(Byte) /\ Len(<< h >> \o d) = 1 + Len(d)
  BY <1>3, <1>5, ConcatProperties
<1>7. (<< h >> \o d) \o e \in Seq(Byte) /\ Len((<< h >> \o d) \o e) = 1 + Len(d) + Len(e)
  BY <1>3, <1>6, ConcatProperties, ZenonT(30)
<1>8. /\ ((<< h >> \o d) \o e) \o value \in Seq(Byte)
      /\ Len(((<< h >> \o d) \o e) \o value) = 1 + Len(d) + Len(e) + Len(value)
  BY <1>7, ConcatProperties
<1>9. EncodeOption(delta, value) = ((<< h >> \o d) \o e) \o value
  BY <1>1, <1>2, <1>4 DEF EncodeOption
<1>10. QED
  BY <1>1, <1>3, <1>8, <1>9 DEF EncodedSize

LEMMA Replaced ==
    ASSUME NEW b \in Seq(Byte), NEW i, NEW v \in Byte
    PROVE  /\ [b EXCEPT ![i] = v] \in Seq(Byte) /\ Len([b EXCEPT ![i] = v]) = Len(b)
           /\ \A j \in 1..Len(b) : j # i => [b EXCEPT ![i] = v][j] = b[j]
           /\ i \in 1..Len(b) => [b EXCEPT ![i] = v][i] = v
<1>1. DOMAIN b = 1..Len(b) /\ Len(b) \in Nat
  BY LenProperties
<1>2. [b EXCEPT ![i] = v] = [j \in 1..Len(b) |-> IF j = i THEN v ELSE b[j]]
  BY <1>1
<1>3. \A j \in 1..Len(b) : (IF j = i THEN v ELSE b[j]) \in Byte
  BY ElementOfSeq
<1>4. PICK f : f = [j \in 1..Len(b) |-> IF j = i THEN v ELSE b[j]]
  OBVIOUS
<1>5. f \in Seq(Byte) /\ Len(f) = Len(b)
  BY <1>1, <1>3, <1>4, IsASeq
<1>6. QED
  BY <1>2, <1>4, <1>5

LEMMA HeaderMoved ==
    ASSUME NEW b \in Seq(Byte), NEW from, NEW to
    PROVE  /\ MoveHeader(b, from, to) \in Seq(Byte) /\ Len(MoveHeader(b, from, to)) = Len(b)
           /\ \A j \in 1..Len(b) : j # to => MoveHeader(b, from, to)[j] = b[j]
           /\ to \in 1..Len(b) => MoveHeader(b, from, to)[to] = At(b, from)
  BY AtIsByte, Replaced DEF MoveHeader

LEMMA DeltaSet ==
    ASSUME NEW b \in Seq(Byte), NEW i \in Int, NEW delta \in Word
    PROVE  /\ SetOptionDelta(b, i, delta) \in Seq(Byte)
           /\ Len(SetOptionDelta(b, i, delta)) = Len(b)
           /\ \A j \in 1..Len(b) : j < i => SetOptionDelta(b, i, delta)[j] = b[j]
           /\ \A j \in 1..Len(b) : j > i + ComputeExtraBytes(delta) =>
                                       SetOptionDelta(b, i, delta)[j] = b[j]
<1>1. PICK e : e = Extension(delta) /\ e \in Seq(Byte) /\ Len(e) = ComputeExtraBytes(delta)
  BY Extended
<1>2. PICK h \in Byte : h = Nibble(delta) * 16 + (At(b, i) % 16)
  <2>1. PICK x \in 0..14, y \in Byte : x = Nibble(delta) /\ y = At(b, i)
    BY Extended, AtIsByte
  <2>2. x * 16 + (y % 16) \in Byte
    BY DEF Byte
  <2>3. QED
    BY <2>1, <2>2
<1>3. PICK s \in Seq(Byte) : s = << h >> \o e /\ Len(s) = 1 + Len(e)
  <2>1. << h >> \in Seq(Byte) /\ Len(<< h >>) = 1
    OBVIOUS
  <2>2. << h >> \o e \in Seq(Byte) /\ Len(<< h >> \o e) = 1 + Len(e)
    BY <1>1, <2>1, ConcatProperties
  <2>3. QED
    BY <2>2
<1>4. SetOptionDelta(b, i, delta) = Overwrite(b, i, s)
  BY <1>1, <1>2, <1>3 DEF SetOptionDelta
<1>5. Len(s) = 1 + ComputeExtraBytes(delta) /\ ComputeExtraBytes(delta) \in 0..2 /\ Len(b) \in Nat
  BY <1>1, <1>3, ExtraBytes, LenProperties
<1>6. \A j \in 1..Len(b) : j > i + ComputeExtraBytes(delta) => j >= i + Len(s)
  BY <1>5
<1>7. PICK f : /\ f = Overwrite(b, i, s) /\ f \in Seq(Byte) /\ Len(f) = Len(b)
               /\ \A j \in 1..Len(b) : j < i \/ j >= i + Len(s) => f[j] = b[j]
  BY Overwritten
<1>8. f = SetOptionDelta(b, i, delta)
  BY <1>4, <1>7
<1>9. /\ \A j \in 1..Len(b) : j < i => f[j] = b[j]
      /\ \A j \in 1..Len(b) : j > i + ComputeExtraBytes(delta) => f[j] = b[j]
  BY <1>6, <1>7, Zenon
<1>10. QED
  BY <1>7, <1>8, <1>9, Zenon

(***************************************************************************)
(* A delta that is split in two takes no more bytes than its parts and one *)
(* more: the gap that an insertion opens is never negative.                *)
(***************************************************************************)
LEMMA SplitDelta ==
    ASSUME NEW delta \in Word, NEW n \in Int
    PROVE  ComputeExtraBytes(delta) <= 1 + ComputeExtraBytes(U16(n)) + ComputeExtraBytes(delta - n)
<1>1. PICK x \in Word : x = U16(n)
  BY U16IsWord
<1>2. PICK y \in Word : y = U16(delta - n)
  <2>1. delta - n \in Int
    BY DEF Word
  <2>2. QED
    BY <2>1, U16IsWord
<1>3. U16(x) = x /\ U16(delta) = delta
  BY U16OfWord
<1>4. x + y = delta \/ x + y = delta + 65536
  BY <1>1, <1>2 DEF U16, Word
<1>5. x \in Nat /\ y \in Nat /\ delta \in Nat /\ delta < 65536
  BY DEF Word
<1>6. CASE x < 13 /\ y < 13
  <2>1. delta < 269
    BY <1>4, <1>5, <1>6
  <2>2. QED
    BY <1>1, <1>2, <1>3, <2>1 DEF ComputeExtraBytes
<1>7. CASE ~(x < 13 /\ y < 13)
  BY <1>1, <1>2, <1>3, <1>7 DEF ComputeExtraBytes
<1>8. QED
  BY <1>6, <1>7

-----------------------------------------------------------------------------
(* Adding options, to a message whatever its bytes are. *)

\* What a handler returns, and the memory its call meets.
Results == [object : Fields, result : {0, 1}]

Memories == [limit : Nat, moves : BOOLEAN]

\* Their first four bytes are the same.
SameHeader(b, f) == \A j \in 1..4 : f[j] = b[j]

(***************************************************************************)
(* What an addition may do: it keeps the header and what is known of the   *)
(* payload, and lengthens the message no further than there is memory.     *)
(***************************************************************************)
Extends(c, d, mem) ==
    /\ d \in Results
    /\ d.object.payloadLength = c.payloadLength
    /\ d.object.payloadPointer \in {c.payloadPointer, Dangling}
    /\ Len(d.object.pdu) >= Len(c.pdu)
    /\ Len(d.object.pdu) > Len(c.pdu) => Len(d.object.pdu) <= mem.limit
    /\ SameHeader(c.pdu, d.object.pdu)

LEMMA DoneIs ==
    ASSUME NEW o \in Fields, NEW r \in {0, 1}
    PROVE  Done(o, r) \in Results /\ Done(o, r).object = o /\ Done(o, r).result = r
  BY DEF Done, Results

LEMMA InsertedInGap ==
    ASSUME NEW b \in Seq(Byte), NEW option \in Seq(Byte), NEW at \in Nat, at >= 5, Len(b) >= 4,
           NEW gap \in Nat, NEW newDelta \in Int
    PROVE  /\ InsertInGap(b, option, at, gap, newDelta) \in Seq(Byte)
           /\ Len(InsertInGap(b, option, at, gap, newDelta)) = Len(b) + gap
           /\ SameHeader(b, InsertInGap(b, option, at, gap, newDelta))
<1>1. Len(b) \in Nat /\ Len(option) \in Nat /\ \A j \in 1..4 : j \in 1..Len(b)
  BY LenProperties
<1>2. PICK n \in Nat : n = Len(b) + gap
  BY <1>1
<1>3. PICK r \in Seq(Byte) : /\ r = Resize(b, n) /\ Len(r) = n
                             /\ \A j \in 1..n : j <= Len(b) => r[j] = b[j]
  BY Resized
<1>4. PICK amount : amount = Len(b) - at + 1 /\ amount \in Int
  <2>1. Len(b) - at + 1 \in Int
    BY <1>1
  <2>2. QED
    BY <2>1
<1>5. PICK o \in Seq(Byte) : /\ o = OpenGap(b, at, gap) /\ Len(o) = n
                             /\ \A j \in 1..n : ~(j > n - amount) => o[j] = r[j]
  <2>1. PICK o : o = ShiftPDUUp(r, gap, amount)
    OBVIOUS
  <2>2. /\ o \in Seq(Byte) /\ Len(o) = Len(r)
        /\ \A j \in 1..Len(r) : o[j] = IF j > Len(r) - amount THEN At(r, j - gap) ELSE r[j]
    BY <1>4, <2>1, ShiftedUp
  <2>3. o = OpenGap(b, at, gap)
    BY <1>2, <1>3, <1>4, <2>1 DEF OpenGap
  <2>4. QED
    BY <1>3, <2>2, <2>3
<1>6. \A j \in 1..4 : j \in 1..n /\ o[j] = b[j]
  <2> TAKE j \in 1..4
  <2>1. j \in 1..n /\ j <= Len(b) /\ ~(j > n - amount)
    BY <1>1, <1>2, <1>4
  <2>2. QED
    BY <1>3, <1>5, <2>1
<1>7. PICK to \in Nat : to = at + Len(option)
  BY <1>1
<1>8. PICK m \in Seq(Byte) : /\ m = MoveHeader(o, at + gap, to) /\ Len(m) = n
                             /\ \A j \in 1..n : j # to => m[j] = o[j]
  <2>1. PICK m : m = MoveHeader(o, at + gap, to)
    OBVIOUS
  <2>2. m \in Seq(Byte) /\ Len(m) = Len(o) /\ \A j \in 1..Len(o) : j # to => m[j] = o[j]
    BY <2>1, HeaderMoved
  <2>3. QED
    BY <1>5, <2>1, <2>2
<1>9. PICK w \in Word : w = U16(newDelta)
  BY U16IsWord
<1>10. PICK t \in Seq(Byte) : /\ t = SetOptionDelta(m, to, w) /\ Len(t) = n
                              /\ \A j \in 1..n : j < to => t[j] = m[j]
  <2>1. PICK t : t = SetOptionDelta(m, to, w)
    OBVIOUS
  <2>2. t \in Seq(Byte) /\ Len(t) = Len(m) /\ \A j \in 1..Len(m) : j < to => t[j] = m[j]
    BY <2>1, DeltaSet
  <2>3. QED
    BY <1>8, <2>1, <2>2
<1>11. PICK f \in Seq(Byte) : /\ f = Overwrite(t, at, option) /\ Len(f) = n
                              /\ \A j \in 1..n : j < at => f[j] = t[j]
  <2>1. PICK f : f = Overwrite(t, at, option)
    OBVIOUS
  <2>2. /\ f \in Seq(Byte) /\ Len(f) = Len(t)
        /\ \A j \in 1..Len(t) : j < at \/ j >= at + Len(option) => f[j] = t[j]
    BY <2>1, Overwritten
  <2>3. QED
    BY <1>10, <2>1, <2>2
<1>12. InsertInGap(b, option, at, gap, newDelta) = f
  BY <1>5, <1>7, <1>8, <1>9, <1>10, <1>11 DEF InsertInGap
<1>13. \A j \in 1..4 : f[j] = b[j]
  <2> TAKE j \in 1..4
  <2>1. j \in 1..n /\ o[j] = b[j] /\ j < at /\ j < to /\ j # to
    BY <1>1, <1>6, <1>7, SMTT(30)
  <2>2. QED
    BY <1>8, <1>10, <1>11, <2>1
<1>14. QED
  BY <1>2, <1>11, <1>12, <1>13 DEF SameHeader

LEMMA PlaceFound ==
    ASSUME NEW c \in Fields, Len(c.pdu) >= 4, NEW n
    PROVE  /\ FindInsertionPosition(c, n).at \in Nat /\ FindInsertionPosition(c, n).at >= 5
           /\ FindInsertionPosition(c, n).previous \in Word
<1>1. c.pdu \in Seq(Byte) /\ Len(c.pdu) \in Nat /\ c.maxAddedOptionNumber \in Word
  BY LenProperties DEF Fields
<1>2. PICK first \in Nat : first = FirstOption(c.pdu) /\ first >= 5
  <2>1. Len(c.pdu) > 0
    BY <1>1
  <2>2. QED
    BY <1>1, <2>1, FirstOptionIs
<1>3. PICK s : s = OptionsOf(c.pdu) /\ Chain(c.pdu, first, 0, s)
  BY <1>1, <1>2, OptionsAreChain
<1>4. /\ s \in Seq(Option) /\ Len(s) \in Nat /\ DOMAIN s = 1..Len(s)
      /\ \A k \in 1..Len(s) : s[k].at \in Nat /\ s[k].number \in Word
      /\ EndOf(s, first) \in Nat
  BY <1>1, <1>3, ChainTyped DEF Option
<1>5. EndOf(s, first) >= 5 /\ \A k \in 1..Len(s) : s[k].at >= 5
  BY <1>1, <1>2, <1>3, <1>4, ChainAscends
<1>6. PICK k \in 0..Len(s) : k = NotGreater(s, n)
  <2> DEFINE P == {j \in 1..Len(s) : s[j].number <= n}
  <2>1. NotGreater(s, n) = Cardinality(Firsts(Len(s), P))
    <3>1. \A i \in 1..Len(s) : \A j \in 1..i : j \in 1..Len(s)
      BY <1>4
    <3>2. {i \in DOMAIN s : \A j \in 1..i : s[j].number <= n} = Firsts(Len(s), P)
      BY <1>4, <3>1 DEF Firsts
    <3>3. QED
      BY <3>2 DEF NotGreater
  <2> HIDE DEF P
  <2>2. Cardinality(Firsts(Len(s), P)) \in 0..Len(s)
    BY <1>4, FirstOnes
  <2>3. QED
    BY <2>1, <2>2
<1>7. /\ PositionBehind(c, s, k).at \in Nat /\ PositionBehind(c, s, k).at >= 5
      /\ PositionBehind(c, s, k).previous \in Word
  <2>1. k < Len(s) => k + 1 \in 1..Len(s)
    BY <1>4
  <2>2. OptionsEnd(c.pdu) = EndOf(s, first)
    BY <1>2, <1>3 DEF OptionsEnd
  <2>3. k # 0 => s[k].number \in Word
    BY <1>4
  <2>4. 0 \in Word
    BY DEF Word
  <2>5. QED
    BY <1>4, <1>5, <2>1, <2>2, <2>3, <2>4 DEF PositionBehind
<1>8. QED
  BY <1>1, <1>3, <1>6, <1>7 DEF FindInsertionPosition, PositionAmong

LEMMA OptionInserted ==
    ASSUME NEW c \in Fields, Len(c.pdu) >= 4, NEW option \in Seq(Byte), NEW place,
           place.at \in Nat, place.at >= 5, NEW delta \in Word, NEW newDelta \in Int,
           Len(option) + ComputeExtraBytes(newDelta) - ComputeExtraBytes(delta) \in Nat,
           NEW mem \in Memories
    PROVE  Extends(c, InsertOption(c, option, place, delta, newDelta, mem), mem)
<1>1. PICK gap \in Nat : gap = Len(option) + ComputeExtraBytes(newDelta) - ComputeExtraBytes(delta)
  OBVIOUS
<1>2. PICK at \in Nat : at = place.at /\ at >= 5
  OBVIOUS
<1>3. PICK bytes : bytes = InsertInGap(c.pdu, option, at, gap, newDelta)
  OBVIOUS
<1>4. c.pdu \in Seq(Byte) /\ Len(c.pdu) \in Nat
  BY LenProperties DEF Fields
<1>5. /\ bytes \in Seq(Byte) /\ Len(bytes) = Len(c.pdu) + gap
      /\ SameHeader(c.pdu, bytes)
  <2>1. PICK b \in Seq(Byte) : b = c.pdu /\ Len(b) >= 4
    BY <1>4
  <2>2. PICK f : f = InsertInGap(b, option, at, gap, newDelta)
    OBVIOUS
  <2>3. at >= 5 /\ Len(b) >= 4
    BY <1>2, <2>1
  <2>4. f \in Seq(Byte) /\ Len(f) = Len(b) + gap /\ SameHeader(b, f)
    BY <2>2, <2>3, InsertedInGap
  <2>5. QED
    BY <1>3, <2>1, <2>2, <2>4
<1>6. InsertOption(c, option, place, delta, newDelta, mem) = Inserted(c, bytes, mem)
  BY <1>1, <1>2, <1>3 DEF InsertOption
<1>7. CASE ~Fits(Len(bytes), mem)
  <2>1. PICK e : e = Done(c, 1)
    OBVIOUS
  <2>2. e \in Results /\ e.object = c
    BY <2>1, DoneIs
  <2>3. Extends(c, e, mem)
    BY <1>4, <2>2 DEF Extends, SameHeader
  <2>4. QED
    BY <1>6, <1>7, <2>1, <2>3 DEF Inserted
<1>8. CASE Fits(Len(bytes), mem)
  <2>1. Repointed(c.payloadPointer, mem) \in {c.payloadPointer, Dangling}
    BY DEF Repointed
  <2>2. PICK d : d = [c EXCEPT !.pdu = bytes, !.payloadPointer = Repointed(c.payloadPointer, mem)]
    OBVIOUS
  <2>3. d \in Fields /\ d.pdu = bytes /\ d.payloadLength = c.payloadLength
        /\ d.payloadPointer \in {c.payloadPointer, Dangling}
    BY <1>5, <2>1, <2>2 DEF Fields
  <2>4. PICK e : e = Done(d, 0)
    OBVIOUS
  <2>5. e \in Results /\ e.object = d
    BY <2>3, <2>4, DoneIs
  <2>6. Len(bytes) <= mem.limit
    BY <1>8 DEF Fits
  <2>7. Len(bytes) >= Len(c.pdu)
    BY <1>4, <1>5
  <2>8. Extends(c, e, mem)
    BY <1>5, <2>3, <2>5, <2>6, <2>7 DEF Extends
  <2>9. QED
    BY <1>6, <1>8, <2>2, <2>4, <2>8 DEF Inserted
<1>9. QED
  BY <1>7, <1>8

LEMMA OptionAppended ==
    ASSUME NEW c \in Fields, Len(c.pdu) >= 4, NEW n \in Word, NEW option \in Seq(Byte),
           NEW mem \in Memories
    PROVE  Extends(c, AppendOption(c, n, option, mem), mem)
<1>1. c.pdu \in Seq(Byte) /\ Len(c.pdu) \in Nat /\ Len(c.pdu) >= 4 /\ Len(option) \in Nat
  BY LenProperties DEF Fields
<1>2. PICK tried : tried = [c EXCEPT !.maxAddedOptionNumber = n]
  OBVIOUS
<1>3. /\ tried \in Fields /\ tried.pdu = c.pdu /\ tried.payloadLength = c.payloadLength
      /\ tried.payloadPointer = c.payloadPointer /\ tried.numOptions = c.numOptions
  BY <1>2 DEF Fields
<1>4. PICK bytes : bytes = c.pdu \o option
  OBVIOUS
<1>5. /\ bytes \in Seq(Byte) /\ Len(bytes) = Len(c.pdu) + Len(option)
      /\ SameHeader(c.pdu, bytes)
  <2>1. /\ bytes \in Seq(Byte) /\ Len(bytes) = Len(c.pdu) + Len(option)
        /\ \A j \in 1..Len(c.pdu) + Len(option) :
              bytes[j] = IF j <= Len(c.pdu) THEN c.pdu[j] ELSE option[j - Len(c.pdu)]
    BY <1>1, <1>4, ConcatProperties
  <2>2. \A j \in 1..4 : j \in 1..Len(c.pdu) + Len(option) /\ j <= Len(c.pdu)
    BY <1>1
  <2>3. QED
    BY <2>1, <2>2 DEF SameHeader
<1>6. CASE ~Fits(Len(bytes), mem)
  <2>1. PICK e : e = Done(tried, 1)
    OBVIOUS
  <2>2. AppendOption(c, n, option, mem) = e
    BY <1>2, <1>5, <1>6, <2>1 DEF AppendOption
  <2>3. e \in Results /\ e.object = tried
    BY <1>3, <2>1, DoneIs
  <2>4. Extends(c, e, mem)
    BY <1>1, <1>3, <2>3 DEF Extends, SameHeader
  <2>5. QED
    BY <2>2, <2>4
<1>7. CASE Fits(Len(bytes), mem)
  <2>1. Repointed(c.payloadPointer, mem) \in {c.payloadPointer, Dangling}
    BY DEF Repointed
  <2>2. PICK d : d = [tried EXCEPT !.pdu = bytes, !.numOptions = c.numOptions + 1,
                                   !.payloadPointer = Repointed(c.payloadPointer, mem)]
    OBVIOUS
  <2>3. AppendOption(c, n, option, mem) = Done(d, 0)
    BY <1>2, <1>3, <1>4, <1>5, <1>7, <2>2 DEF AppendOption
  <2>4. c.numOptions + 1 \in Nat /\ Repointed(c.payloadPointer, mem) \in {NULL, Dangling} \cup Nat
    BY <2>1 DEF Fields
  <2>5. d \in Fields /\ d.pdu = bytes /\ d.payloadLength = c.payloadLength
        /\ d.payloadPointer = Repointed(c.payloadPointer, mem)
    BY <1>3, <1>5, <2>2, <2>4 DEF Fields
  <2>6. Len(bytes) <= mem.limit
    BY <1>7 DEF Fits
  <2>7. Len(bytes) >= Len(c.pdu)
    BY <1>1, <1>5
  <2>8. PICK e : e = Done(d, 0)
    OBVIOUS
  <2>9. e \in Results /\ e.object = d
    BY <2>5, <2>8, DoneIs
  <2>10. Extends(c, e, mem)
    BY <1>5, <2>1, <2>5, <2>6, <2>7, <2>9 DEF Extends
  <2>11. QED
    BY <2>3, <2>8, <2>10
<1>8. QED
  BY <1>6, <1>7

\* addOption(), whatever is in the message.
LEMMA OptionAdded ==
    ASSUME NEW c \in Fields, Len(c.pdu) >= 4, NEW n \in Word, NEW value \in Seq(Byte),
           Len(value) \in Word, NEW mem \in Memories
    PROVE  Extends(c, AddOption(c, n, value, mem), mem)
<1>1. PICK place : place = FindInsertionPosition(c, n)
  OBVIOUS
<1>2. place.at \in Nat /\ place.at >= 5 /\ place.previous \in Word
  BY <1>1, PlaceFound
<1>3. n - place.previous \in Int /\ c.pdu \in Seq(Byte)
  BY <1>2 DEF Word, Fields
<1>4. PICK own \in Word : own = U16(n - place.previous)
  BY <1>3, U16IsWord
<1>5. PICK option \in Seq(Byte) : option = EncodeOption(own, value) /\ Len(option) = EncodedSize(own, Len(value))
  BY Encoded
<1>6. AddOption(c, n, value, mem) = AddEncoded(c, n, option, place, mem)
  BY <1>1, <1>4, <1>5 DEF AddOption, AddAt
<1>7. CASE place.at = Len(c.pdu) + 1
  BY <1>6, <1>7, OptionAppended DEF AddEncoded
<1>8. CASE place.at # Len(c.pdu) + 1
  <2>1. PICK delta \in Word : delta = GetOptionDelta(c.pdu, place.at)
    BY <1>2, <1>3, DeltaIsWord
  <2>2. PICK newDelta \in Int : newDelta = place.previous + delta - n /\ newDelta = delta - (n - place.previous)
    <3>1. place.previous + delta - n \in Int /\ place.previous + delta - n = delta - (n - place.previous)
      BY <1>2 DEF Word
    <3>2. QED
      BY <3>1
  <2>3. ComputeExtraBytes(delta) <= 1 + ComputeExtraBytes(own) + ComputeExtraBytes(newDelta)
    BY <1>3, <1>4, <2>2, SplitDelta
  <2>4. Len(option) + ComputeExtraBytes(newDelta) - ComputeExtraBytes(delta) \in Nat
    <3>1. /\ ComputeExtraBytes(own) \in 0..2 /\ ComputeExtraBytes(newDelta) \in 0..2
          /\ ComputeExtraBytes(delta) \in 0..2 /\ ComputeExtraBytes(Len(value)) \in 0..2
      BY ExtraBytes
    <3>2. Len(value) \in Nat
      BY LenProperties
    <3>3. Len(option) \in Int /\ Len(option) >= 1 + ComputeExtraBytes(own)
      BY <1>5, <3>1, <3>2 DEF EncodedSize
    <3>4. QED
      BY <2>3, <3>1, <3>3
  <2>5. Extends(c, InsertOption(c, option, place, delta, newDelta, mem), mem)
    BY <1>2, <2>4, OptionInserted
  <2>6. AddEncoded(c, n, option, place, mem) = InsertOption(c, option, place, delta, newDelta, mem)
    BY <1>8, <2>1, <2>2 DEF AddEncoded
  <2>7. QED
    BY <1>6, <2>5, <2>6
<1>9. QED
  BY <1>7, <1>8

LEMMA ExtendsTwice ==
    ASSUME NEW c, NEW d, NEW e, NEW mem \in Memories, c.pdu \in Seq(Byte),
           Extends(c, d, mem), Extends(d.object, e, mem)
    PROVE  Extends(c, e, mem)
<1>1. d.object \in Fields /\ e.object \in Fields
  BY DEF Extends, Results
<1>2. Len(c.pdu) \in Nat /\ Len(d.object.pdu) \in Nat /\ Len(e.object.pdu) \in Nat /\ mem.limit \in Nat
  BY <1>1, LenProperties DEF Fields, Memories
<1>3. SameHeader(c.pdu, e.object.pdu)
  BY DEF Extends, SameHeader
<1>4. QED
  BY <1>2, <1>3, SMTT(30) DEF Extends

LEMMA NothingExtends ==
    ASSUME NEW c \in Fields, NEW r \in {0, 1}, NEW mem
    PROVE  Extends(c, Done(c, r), mem)
<1>1. PICK d : d = Done(c, r)
  OBVIOUS
<1>2. d \in Results /\ d.object = c
  BY <1>1, DoneIs
<1>3. Len(c.pdu) \in Nat
  BY LenProperties DEF Fields
<1>4. Extends(c, d, mem)
  BY <1>2, <1>3 DEF Extends, SameHeader
<1>5. QED
  BY <1>1, <1>4

\* setContentFormat().
LEMMA FormatSet ==
    ASSUME NEW c \in Fields, Len(c.pdu) >= 4, NEW format \in Word, NEW mem \in Memories
    PROVE  Extends(c, SetContentFormat(c, format, mem), mem)
<1>1. PICK value : value = IF format = 0 THEN << >>
                           ELSE IF format < 256 THEN << format >> ELSE TwoBytes(format)
  OBVIOUS
<1>2. value \in Seq(Byte) /\ Len(value) \in 0..2
  <2>1. CASE format = 0
    BY <1>1, <2>1, EmptySeq
  <2>2. CASE format # 0 /\ format < 256
    <3>1. format \in Byte /\ value = << format >>
      BY <1>1, <2>2 DEF Word, Byte
    <3>2. QED
      BY <3>1
  <2>3. CASE format # 0 /\ ~(format < 256)
    BY <1>1, <2>3, TwoBytesAreBytes
  <2>4. QED
    BY <2>1, <2>2, <2>3
<1>3. Len(value) \in Word /\ ContentFormat \in Word
  <2>1. ContentFormat \in Word
    BY DEF Word, ContentFormat
  <2>2. PICK k \in 0..2 : k = Len(value)
    BY <1>2
  <2>3. k \in Word
    BY DEF Word
  <2>4. QED
    BY <2>1, <2>2, <2>3
<1>4. Extends(c, AddOption(c, ContentFormat, value, mem), mem)
  BY <1>2, <1>3, OptionAdded
<1>5. QED
  BY <1>1, <1>4 DEF SetContentFormat

\* The loop of setURI().
Values == {v \in Seq(Byte) : Len(v) \in Word}

PathFrom(c, segments, mem, f) ==
    [k \in 0..Len(segments) |->
        IF k = 0 THEN Done(c, 0)
        ELSE IF f[k - 1].result = 1 THEN f[k - 1]
        ELSE AddOption(f[k - 1].object, UriPath, segments[k], mem)]

LEMMA SegmentAdded ==
    ASSUME NEW c \in Fields, Len(c.pdu) >= 4, NEW segments \in Seq(Values), NEW mem \in Memories,
           NEW d, Extends(c, d, mem), NEW k \in 1..Len(segments)
    PROVE  Extends(c, AddOption(d.object, UriPath, segments[k], mem), mem)
<1>1. d.object \in Fields /\ Len(d.object.pdu) >= 4
  <2>1. d.object \in Fields /\ c.pdu \in Seq(Byte)
    BY DEF Extends, Results, Fields
  <2>2. Len(d.object.pdu) \in Nat /\ Len(c.pdu) \in Nat /\ Len(d.object.pdu) >= Len(c.pdu)
    BY <2>1, LenProperties DEF Fields, Extends
  <2>3. QED
    BY <2>1, <2>2
<1>2. segments[k] \in Seq(Byte) /\ Len(segments[k]) \in Word
  BY ElementOfSeq DEF Values
<1>3. UriPath \in Word
  BY DEF UriPath, Word
<1>4. PICK o, v : o = d.object /\ v = segments[k]
  OBVIOUS
<1>5. PICK e : e = AddOption(o, UriPath, v, mem) /\ Extends(o, e, mem)
  BY <1>1, <1>2, <1>3, <1>4, OptionAdded
<1>6. Extends(c, e, mem)
  BY <1>4, <1>5, ExtendsTwice DEF Fields
<1>7. QED
  BY <1>4, <1>5, <1>6

\* What setURI() has added after each segment.
LEMMA PathExists ==
    ASSUME NEW c \in Fields, Len(c.pdu) >= 4, NEW segments \in Seq(Values), NEW mem \in Memories
    PROVE  \E f : f = PathFrom(c, segments, mem, f)
<1> DEFINE R == {d \in Results : Extends(c, d, mem)}
<1>1. PICK n \in Nat : n = Len(segments)
  BY LenProperties
<1>2. PICK base : base = Done(c, 0) /\ base \in R
  BY DoneIs, NothingExtends
<1>3. PICK G : G = [q \in R \X (1..n) |->
                      IF q[1].result = 1 THEN q[1]
                      ELSE AddOption(q[1].object, UriPath, segments[q[2]], mem)]
  OBVIOUS
<1>4. ASSUME NEW d \in R, NEW k \in 1..n
      PROVE  AddOption(d.object, UriPath, segments[k], mem) \in R
  <2>1. PICK e : e = AddOption(d.object, UriPath, segments[k], mem) /\ Extends(c, e, mem)
    BY <1>1, SegmentAdded
  <2>2. QED
    BY <2>1 DEF Extends
<1>5. G \in [R \X (1..n) -> R]
  BY <1>3, <1>4
<1>6. PICK f \in [0..n -> R] : f = Steps(R, n, base, G, f)
  <2> HIDE DEF R
  <2>1. QED
    BY <1>2, <1>5, Iteration
<1>7. f = PathFrom(c, segments, mem, f)
  <2>1. ASSUME NEW k \in 0..n, k # 0
        PROVE  G[<<f[k - 1], k>>] = IF f[k - 1].result = 1 THEN f[k - 1]
                                    ELSE AddOption(f[k - 1].object, UriPath, segments[k], mem)
    <3>1. k - 1 \in 0..n /\ k \in 1..n
      BY <2>1
    <3>2. f[k - 1] \in R
      BY <1>6, <3>1
    <3>3. QED
      BY <1>3, <3>1, <3>2
  <2>2. Steps(R, n, base, G, f) = PathFrom(c, segments, mem, f)
    BY <1>1, <1>2, <2>1 DEF Steps, PathFrom
  <2>3. QED
    BY <1>6, <2>2
<1>8. QED
  BY <1>7

LEMMA PathExtends ==
    ASSUME NEW c \in Fields, Len(c.pdu) >= 4, NEW segments \in Seq(Values), NEW mem \in Memories,
           NEW f, f = PathFrom(c, segments, mem, f)
    PROVE  \A k \in 0..Len(segments) : Extends(c, f[k], mem)
<1>1. PICK n \in Nat : n = Len(segments)
  BY LenProperties
<1> DEFINE T == {k \in Nat : k <= n => Extends(c, f[k], mem)}
<1>2. 0 \in T
  <2>1. f[0] = Done(c, 0)
    BY <1>1 DEF PathFrom
  <2>2. QED
    BY <2>1, NothingExtends
<1>3. ASSUME NEW k \in Nat, k \in T
      PROVE  k + 1 \in T
  <2> SUFFICES ASSUME k + 1 <= n
               PROVE  Extends(c, f[k + 1], mem)
    OBVIOUS
  <2>1. Extends(c, f[k], mem) /\ k + 1 \in 0..n /\ k + 1 \in 1..n /\ k + 1 # 0 /\ (k + 1) - 1 = k
    BY <1>3
  <2>2. f[k + 1] = IF f[k].result = 1 THEN f[k]
                   ELSE AddOption(f[k].object, UriPath, segments[k + 1], mem)
    BY <1>1, <2>1 DEF PathFrom
  <2>3. PICK d : d = f[k]
    OBVIOUS
  <2>4. PICK m \in 1..Len(segments) : m = k + 1
    BY <1>1, <2>1
  <2>5. Extends(c, AddOption(d.object, UriPath, segments[m], mem), mem)
    BY <2>1, <2>3, SegmentAdded
  <2>6. QED
    BY <2>1, <2>2, <2>3, <2>4, <2>5
<1>4. Nat \subseteq T
  <2> HIDE DEF T
  <2>1. QED
    BY <1>2, <1>3, Induction
<1>5. QED
  BY <1>1, <1>4

LEMMA PathUnfolds ==
    ASSUME NEW c, NEW segments, NEW mem, \E f : f = PathFrom(c, segments, mem, f)
    PROVE  \E f : f = PathFrom(c, segments, mem, f) /\ AddPath(c, segments, mem) = f[Len(segments)]
  BY Zenon DEF AddPath, PathFrom

LEMMA PathAdded ==
    ASSUME NEW c \in Fields, Len(c.pdu) >= 4, NEW segments \in Seq(Values), NEW mem \in Memories
    PROVE  Extends(c, AddPath(c, segments, mem), mem)
<1>1. PICK f : f = PathFrom(c, segments, mem, f) /\ AddPath(c, segments, mem) = f[Len(segments)]
  BY PathExists, PathUnfolds
<1>2. Len(segments) \in 0..Len(segments)
  BY LenProperties
<1>3. QED
  BY <1>1, <1>2, PathExtends

-----------------------------------------------------------------------------
(* The segments of a URI. *)

SegmentStart(uri, i) == IF uri[i] = Slash THEN i + 1 ELSE i

Slashes(uri, i) == {j \in i..Len(uri) : uri[j] = Slash}

SegmentEnd(uri, start) ==
    IF Slashes(uri, start) = {} THEN Len(uri) + 1
    ELSE CHOOSE j \in Slashes(uri, start) : \A k \in Slashes(uri, start) : j <= k

CutFrom(uri, f, i) ==
    IF i >= Len(uri) THEN << >>
    ELSE << SubSeq(uri, SegmentStart(uri, i), SegmentEnd(uri, SegmentStart(uri, i)) - 1) >>
           \o f[SegmentEnd(uri, SegmentStart(uri, i))]

Cuts(uri, f) == [i \in 1..(Len(uri) + 1) |-> CutFrom(uri, f, i)]

LEMMA CutUnfolds ==
    ASSUME NEW uri, \E f : f = Cuts(uri, f)
    PROVE  \E f : f = Cuts(uri, f) /\ SegmentsFrom(uri) = f[1]
  BY Zenon DEF SegmentsFrom, Cuts, CutFrom, SegmentStart, Slashes, SegmentEnd

\* A segment ends at the first slash from its start on, or behind the URI.
LEMMA SegmentEnds ==
    ASSUME NEW uri \in Seq(Byte), NEW start \in 1..(Len(uri) + 1)
    PROVE  /\ SegmentEnd(uri, start) \in start..(Len(uri) + 1)
           /\ SegmentEnd(uri, start) <= Len(uri) => uri[SegmentEnd(uri, start)] = Slash
           /\ \A j \in start..(SegmentEnd(uri, start) - 1) : uri[j] # Slash
<1>1. Len(uri) \in Nat
  BY LenProperties
<1>2. CASE Slashes(uri, start) = {}
  <2>1. SegmentEnd(uri, start) = Len(uri) + 1
    BY <1>2 DEF SegmentEnd
  <2>2. \A j \in start..Len(uri) : uri[j] # Slash
    BY <1>2 DEF Slashes
  <2>3. QED
    BY <1>1, <2>1, <2>2
<1>3. CASE Slashes(uri, start) # {}
  <2>1. PICK m \in Slashes(uri, start) : \A k \in Slashes(uri, start) : m <= k
    <3>1. Slashes(uri, start) \in SUBSET Nat
      BY <1>1 DEF Slashes
    <3>2. QED
      BY <1>3, <3>1, Smallest
  <2>2. PICK e : /\ e = SegmentEnd(uri, start) /\ e \in Slashes(uri, start)
                 /\ \A k \in Slashes(uri, start) : e <= k
    BY <1>3, <2>1 DEF SegmentEnd
  <2>3. e \in start..Len(uri) /\ uri[e] = Slash
    BY <2>2 DEF Slashes
  <2>4. ASSUME NEW j \in start..(e - 1)
        PROVE  uri[j] # Slash
    <3>1. j \in start..Len(uri) /\ j < e
      BY <1>1, <2>3
    <3>2. QED
      BY <1>1, <2>2, <2>3, <3>1 DEF Slashes
  <2>5. QED
    BY <1>1, <2>2, <2>3, <2>4
<1>4. QED
  BY <1>2, <1>3

\* One turn of setURI()'s loop.
LEMMA SegmentCut ==
    ASSUME NEW uri \in Seq(Byte), NEW i \in 1..(Len(uri) + 1), i < Len(uri)
    PROVE  /\ SegmentStart(uri, i) \in i..Len(uri)
           /\ SegmentEnd(uri, SegmentStart(uri, i)) \in (i + 1)..(Len(uri) + 1)
           /\ SegmentStart(uri, i) <= SegmentEnd(uri, SegmentStart(uri, i))
           /\ SubSeq(uri, SegmentStart(uri, i), SegmentEnd(uri, SegmentStart(uri, i)) - 1) \in Seq(Byte)
           /\ Len(SubSeq(uri, SegmentStart(uri, i), SegmentEnd(uri, SegmentStart(uri, i)) - 1))
                 = SegmentEnd(uri, SegmentStart(uri, i)) - SegmentStart(uri, i)
<1>1. Len(uri) \in Nat
  BY LenProperties
<1>2. PICK start \in 1..(Len(uri) + 1) :
         /\ start = SegmentStart(uri, i) /\ start \in i..Len(uri)
         /\ uri[i] = Slash => start = i + 1
         /\ uri[i] # Slash => start = i
  BY <1>1 DEF SegmentStart
<1>3. PICK e : /\ e = SegmentEnd(uri, start) /\ e \in start..(Len(uri) + 1)
               /\ e <= Len(uri) => uri[e] = Slash
  BY SegmentEnds
<1>4. e \in (i + 1)..(Len(uri) + 1)
  BY <1>1, <1>2, <1>3
<1>5. SubSeq(uri, start, e - 1) \in Seq(Byte) /\ Len(SubSeq(uri, start, e - 1)) = e - start
  <2>1. start \in 1..(Len(uri) + 1) /\ e - 1 \in (start - 1)..Len(uri)
    BY <1>1, <1>3
  <2>2. /\ SubSeq(uri, start, e - 1) \in Seq(Byte)
        /\ Len(SubSeq(uri, start, e - 1)) = IF start <= e - 1 THEN e - 1 - start + 1 ELSE 0
    BY <1>1, <2>1, SubSeqProperties
  <2>3. QED
    BY <1>1, <1>2, <1>3, <2>2
<1>6. QED
  BY <1>1, <1>2, <1>3, <1>4, <1>5

LEMMA CutExists ==
    ASSUME NEW uri \in Seq(Byte)
    PROVE  \E f \in [1..(Len(uri) + 1) -> Seq(Seq(Byte))] : f = Cuts(uri, f)
<1> DEFINE D == 1..(Len(uri) + 1)
           R == Seq(Seq(Byte))
           F == [f \in [D -> R] |-> Cuts(uri, f)]
           size == [i \in D |-> Len(uri) + 1 - i]
<1>1. Len(uri) \in Nat /\ Len(uri) + 1 \in Nat
  BY LenProperties
<1>2. ASSUME NEW f \in [D -> R], NEW i \in D
      PROVE  CutFrom(uri, f, i) \in R
  <2>1. CASE i >= Len(uri)
    BY <2>1, EmptySeq DEF CutFrom
  <2>2. CASE ~(i >= Len(uri))
    <3>1. PICK v, e : /\ v = SubSeq(uri, SegmentStart(uri, i), SegmentEnd(uri, SegmentStart(uri, i)) - 1)
                      /\ e = SegmentEnd(uri, SegmentStart(uri, i))
      OBVIOUS
    <3>2. i < Len(uri)
      BY <1>1, <2>2
    <3>3. v \in Seq(Byte) /\ e \in D
      BY <1>1, <3>1, <3>2, SegmentCut
    <3>4. << v >> \in R /\ f[e] \in R
      BY <3>3
    <3>5. << v >> \o f[e] \in R
      BY <3>4, ConcatProperties
    <3>6. QED
      BY <2>2, <3>1, <3>5 DEF CutFrom
  <2>3. QED
    BY <2>1, <2>2
<1>3. F \in [[D -> R] -> [D -> R]]
  BY <1>2 DEF Cuts
<1>4. size \in [D -> Nat] /\ \A i \in D : size[i] <= Len(uri) + 1
  BY <1>1
<1>5. ASSUME NEW f \in [D -> R], NEW g \in [D -> R], NEW i \in D,
             \A e \in D : size[e] < size[i] => f[e] = g[e]
      PROVE  F[f][i] = F[g][i]
  <2>1. F[f][i] = CutFrom(uri, f, i) /\ F[g][i] = CutFrom(uri, g, i)
    BY DEF Cuts
  <2>2. CASE i >= Len(uri)
    BY <2>1, <2>2 DEF CutFrom
  <2>3. CASE ~(i >= Len(uri))
    <3>1. PICK e : e = SegmentEnd(uri, SegmentStart(uri, i))
      OBVIOUS
    <3>2. i < Len(uri)
      BY <1>1, <2>3
    <3>3. e \in (i + 1)..(Len(uri) + 1)
      BY <3>1, <3>2, SegmentCut
    <3>4. e \in D /\ size[e] < size[i]
      BY <1>1, <3>3
    <3>5. f[e] = g[e]
      BY <1>5, <3>4
    <3>6. QED
      BY <2>1, <2>3, <3>1, <3>5 DEF CutFrom
  <2>4. QED
    BY <2>2, <2>3
<1>6. \E f \in [D -> R] : f = F[f]
  <2>1. R # {}
    BY EmptySeq
  <2>2. \A f, g \in [D -> R] : \A i \in D :
          (\A e \in D : size[e] < size[i] => f[e] = g[e]) => F[f][i] = F[g][i]
    BY <1>5
  <2>3. PICK bound \in Nat : bound = Len(uri) + 1
    BY <1>1
  <2>4. \A i \in D : size[i] <= bound
    BY <1>4, <2>3
  <2> HIDE DEF D, R, F, size
  <2>5. Recursive(D, R, F, size, bound)
    BY <1>3, <1>4, <2>1, <2>2, <2>4 DEF Recursive
  <2>6. QED
    BY <2>5, Recursion
<1>7. QED
  BY <1>6

\* The segments that setURI() adds are no longer than the URI.
LEMMA SegmentsTyped ==
    ASSUME NEW uri \in Seq(Byte), Len(uri) \in Word
    PROVE  SegmentsFrom(uri) \in Seq(Values)
<1>1. PICK f : f = Cuts(uri, f) /\ SegmentsFrom(uri) = f[1]
  BY CutExists, CutUnfolds
<1>2. PICK n \in Nat : n = Len(uri) /\ n < 65536
  BY DEF Word
<1> DEFINE T == {i \in Nat : i \in 1..(n + 1) => f[i] \in Seq(Values)}
<1>3. \A i \in Nat : i > n + 1 => i \in T
  OBVIOUS
<1>4. ASSUME NEW i \in Nat, i <= n + 1, \A j \in Nat : j > i => j \in T
      PROVE  i \in T
  <2> SUFFICES ASSUME i \in 1..(n + 1)
               PROVE  f[i] \in Seq(Values)
    OBVIOUS
  <2>1. f[i] = CutFrom(uri, f, i)
    BY <1>1, <1>2 DEF Cuts
  <2>2. CASE i >= n
    BY <1>2, <2>1, <2>2, EmptySeq DEF CutFrom
  <2>3. CASE i < n
    <3>1. PICK v, b, e : /\ v = SubSeq(uri, SegmentStart(uri, i), SegmentEnd(uri, SegmentStart(uri, i)) - 1)
                         /\ b = SegmentStart(uri, i) /\ e = SegmentEnd(uri, SegmentStart(uri, i))
      OBVIOUS
    <3>2. /\ b \in i..n /\ e \in (i + 1)..(n + 1) /\ b <= e
          /\ v \in Seq(Byte) /\ Len(v) = e - b
      BY <1>2, <2>3, <3>1, SegmentCut
    <3>3. e - b \in Nat /\ e - b < 65536
      BY <1>2, <3>2
    <3>4. v \in Values
      BY <3>2, <3>3 DEF Values, Word
    <3>5. e \in Nat /\ e > i /\ e \in 1..(n + 1)
      BY <3>2
    <3>6. f[e] \in Seq(Values)
      BY <1>4, <3>5
    <3>7. << v >> \in Seq(Values)
      BY <3>4
    <3>8. << v >> \o f[e] \in Seq(Values)
      BY <3>6, <3>7, ConcatProperties
    <3>9. f[i] = << v >> \o f[e]
      BY <1>2, <2>1, <2>3, <3>1 DEF CutFrom
    <3>10. QED
      BY <3>8, <3>9
  <2>4. QED
    BY <2>2, <2>3
<1>5. Nat \subseteq T
  <2> HIDE DEF T
  <2>1. PICK bound \in Nat : bound = n + 1
    OBVIOUS
  <2>2. QED
    BY <1>3, <1>4, <2>1, Downward
<1>6. QED
  BY <1>1, <1>5

\* setURI().
LEMMA URISet ==
    ASSUME NEW c \in Fields, Len(c.pdu) >= 4, NEW uri \in Values, NEW mem \in Memories
    PROVE  Extends(c, SetURI(c, uri, mem), mem)
<1>1. uri \in Seq(Byte) /\ Len(uri) \in Word /\ UriPath \in Word
  BY DEF Values, UriPath, Word
<1>2. CASE uri = << >>
  BY <1>2, NothingExtends DEF SetURI
<1>3. CASE uri # << >> /\ Len(uri) = 1
  <2>1. PICK e : e = AddOption(c, UriPath, uri, mem) /\ Extends(c, e, mem)
    BY <1>1, OptionAdded
  <2>2. PICK o \in Fields : o = e.object
    BY <2>1 DEF Extends, Results
  <2>3. Extends(o, Done(o, 0), mem)
    BY NothingExtends
  <2>4. Extends(c, Done(o, 0), mem)
    BY <2>1, <2>2, <2>3, ExtendsTwice DEF Fields
  <2>5. QED
    BY <1>3, <2>1, <2>2, <2>4 DEF SetURI
<1>4. CASE uri # << >> /\ Len(uri) # 1
  BY <1>1, <1>4, SegmentsTyped, PathAdded DEF SetURI
<1>5. QED
  BY <1>2, <1>3, <1>4

-----------------------------------------------------------------------------
(* Tokens, payloads and messages received. *)

Pointers == {NULL, Dangling} \cup {p \in Nat : p > 4}

\* A message has room for its header, its token and the payload it counts.
Room(c) ==
    /\ c.payloadPointer \in Pointers
    /\ Len(c.pdu) >= 4 /\ GetTokenLength(c.pdu) <= 8
    /\ Len(c.pdu) >= 4 + GetTokenLength(c.pdu)
    /\ c.payloadLength > 0 => Len(c.pdu) >= 5 + GetTokenLength(c.pdu) + c.payloadLength

\* What any call that edits a message leaves.
Keeps(c, d, mem) ==
    /\ d \in Results /\ Room(d.object)
    /\ Len(d.object.pdu) > Len(c.pdu) => Len(d.object.pdu) <= mem.limit

LEMMA FieldsTyped ==
    ASSUME NEW c \in Fields
    PROVE  /\ c.pdu \in Seq(Byte) /\ Len(c.pdu) \in Nat /\ c.numOptions \in Nat
           /\ c.maxAddedOptionNumber \in Word /\ c.payloadLength \in Nat
           /\ c.payloadPointer \in {NULL, Dangling} \cup Nat
  BY LenProperties DEF Fields

LEMMA RoomIs ==
    ASSUME NEW c \in Fields, Room(c)
    PROVE  \E k \in 0..8 : /\ k = GetTokenLength(c.pdu)
                           /\ Len(c.pdu) >= 4 + k
                           /\ c.payloadLength > 0 => Len(c.pdu) >= 5 + k + c.payloadLength
<1>1. c.pdu \in Seq(Byte) /\ Len(c.pdu) \in Nat
  BY FieldsTyped
<1>2. Len(c.pdu) >= 4
  BY DEF Room
<1>3. Len(c.pdu) > 0
  BY <1>1, <1>2
<1>4. GetTokenLength(c.pdu) \in 0..15
  BY <1>1, <1>3, FirstOptionIs
<1>5. GetTokenLength(c.pdu) \in 0..8
  BY <1>4 DEF Room
<1>6. QED
  BY <1>5 DEF Room

LEMMA ExtendsKeeps ==
    ASSUME NEW c \in Fields, Room(c), NEW d, NEW mem \in Memories, Extends(c, d, mem)
    PROVE  Keeps(c, d, mem)
<1>1. d \in Results /\ d.object \in Fields
  BY DEF Extends, Results
<1>2. /\ Len(c.pdu) \in Nat /\ c.payloadLength \in Nat
      /\ Len(d.object.pdu) \in Nat /\ d.object.payloadLength \in Nat
  BY <1>1, FieldsTyped
<1>3. GetTokenLength(d.object.pdu) = GetTokenLength(c.pdu)
  <2>1. 1 \in 1..4
    OBVIOUS
  <2>2. d.object.pdu[1] = c.pdu[1]
    BY <2>1 DEF Extends, SameHeader
  <2>3. QED
    BY <2>2 DEF GetTokenLength
<1>4. PICK k \in 0..8 : /\ k = GetTokenLength(c.pdu)
                        /\ Len(c.pdu) >= 4 + k
                        /\ c.payloadLength > 0 => Len(c.pdu) >= 5 + k + c.payloadLength
  BY RoomIs
<1>5. d.object.payloadPointer \in Pointers
  BY DEF Room, Extends, Pointers
<1>6. Len(d.object.pdu) >= Len(c.pdu) /\ d.object.payloadLength = c.payloadLength
  BY DEF Extends
<1>7. Room(d.object)
  <2>1. PICK m \in Nat : m = Len(d.object.pdu)
    BY <1>2
  <2>2. m >= Len(c.pdu) /\ Len(c.pdu) \in Nat /\ c.payloadLength \in Nat
    BY <1>2, <1>6, <2>1
  <2>3. PICK n \in Nat, l \in Nat : n = Len(c.pdu) /\ l = c.payloadLength
    BY <2>2
  <2>4. m >= n /\ n >= 4 + k /\ (l > 0 => n >= 5 + k + l)
    BY <1>4, <2>2, <2>3
  <2>5. m >= 4 + k /\ (l > 0 => m >= 5 + k + l)
    BY <2>4
  <2>6. QED
    BY <1>3, <1>4, <1>5, <1>6, <2>1, <2>3, <2>5 DEF Room
<1>8. QED
  BY <1>1, <1>7 DEF Keeps, Extends

LEMMA TokenLengthSet ==
    ASSUME NEW b \in Seq(Byte), Len(b) > 0, NEW n \in Nat
    PROVE  /\ SetTokenLength(b, n) \in Seq(Byte) /\ Len(SetTokenLength(b, n)) = Len(b)
           /\ GetTokenLength(SetTokenLength(b, n)) = IF n > 8 THEN GetTokenLength(b) ELSE n
<1>1. 1 \in 1..Len(b)
  BY LenProperties
<1>2. PICK x \in Byte : x = b[1]
  BY <1>1, ElementOfSeq
<1>3. CASE n > 8
  BY <1>3 DEF SetTokenLength
<1>4. CASE ~(n > 8)
  <2>1. PICK y \in Byte : y = (x \div 16) * 16 + n /\ y % 16 = n
    <3>1. x \div 16 \in 0..15 /\ n \in 0..15
      BY <1>4 DEF Byte
    <3>2. QED
      BY <3>1, HeaderByte
  <2>2. PICK f : f = [b EXCEPT ![1] = y]
    OBVIOUS
  <2>3. f \in Seq(Byte) /\ Len(f) = Len(b) /\ f[1] = y
    BY <1>1, <2>2, Replaced
  <2>4. SetTokenLength(b, n) = f
    BY <1>2, <1>4, <2>1, <2>2 DEF SetTokenLength
  <2>5. QED
    BY <1>4, <2>1, <2>3, <2>4 DEF GetTokenLength
<1>5. QED
  BY <1>3, <1>4

\* Whatever a token's bytes and those behind it have become, the object it is part of.
WithToken(c, b, n, pointer) ==
    [c EXCEPT !.pdu = SetTokenLength(b, n), !.payloadPointer = pointer]

LEMMA TokenRoom ==
    ASSUME NEW c \in Fields, Room(c), NEW n \in Nat, n # 0, NEW b \in Seq(Byte),
           Len(b) = Len(c.pdu) - GetTokenLength(c.pdu) + n, b[1] = c.pdu[1],
           NEW pointer, pointer \in {c.payloadPointer, Dangling}
    PROVE  /\ WithToken(c, b, n, pointer) \in Fields /\ Room(WithToken(c, b, n, pointer))
           /\ Len(WithToken(c, b, n, pointer).pdu) = Len(b)
<1>1. PICK k \in 0..8 : /\ k = GetTokenLength(c.pdu)
                        /\ Len(c.pdu) >= 4 + k
                        /\ c.payloadLength > 0 => Len(c.pdu) >= 5 + k + c.payloadLength
  BY RoomIs
<1>2. Len(c.pdu) \in Nat /\ c.payloadLength \in Nat
  BY FieldsTyped
<1>3. GetTokenLength(b) = k
  BY <1>1 DEF GetTokenLength
<1>4. Len(b) \in Nat /\ Len(b) >= 4 + n /\ Len(b) > 0 /\ Len(b) = Len(c.pdu) - k + n
  <2>1. PICK l \in Nat : l = Len(c.pdu) /\ l >= 4 + k
    BY <1>1, <1>2
  <2>2. Len(b) = l - k + n
    BY <1>1, <2>1
  <2>3. l - k + n \in Nat /\ l - k + n >= 4 + n /\ l - k + n > 0
    BY <2>1
  <2>4. QED
    BY <2>1, <2>2, <2>3
<1>5. PICK f : f = SetTokenLength(b, n)
  OBVIOUS
<1>6. f \in Seq(Byte) /\ Len(f) = Len(b) /\ GetTokenLength(f) = IF n > 8 THEN k ELSE n
  BY <1>3, <1>4, <1>5, TokenLengthSet
<1>7. PICK m \in Nat : m = GetTokenLength(f) /\ m <= 8 /\ m <= n
  BY <1>2, <1>6
<1>8. PICK o : o = WithToken(c, b, n, pointer) /\ o = [c EXCEPT !.pdu = f, !.payloadPointer = pointer]
  BY <1>5 DEF WithToken
<1>9. o \in Fields /\ o.pdu = f /\ o.payloadPointer = pointer /\ o.payloadLength = c.payloadLength
  BY <1>6, <1>8 DEF Fields
<1>10. pointer \in Pointers
  BY DEF Room, Pointers
<1>11. PICK l \in Nat, p \in Nat : l = Len(c.pdu) /\ p = c.payloadLength
  BY <1>2
<1>12. p > 0 => Len(f) >= 5 + m + p
  <2>1. p > 0 => l >= 5 + k + p
    BY <1>1, <1>11
  <2>2. Len(f) = l - k + n
    BY <1>4, <1>6, <1>11
  <2>3. PICK x \in Nat : x = Len(f)
    BY <1>4, <1>6
  <2>4. x = l - k + n
    BY <2>2, <2>3
  <2>5. p > 0 => x >= 5 + m + p
    BY <1>7, <2>1, <2>4
  <2>6. QED
    BY <2>3, <2>5
<1>13. Len(f) >= 4 + m
  BY <1>4, <1>6, <1>7
<1>14. PICK l2 \in Nat : l2 = Len(f)
  BY <1>4, <1>6
<1>15. l2 >= 4 /\ l2 >= 4 + m /\ (p > 0 => l2 >= 5 + m + p)
  BY <1>7, <1>12, <1>13, <1>14
<1>16. Room(o)
  BY <1>7, <1>9, <1>10, <1>11, <1>14, <1>15 DEF Room
<1>17. QED
  BY <1>6, <1>8, <1>9, <1>16

LEMMA RepointedIs ==
    ASSUME NEW pointer, NEW mem
    PROVE  Repointed(pointer, mem) \in {pointer, Dangling}
  BY DEF Repointed

\* The old bytes, and the old fields with them.
LEMMA ResizedToItself ==
    ASSUME NEW b \in Seq(Byte)
    PROVE  Resize(b, Len(b)) = b
<1>1. PICK n \in Nat : n = Len(b)
  BY LenProperties
<1>2. PICK r : r = Resize(b, n)
  OBVIOUS
<1>3. r \in Seq(Byte) /\ Len(r) = n /\ \A j \in 1..n : j <= Len(b) => r[j] = b[j]
  BY <1>1, <1>2, Resized
<1>4. \A j \in 1..Len(b) : r[j] = b[j]
  BY <1>1, <1>3
<1>5. r = b
  BY <1>1, <1>3, <1>4, SeqEqual
<1>6. QED
  BY <1>1, <1>2, <1>5

LEMMA TokenGrown ==
    ASSUME NEW c \in Fields, Room(c), NEW t \in Seq(Byte), t # << >>, NEW mem \in Memories,
           Len(t) > GetTokenLength(c.pdu)
    PROVE  Keeps(c, GrowForToken(c, t, Len(c.pdu), Len(c.pdu) - GetTokenLength(c.pdu) + Len(t), mem),
                 mem)
<1>1. PICK k \in 0..8 : k = GetTokenLength(c.pdu) /\ Len(c.pdu) >= 4 + k
  BY RoomIs
<1>2. PICK b \in Seq(Byte) : b = c.pdu
  BY FieldsTyped
<1>3. PICK l \in Nat : l = Len(b) /\ l >= 4 + k
  BY <1>1, <1>2, FieldsTyped
<1>4. PICK n \in Nat : n = Len(t) /\ n > k
  BY <1>1, LenProperties
<1>5. PICK m \in Nat : m = l - k + n /\ m > l /\ m >= 4 + n
  <2>1. l - k + n \in Nat /\ l - k + n > l /\ l - k + n >= 4 + n
    BY <1>3, <1>4
  <2>2. QED
    BY <2>1
<1>6. PICK r : r = Resize(b, m)
  OBVIOUS
<1>7. r \in Seq(Byte) /\ Len(r) = m /\ r[1] = b[1]
  <2>1. r \in Seq(Byte) /\ Len(r) = m /\ \A j \in 1..m : j <= Len(b) => r[j] = b[j]
    BY <1>6, Resized
  <2>2. 1 \in 1..m /\ 1 <= Len(b)
    BY <1>3, <1>5
  <2>3. QED
    BY <2>1, <2>2
<1>8. PICK s : s = ShiftPDUUp(r, m - l, m - n - 4)
  OBVIOUS
<1>9. s \in Seq(Byte) /\ Len(s) = m /\ s[1] = b[1]
  <2>1. m - l \in Int /\ m - n - 4 \in Int
    OBVIOUS
  <2>2. PICK u \in Int, v \in Int : u = m - l /\ v = m - n - 4
    BY <2>1
  <2>3. /\ s \in Seq(Byte) /\ Len(s) = Len(r)
        /\ \A j \in 1..Len(r) : s[j] = IF j > Len(r) - v THEN At(r, j - u) ELSE r[j]
    BY <1>7, <1>8, <2>2, ShiftedUp, SMTT(30)
  <2>4. 1 \in 1..Len(r) /\ ~(1 > Len(r) - v)
    BY <1>3, <1>4, <1>5, <1>7, <2>2
  <2>5. QED
    BY <1>7, <2>3, <2>4
<1>10. PICK f : f = Overwrite(s, HeaderSize + 1, t)
  OBVIOUS
<1>11. f \in Seq(Byte) /\ Len(f) = m /\ f[1] = b[1]
  <2>1. HeaderSize + 1 = 5
    BY DEF HeaderSize
  <2>2. /\ f \in Seq(Byte) /\ Len(f) = Len(s)
        /\ \A j \in 1..Len(s) : j < 5 \/ j >= 5 + Len(t) => f[j] = s[j]
    BY <1>9, <1>10, <2>1, Overwritten
  <2>3. 1 \in 1..Len(s) /\ 1 < 5
    BY <1>3, <1>5, <1>9
  <2>4. QED
    BY <1>9, <2>2, <2>3
<1>12. PICK q : q = Repointed(c.payloadPointer, mem) /\ q \in {c.payloadPointer, Dangling}
  BY RepointedIs
<1>13. PICK o : o = WithToken(c, f, n, q)
  OBVIOUS
<1>14. o \in Fields /\ Room(o) /\ Len(o.pdu) = m
  <2>1. Len(f) = Len(c.pdu) - GetTokenLength(c.pdu) + n /\ f[1] = c.pdu[1] /\ n # 0
    BY <1>1, <1>2, <1>3, <1>4, <1>5, <1>11
  <2>2. f \in Seq(Byte) /\ q \in {c.payloadPointer, Dangling}
    BY <1>11, <1>12
  <2>3. /\ WithToken(c, f, n, q) \in Fields /\ Room(WithToken(c, f, n, q))
        /\ Len(WithToken(c, f, n, q).pdu) = Len(f)
    BY <2>1, <2>2, TokenRoom
  <2>4. QED
    BY <1>11, <1>13, <2>3
<1>15. GrowForToken(c, t, l, m, mem) =
          IF ~Fits(m, mem) THEN Done([c EXCEPT !.pdu = Resize(b, l)], 1) ELSE Done(o, 0)
  BY <1>2, <1>4, <1>6, <1>8, <1>10, <1>12, <1>13 DEF GrowForToken, HeaderSize, WithToken
<1>16. CASE Fits(m, mem)
  <2>1. GrowForToken(c, t, l, m, mem) = Done(o, 0)
    BY <1>15, <1>16
  <2>2. /\ Done(o, 0) \in Results /\ Done(o, 0).object = o
    BY <1>14, DoneIs
  <2>3. m <= mem.limit
    BY <1>16 DEF Fits
  <2>4. Keeps(c, Done(o, 0), mem)
    BY <1>14, <2>2, <2>3 DEF Keeps
  <2>5. QED
    BY <1>1, <1>2, <1>3, <1>4, <1>5, <2>1, <2>4
<1>17. CASE ~Fits(m, mem)
  <2>1. Resize(b, l) = c.pdu
    BY <1>2, <1>3, ResizedToItself
  <2>2. [c EXCEPT !.pdu = Resize(b, l)] = c
    BY <2>1 DEF Fields
  <2>3. GrowForToken(c, t, l, m, mem) = Done(c, 1)
    BY <1>15, <1>17, <2>2
  <2>4. Done(c, 1) \in Results /\ Done(c, 1).object = c
    BY DoneIs
  <2>5. Keeps(c, Done(c, 1), mem)
    BY <1>2, <1>3, <2>4 DEF Keeps
  <2>6. QED
    BY <1>1, <1>2, <1>3, <1>4, <1>5, <2>3, <2>5
<1>18. QED
  BY <1>16, <1>17

LEMMA TokenShrunk ==
    ASSUME NEW c \in Fields, Room(c), NEW t \in Seq(Byte), t # << >>, NEW mem \in Memories,
           Len(t) < GetTokenLength(c.pdu)
    PROVE  Keeps(c, ShrinkForToken(c, t, Len(c.pdu), Len(c.pdu) - GetTokenLength(c.pdu) + Len(t), mem),
                 mem)
<1>1. PICK k \in 0..8 : k = GetTokenLength(c.pdu) /\ Len(c.pdu) >= 4 + k
  BY RoomIs
<1>2. PICK b \in Seq(Byte) : b = c.pdu
  BY FieldsTyped
<1>3. PICK l \in Nat : l = Len(b) /\ l >= 4 + k
  BY <1>1, <1>2, FieldsTyped
<1>4. PICK n \in Nat : n = Len(t) /\ n < k /\ n # 0
  BY <1>1, EmptySeq, LenProperties
<1>5. PICK m \in Nat : m = l - k + n /\ m < l /\ m >= 4 + n
  <2>1. l - k + n \in Nat /\ l - k + n < l /\ l - k + n >= 4 + n
    BY <1>3, <1>4
  <2>2. QED
    BY <2>1
<1>6. PICK r : r = Overwrite(b, HeaderSize + 1, t)
  OBVIOUS
<1>7. r \in Seq(Byte) /\ Len(r) = l /\ r[1] = b[1]
  <2>1. HeaderSize + 1 = 5
    BY DEF HeaderSize
  <2>2. /\ r \in Seq(Byte) /\ Len(r) = Len(b)
        /\ \A j \in 1..Len(b) : j < 5 \/ j >= 5 + Len(t) => r[j] = b[j]
    BY <1>6, <2>1, Overwritten
  <2>3. 1 \in 1..Len(b) /\ 1 < 5
    BY <1>3
  <2>4. QED
    BY <1>3, <2>2, <2>3
<1>8. PICK s : s = ShiftPDUDown(r, HeaderSize + n + 1, l - m, l - k - HeaderSize)
  OBVIOUS
<1>9. s \in Seq(Byte) /\ Len(s) = l /\ s[1] = b[1]
  <2>1. PICK a \in Int, u \in Int, v \in Int :
           a = HeaderSize + n + 1 /\ u = l - m /\ v = l - k - HeaderSize /\ a > 1
    BY DEF HeaderSize
  <2>2. /\ s \in Seq(Byte) /\ Len(s) = Len(r)
        /\ \A j \in 1..Len(r) : s[j] = IF j \in a..(a + v - 1) THEN At(r, j + u) ELSE r[j]
    <3>1. s = ShiftPDUDown(r, a, u, v)
      BY <1>8, <2>1
    <3>2. QED
      BY <1>7, <3>1, ShiftedDown
  <2>3. 1 \in 1..Len(r) /\ ~(1 \in a..(a + v - 1))
    BY <1>3, <1>7, <2>1
  <2>4. QED
    BY <1>7, <2>2, <2>3
<1>10. PICK f : f = Resize(s, m)
  OBVIOUS
<1>11. f \in Seq(Byte) /\ Len(f) = m /\ f[1] = b[1]
  <2>1. f \in Seq(Byte) /\ Len(f) = m /\ \A j \in 1..m : j <= Len(s) => f[j] = s[j]
    BY <1>9, <1>10, Resized
  <2>2. 1 \in 1..m /\ 1 <= Len(s)
    BY <1>3, <1>5, <1>9
  <2>3. QED
    BY <1>9, <2>1, <2>2
<1>12. PICK q : q = Repointed(c.payloadPointer, mem) /\ q \in {c.payloadPointer, Dangling}
  BY RepointedIs
<1>13. PICK o : o = WithToken(c, f, n, q)
  OBVIOUS
<1>14. o \in Fields /\ Room(o) /\ Len(o.pdu) = m
  <2>1. Len(f) = Len(c.pdu) - GetTokenLength(c.pdu) + n /\ f[1] = c.pdu[1] /\ n # 0
    BY <1>1, <1>2, <1>3, <1>4, <1>5, <1>11
  <2>2. f \in Seq(Byte) /\ q \in {c.payloadPointer, Dangling}
    BY <1>11, <1>12
  <2>3. /\ WithToken(c, f, n, q) \in Fields /\ Room(WithToken(c, f, n, q))
        /\ Len(WithToken(c, f, n, q).pdu) = Len(f)
    BY <2>1, <2>2, TokenRoom
  <2>4. QED
    BY <1>11, <1>13, <2>3
<1>15. ShrinkForToken(c, t, l, m, mem) = Done(o, 0)
  BY <1>1, <1>2, <1>4, <1>6, <1>8, <1>10, <1>12, <1>13 DEF ShrinkForToken, WithToken
<1>16. Done(o, 0) \in Results /\ Done(o, 0).object = o
  BY <1>14, DoneIs
<1>17. ~(Len(o.pdu) > Len(c.pdu))
  BY <1>2, <1>3, <1>5, <1>14
<1>18. Keeps(c, Done(o, 0), mem)
  BY <1>14, <1>16, <1>17 DEF Keeps
<1>19. QED
  BY <1>1, <1>2, <1>3, <1>4, <1>5, <1>15, <1>18

\* Bytes replaced one for one, the token's length the same.
WithBytes(c, b) == [c EXCEPT !.pdu = b]

LEMMA SameRoom ==
    ASSUME NEW c \in Fields, Room(c), NEW b \in Seq(Byte), Len(b) = Len(c.pdu),
           GetTokenLength(b) = GetTokenLength(c.pdu)
    PROVE  /\ WithBytes(c, b) \in Fields /\ Room(WithBytes(c, b))
           /\ WithBytes(c, b).pdu = b /\ WithBytes(c, b).payloadPointer = c.payloadPointer
           /\ WithBytes(c, b).payloadLength = c.payloadLength
<1>1. PICK o : o = WithBytes(c, b) /\ o = [c EXCEPT !.pdu = b]
  BY DEF WithBytes
<1>2. o \in Fields /\ o.pdu = b /\ o.payloadPointer = c.payloadPointer /\ o.payloadLength = c.payloadLength
  BY <1>1 DEF Fields
<1>3. Room(o)
  BY <1>2 DEF Room
<1>4. QED
  BY <1>1, <1>2, <1>3

LEMMA SameSize ==
    ASSUME NEW c \in Fields, Room(c), NEW b \in Seq(Byte), Len(b) = Len(c.pdu),
           GetTokenLength(b) = GetTokenLength(c.pdu), NEW r \in {0, 1}, NEW mem
    PROVE  Keeps(c, Done(WithBytes(c, b), r), mem)
<1>1. PICK o : o = WithBytes(c, b) /\ o \in Fields /\ Room(o) /\ o.pdu = b
  BY SameRoom
<1>2. Done(o, r) \in Results /\ Done(o, r).object = o
  BY <1>1, DoneIs
<1>3. ~(Len(o.pdu) > Len(c.pdu))
  BY <1>1, FieldsTyped
<1>4. QED
  BY <1>1, <1>2, <1>3 DEF Keeps

LEMMA NothingKeeps ==
    ASSUME NEW c \in Fields, Room(c), NEW r \in {0, 1}, NEW mem
    PROVE  Keeps(c, Done(c, r), mem)
<1>1. Done(c, r) \in Results /\ Done(c, r).object = c
  BY DoneIs
<1>2. ~(Len(c.pdu) > Len(c.pdu))
  BY FieldsTyped
<1>3. QED
  BY <1>1, <1>2 DEF Keeps

\* Bytes written behind the header.
LEMMA BehindHeader ==
    ASSUME NEW b \in Seq(Byte), Len(b) >= 4, NEW i \in Int, i > 4, NEW s \in Seq(Byte)
    PROVE  /\ Overwrite(b, i, s) \in Seq(Byte) /\ Len(Overwrite(b, i, s)) = Len(b)
           /\ SameHeader(b, Overwrite(b, i, s))
<1>1. /\ Overwrite(b, i, s) \in Seq(Byte) /\ Len(Overwrite(b, i, s)) = Len(b)
      /\ \A j \in 1..Len(b) : j < i \/ j >= i + Len(s) => Overwrite(b, i, s)[j] = b[j]
  BY Overwritten
<1>2. \A j \in 1..4 : j \in 1..Len(b) /\ j < i
  BY LenProperties
<1>3. QED
  BY <1>1, <1>2 DEF SameHeader

LEMMA ResizedHeader ==
    ASSUME NEW b \in Seq(Byte), Len(b) >= 4, NEW n \in Nat, n >= 4
    PROVE  /\ Resize(b, n) \in Seq(Byte) /\ Len(Resize(b, n)) = n
           /\ SameHeader(b, Resize(b, n))
<1>1. /\ Resize(b, n) \in Seq(Byte) /\ Len(Resize(b, n)) = n
      /\ \A j \in 1..n : j <= Len(b) => Resize(b, n)[j] = b[j]
  BY Resized
<1>2. \A j \in 1..4 : j \in 1..n /\ j <= Len(b)
  BY LenProperties
<1>3. QED
  BY <1>1, <1>2 DEF SameHeader

LEMMA HeaderKept ==
    ASSUME NEW b, NEW f, SameHeader(b, f)
    PROVE  /\ GetTokenLength(f) = GetTokenLength(b)
           /\ \A g : SameHeader(f, g) => SameHeader(b, g)
<1>1. 1 \in 1..4
  OBVIOUS
<1>2. f[1] = b[1]
  BY <1>1 DEF SameHeader
<1>3. GetTokenLength(f) = GetTokenLength(b)
  BY <1>2 DEF GetTokenLength
<1>4. \A g : SameHeader(f, g) => SameHeader(b, g)
  BY DEF SameHeader
<1>5. QED
  BY <1>3, <1>4

LEMMA TokenSet ==
    ASSUME NEW c \in Fields, Room(c), Len(c.pdu) < 256, NEW t \in Seq(Byte), NEW mem \in Memories
    PROVE  Keeps(c, SetToken(c, t, mem), mem)
<1>1. PICK k \in 0..8 : k = GetTokenLength(c.pdu) /\ Len(c.pdu) >= 4 + k
  BY RoomIs
<1>2. PICK l \in Nat : l = Len(c.pdu) /\ l < 256 /\ l >= 4 + k /\ l % 256 = l
  BY <1>1, FieldsTyped, SMTT(30)
<1>3. PICK n \in Nat : n = Len(t)
  BY LenProperties
<1>4. CASE t = << >>
  <2>1. SetToken(c, t, mem) = Done(c, 1)
    BY <1>4 DEF SetToken
  <2>2. QED
    BY <2>1, NothingKeeps
<1>5. CASE t # << >> /\ n = k
  <2>1. PICK f : f = Overwrite(c.pdu, 5, t)
    OBVIOUS
  <2>2. f \in Seq(Byte) /\ Len(f) = Len(c.pdu) /\ SameHeader(c.pdu, f)
    BY <1>2, <2>1, FieldsTyped, BehindHeader
  <2>3. GetTokenLength(f) = GetTokenLength(c.pdu)
    BY <2>2, HeaderKept
  <2>4. SetToken(c, t, mem) = Done(WithBytes(c, f), 0)
    BY <1>1, <1>3, <1>5, <2>1 DEF SetToken, HeaderSize, WithBytes
  <2>5. QED
    BY <2>2, <2>3, <2>4, SameSize
<1>6. CASE t # << >> /\ n > k
  <2>1. l - k + n > l /\ n # k
    BY <1>6
  <2>2. SetToken(c, t, mem) = GrowForToken(c, t, l, l - k + n, mem)
    BY <1>1, <1>2, <1>3, <1>6, <2>1 DEF SetToken
  <2>3. QED
    BY <1>1, <1>2, <1>3, <1>6, <2>2, TokenGrown
<1>7. CASE t # << >> /\ n < k
  <2>1. ~(l - k + n > l) /\ n # k
    BY <1>7
  <2>2. SetToken(c, t, mem) = ShrinkForToken(c, t, l, l - k + n, mem)
    BY <1>1, <1>2, <1>3, <1>7, <2>1 DEF SetToken
  <2>3. QED
    BY <1>1, <1>2, <1>3, <1>7, <2>2, TokenShrunk
<1>8. QED
  BY <1>3, <1>4, <1>5, <1>6, <1>7

\* Memory for a payload: the header stays, and the object counts what it made room for.
Allocates(c, length, d, mem) ==
    /\ Keeps(c, d, mem) /\ SameHeader(c.pdu, d.object.pdu)
    /\ d.result = 0 => d.object.payloadPointer # NULL /\ d.object.payloadLength = length

LEMMA NothingAllocates ==
    ASSUME NEW c \in Fields, Room(c), NEW length, NEW r \in {0, 1},
           r = 0 => c.payloadPointer # NULL /\ c.payloadLength = length, NEW mem
    PROVE  Allocates(c, length, Done(c, r), mem)
<1>1. PICK d : d = Done(c, r) /\ d.object = c /\ d.result = r
  BY DoneIs
<1>2. Keeps(c, d, mem)
  BY <1>1, NothingKeeps
<1>3. SameHeader(c.pdu, d.object.pdu)
  BY <1>1 DEF SameHeader
<1>4. d.result = 0 => d.object.payloadPointer # NULL /\ d.object.payloadLength = length
  BY <1>1
<1>5. QED
  BY <1>1, <1>2, <1>3, <1>4 DEF Allocates

LEMMA NoneAllocated ==
    ASSUME NEW c \in Fields, Room(c), NEW length, NEW mem
    PROVE  Allocates(c, length, Done(c, 1), mem)
<1>1. PICK r \in {0, 1} : r = 1
  OBVIOUS
<1>2. r = 0 => c.payloadPointer # NULL /\ c.payloadLength = length
  BY <1>1
<1>3. Allocates(c, length, Done(c, r), mem)
  BY <1>2, NothingAllocates
<1>4. QED
  BY <1>1, <1>3

\* The object with its payload's place and length, whatever the bytes there are.
WithPayload(c, b, pointer, length) ==
    [c EXCEPT !.pdu = b, !.payloadPointer = pointer, !.payloadLength = length]

LEMMA PayloadRoom ==
    ASSUME NEW c \in Fields, Room(c), NEW b \in Seq(Byte), SameHeader(c.pdu, b),
           NEW pointer \in Pointers, pointer # NULL, NEW length \in Nat,
           Len(b) >= 5 + GetTokenLength(c.pdu) + length, NEW mem \in Memories,
           Len(b) > Len(c.pdu) => Len(b) <= mem.limit
    PROVE  Allocates(c, length, Done(WithPayload(c, b, pointer, length), 0), mem)
<1>1. PICK k \in 0..8 : k = GetTokenLength(c.pdu)
  BY RoomIs
<1>2. GetTokenLength(b) = k
  BY <1>1, HeaderKept
<1>3. PICK o : /\ o = WithPayload(c, b, pointer, length)
               /\ o = [c EXCEPT !.pdu = b, !.payloadPointer = pointer, !.payloadLength = length]
  BY DEF WithPayload
<1>4. pointer \in {NULL, Dangling} \cup Nat
  BY DEF Pointers
<1>5. o \in Fields /\ o.pdu = b /\ o.payloadPointer = pointer /\ o.payloadLength = length
  BY <1>3, <1>4 DEF Fields
<1>6. PICK l \in Nat : l = Len(b) /\ l >= 5 + k + length
  BY <1>1, LenProperties
<1>7. l >= 4 /\ l >= 4 + k
  BY <1>6
<1>8. Room(o)
  BY <1>2, <1>5, <1>6, <1>7 DEF Room
<1>9. PICK d : d = Done(o, 0) /\ d \in Results /\ d.object = o /\ d.result = 0
  BY <1>5, DoneIs
<1>10. Keeps(c, d, mem)
  BY <1>5, <1>8, <1>9 DEF Keeps
<1>11. QED
  BY <1>3, <1>5, <1>9, <1>10 DEF Allocates

LEMMA PayloadAllocated ==
    ASSUME NEW c \in Fields, Room(c), NEW length \in Nat, length # 0, NEW mem \in Memories
    PROVE  Allocates(c, length, MallocPayload(c, length, mem), mem)
<1>1. PICK k \in 0..8 : /\ k = GetTokenLength(c.pdu)
                        /\ Len(c.pdu) >= 4 + k
                        /\ c.payloadLength > 0 => Len(c.pdu) >= 5 + k + c.payloadLength
  BY RoomIs
<1>2. PICK b \in Seq(Byte) : b = c.pdu
  BY FieldsTyped
<1>3. PICK l \in Nat, p \in Nat : l = Len(b) /\ p = c.payloadLength
  BY <1>2, FieldsTyped
<1>4. l >= 4 + k /\ (p > 0 => l >= 5 + k + p)
  BY <1>1, <1>2, <1>3
<1>5. PICK g \in Int : g = length - p + (IF p = 0 THEN 1 ELSE 0)
  <2>1. length - p + (IF p = 0 THEN 1 ELSE 0) \in Int
    OBVIOUS
  <2>2. QED
    BY <2>1
<1>6. PICK m \in Nat : m = l + g /\ m >= 5 + k + length /\ (m > l => g > 0)
  <2>1. l + g \in Nat /\ l + g >= 5 + k + length /\ (l + g > l => g > 0)
    BY <1>4, <1>5
  <2>2. QED
    BY <2>1
<1>7. PICK r : r = Resize(b, m) /\ r \in Seq(Byte) /\ Len(r) = m /\ SameHeader(b, r)
  <2>1. Len(b) >= 4 /\ m >= 4
    BY <1>3, <1>4, <1>6
  <2>2. QED
    BY <2>1, ResizedHeader
<1>8. PICK w : w = Overwrite(r, l + 1, << Marker >>) /\ w \in Seq(Byte) /\ Len(w) = m /\ SameHeader(b, w)
  <2>1. << Marker >> \in Seq(Byte)
    BY DEF Marker, Byte
  <2>2. Len(r) >= 4 /\ l + 1 \in Int /\ l + 1 > 4
    BY <1>4, <1>6, <1>7
  <2>3. PICK w : w = Overwrite(r, l + 1, << Marker >>)
    OBVIOUS
  <2>4. w \in Seq(Byte) /\ Len(w) = Len(r) /\ SameHeader(r, w)
    BY <1>7, <2>1, <2>2, <2>3, BehindHeader
  <2>5. SameHeader(b, w)
    BY <1>7, <2>4, HeaderKept
  <2>6. QED
    BY <1>7, <2>3, <2>4, <2>5
<1>9. PICK x \in Pointers : x = l + 2 /\ x # NULL
  <2>1. l + 2 \in Pointers /\ l + 2 # NULL
    BY <1>4 DEF Pointers, NULL
  <2>2. QED
    BY <2>1
<1>10. MallocPayload(c, length, mem) =
          IF length = p THEN Done(c, IF c.payloadPointer = NULL THEN 1 ELSE 0)
          ELSE IF g > 0 /\ ~Fits(m, mem) THEN Done(c, 1)
          ELSE IF c.payloadPointer = NULL THEN Done(WithPayload(c, w, x, length), 0)
          ELSE Done(WithPayload(c, r, Repointed(c.payloadPointer, mem), length), 0)
  BY <1>2, <1>3, <1>5, <1>6, <1>7, <1>8, <1>9 DEF MallocPayload, WithPayload
<1>11. CASE length = p
  <2>1. CASE c.payloadPointer = NULL
    <3>1. MallocPayload(c, length, mem) = Done(c, 1)
      BY <1>10, <1>11, <2>1
    <3>2. QED
      BY <3>1, NoneAllocated
  <2>2. CASE c.payloadPointer # NULL
    <3>1. MallocPayload(c, length, mem) = Done(c, 0)
      BY <1>10, <1>11, <2>2
    <3>2. QED
      BY <1>3, <1>11, <2>2, <3>1, NothingAllocates
  <2>3. QED
    BY <2>1, <2>2
<1>12. CASE length # p /\ g > 0 /\ ~Fits(m, mem)
  <2>1. MallocPayload(c, length, mem) = Done(c, 1)
    BY <1>10, <1>12
  <2>2. QED
    BY <2>1, NoneAllocated
<1>13. CASE length # p /\ ~(g > 0 /\ ~Fits(m, mem))
  <2>1. m > l => m <= mem.limit
    BY <1>6, <1>13 DEF Fits
  <2>2. CASE c.payloadPointer = NULL
    <3>1. MallocPayload(c, length, mem) = Done(WithPayload(c, w, x, length), 0)
      BY <1>10, <1>13, <2>2
    <3>2. /\ SameHeader(c.pdu, w) /\ Len(w) >= 5 + GetTokenLength(c.pdu) + length
          /\ Len(w) > Len(c.pdu) => Len(w) <= mem.limit
      BY <1>1, <1>2, <1>3, <1>6, <1>8, <2>1
    <3>3. w \in Seq(Byte) /\ x # NULL
      BY <1>8, <1>9
    <3>4. Allocates(c, length, Done(WithPayload(c, w, x, length), 0), mem)
      BY <3>2, <3>3, PayloadRoom
    <3>5. QED
      BY <3>1, <3>4
  <2>3. CASE c.payloadPointer # NULL
    <3>1. PICK q : q = Repointed(c.payloadPointer, mem) /\ q \in {c.payloadPointer, Dangling}
      BY RepointedIs
    <3>2. q \in Pointers /\ q # NULL
      BY <2>3, <3>1 DEF Room, Pointers, NULL, Dangling
    <3>3. MallocPayload(c, length, mem) = Done(WithPayload(c, r, q, length), 0)
      BY <1>10, <1>13, <2>3, <3>1
    <3>4. /\ SameHeader(c.pdu, r) /\ Len(r) >= 5 + GetTokenLength(c.pdu) + length
          /\ Len(r) > Len(c.pdu) => Len(r) <= mem.limit
      BY <1>1, <1>2, <1>3, <1>6, <1>7, <2>1
    <3>5. r \in Seq(Byte)
      BY <1>7
    <3>6. Allocates(c, length, Done(WithPayload(c, r, q, length), 0), mem)
      BY <3>2, <3>4, <3>5, PayloadRoom
    <3>7. QED
      BY <3>3, <3>6
  <2>4. QED
    BY <2>2, <2>3
<1>14. QED
  BY <1>11, <1>12, <1>13

LEMMA PayloadSet ==
    ASSUME NEW c \in Fields, Room(c), NEW s \in Seq(Byte), NEW mem \in Memories
    PROVE  /\ Keeps(c, SetPayload(c, s, mem), mem)
           /\ SameHeader(c.pdu, SetPayload(c, s, mem).object.pdu)
<1>1. CASE s = << >>
  <2>1. SetPayload(c, s, mem) = Done(c, 1)
    BY <1>1 DEF SetPayload
  <2>2. Done(c, 1).object = c
    BY DoneIs
  <2>3. QED
    BY <2>1, <2>2, NothingKeeps DEF SameHeader
<1>2. CASE s # << >>
  <2>1. PICK n \in Nat : n = Len(s) /\ n # 0
    BY <1>2, LenProperties, EmptySeq
  <2>2. PICK d : d = MallocPayload(c, n, mem) /\ Allocates(c, n, d, mem)
    BY <2>1, PayloadAllocated
  <2>3. SetPayload(c, s, mem) =
           IF d.result = 1 \/ d.object.payloadPointer = Dangling THEN d
           ELSE Done(WithBytes(d.object, Overwrite(d.object.pdu, d.object.payloadPointer, s)), 0)
    BY <1>2, <2>1, <2>2 DEF SetPayload, WithBytes
  <2>4. Keeps(c, d, mem) /\ SameHeader(c.pdu, d.object.pdu) /\ d \in Results /\ Room(d.object)
    BY <2>2 DEF Allocates, Keeps
  <2>5. CASE d.result = 1 \/ d.object.payloadPointer = Dangling
    BY <2>3, <2>4, <2>5
  <2>6. CASE ~(d.result = 1 \/ d.object.payloadPointer = Dangling)
    <3>1. d.result = 0 /\ d.object \in Fields
      BY <2>4, <2>6 DEF Results
    <3>2. PICK o \in Fields : o = d.object /\ Room(o) /\ SameHeader(c.pdu, o.pdu)
      BY <2>4, <3>1
    <3>3. PICK p \in Nat : p = o.payloadPointer /\ p > 4
      BY <2>2, <2>6, <3>1, <3>2 DEF Allocates, Room, Pointers
    <3>4. o.pdu \in Seq(Byte) /\ Len(o.pdu) >= 4
      BY <3>2, FieldsTyped DEF Room
    <3>5. PICK f : f = Overwrite(o.pdu, p, s) /\ f \in Seq(Byte) /\ Len(f) = Len(o.pdu) /\ SameHeader(o.pdu, f)
      BY <3>3, <3>4, BehindHeader
    <3>6. GetTokenLength(f) = GetTokenLength(o.pdu) /\ SameHeader(c.pdu, f)
      BY <3>2, <3>5, HeaderKept
    <3>7. PICK e : e = WithBytes(o, f) /\ e \in Fields /\ Room(e) /\ e.pdu = f
      BY <3>2, <3>5, <3>6, SameRoom
    <3>8. SetPayload(c, s, mem) = Done(e, 0)
      BY <2>3, <2>6, <3>2, <3>3, <3>5, <3>7
    <3>9. Done(e, 0) \in Results /\ Done(e, 0).object = e
      BY <3>7, DoneIs
    <3>10. Len(e.pdu) > Len(c.pdu) => Len(e.pdu) <= mem.limit
      BY <2>4, <3>2, <3>5, <3>7 DEF Keeps
    <3>11. Keeps(c, Done(e, 0), mem)
      BY <3>7, <3>9, <3>10 DEF Keeps
    <3>12. QED
      BY <3>6, <3>7, <3>8, <3>9, <3>11
  <2>7. QED
    BY <2>5, <2>6
<1>3. QED
  BY <1>1, <1>2

-----------------------------------------------------------------------------
(***************************************************************************)
(* What validate() accepts: options that all fit, and something behind the *)
(* marker if there is one.                                                 *)
(***************************************************************************)
Cleared(c) == [c EXCEPT !.payloadPointer = NULL, !.payloadLength = 0]

ValidateFrom(c, w, q) ==
    IF q[1] > Len(c.pdu) THEN Done(Parsed(c, q[2], NULL), 1)
    ELSE IF c.pdu[q[1]] = Marker
         THEN IF q[1] < Len(c.pdu) THEN Done(Parsed(c, q[2], q[1] + 1), 1)
              ELSE Done(Cleared(c), 0)
    ELSE IF Unsound(c.pdu, q[1]) THEN Done(c, 0)
    ELSE w[<<q[1] + OptionSize(c.pdu, q[1]), q[2] + 1>>]

LEMMA SizeIsPositive ==
    ASSUME NEW b \in Seq(Byte), NEW i \in Nat
    PROVE  OptionSize(b, i) \in Nat /\ OptionSize(b, i) > 0
<1>1. PICK l \in Word : l = GetOptionValueLength(b, i)
  BY LengthIsWord
<1>2. PICK d : d = GetOptionDelta(b, i)
  OBVIOUS
<1>3. EncodedSize(d, l) \in Nat /\ EncodedSize(d, l) >= 1 + l
  BY SizeOfOption
<1>4. EncodedSize(d, l) > 0
  BY <1>3 DEF Word
<1>5. QED
  BY <1>1, <1>2, <1>3, <1>4 DEF OptionSize

LEMMA ParsedTyped ==
    ASSUME NEW c \in Fields, NEW count \in Nat, NEW at \in Nat, at <= Len(c.pdu) + 1
    PROVE  Parsed(c, count, at) \in Fields /\ Cleared(c) \in Fields
<1>1. (IF at = NULL THEN 0 ELSE Len(c.pdu) - at + 1) \in Nat
  BY FieldsTyped
<1>2. QED
  BY <1>1 DEF Parsed, Cleared, Fields, NULL

LEMMA ValidateExists ==
    ASSUME NEW c \in Fields
    PROVE  \E w \in [Positions -> Results] : w = [q \in Positions |-> ValidateFrom(c, w, q)]
<1> DEFINE F == [w \in [Positions -> Results] |-> [q \in Positions |-> ValidateFrom(c, w, q)]]
           size == WalkMeasure(c.pdu)
<1>1. PICK b \in Seq(Byte) : b = c.pdu /\ Len(b) \in Nat
  BY FieldsTyped
<1>2. ASSUME NEW w \in [Positions -> Results], NEW q \in Positions
      PROVE  ValidateFrom(c, w, q) \in Results
  <2>1. PICK i \in Nat, count \in Nat : i = q[1] /\ count = q[2]
    BY DEF Positions
  <2>2. CASE i > Len(b)
    <3>1. NULL \in Nat /\ NULL <= Len(c.pdu) + 1
      BY <1>1 DEF NULL
    <3>2. Done(Parsed(c, count, NULL), 1) \in Results
      BY <3>1, ParsedTyped, DoneIs
    <3>3. QED
      BY <1>1, <2>1, <2>2, <3>2 DEF ValidateFrom
  <2>3. CASE ~(i > Len(b))
    <3>1. i < Len(b) => Done(Parsed(c, count, i + 1), 1) \in Results
      <4> SUFFICES ASSUME i < Len(b)
                   PROVE  Done(Parsed(c, count, i + 1), 1) \in Results
        OBVIOUS
      <4>1. PICK at \in Nat : at = i + 1 /\ at <= Len(c.pdu) + 1
        BY <1>1
      <4>2. Parsed(c, count, at) \in Fields
        BY <4>1, ParsedTyped
      <4>3. QED
        BY <4>1, <4>2, DoneIs
    <3>2. Done(c, 0) \in Results
      BY DoneIs
    <3>3. Done(Cleared(c), 0) \in Results
      <4>1. 0 \in Nat /\ 0 <= Len(c.pdu) + 1
        BY <1>1
      <4>2. Cleared(c) \in Fields
        BY <4>1, ParsedTyped
      <4>3. QED
        BY <4>2, DoneIs
    <3>4. <<i + OptionSize(b, i), count + 1>> \in Positions
      <4>1. i + OptionSize(b, i) \in Nat /\ count + 1 \in Nat
        BY SizeIsPositive
      <4>2. QED
        BY <4>1 DEF Positions
    <3>5. w[<<i + OptionSize(b, i), count + 1>>] \in Results
      BY <3>4
    <3>6. QED
      BY <1>1, <2>1, <2>3, <3>1, <3>2, <3>3, <3>5 DEF ValidateFrom
  <2>4. QED
    BY <2>2, <2>3
<1>3. F \in [[Positions -> Results] -> [Positions -> Results]]
  BY <1>2
<1>4. size \in [Positions -> Nat] /\ \A q \in Positions : size[q] <= Len(b) + 1
  BY <1>1 DEF WalkMeasure, Positions
<1>5. Results # {}
  BY DoneIs
<1>6. ASSUME NEW f \in [Positions -> Results], NEW g \in [Positions -> Results], NEW q \in Positions,
             \A e \in Positions : size[e] < size[q] => f[e] = g[e]
      PROVE  F[f][q] = F[g][q]
  <2>1. F[f][q] = ValidateFrom(c, f, q) /\ F[g][q] = ValidateFrom(c, g, q)
    OBVIOUS
  <2>2. CASE q[1] > Len(b)
    BY <1>1, <2>1, <2>2 DEF ValidateFrom
  <2>3. CASE ~(q[1] > Len(b))
    <3>1. PICK i \in Nat, count \in Nat : i = q[1] /\ count = q[2]
      BY DEF Positions
    <3>2. PICK next \in Nat : next = i + OptionSize(b, i) /\ next > i
      <4>1. i + OptionSize(b, i) \in Nat /\ i + OptionSize(b, i) > i
        BY SizeIsPositive, SMTT(30)
      <4>2. QED
        BY <4>1
    <3> DEFINE e == <<next, count + 1>>
    <3>3. e \in Positions /\ e[1] = next
      BY DEF Positions
    <3> HIDE DEF e
    <3>4. size[e] < size[q]
      BY <1>1, <2>3, <3>1, <3>2, <3>3 DEF WalkMeasure, Positions
    <3>5. f[e] = g[e]
      BY <1>6, <3>3, <3>4
    <3>6. QED
      BY <1>1, <2>1, <2>3, <3>1, <3>2, <3>5 DEF ValidateFrom, e
  <2>4. QED
    BY <2>2, <2>3
<1>7. \E w \in [Positions -> Results] : w = F[w]
  <2> HIDE DEF F, size
  <2>1. PICK bound \in Nat : bound = Len(b) + 1
    BY <1>1
  <2>2. Recursive(Positions, Results, F, size, bound)
    BY <1>3, <1>4, <1>5, <1>6, <2>1 DEF Recursive
  <2>3. QED
    BY <2>2, Recursion
<1>8. QED
  BY <1>7

LEMMA ValidateUnfolds ==
    ASSUME NEW c, \E w : w = [q \in Positions |-> ValidateFrom(c, w, q)]
    PROVE  ValidateWalk(c) = [q \in Positions |-> ValidateFrom(c, ValidateWalk(c), q)]
  BY Zenon DEF ValidateWalk, ValidateFrom, Cleared, Positions

Acceptable(b, s, end) == (\A k \in 1..Len(s) : ~Unsound(b, s[k].at)) /\ end # Len(b)

Accepted(c, count, end) ==
    Done(Parsed(c, count, IF end > Len(c.pdu) THEN NULL ELSE end + 1), 1)

Verdicts(c, s, i, count) ==
    IF Acceptable(c.pdu, s, EndOf(s, i)) THEN {Accepted(c, count + Len(s), EndOf(s, i))}
    ELSE {Done(c, 0), Done(Cleared(c), 0)}

\* Behind the last option.
LEMMA WalkEnds ==
    ASSUME NEW c \in Fields, NEW i \in Nat, i > 0, AtEnd(c.pdu, i), NEW count \in Nat,
           NEW w, w = ValidateFrom(c, ValidateWalk(c), <<i, count>>)
    PROVE  w \in Verdicts(c, << >>, i, count)
<1>1. PICK b \in Seq(Byte) : b = c.pdu
  BY FieldsTyped
<1>2. PICK l \in Nat : l = Len(b) /\ DOMAIN b = 1..l
  BY <1>1, LenProperties
<1>3. /\ EndOf(<< >>, i) = i /\ Len(<< >>) = 0 /\ count + 0 = count
      /\ Acceptable(b, << >>, i) <=> i # l
  <2>1. Len(<< >>) = 0 /\ 1..0 = {}
    BY EmptySeq
  <2>2. QED
    BY <1>2, <2>1 DEF EndOf, Acceptable
<1>4. Verdicts(c, << >>, i, count) =
         IF i # l THEN {Accepted(c, count, i)} ELSE {Done(c, 0), Done(Cleared(c), 0)}
  BY <1>1, <1>3 DEF Verdicts
<1>5. CASE i > l
  <2>1. w = Done(Parsed(c, count, NULL), 1)
    BY <1>1, <1>2, <1>5 DEF ValidateFrom
  <2>2. Accepted(c, count, i) = Done(Parsed(c, count, NULL), 1)
    BY <1>1, <1>2, <1>5 DEF Accepted
  <2>3. QED
    BY <1>4, <1>5, <2>1, <2>2
<1>6. CASE i <= l
  <2>1. i \in DOMAIN b /\ ~(i > l)
    BY <1>2, <1>6
  <2>2. b[i] = Marker
    BY <1>1, <1>2, <2>1 DEF AtEnd, At
  <2>3. CASE i < l
    <3>1. w = Done(Parsed(c, count, i + 1), 1)
      BY <1>1, <1>2, <2>1, <2>2, <2>3 DEF ValidateFrom
    <3>2. Accepted(c, count, i) = Done(Parsed(c, count, i + 1), 1)
      BY <1>1, <1>2, <2>1 DEF Accepted
    <3>3. QED
      BY <1>4, <2>3, <3>1, <3>2
  <2>4. CASE i = l
    <3>1. w = Done(Cleared(c), 0)
      BY <1>1, <1>2, <2>1, <2>2, <2>4 DEF ValidateFrom
    <3>2. QED
      BY <1>4, <2>4, <3>1
  <2>5. QED
    BY <1>6, <2>3, <2>4
<1>7. QED
  BY <1>5, <1>6

LEMMA ValidateStep ==
    ASSUME NEW c \in Fields, NEW i \in Nat, i > 0, ~AtEnd(c.pdu, i), NEW p \in Nat, NEW s,
           Chain(c.pdu, i, p, s), NEW count \in Nat, NEW o, o = OptionHere(c.pdu, i, p),
           NEW w, w = ValidateFrom(c, ValidateWalk(c), <<i, count>>)
    PROVE  /\ Unsound(c.pdu, i) => w \in Verdicts(c, s, i, count)
           /\ ~Unsound(c.pdu, i) =>
                 /\ w = ValidateWalk(c)[<<o.next, count + 1>>]
                 /\ Verdicts(c, Tail(s), o.next, count + 1) = Verdicts(c, s, i, count)
<1>1. PICK b \in Seq(Byte) : b = c.pdu
  BY FieldsTyped
<1>2. PICK l \in Nat : l = Len(b) /\ DOMAIN b = 1..l
  BY <1>1, LenProperties
<1>3. i \in DOMAIN b /\ ~(i > l) /\ b[i] # Marker
  <2>1. i \in DOMAIN b /\ ~(i > l)
    BY <1>1, <1>2 DEF AtEnd
  <2>2. QED
    BY <1>1, <2>1 DEF AtEnd, At
<1>4. PICK t : /\ t = Tail(s) /\ s[1] = o /\ Chain(b, o.next, o.number, t)
               /\ Len(t) = Len(s) - 1 /\ EndOf(t, o.next) = EndOf(s, i)
               /\ \A k \in 1..Len(t) : t[k] = s[k + 1]
  <2>1. ~AtEnd(b, i) /\ Chain(b, i, p, s) /\ o = OptionHere(b, i, p)
    BY <1>1
  <2>2. Splits(b, i, s, o, Tail(s))
    BY <2>1, ChainSplits
  <2>3. QED
    BY <2>2 DEF Splits
<1>5. o \in Option /\ o.at = i /\ o.next = i + OptionSize(b, i)
  BY <1>1, OptionTyped DEF OptionHere, OptionAt, OptionSize
<1>6. PICK n \in Nat : n = Len(t)
  <2>1. o.next \in Nat /\ o.number \in Nat
    BY <1>5 DEF Option, Word
  <2>2. Len(t) \in Nat
    BY <1>4, <2>1, ChainTyped
  <2>3. QED
    BY <2>2
<1>7. Len(s) = n + 1
  <2>1. Len(s) \in Nat
    BY <1>1, ChainTyped
  <2>2. QED
    BY <1>4, <1>6, <2>1
<1>8. w = ValidateFrom(c, ValidateWalk(c), <<i, count>>)
  OBVIOUS
<1>9. w = IF Unsound(b, i) THEN Done(c, 0) ELSE ValidateWalk(c)[<<o.next, count + 1>>]
  BY <1>1, <1>2, <1>3, <1>5, <1>8 DEF ValidateFrom
<1>10. CASE Unsound(b, i)
  <2>1. 1 \in 1..Len(s) /\ s[1].at = i
    BY <1>4, <1>5, <1>7
  <2>2. ~Acceptable(b, s, EndOf(s, i))
    BY <1>10, <2>1 DEF Acceptable
  <2>3. Verdicts(c, s, i, count) = {Done(c, 0), Done(Cleared(c), 0)}
    BY <1>1, <2>2 DEF Verdicts
  <2>4. w \in Verdicts(c, s, i, count)
    BY <1>9, <1>10, <2>3
  <2>5. QED
    BY <1>1, <1>8, <1>10, <2>4
<1>11. CASE ~Unsound(b, i)
  <2>1. (\A k \in 1..Len(s) : ~Unsound(b, s[k].at)) <=> (\A k \in 1..Len(t) : ~Unsound(b, t[k].at))
    <3>1. ASSUME \A k \in 1..Len(t) : ~Unsound(b, t[k].at), NEW k \in 1..Len(s)
          PROVE  ~Unsound(b, s[k].at)
      <4>1. CASE k = 1
        BY <1>4, <1>5, <1>11, <4>1
      <4>2. CASE k # 1
        <5>1. k - 1 \in 1..Len(t) /\ (k - 1) + 1 = k
          BY <1>6, <1>7, <4>2
        <5>2. t[k - 1] = s[k]
          BY <1>4, <5>1
        <5>3. QED
          BY <3>1, <5>1, <5>2
      <4>3. QED
        BY <4>1, <4>2
    <3>2. ASSUME \A k \in 1..Len(s) : ~Unsound(b, s[k].at), NEW k \in 1..Len(t)
          PROVE  ~Unsound(b, t[k].at)
      <4>1. k + 1 \in 1..Len(s)
        BY <1>6, <1>7
      <4>2. QED
        BY <1>4, <3>2, <4>1
    <3>3. QED
      BY <3>1, <3>2
  <2>2. Acceptable(b, s, EndOf(s, i)) <=> Acceptable(b, t, EndOf(t, o.next))
    BY <1>4, <2>1 DEF Acceptable
  <2>3. count + Len(s) = (count + 1) + Len(t)
    BY <1>6, <1>7
  <2>4. Verdicts(c, t, o.next, count + 1) = Verdicts(c, s, i, count)
    BY <1>1, <1>4, <2>2, <2>3 DEF Verdicts
  <2>5. QED
    BY <1>1, <1>4, <1>8, <1>9, <1>11, <2>4
<1>12. QED
  BY <1>1, <1>10, <1>11

LEMMA WalkValidates ==
    ASSUME NEW c \in Fields
    PROVE  \A i, p, count \in Nat : \A s : i > 0 /\ Chain(c.pdu, i, p, s) =>
              ValidateWalk(c)[<<i, count>>] \in Verdicts(c, s, i, count)
<1>1. PICK b \in Seq(Byte) : b = c.pdu
  BY FieldsTyped
<1>2. PICK v : v = ValidateWalk(c)
  OBVIOUS
<1>3. v = [q \in Positions |-> ValidateFrom(c, ValidateWalk(c), q)]
  BY <1>2, ValidateExists, ValidateUnfolds
<1>4. ASSUME NEW i \in Nat, NEW count \in Nat
      PROVE  v[<<i, count>>] = ValidateFrom(c, ValidateWalk(c), <<i, count>>)
  <2>1. <<i, count>> \in Positions
    BY DEF Positions
  <2>2. QED
    BY <1>3, <2>1
<1> DEFINE T == {i \in Nat : i > 0 => \A p, count \in Nat : \A s : Chain(b, i, p, s) =>
                    v[<<i, count>>] \in Verdicts(c, s, i, count)}
<1>5. ASSUME NEW i \in Nat, AtEnd(b, i)
      PROVE  i \in T
  <2> SUFFICES ASSUME i > 0, NEW p \in Nat, NEW count \in Nat, NEW s, Chain(b, i, p, s)
               PROVE  v[<<i, count>>] \in Verdicts(c, s, i, count)
    OBVIOUS
  <2>1. s = << >>
    BY <1>5, EmptyChain
  <2>2. PICK w : w = ValidateFrom(c, ValidateWalk(c), <<i, count>>)
    OBVIOUS
  <2>3. w \in Verdicts(c, << >>, i, count)
    BY <1>1, <1>5, <2>2, WalkEnds
  <2>4. QED
    BY <1>4, <2>1, <2>2, <2>3
<1>6. ASSUME NEW i \in Nat, ~AtEnd(b, i), \A j \in Nat : j > i => j \in T
      PROVE  i \in T
  <2> SUFFICES ASSUME i > 0, NEW p \in Nat, NEW count \in Nat, NEW s, Chain(b, i, p, s)
               PROVE  v[<<i, count>>] \in Verdicts(c, s, i, count)
    OBVIOUS
  <2>1. PICK o \in Option : o = OptionHere(b, i, p) /\ o.next > i
    BY OptionTyped
  <2>2. o.next \in Nat /\ o.number \in Nat /\ o.next > 0 /\ count + 1 \in Nat
    BY <2>1 DEF Option, Word
  <2>3. Chain(b, o.next, o.number, Tail(s))
    BY <1>6, <2>1, ChainSplits DEF Splits
  <2>4. v[<<o.next, count + 1>>] \in Verdicts(c, Tail(s), o.next, count + 1)
    BY <1>6, <2>1, <2>2, <2>3
  <2>5. PICK w : w = ValidateFrom(c, ValidateWalk(c), <<i, count>>)
    OBVIOUS
  <2>6. /\ Unsound(b, i) => w \in Verdicts(c, s, i, count)
        /\ ~Unsound(b, i) => /\ w = v[<<o.next, count + 1>>]
                             /\ Verdicts(c, Tail(s), o.next, count + 1) = Verdicts(c, s, i, count)
    <3>1. ~AtEnd(c.pdu, i) /\ Chain(c.pdu, i, p, s) /\ o = OptionHere(c.pdu, i, p)
      BY <1>1, <1>6, <2>1
    <3>2. /\ Unsound(c.pdu, i) => w \in Verdicts(c, s, i, count)
          /\ ~Unsound(c.pdu, i) =>
                /\ w = ValidateWalk(c)[<<o.next, count + 1>>]
                /\ Verdicts(c, Tail(s), o.next, count + 1) = Verdicts(c, s, i, count)
      BY <2>5, <3>1, ValidateStep
    <3>3. QED
      BY <1>1, <1>2, <3>2, SMTT(30)
  <2>7. QED
    BY <1>4, <2>4, <2>5, <2>6
<1>7. Nat \subseteq T
  <2>1. PICK bound \in Nat : bound = Len(b)
    BY LenProperties
  <2>2. \A i \in Nat : i > bound => i \in T
    BY <1>5, <2>1 DEF AtEnd
  <2>3. \A i \in Nat : i <= bound /\ (\A j \in Nat : j > i => j \in T) => i \in T
    BY <1>5, <1>6
  <2> HIDE DEF T
  <2>4. QED
    BY <2>2, <2>3, Downward
<1>8. QED
  BY <1>1, <1>2, <1>7

HeaderSound(b) ==
    /\ Len(b) >= 4 /\ GetTokenLength(b) <= 8 /\ Len(b) >= 4 + GetTokenLength(b)
    /\ GetCode(b) \in ValidCodes

\* An object as validate() leaves it: the bytes untouched, and the options and the
\* payload of an accepted message counted.
Validated(c, d) ==
    /\ d \in Results /\ d.object.pdu = c.pdu
    /\ d.object.payloadPointer \in Pointers
    /\ d.result = 1 => Room(d.object) /\ d.object.numOptions = Len(OptionsOf(c.pdu))

LEMMA ValidateIs ==
    ASSUME NEW c \in Fields
    PROVE  /\ ~HeaderSound(c.pdu) => Validate(c) = Done(c, 0)
           /\ HeaderSound(c.pdu) /\ FirstOption(c.pdu) = Len(c.pdu) + 1 =>
                 Validate(c) = Done([c EXCEPT !.numOptions = 0, !.payloadLength = 0], 1)
           /\ HeaderSound(c.pdu) /\ FirstOption(c.pdu) # Len(c.pdu) + 1 =>
                 Validate(c) \in Verdicts(c, OptionsOf(c.pdu), FirstOption(c.pdu), 0)
<1>1. PICK b \in Seq(Byte) : b = c.pdu
  BY FieldsTyped
<1>2. PICK l \in Nat : l = Len(b)
  BY LenProperties
<1>3. PICK k : k = GetTokenLength(b) /\ (l > 0 => k \in 0..15)
  BY <1>2, FirstOptionIs
<1>4. HeaderSound(b) <=>
         ~(l < HeaderSize \/ k > 8 \/ HeaderSize + k > l \/ GetCode(b) \notin ValidCodes)
  <2>1. CASE l < 4
    BY <1>2, <2>1 DEF HeaderSound, HeaderSize
  <2>2. CASE l >= 4
    <3>1. k \in 0..15
      BY <1>3, <2>2
    <3>2. (l >= 4 + k) <=> ~(4 + k > l)
      BY <3>1
    <3>3. (k <= 8) <=> ~(k > 8)
      BY <3>1
    <3>4. QED
      BY <1>2, <1>3, <2>2, <3>2, <3>3 DEF HeaderSound, HeaderSize
  <2>3. QED
    BY <2>1, <2>2
<1>5. Validate(c) =
         IF ~HeaderSound(b) THEN Done(c, 0)
         ELSE IF FirstOption(b) = Len(b) + 1 THEN Done([c EXCEPT !.numOptions = 0, !.payloadLength = 0], 1)
         ELSE ValidateWalk(c)[<<FirstOption(b), 0>>]
  BY <1>1, <1>2, <1>3, <1>4 DEF Validate, ValidateOptions
<1>6. ASSUME HeaderSound(b)
      PROVE  ValidateWalk(c)[<<FirstOption(b), 0>>] \in Verdicts(c, OptionsOf(b), FirstOption(b), 0)
  <2>1. Len(b) > 0
    BY <1>2, <1>6 DEF HeaderSound
  <2>2. PICK i \in Nat : i = FirstOption(b) /\ i > 0
    BY <2>1, FirstOptionIs
  <2>3. PICK s : s = OptionsOf(b) /\ Chain(b, i, 0, s)
    BY <2>1, <2>2, OptionsAreChain
  <2>4. ValidateWalk(c)[<<i, 0>>] \in Verdicts(c, s, i, 0)
    BY <1>1, <2>2, <2>3, WalkValidates
  <2>5. QED
    BY <2>2, <2>3, <2>4
<1>7. QED
  BY <1>1, <1>5, <1>6

LEMMA VerdictIs ==
    ASSUME NEW c \in Fields, c.payloadPointer \in Pointers, HeaderSound(c.pdu), NEW d,
           d \in Verdicts(c, OptionsOf(c.pdu), FirstOption(c.pdu), 0)
    PROVE  Validated(c, d)
<1>1. PICK b \in Seq(Byte) : b = c.pdu
  BY FieldsTyped
<1>2. PICK l \in Nat : l = Len(b) /\ l >= 4 /\ l > 0
  BY <1>1, LenProperties DEF HeaderSound
<1>3. PICK k \in 0..8 : k = GetTokenLength(b) /\ l >= 4 + k
  <2>1. GetTokenLength(b) \in 0..15
    BY <1>2, FirstOptionIs
  <2>2. GetTokenLength(b) <= 8 /\ l >= 4 + GetTokenLength(b)
    BY <1>1, <1>2 DEF HeaderSound
  <2>3. QED
    BY <2>1, <2>2
<1>4. PICK i \in Nat : i = FirstOption(b) /\ i = 5 + k
  BY <1>2, <1>3, FirstOptionIs
<1>5. PICK s : s = OptionsOf(b) /\ Chain(b, i, 0, s)
  BY <1>2, <1>4, OptionsAreChain
<1>6. PICK end \in Nat, n \in Nat : end = EndOf(s, i) /\ n = Len(s) /\ end >= i
  <2>1. EndOf(s, i) \in Nat /\ Len(s) \in Nat
    BY <1>5, ChainTyped
  <2>2. EndOf(s, i) >= i
    BY <1>5, <2>1, ChainAscends
  <2>3. QED
    BY <2>1, <2>2
<1>7. Verdicts(c, s, i, 0) =
         IF Acceptable(b, s, end) THEN {Accepted(c, n, end)} ELSE {Done(c, 0), Done(Cleared(c), 0)}
  <2>1. 0 + n = n
    OBVIOUS
  <2>2. QED
    BY <1>1, <1>6, <2>1 DEF Verdicts
<1>8. CASE d = Done(c, 0)
  <2>1. d \in Results /\ d.object = c /\ d.result = 0
    BY <1>8, DoneIs
  <2>2. QED
    BY <2>1 DEF Validated
<1>9. CASE d = Done(Cleared(c), 0)
  <2>1. 0 \in Nat /\ 0 <= Len(c.pdu) + 1
    BY <1>1, <1>2
  <2>2. PICK o \in Fields : o = Cleared(c)
    BY <2>1, ParsedTyped
  <2>3. o.pdu = c.pdu /\ o.payloadPointer = NULL
    BY <2>2 DEF Cleared, Fields
  <2>4. d \in Results /\ d.object = o /\ d.result = 0
    BY <1>9, <2>2, DoneIs
  <2>5. QED
    BY <2>3, <2>4 DEF Validated, Pointers
<1>10. CASE d = Accepted(c, n, end) /\ Acceptable(b, s, end)
  <2>1. PICK at \in Nat : /\ at = IF end > l THEN NULL ELSE end + 1
                          /\ at <= l + 1 /\ (at # NULL => end <= l /\ at = end + 1)
    <3>1. CASE end > l
      <4>1. PICK at \in Nat : at = 0
        OBVIOUS
      <4>2. QED
        BY <3>1, <4>1 DEF NULL
    <3>2. CASE ~(end > l)
      <4>1. PICK at \in Nat : at = end + 1
        OBVIOUS
      <4>2. QED
        BY <3>2, <4>1 DEF NULL
    <3>3. QED
      BY <3>1, <3>2
  <2>2. PICK o : o = Parsed(c, n, at)
    OBVIOUS
  <2>3. o \in Fields
    BY <1>1, <1>2, <2>1, <2>2, ParsedTyped
  <2>4. /\ o.pdu = b /\ o.numOptions = n /\ o.payloadPointer = at
        /\ o.payloadLength = IF at = NULL THEN 0 ELSE l - at + 1
    BY <1>1, <1>2, <2>2 DEF Parsed, Fields
  <2>5. d \in Results /\ d.object = o /\ d.result = 1
    BY <1>1, <1>2, <1>10, <2>1, <2>2, <2>3, DoneIs DEF Accepted
  <2>6. at \in Pointers
    BY <1>4, <1>6, <2>1 DEF Pointers
  <2>7. PICK p \in Nat : p = o.payloadLength
    BY <2>3, FieldsTyped
  <2>8. p > 0 => l >= 5 + k + p
    <3>1. CASE at = NULL
      BY <2>4, <2>7, <3>1
    <3>2. CASE at # NULL
      <4>1. p = l - end
        BY <2>1, <2>4, <2>7, <3>2
      <4>2. QED
        BY <1>4, <1>6, <4>1
    <3>3. QED
      BY <3>1, <3>2
  <2>9. Room(o)
    BY <1>2, <1>3, <2>4, <2>6, <2>7, <2>8 DEF Room
  <2>10. QED
    BY <1>1, <1>5, <1>6, <2>4, <2>5, <2>6, <2>9 DEF Validated
<1>11. QED
  BY <1>1, <1>4, <1>5, <1>7, <1>8, <1>9, <1>10

LEMMA ValidateValidates ==
    ASSUME NEW c \in Fields, c.payloadPointer \in Pointers
    PROVE  Validated(c, Validate(c))
<1>1. CASE ~HeaderSound(c.pdu)
  <2>1. Validate(c) = Done(c, 0)
    BY <1>1, ValidateIs
  <2>2. Done(c, 0) \in Results /\ Done(c, 0).object = c /\ Done(c, 0).result = 0
    BY DoneIs
  <2>3. QED
    BY <2>1, <2>2 DEF Validated
<1>2. CASE HeaderSound(c.pdu) /\ FirstOption(c.pdu) # Len(c.pdu) + 1
  <2>1. PICK d : d = Validate(c) /\ d \in Verdicts(c, OptionsOf(c.pdu), FirstOption(c.pdu), 0)
    BY <1>2, ValidateIs
  <2>2. QED
    BY <1>2, <2>1, VerdictIs
<1>3. CASE HeaderSound(c.pdu) /\ FirstOption(c.pdu) = Len(c.pdu) + 1
  <2>1. PICK o : o = [c EXCEPT !.numOptions = 0, !.payloadLength = 0]
    OBVIOUS
  <2>2. /\ o \in Fields /\ o.pdu = c.pdu /\ o.numOptions = 0 /\ o.payloadLength = 0
        /\ o.payloadPointer = c.payloadPointer
    BY <2>1 DEF Fields
  <2>3. PICK d : d = Validate(c) /\ d = Done(o, 1) /\ d \in Results /\ d.object = o /\ d.result = 1
    BY <1>3, <2>1, <2>2, ValidateIs, DoneIs
  <2>4. Room(o)
    BY <1>3, <2>2 DEF Room, HeaderSound
  <2>5. Len(OptionsOf(c.pdu)) = 0
    <3>1. PICK b \in Seq(Byte) : b = c.pdu
      BY FieldsTyped
    <3>2. Len(b) > 0 /\ Len(b) \in Nat
      BY <1>3, <3>1, LenProperties DEF HeaderSound
    <3>3. PICK i \in Nat : i = FirstOption(b) /\ i > Len(b)
      BY <1>3, <3>1, <3>2, FirstOptionIs
    <3>4. PICK s : s = OptionsOf(b) /\ Chain(b, i, 0, s)
      BY <3>2, <3>3, OptionsAreChain
    <3>5. AtEnd(b, i)
      BY <3>3 DEF AtEnd
    <3>6. s = << >>
      BY <3>4, <3>5, EmptyChain
    <3>7. QED
      BY <3>1, <3>4, <3>6, EmptySeq
  <2>6. QED
    BY <2>2, <2>3, <2>4, <2>5 DEF Validated
<1>4. QED
  BY <1>1, <1>2, <1>3

-----------------------------------------------------------------------------
(* The fields of the header. *)

SameToken(b, f) == f \in Seq(Byte) /\ Len(f) = Len(b) /\ GetTokenLength(f) = GetTokenLength(b)

LEMMA FirstByteSet ==
    ASSUME NEW b \in Seq(Byte), Len(b) > 0, NEW y \in Byte, y % 16 = b[1] % 16
    PROVE  SameToken(b, [b EXCEPT ![1] = y])
<1>1. 1 \in 1..Len(b)
  BY LenProperties
<1>2. PICK f : f = [b EXCEPT ![1] = y]
  OBVIOUS
<1>3. f \in Seq(Byte) /\ Len(f) = Len(b) /\ f[1] = y
  BY <1>1, <1>2, Replaced
<1>4. QED
  BY <1>2, <1>3 DEF SameToken, GetTokenLength

LEMMA VersionSet ==
    ASSUME NEW b \in Seq(Byte), Len(b) > 0, NEW v \in 0..3
    PROVE  SameToken(b, SetVersion(b, v))
<1>1. PICK x \in Byte : x = b[1]
  BY LenProperties, ElementOfSeq
<1>2. PICK y \in Byte : y = v * 64 + (x % 64) /\ y % 16 = x % 16
  <2>1. v * 64 + (x % 64) \in Byte /\ (v * 64 + (x % 64)) % 16 = x % 16
    BY SMTT(30) DEF Byte
  <2>2. QED
    BY <2>1
<1>3. SetVersion(b, v) = [b EXCEPT ![1] = y]
  BY <1>1, <1>2 DEF SetVersion
<1>4. SameToken(b, [b EXCEPT ![1] = y])
  BY <1>1, <1>2, FirstByteSet
<1>5. QED
  BY <1>3, <1>4

HeaderTypes == {0, 16, 32, 48}

LEMMA TypeSet ==
    ASSUME NEW b \in Seq(Byte), Len(b) > 0, NEW t \in HeaderTypes
    PROVE  SameToken(b, SetType(b, t))
<1>1. PICK x \in Byte : x = b[1]
  BY LenProperties, ElementOfSeq
<1>2. PICK y \in Byte : y = (x \div 64) * 64 + t + (x % 16) /\ y % 16 = x % 16
  <2>1. x \div 64 \in 0..3 /\ x % 16 \in 0..15
    BY DEF Byte
  <2>2. PICK h \in 0..3, l \in 0..15 : h = x \div 64 /\ l = x % 16
    BY <2>1
  <2>3. h * 64 + t + l \in Byte /\ (h * 64 + t + l) % 16 = l
    BY DEF Byte, HeaderTypes
  <2>4. QED
    BY <2>2, <2>3
<1>3. SetType(b, t) = [b EXCEPT ![1] = y]
  BY <1>1, <1>2 DEF SetType
<1>4. SameToken(b, [b EXCEPT ![1] = y])
  BY <1>1, <1>2, FirstByteSet
<1>5. QED
  BY <1>3, <1>4

LEMMA CodeSet ==
    ASSUME NEW b \in Seq(Byte), Len(b) > 1, NEW code \in Byte
    PROVE  SameToken(b, SetCode(b, code)) /\ SetCode(b, code)[2] = code
<1>1. PICK f : f = [b EXCEPT ![2] = code]
  OBVIOUS
<1>2. 1 \in 1..Len(b) /\ 2 \in 1..Len(b) /\ 1 # 2
  BY LenProperties
<1>3. f \in Seq(Byte) /\ Len(f) = Len(b) /\ f[1] = b[1] /\ f[2] = code
  BY <1>1, <1>2, Replaced
<1>4. QED
  BY <1>1, <1>3 DEF SetCode, SameToken, GetTokenLength

LEMMA MessageIDSet ==
    ASSUME NEW b \in Seq(Byte), Len(b) >= 4, NEW id \in Word
    PROVE  SameToken(b, SetMessageID(b, id)) /\ GetMessageID(SetMessageID(b, id)) = id
<1>1. PICK s \in Seq(Byte) : s = TwoBytes(id) /\ Len(s) = 2
  BY TwoBytesAreBytes
<1>2. PICK f : f = SetMessageID(b, id) /\ f = Overwrite(b, 3, s)
  BY <1>1 DEF SetMessageID
<1>3. /\ f \in Seq(Byte) /\ Len(f) = Len(b)
      /\ \A j \in 1..Len(b) : 3 <= j /\ j < 3 + Len(s) => f[j] = s[j - 3 + 1]
      /\ \A j \in 1..Len(b) : j < 3 \/ j >= 3 + Len(s) => f[j] = b[j]
  BY <1>2, Overwritten
<1>4. 1 \in 1..Len(b) /\ 3 \in 1..Len(b) /\ 4 \in 1..Len(b)
  BY LenProperties
<1>5. f[1] = b[1] /\ f[3] = s[1] /\ f[4] = s[2]
  BY <1>1, <1>3, <1>4
<1>6. At(f, 3) = s[1] /\ At(f, 3 + 1) = s[2]
  BY <1>3, <1>4, <1>5, LenProperties DEF At
<1>7. FromTwoBytes(f, 3) = id
  BY <1>1, <1>3, <1>6, TwoBytesRead
<1>8. QED
  BY <1>2, <1>3, <1>5, <1>7 DEF SameToken, GetTokenLength, GetMessageID

\* A new or reset object.
LEMMA NewRoom ==
    /\ New \in Fields /\ Room(New) /\ Len(New.pdu) = 4
    /\ Blank \in Fields /\ Room(Blank) /\ Len(Blank.pdu) = 4
<1>1. PICK z \in Seq(Byte) : z = <<0, 0, 0, 0>> /\ Len(z) = 4 /\ z[1] = 0
  <2>1. PICK zero \in Byte : zero = 0
    BY DEF Byte
  <2>2. <<zero, zero, zero, zero>> \in Seq(Byte)
    OBVIOUS
  <2>3. QED
    BY <2>1, <2>2
<1>2. GetTokenLength(z) = 0
  BY <1>1 DEF GetTokenLength
<1>3. PICK f : f = SetVersion(z, 1) /\ f \in Seq(Byte) /\ Len(f) = 4 /\ GetTokenLength(f) = 0
  <2>1. PICK v \in 0..3 : v = 1
    OBVIOUS
  <2>2. Len(z) > 0
    BY <1>1
  <2>3. SameToken(z, SetVersion(z, v))
    BY <2>2, VersionSet
  <2>4. QED
    BY <1>1, <1>2, <2>1, <2>3 DEF SameToken
<1>4. /\ Blank \in Fields /\ Blank.pdu = z /\ Blank.payloadPointer = NULL /\ Blank.payloadLength = 0
  BY <1>1 DEF Blank, Fields, Word, NULL
<1>5. New \in Fields /\ New.pdu = f /\ New.payloadPointer = NULL /\ New.payloadLength = 0
  BY <1>1, <1>3, <1>4 DEF New, Fields
<1>6. NULL \in Pointers
  BY DEF Pointers
<1>7. Room(Blank)
  BY <1>1, <1>2, <1>4, <1>6 DEF Room
<1>8. Room(New)
  <2>1. New = WithBytes(Blank, f)
    BY <1>1, <1>3, <1>4 DEF New, WithBytes
  <2>2. Len(f) = Len(Blank.pdu) /\ GetTokenLength(f) = GetTokenLength(Blank.pdu)
    BY <1>1, <1>2, <1>3, <1>4
  <2>3. QED
    BY <1>3, <1>4, <1>7, <2>1, <2>2, SameRoom
<1>9. QED
  BY <1>1, <1>3, <1>4, <1>5, <1>7, <1>8

-----------------------------------------------------------------------------
(* What is written is what is read. *)

\* The bytes e stand in the message b from position i on.
Holds(b, i, e) == i + Len(e) - 1 <= Len(b) /\ \A j \in 1..Len(e) : b[i + j - 1] = e[j]

Appends(u, s, t) ==
    /\ u \in Seq(Byte) /\ Len(u) = Len(s) + Len(t)
    /\ \A j \in 1..Len(s) : u[j] = s[j]
    /\ \A j \in 1..Len(t) : u[Len(s) + j] = t[j]

LEMMA Appended ==
    ASSUME NEW s \in Seq(Byte), NEW t \in Seq(Byte)
    PROVE  Appends(s \o t, s, t)
<1>1. /\ s \o t \in Seq(Byte) /\ Len(s \o t) = Len(s) + Len(t)
      /\ \A j \in 1..(Len(s) + Len(t)) : (s \o t)[j] = IF j <= Len(s) THEN s[j] ELSE t[j - Len(s)]
  BY ConcatProperties
<1>2. PICK m \in Nat, n \in Nat : m = Len(s) /\ n = Len(t)
  BY LenProperties
<1>3. \A j \in 1..m : (s \o t)[j] = s[j]
  BY <1>1, <1>2
<1>4. \A j \in 1..n : (s \o t)[m + j] = t[j]
  <2> TAKE j \in 1..n
  <2>1. m + j \in 1..(m + n) /\ ~(m + j <= m) /\ m + j - m = j
    OBVIOUS
  <2>2. QED
    BY <1>1, <1>2, <2>1
<1>5. QED
  BY <1>1, <1>2, <1>3, <1>4 DEF Appends

\* Header, extensions and value of the option e.
Encoding(e, delta, value, n, x, y) ==
    /\ e \in Seq(Byte) /\ Len(e) = 1 + x + y + n /\ EncodedSize(delta, n) = 1 + x + y + n
    /\ e[1] = Nibble(delta) * 16 + Nibble(n)
    /\ \A j \in 1..x : e[1 + j] = Extension(delta)[j]
    /\ \A j \in 1..y : e[1 + x + j] = Extension(n)[j]
    /\ \A j \in 1..n : e[1 + x + y + j] = value[j]

LEMMA EncodedBytes ==
    ASSUME NEW delta \in Word, NEW value \in Seq(Byte), NEW n \in Word, n = Len(value),
           NEW x, x = ComputeExtraBytes(delta), NEW y, y = ComputeExtraBytes(n)
    PROVE  Encoding(EncodeOption(delta, value), delta, value, n, x, y)
<1>1. x \in Nat /\ y \in Nat
  BY ExtraBytes
<1>2. PICK e : e = EncodeOption(delta, value)
  OBVIOUS
<1>3. n \in Nat
  BY DEF Word
<1>4. PICK d, l : d = Extension(delta) /\ l = Extension(n)
  OBVIOUS
<1>5. d \in Seq(Byte) /\ l \in Seq(Byte) /\ x = Len(d) /\ y = Len(l)
  BY <1>4, <1>1, Extended
<1>6. PICK h \in Byte : h = Nibble(delta) * 16 + Nibble(n)
  <2>1. Nibble(delta) \in 0..14 /\ Nibble(n) \in 0..14
    BY Extended
  <2>2. Nibble(delta) \in 0..15 /\ Nibble(n) \in 0..15
    BY <2>1
  <2>3. Nibble(delta) * 16 + Nibble(n) \in Byte
    BY <2>2, HeaderByte
  <2>4. QED
    BY <2>3
<1>7. PICK s1 : s1 = << h >>
  OBVIOUS
<1>8. s1 \in Seq(Byte) /\ 1 = Len(s1) /\ s1[1] = h
  BY <1>7
<1>9. PICK s2 : s2 = s1 \o d
  OBVIOUS
<1>10. /\ s2 \in Seq(Byte) /\ Len(s2) = 1 + x /\ \A j \in 1..1 : s2[j] = s1[j]
       /\ \A j \in 1..x : s2[1 + j] = d[j]
  <2>1. Appends(s2, s1, d)
    BY <1>5, <1>8, <1>9, Appended
  <2>2. QED
    BY <1>5, <1>8, <2>1 DEF Appends
<1>11. PICK m \in Nat : m = 1 + x
  BY <1>1
<1>12. PICK s3 : s3 = s2 \o l
  OBVIOUS
<1>13. /\ s3 \in Seq(Byte) /\ Len(s3) = m + y /\ \A j \in 1..m : s3[j] = s2[j]
       /\ \A j \in 1..y : s3[m + j] = l[j]
  <2>1. m = Len(s2)
    BY <1>10, <1>11
  <2>2. QED
    <3>1. Appends(s3, s2, l)
      BY <1>5, <1>10, <1>12, Appended
    <3>2. QED
      BY <1>5, <2>1, <3>1 DEF Appends
<1>14. PICK k \in Nat : k = m + y
  BY <1>11, <1>1
<1>15. e = s3 \o value
  BY <1>4, <1>6, <1>7, <1>9, <1>12, <1>2 DEF EncodeOption
<1>16. /\ e \in Seq(Byte) /\ Len(e) = k + n /\ \A j \in 1..k : e[j] = s3[j]
       /\ \A j \in 1..n : e[k + j] = value[j]
  <2>1. k = Len(s3)
    BY <1>13, <1>14
  <2>2. QED
    <3>1. Appends(e, s3, value)
      BY <1>13, <1>15, Appended
    <3>2. QED
      BY <2>1, <3>1 DEF Appends
<1>17. EncodedSize(delta, n) = 1 + x + y + n
  BY DEF EncodedSize
<1>18. e[1] = h
  <2>1. 1 \in 1..1 /\ 1 \in 1..m /\ 1 \in 1..k
    BY <1>3, <1>11, <1>14, <1>1, SMTT(30)
  <2>2. QED
    BY <1>8, <1>10, <1>13, <1>16, <2>1
<1>19. \A j \in 1..x : e[1 + j] = d[j]
  <2> TAKE j \in 1..x
  <2>1. 1 + j \in 1..m /\ 1 + j \in 1..k
    BY <1>3, <1>11, <1>14, <1>1, SMTT(30)
  <2>2. QED
    BY <1>10, <1>13, <1>16, <2>1
<1>20. \A j \in 1..y : e[1 + x + j] = l[j]
  <2> TAKE j \in 1..y
  <2>1. m + j \in 1..k /\ m + j = 1 + x + j
    BY <1>3, <1>11, <1>14, <1>1, SMTT(30)
  <2>2. QED
    BY <1>13, <1>16, <2>1
<1>21. \A j \in 1..n : e[1 + x + y + j] = value[j]
  <2> TAKE j \in 1..n
  <2>1. k + j = 1 + x + y + j
    BY <1>3, <1>11, <1>14, <1>1
  <2>2. QED
    BY <1>16, <2>1
<1>22. k + n = 1 + x + y + n
  BY <1>3, <1>11, <1>14, <1>1
<1>23. QED
  BY <1>4, <1>6, <1>16, <1>17, <1>18, <1>19, <1>20, <1>21, <1>22, <1>2 DEF Encoding

\* A nibble and its extension, read at position i and behind position i + k.
LEMMA ExtensionRead ==
    ASSUME NEW b \in Seq(Byte), NEW n \in Word, NEW i \in Int,
           \A j \in 1..ComputeExtraBytes(n) : At(b, i + j) = Extension(n)[j]
    PROVE  /\ n < 13 => Nibble(n) = n
           /\ n >= 13 /\ n < 269 => Nibble(n) = 13 /\ At(b, i + 1) + 13 = n
           /\ n >= 269 => Nibble(n) = 14 /\ U16(FromTwoBytes(b, i + 1) + 269) = n
<1>1. n \in Nat /\ U16(n) = n
  BY U16OfWord DEF Word
<1>2. CASE n < 13
  BY <1>1, <1>2 DEF Nibble
<1>3. CASE n >= 13 /\ n < 269
  <2>1. Extension(n) = << n - 13 >> /\ ComputeExtraBytes(n) = 1
    BY <1>1, <1>3 DEF Extension, ComputeExtraBytes
  <2>2. 1 \in 1..1
    OBVIOUS
  <2>3. At(b, i + 1) = n - 13
    BY <2>1, <2>2
  <2>4. QED
    BY <1>1, <1>3, <2>3 DEF Nibble
<1>4. CASE n >= 269
  <2>1. PICK m \in Word : m = n - 269
    <3>1. n - 269 \in Word
      BY <1>4 DEF Word
    <3>2. QED
      BY <3>1
  <2>2. Extension(n) = TwoBytes(m) /\ ComputeExtraBytes(n) = 2
    BY <1>1, <1>4, <2>1 DEF Extension, ComputeExtraBytes
  <2>3. At(b, i + 1) = TwoBytes(m)[1] /\ At(b, i + 2) = TwoBytes(m)[2]
    BY <2>2
  <2>4. i + 2 = (i + 1) + 1 /\ i + 1 \in Int
    OBVIOUS
  <2>5. FromTwoBytes(b, i + 1) = m
    BY <2>3, <2>4, TwoBytesRead
  <2>6. m + 269 = n
    BY <1>1, <2>1
  <2>7. U16(FromTwoBytes(b, i + 1) + 269) = n
    BY <1>1, <2>5, <2>6
  <2>8. QED
    BY <1>1, <1>4, <2>7 DEF Nibble
<1>5. QED
  BY <1>1, <1>2, <1>3, <1>4

\* The nibble of a number and how many bytes extend it.
LEMMA NibbleExtra ==
    ASSUME NEW n \in Word, NEW u, u = Nibble(n)
    PROVE  /\ u \in 0..14 /\ ComputeExtraBytes(u) <= ComputeExtraBytes(n)
           /\ ComputeExtraBytes(n) = IF u \in {13, 14} THEN u - 12 ELSE 0
<1>1. n \in Nat /\ U16(n) = n
  BY U16OfWord DEF Word
<1>2. u \in 0..14
  BY Extended
<1>3. U16(u) = u
  BY <1>2 DEF U16
<1>4. QED
  BY <1>1, <1>2, <1>3 DEF Nibble, ComputeExtraBytes

Reads(b, i, delta, value) ==
    /\ ~AtEnd(b, i) /\ ~Unsound(b, i)
    /\ GetOptionDelta(b, i) = delta /\ GetOptionValueLength(b, i) = Len(value)
    /\ Slice(b, i + EncodedSize(delta, Len(value)) - Len(value), Len(value)) = value

LEMMA OptionRead ==
    ASSUME NEW b \in Seq(Byte), NEW i \in Nat, i > 0, NEW delta \in Word,
           NEW value \in Seq(Byte), Len(value) \in Word, Holds(b, i, EncodeOption(delta, value))
    PROVE  Reads(b, i, delta, value)
<1>1. PICK n \in Word : n = Len(value)
  OBVIOUS
<1>2. PICK x \in Nat, y \in Nat : x = ComputeExtraBytes(delta) /\ y = ComputeExtraBytes(n)
  BY ExtraBytes
<1>3. PICK e : e = EncodeOption(delta, value)
  OBVIOUS
<1>4. /\ e \in Seq(Byte) /\ Len(e) = 1 + x + y + n /\ EncodedSize(delta, n) = 1 + x + y + n
      /\ e[1] = Nibble(delta) * 16 + Nibble(n)
      /\ \A j \in 1..x : e[1 + j] = Extension(delta)[j]
      /\ \A j \in 1..y : e[1 + x + j] = Extension(n)[j]
      /\ \A j \in 1..n : e[1 + x + y + j] = value[j]
  <2>1. Encoding(e, delta, value, n, x, y)
    BY <1>1, <1>2, <1>3, EncodedBytes
  <2>2. QED
    BY <2>1 DEF Encoding
<1>5. PICK l \in Nat : l = Len(b) /\ n \in Nat
  BY LenProperties DEF Word
<1>6. i + (x + y + n) <= l
  <2>1. i + Len(e) - 1 <= Len(b)
    BY <1>3 DEF Holds
  <2>2. QED
    BY <1>4, <1>5, <2>1
<1>7. \A j \in 1..(1 + x + y + n) : At(b, i + j - 1) = e[j] /\ b[i + j - 1] = e[j]
  <2> TAKE j \in 1..(1 + x + y + n)
  <2>1. i + j - 1 \in 1..l
    BY <1>5, <1>6
  <2>2. b[i + j - 1] = e[j]
    BY <1>3, <1>4 DEF Holds
  <2>3. QED
    BY <1>5, <2>1, <2>2, LenProperties DEF At
<1>8. PICK u \in 0..14, v \in 0..14 : u = Nibble(delta) /\ v = Nibble(n)
  <2>1. Nibble(delta) \in 0..14 /\ Nibble(n) \in 0..14
    BY Extended
  <2>2. QED
    BY <2>1
<1>9. At(b, i) = u * 16 + v /\ b[i] = u * 16 + v
  <2>1. 1 \in 1..(1 + x + y + n) /\ i + 1 - 1 = i
    BY <1>5
  <2>2. QED
    BY <1>4, <1>7, <1>8, <2>1
<1>10. u \in 0..15 /\ v \in 0..15
  OBVIOUS
<1>11. (u * 16 + v) \div 16 = u /\ (u * 16 + v) % 16 = v
  BY <1>10, HeaderByte
<1>12. At(b, i) \div 16 = u /\ At(b, i) % 16 = v /\ b[i] \div 16 = u /\ b[i] % 16 = v
  BY <1>9, <1>11
<1>13. \A j \in 1..x : At(b, i + j) = Extension(delta)[j]
  <2> TAKE j \in 1..x
  <2>1. 1 + j \in 1..(1 + x + y + n) /\ i + (1 + j) - 1 = i + j
    BY <1>5
  <2>2. QED
    BY <1>4, <1>7, <2>1
<1>14. \A j \in 1..y : At(b, (i + x) + j) = Extension(n)[j]
  <2> TAKE j \in 1..y
  <2>1. 1 + x + j \in 1..(1 + x + y + n) /\ i + (1 + x + j) - 1 = (i + x) + j
    BY <1>5
  <2>2. QED
    BY <1>4, <1>7, <2>1
<1>15. x = IF u \in {13, 14} THEN u - 12 ELSE 0
  BY <1>2, <1>8, NibbleExtra
<1>16. /\ delta < 13 => u = delta
       /\ delta >= 13 /\ delta < 269 => u = 13 /\ At(b, i + 1) + 13 = delta
       /\ delta >= 269 => u = 14 /\ U16(FromTwoBytes(b, i + 1) + 269) = delta
  <2>1. i \in Int /\ \A j \in 1..ComputeExtraBytes(delta) : At(b, i + j) = Extension(delta)[j]
    BY <1>2, <1>13
  <2>2. QED
    BY <1>8, <2>1, ExtensionRead
<1>17. PICK q \in Nat : q = i + x
  OBVIOUS
<1>18. /\ n < 13 => v = n
       /\ n >= 13 /\ n < 269 => v = 13 /\ At(b, q + 1) + 13 = n
       /\ n >= 269 => v = 14 /\ U16(FromTwoBytes(b, q + 1) + 269) = n
  <2>1. q \in Int /\ \A j \in 1..ComputeExtraBytes(n) : At(b, q + j) = Extension(n)[j]
    BY <1>2, <1>14, <1>17
  <2>2. /\ n < 13 => Nibble(n) = n
        /\ n >= 13 /\ n < 269 => Nibble(n) = 13 /\ At(b, q + 1) + 13 = n
        /\ n >= 269 => Nibble(n) = 14 /\ U16(FromTwoBytes(b, q + 1) + 269) = n
    <3>1. n \in Word
      BY <1>1
    <3>2. QED
      BY <2>1, <3>1, ExtensionRead
  <2>3. QED
    BY <1>8, <2>2
<1>19. delta \in Nat
  BY DEF Word
<1>20. GetOptionDelta(b, i) = delta
  BY <1>12, <1>16, <1>19 DEF GetOptionDelta
<1>21. GetOptionValueLength(b, i) = n
  <2>1. GetOptionValueLength(b, i) =
          IF v < 13 THEN v ELSE IF v = 13 THEN At(b, q + 1) + 13 ELSE U16(FromTwoBytes(b, q + 1) + 269)
    BY <1>12, <1>15, <1>17 DEF GetOptionValueLength
  <2>2. QED
    BY <1>5, <1>18, <2>1
<1>22. ~AtEnd(b, i)
  <2>1. u * 16 + v # 255 /\ ~(i > l)
    BY <1>5, <1>6
  <2>2. QED
    BY <1>5, <1>9, <2>1 DEF AtEnd, Marker
<1>23. ~Unsound(b, i)
  <2>1. PICK c \in Nat, d \in Nat : c = ComputeExtraBytes(u) /\ d = ComputeExtraBytes(v)
    BY ExtraBytes
  <2>2. c <= x /\ d <= y
    BY <1>2, <1>8, <2>1, NibbleExtra
  <2>3. OptionSize(b, i) = 1 + x + y + n
    BY <1>1, <1>4, <1>20, <1>21 DEF OptionSize
  <2>4. ~(c + d > l - i) /\ ~(i + (1 + x + y + n) - 1 > l) /\ 15 # u /\ 15 # v
    BY <1>5, <1>6, <2>2
  <2>5. QED
    BY <1>5, <1>12, <2>1, <2>3, <2>4 DEF Unsound
<1>24. Slice(b, i + EncodedSize(delta, n) - n, n) = value
  <2>1. PICK r \in Nat : r = i + 1 + x + y
    OBVIOUS
  <2>2. i + EncodedSize(delta, n) - n = r
    BY <1>4, <1>5, <2>1
  <2>3. \A j \in 1..n : At(b, r + j - 1) = value[j]
    <3> TAKE j \in 1..n
    <3>1. 1 + x + y + j \in 1..(1 + x + y + n) /\ i + (1 + x + y + j) - 1 = r + j - 1
      BY <1>5, <2>1
    <3>2. QED
      BY <1>4, <1>7, <3>1
  <2>4. Slice(b, r, n) = [j \in 1..n |-> value[j]]
    BY <2>3 DEF Slice
  <2>5. value = [j \in 1..n |-> value[j]]
    BY <1>1, LenProperties
  <2>6. QED
    BY <2>2, <2>4, <2>5
<1>25. QED
  BY <1>1, <1>20, <1>21, <1>22, <1>23, <1>24 DEF Reads

-----------------------------------------------------------------------------
(* Where things are in a message: header, token, options, payload. *)

\* The option o stands at i, behind an option of number q.
Entry(b, i, q, o) ==
    /\ o \in Option /\ Len(o.value) \in Word /\ o.at = i
    /\ Holds(b, i, EncodeOption(U16(o.number - q), o.value))
    /\ o.next = i + EncodedSize(U16(o.number - q), Len(o.value))

LEMMA OptionFields ==
    ASSUME NEW o \in Option
    PROVE  /\ o.at \in Nat /\ o.next \in Nat /\ o.number \in Word /\ o.value \in Seq(Byte)
           /\ o = [at |-> o.at, next |-> o.next, number |-> o.number, value |-> o.value]
  BY DEF Option

LEMMA DeltaIs ==
    ASSUME NEW n \in Word, NEW q \in Word
    PROVE  /\ U16(n - q) \in Word /\ U16(q + U16(n - q)) = n
           /\ q <= n => U16(n - q) = n - q
<1>1. n \in Nat /\ q \in Nat /\ n < 65536 /\ q < 65536
  BY DEF Word
<1>2. CASE q <= n
  <2>1. U16(n - q) = n - q
    BY <1>1, <1>2 DEF U16
  <2>2. q + (n - q) = n /\ n - q \in Word
    BY <1>1, <1>2 DEF Word
  <2>3. QED
    BY <1>2, <2>1, <2>2, U16OfWord
<1>3. CASE ~(q <= n)
  <2>1. U16(n - q) = n - q + 65536
    BY <1>1, <1>3 DEF U16
  <2>2. n - q + 65536 \in Word /\ q + (n - q + 65536) = n + 65536
    BY <1>1, <1>3 DEF Word
  <2>3. U16(n + 65536) = n
    BY <1>1 DEF U16
  <2>4. QED
    BY <1>3, <2>1, <2>2, <2>3
<1>4. QED
  BY <1>2, <1>3

EntryIs(b, i, q, o) ==
    /\ ~AtEnd(b, i) /\ ~Unsound(b, i)
    /\ o = OptionHere(b, i, q)
    /\ o.next > i /\ o.next <= Len(b) + 1

LEMMA EntryRead ==
    ASSUME NEW b \in Seq(Byte), NEW i \in Nat, i > 0, NEW q \in Word, NEW o, Entry(b, i, q, o)
    PROVE  EntryIs(b, i, q, o)
<1>1. /\ o \in Option /\ o.at = i /\ o.number \in Word /\ o.value \in Seq(Byte)
      /\ o = [at |-> o.at, next |-> o.next, number |-> o.number, value |-> o.value]
  BY OptionFields DEF Entry
<1>2. PICK n \in Word : n = Len(o.value)
  BY DEF Entry
<1>3. PICK d \in Word : d = U16(o.number - q) /\ U16(q + d) = o.number
  BY <1>1, DeltaIs
<1>4. PICK v \in Seq(Byte) : v = o.value
  BY <1>1
<1>5. PICK e : e = EncodeOption(d, v)
  OBVIOUS
<1>6. Holds(b, i, e) /\ o.next = i + EncodedSize(d, n)
  BY <1>2, <1>3, <1>4, <1>5 DEF Entry
<1>7. PICK size \in Nat : size = EncodedSize(d, n) /\ size >= 1 + n
  BY <1>2, SizeOfOption
<1>8. Len(e) = size
  BY <1>2, <1>3, <1>4, <1>5, <1>7, Encoded
<1>9. Reads(b, i, d, v)
  <2>1. Len(v) \in Word
    BY <1>2, <1>4
  <2>2. QED
    BY <1>3, <1>5, <1>6, <2>1, OptionRead
<1>10. /\ ~AtEnd(b, i) /\ ~Unsound(b, i)
       /\ GetOptionDelta(b, i) = d /\ GetOptionValueLength(b, i) = n
       /\ Slice(b, i + size - n, n) = v
  BY <1>2, <1>4, <1>7, <1>9 DEF Reads
<1>11. OptionHere(b, i, q) = [at |-> i, next |-> i + size, number |-> U16(q + d), value |-> v]
  BY <1>7, <1>10 DEF OptionHere, OptionAt
<1>12. o = OptionHere(b, i, q)
  BY <1>1, <1>3, <1>4, <1>6, <1>7, <1>11
<1>13. o.next > i /\ o.next <= Len(b) + 1
  <2>1. i + Len(e) - 1 <= Len(b) /\ Len(b) \in Nat /\ n \in Nat
    BY <1>2, <1>6, LenProperties DEF Holds, Word
  <2>2. QED
    BY <1>6, <1>7, <1>8, <2>1
<1>14. QED
  BY <1>10, <1>12, <1>13 DEF EntryIs

Written(b, i, p, s) ==
    s \in Seq(Option) /\ \A k \in 1..Len(s) : Entry(b, StartOf(s, i, k), Before(s, p, k), s[k])

WrittenAs(b, i, p, s) ==
    /\ EndOf(s, i) \in Nat /\ EndOf(s, i) > 0
    /\ \A k \in 1..Len(s) : /\ s[k] \in Option /\ StartOf(s, i, k) \in Nat /\ StartOf(s, i, k) > 0
                            /\ Before(s, p, k) \in Word /\ s[k].at = StartOf(s, i, k)
                            /\ EntryIs(b, s[k].at, Before(s, p, k), s[k])

LEMMA WrittenIs ==
    ASSUME NEW b \in Seq(Byte), NEW i \in Nat, i > 0, NEW p \in Word, NEW s, Written(b, i, p, s)
    PROVE  WrittenAs(b, i, p, s)
<1>1. s \in Seq(Option) /\ Len(s) \in Nat
  BY LenProperties DEF Written
<1>2. \A k \in 1..Len(s) : s[k] \in Option /\ s[k].number \in Word /\ s[k].next \in Nat /\ s[k].next > 0
  <2> TAKE k \in 1..Len(s)
  <2>1. PICK o : o = s[k]
    OBVIOUS
  <2>2. o \in Option /\ Entry(b, StartOf(s, i, k), Before(s, p, k), o)
    BY <1>1, <2>1, ElementOfSeq DEF Written
  <2>3. PICK d : d = U16(o.number - Before(s, p, k))
    OBVIOUS
  <2>4. o.next = o.at + EncodedSize(d, Len(o.value)) /\ Len(o.value) \in Word
    BY <2>2, <2>3 DEF Entry
  <2>5. EncodedSize(d, Len(o.value)) \in Nat /\ EncodedSize(d, Len(o.value)) >= 1 + Len(o.value)
    BY <2>4, SizeOfOption
  <2>6. o.at \in Nat /\ o.next \in Nat /\ o.number \in Word /\ Len(o.value) \in Nat
    BY <2>2, <2>4, OptionFields DEF Word
  <2>7. o.next > 0
    BY <2>4, <2>5, <2>6
  <2>8. QED
    BY <2>1, <2>2, <2>6, <2>7
<1>3. EndOf(s, i) \in Nat /\ EndOf(s, i) > 0
  <2>1. CASE s = << >>
    BY <2>1 DEF EndOf
  <2>2. CASE s # << >>
    <3>1. Len(s) \in 1..Len(s)
      BY <1>1, <2>2, EmptySeq
    <3>2. QED
      BY <1>2, <2>2, <3>1 DEF EndOf
  <2>3. QED
    BY <2>1, <2>2
<1>4. ASSUME NEW k \in 1..Len(s)
      PROVE  /\ s[k] \in Option /\ StartOf(s, i, k) \in Nat /\ StartOf(s, i, k) > 0
             /\ Before(s, p, k) \in Word /\ s[k].at = StartOf(s, i, k)
             /\ EntryIs(b, s[k].at, Before(s, p, k), s[k])
  <2>1. StartOf(s, i, k) \in Nat /\ StartOf(s, i, k) > 0 /\ Before(s, p, k) \in Word
    <3>1. CASE k = 1
      BY <3>1 DEF StartOf, Before
    <3>2. CASE k # 1
      <4>1. k - 1 \in 1..Len(s)
        BY <1>1, <3>2
      <4>2. QED
        BY <1>2, <3>2, <4>1 DEF StartOf, Before
    <3>3. QED
      BY <3>1, <3>2
  <2>2. PICK from, q, o : from = StartOf(s, i, k) /\ q = Before(s, p, k) /\ o = s[k]
    OBVIOUS
  <2>3. Entry(b, from, q, o) /\ from \in Nat /\ from > 0 /\ q \in Word
    BY <2>1, <2>2 DEF Written
  <2>4. EntryIs(b, from, q, o) /\ o.at = from
    BY <2>3, EntryRead DEF Entry
  <2>5. QED
    BY <1>2, <2>1, <2>2, <2>4
<1>5. QED
  BY <1>3, <1>4 DEF WrittenAs

LEMMA WrittenIsChain ==
    ASSUME NEW b \in Seq(Byte), NEW i \in Nat, i > 0, NEW p \in Word, NEW s, Written(b, i, p, s),
           AtEnd(b, EndOf(s, i))
    PROVE  Chain(b, i, p, s) /\ \A k \in 1..Len(s) : ~Unsound(b, s[k].at)
<1>1. WrittenAs(b, i, p, s)
  BY WrittenIs
<1>2. s \in Seq(Option)
  BY DEF Written
<1>3. ASSUME NEW k \in 1..Len(s)
      PROVE  /\ ~AtEnd(b, StartOf(s, i, k)) /\ ~Unsound(b, s[k].at)
             /\ s[k] = OptionHere(b, StartOf(s, i, k), Before(s, p, k))
  <2>1. s[k].at = StartOf(s, i, k) /\ EntryIs(b, s[k].at, Before(s, p, k), s[k])
    BY <1>1 DEF WrittenAs
  <2>2. QED
    BY <2>1 DEF EntryIs
<1>4. QED
  BY <1>2, <1>3 DEF Chain

(***************************************************************************)
(* A message whose options are s, all where they say, with n bytes of      *)
(* payload behind a marker, or none.                                       *)
(***************************************************************************)
Laid(b, s, n) ==
    /\ b \in Seq(Byte) /\ n \in Nat
    /\ Len(b) >= 4 /\ GetTokenLength(b) <= 8
    /\ Written(b, FirstOption(b), 0, s)
    /\ Len(b) + 1 = EndOf(s, FirstOption(b)) + (IF n = 0 THEN 0 ELSE n + 1)
    /\ n > 0 => b[EndOf(s, FirstOption(b))] = Marker

LaidAs(b, s, n, first, end) ==
    /\ first = FirstOption(b) /\ end = EndOf(s, first)
    /\ first = 5 + GetTokenLength(b) /\ GetTokenLength(b) \in 0..8
    /\ first \in Nat /\ end \in Nat /\ first >= 5 /\ first <= end
    /\ Len(b) \in Nat /\ Len(b) >= 4 /\ Len(b) + 1 = end + (IF n = 0 THEN 0 ELSE n + 1)
    /\ AtEnd(b, end) /\ (n > 0 => At(b, end) = Marker /\ b[end] = Marker)
    /\ WrittenAs(b, first, 0, s)
    /\ Chain(b, first, 0, s) /\ \A k \in 1..Len(s) : ~Unsound(b, s[k].at)
    /\ s = OptionsOf(b) /\ OptionsEnd(b) = end /\ s \in Seq(Option) /\ Len(s) \in Nat

LEMMA LaidIs ==
    ASSUME NEW b, NEW s, NEW n, Laid(b, s, n)
    PROVE  \E first, end \in Nat : LaidAs(b, s, n, first, end)
<1>1. b \in Seq(Byte) /\ n \in Nat /\ Len(b) \in Nat /\ Len(b) >= 4 /\ Len(b) > 0
  <2>1. b \in Seq(Byte) /\ n \in Nat /\ Len(b) >= 4
    BY DEF Laid
  <2>2. QED
    BY <2>1, LenProperties
<1>2. PICK k \in 0..8 : k = GetTokenLength(b)
  <2>1. GetTokenLength(b) \in 0..15
    BY <1>1, FirstOptionIs
  <2>2. GetTokenLength(b) <= 8
    BY DEF Laid
  <2>3. QED
    BY <2>1, <2>2
<1>3. PICK first \in Nat : first = FirstOption(b) /\ first = 5 + k
  BY <1>1, <1>2, FirstOptionIs
<1>4. 0 \in Word /\ first > 0
  BY <1>3 DEF Word
<1>5. Written(b, first, 0, s)
  BY <1>3 DEF Laid
<1>6. WrittenAs(b, first, 0, s)
  BY <1>1, <1>4, <1>5, WrittenIs
<1>7. PICK end \in Nat : end = EndOf(s, first)
  BY <1>6 DEF WrittenAs
<1>8. Len(b) + 1 = end + (IF n = 0 THEN 0 ELSE n + 1)
  BY <1>3, <1>7 DEF Laid
<1>9. n > 0 => At(b, end) = Marker /\ b[end] = Marker
  <2> HAVE n > 0
  <2>1. b[end] = Marker
    BY <1>3, <1>7 DEF Laid
  <2>2. end > 0
    BY <1>6, <1>7 DEF WrittenAs
  <2>3. end \in 1..Len(b)
    BY <1>1, <1>8, <2>2
  <2>4. QED
    BY <1>1, <2>1, <2>3, LenProperties DEF At
<1>10. AtEnd(b, end)
  <2>1. CASE n > 0
    BY <1>9, <2>1 DEF AtEnd
  <2>2. CASE n = 0
    <3>1. end > Len(b)
      BY <1>1, <1>8, <2>2
    <3>2. QED
      BY <3>1 DEF AtEnd
  <2>3. QED
    BY <1>1, <2>1, <2>2
<1>11. Chain(b, first, 0, s) /\ \A j \in 1..Len(s) : ~Unsound(b, s[j].at)
  BY <1>1, <1>4, <1>5, <1>7, <1>10, WrittenIsChain
<1>12. s = OptionsOf(b)
  BY <1>1, <1>3, <1>11, OptionsAreChain
<1>13. OptionsEnd(b) = end
  BY <1>3, <1>7, <1>12 DEF OptionsEnd
<1>14. s \in Seq(Option) /\ Len(s) \in Nat /\ first <= end
  <2>1. s \in Seq(Option) /\ Len(s) \in Nat
    BY <1>1, <1>11, ChainTyped
  <2>2. first <= EndOf(s, first)
    BY <1>1, <1>11, ChainAscends
  <2>3. QED
    BY <1>7, <2>1, <2>2
<1>15. LaidAs(b, s, n, first, end)
  <2>1. first >= 5
    BY <1>3
  <2>2. QED
    BY <1>1, <1>2, <1>3, <1>6, <1>7, <1>8, <1>9, <1>10, <1>11, <1>12, <1>13, <1>14, <2>1 DEF LaidAs
<1>16. QED
  BY <1>15

LEMMA PayloadIs ==
    ASSUME NEW b \in Seq(Byte), NEW s, NEW n \in Nat, NEW first \in Nat, NEW end \in Nat,
           LaidAs(b, s, n, first, end)
    PROVE  PayloadOf(b) = Slice(b, end + 1, n) /\ Len(PayloadOf(b)) = n
<1>1. PICK l \in Nat : l = Len(b) /\ l + 1 = end + (IF n = 0 THEN 0 ELSE n + 1)
  BY DEF LaidAs
<1>2. end >= 1
  BY DEF LaidAs
<1>3. PICK r : r = Slice(b, end + 1, n)
  OBVIOUS
<1>4. r \in Seq(Byte) /\ Len(r) = n /\ \A j \in 1..n : r[j] = At(b, end + 1 + j - 1)
  <2>1. end + 1 \in Int
    OBVIOUS
  <2>2. QED
    BY <1>3, <2>1, Sliced
<1>5. PICK p : p = SubSeq(b, end + 1, l)
  OBVIOUS
<1>6. p \in Seq(Byte) /\ Len(p) = n /\ \A j \in 1..n : p[j] = b[end + 1 + j - 1]
  <2>1. CASE n = 0
    <3>1. end + 1 > l
      BY <1>1, <2>1
    <3>2. p = << >>
      BY <1>1, <1>5, <3>1
    <3>3. QED
      BY <2>1, <3>2
  <2>2. CASE n # 0
    <3>1. end + 1 \in 1..(l + 1) /\ l \in end..l /\ l - (end + 1) + 1 = n /\ end + 1 <= l
      BY <1>1, <1>2, <2>2
    <3>2. end + 1 \in 1..(Len(b) + 1) /\ l \in (end + 1)-1..Len(b)
      BY <1>1, <3>1
    <3>3. /\ p \in Seq(Byte)
          /\ Len(p) = IF end + 1 <= l THEN l - (end + 1) + 1 ELSE 0
          /\ \A j \in 1..(l - (end + 1) + 1) : p[j] = b[end + 1 + j - 1]
      BY <1>5, <3>2, SubSeqProperties
    <3>4. QED
      BY <3>1, <3>3
  <2>3. QED
    BY <2>1, <2>2
<1>7. \A j \in 1..n : p[j] = r[j]
  <2> TAKE j \in 1..n
  <2>1. end + 1 + j - 1 \in 1..l
    BY <1>1, <1>2
  <2>2. b[end + 1 + j - 1] = At(b, end + 1 + j - 1)
    BY <1>1, <2>1, LenProperties DEF At
  <2>3. QED
    BY <1>4, <1>6, <2>2
<1>8. p = r
  BY <1>4, <1>6, <1>7, SeqEqual
<1>9. OptionsEnd(b) = end
  BY DEF LaidAs
<1>10. PayloadOf(b) = p
  BY <1>1, <1>5, <1>9 DEF PayloadOf
<1>11. QED
  BY <1>3, <1>6, <1>8, <1>10

\* A reader's validate() takes such a message, with all of its options and its payload.
Received(c, d, s) ==
    /\ d.result = 1 /\ d.object.numOptions = Len(s)
    /\ GetPayloadCopy(d.object) = PayloadOf(c.pdu)

LEMMA LaidValidates ==
    ASSUME NEW c \in Fields, NEW s, NEW n, Laid(c.pdu, s, n), GetCode(c.pdu) \in ValidCodes
    PROVE  Received(c, Validate(c), s)
<1>1. PICK b \in Seq(Byte) : b = c.pdu
  BY FieldsTyped
<1>2. n \in Nat
  BY DEF Laid
<1>3. PICK first \in Nat, end \in Nat : LaidAs(b, s, n, first, end)
  BY <1>1, LaidIs
<1>4. PICK l \in Nat : /\ l = Len(b) /\ l + 1 = end + (IF n = 0 THEN 0 ELSE n + 1) /\ l >= 4
                       /\ first = 5 + GetTokenLength(b) /\ GetTokenLength(b) \in 0..8 /\ first <= end
  BY <1>3 DEF LaidAs
<1>5. HeaderSound(b)
  <2>1. l >= 4 + GetTokenLength(b) /\ GetTokenLength(b) <= 8
    BY <1>2, <1>4, SMTT(30)
  <2>2. QED
    BY <1>1, <1>4, <2>1 DEF HeaderSound
<1>6. /\ s = OptionsOf(b) /\ first = FirstOption(b) /\ end = EndOf(s, first) /\ Len(s) \in Nat
      /\ \A k \in 1..Len(s) : ~Unsound(b, s[k].at)
  BY <1>3 DEF LaidAs
<1>7. PayloadOf(b) = Slice(b, end + 1, n)
  BY <1>2, <1>3, PayloadIs
<1>8. CASE first = l + 1
  <2>1. end = l + 1 /\ n = 0
    BY <1>2, <1>4, <1>8
  <2>2. s = << >>
    <3>1. AtEnd(b, first)
      BY <1>4, <1>8 DEF AtEnd
    <3>2. Chain(b, first, 0, s)
      BY <1>3 DEF LaidAs
    <3>3. QED
      BY <3>1, <3>2, EmptyChain
  <2>3. PICK o : o = [c EXCEPT !.numOptions = 0, !.payloadLength = 0]
    OBVIOUS
  <2>4. o.numOptions = 0 /\ o.payloadLength = 0 /\ o.pdu = b
    BY <1>1, <2>3 DEF Fields
  <2>5. Validate(c) = Done(o, 1)
    BY <1>1, <1>4, <1>5, <1>6, <1>8, <2>3, ValidateIs
  <2>6. GetPayloadCopy(o) = << >>
    BY <2>4 DEF GetPayloadCopy, Slice
  <2>7. PayloadOf(b) = << >>
    BY <1>7, <2>1 DEF Slice
  <2>8. QED
    BY <1>1, <2>2, <2>4, <2>5, <2>6, <2>7 DEF Received, Done
<1>9. CASE first # l + 1
  <2>1. Validate(c) \in Verdicts(c, s, first, 0)
    BY <1>1, <1>4, <1>5, <1>6, <1>9, ValidateIs
  <2>2. end # l
    BY <1>2, <1>4
  <2>3. Acceptable(b, s, end)
    BY <1>4, <1>6, <2>2 DEF Acceptable
  <2>4. 0 + Len(s) = Len(s)
    BY <1>6
  <2>5. Validate(c) = Accepted(c, Len(s), end)
    BY <1>1, <1>6, <2>1, <2>3, <2>4 DEF Verdicts
  <2>6. PICK at : at = IF end > l THEN NULL ELSE end + 1
    OBVIOUS
  <2>7. PICK o : o = Parsed(c, Len(s), at)
    OBVIOUS
  <2>8. Validate(c) = Done(o, 1)
    BY <1>1, <1>4, <2>5, <2>6, <2>7 DEF Accepted
  <2>9. /\ o.pdu = b /\ o.numOptions = Len(s) /\ o.payloadPointer = at
        /\ o.payloadLength = IF at = NULL THEN 0 ELSE l - at + 1
    BY <1>1, <1>4, <2>7 DEF Parsed, Fields
  <2>10. GetPayloadCopy(o) = Slice(b, end + 1, n)
    <3>1. CASE n = 0
      <4>1. at = NULL
        BY <1>4, <2>6, <3>1
      <4>2. QED
        BY <2>9, <3>1, <4>1 DEF GetPayloadCopy, Slice
    <3>2. CASE n # 0
      <4>1. at = end + 1 /\ at # 0 /\ l - (end + 1) + 1 = n
        BY <1>2, <1>4, <2>6, <3>2
      <4>2. QED
        BY <2>9, <4>1 DEF GetPayloadCopy, NULL
    <3>3. QED
      BY <3>1, <3>2
  <2>11. QED
    BY <1>1, <1>7, <2>8, <2>9, <2>10 DEF Received, Done
<1>10. QED
  BY <1>8, <1>9

-----------------------------------------------------------------------------
(* Options that move. *)

\* The bytes of b from `from' up to `to' are those of f, d positions further on.
Agree(b, f, from, to, d) ==
    to + d <= Len(f) + 1 /\ \A j \in from..(to - 1) : f[j + d] = b[j]

MovedBy(o, d) == [at |-> o.at + d, next |-> o.next + d, number |-> o.number, value |-> o.value]

AllMoved(s, d) == [k \in 1..Len(s) |-> MovedBy(s[k], d)]

LEMMA MovedOption ==
    ASSUME NEW o \in Option, NEW d \in Int, o.at + d \in Nat, o.next + d \in Nat
    PROVE  /\ MovedBy(o, d) \in Option /\ MovedBy(o, d).at = o.at + d
           /\ MovedBy(o, d).next = o.next + d
           /\ MovedBy(o, d).number = o.number /\ MovedBy(o, d).value = o.value
  BY DEF MovedBy, Option

LEMMA EntryMoved ==
    ASSUME NEW b \in Seq(Byte), NEW f \in Seq(Byte), NEW i \in Nat, i > 0, NEW q \in Word, NEW o,
           Entry(b, i, q, o), NEW d \in Int, i + d > 0, NEW from \in Int, NEW to \in Int,
           Agree(b, f, from, to, d), from <= i, o.next <= to
    PROVE  Entry(f, i + d, q, MovedBy(o, d))
<1>1. /\ o \in Option /\ Len(o.value) \in Word /\ o.at = i /\ o.number \in Word
      /\ o.value \in Seq(Byte) /\ o.next \in Nat
  BY OptionFields DEF Entry
<1>2. EntryIs(b, i, q, o)
  BY EntryRead
<1>3. o.next > i /\ o.next <= Len(b) + 1
  BY <1>2 DEF EntryIs
<1>4. PICK w \in Word : w = U16(o.number - q)
  BY <1>1, DeltaIs
<1>5. PICK size \in Nat : size = EncodedSize(w, Len(o.value))
  BY <1>1, SizeOfOption
<1>6. PICK e \in Seq(Byte) : e = EncodeOption(w, o.value) /\ Len(e) = size
  BY <1>1, <1>4, <1>5, Encoded
<1>7. Holds(b, i, e) /\ o.next = i + size
  BY <1>4, <1>5, <1>6 DEF Entry
<1>8. PICK l \in Nat : l = Len(f)
  BY LenProperties
<1>9. to + d <= l + 1 /\ \A j \in from..(to - 1) : f[j + d] = b[j]
  BY <1>8 DEF Agree
<1>10. Holds(f, i + d, e)
  <2>1. i + d + size - 1 <= l
    BY <1>7, <1>9
  <2>2. \A j \in 1..size : f[i + d + j - 1] = e[j]
    <3> TAKE j \in 1..size
    <3>1. i + j - 1 \in from..(to - 1) /\ (i + j - 1) + d = i + d + j - 1
      BY <1>7
    <3>2. b[i + j - 1] = e[j]
      BY <1>6, <1>7 DEF Holds
    <3>3. QED
      BY <1>9, <3>1, <3>2
  <2>3. QED
    BY <1>6, <1>8, <2>1, <2>2 DEF Holds
<1>11. PICK m : m = MovedBy(o, d)
  OBVIOUS
<1>12. o.at + d \in Nat /\ o.next + d \in Nat
  BY <1>1, <1>3
<1>13. m \in Option /\ m.at = o.at + d /\ m.next = o.next + d /\ m.number = o.number /\ m.value = o.value
  BY <1>1, <1>11, <1>12, MovedOption
<1>14. m.next = (i + d) + size
  BY <1>7, <1>13
<1>15. Entry(f, i + d, q, m)
  BY <1>1, <1>4, <1>5, <1>6, <1>10, <1>13, <1>14 DEF Entry
<1>16. QED
  BY <1>11, <1>15

LEMMA AllMovedIs ==
    ASSUME NEW s \in Seq(Option), NEW d \in Int,
           \A k \in 1..Len(s) : s[k].at + d \in Nat /\ s[k].next + d \in Nat
    PROVE  /\ AllMoved(s, d) \in Seq(Option) /\ Len(AllMoved(s, d)) = Len(s)
           /\ \A k \in 1..Len(s) : AllMoved(s, d)[k] = MovedBy(s[k], d)
<1>1. PICK n \in Nat : n = Len(s)
  BY LenProperties
<1>2. \A k \in 1..n : MovedBy(s[k], d) \in Option
  BY <1>1, MovedOption, ElementOfSeq
<1>3. [k \in 1..n |-> MovedBy(s[k], d)] \in [1..n -> Option]
  BY <1>2
<1>4. PICK t : t = [k \in 1..n |-> MovedBy(s[k], d)]
  OBVIOUS
<1>5. t \in Seq(Option) /\ Len(t) = n
  BY <1>3, <1>4
<1>6. t = AllMoved(s, d)
  BY <1>1, <1>4 DEF AllMoved
<1>7. QED
  BY <1>1, <1>4, <1>5, <1>6

Moved(b, i, p, s, f, d) ==
    /\ Written(f, i + d, p, AllMoved(s, d))
    /\ EndOf(AllMoved(s, d), i + d) = EndOf(s, i) + d

LEMMA WrittenMoved ==
    ASSUME NEW b \in Seq(Byte), NEW f \in Seq(Byte), NEW i \in Nat, i > 0, NEW p \in Word, NEW s,
           Written(b, i, p, s), AtEnd(b, EndOf(s, i)), NEW d \in Int, i + d > 0,
           Agree(b, f, i, EndOf(s, i), d)
    PROVE  Moved(b, i, p, s, f, d)
<1>1. WrittenAs(b, i, p, s) /\ Chain(b, i, p, s)
  <2>1. WrittenAs(b, i, p, s)
    BY WrittenIs
  <2>2. Chain(b, i, p, s)
    BY WrittenIsChain
  <2>3. QED
    BY <2>1, <2>2
<1>2. p \in Nat
  BY DEF Word
<1>3. PICK n \in Nat, end \in Nat : n = Len(s) /\ end = EndOf(s, i)
  BY <1>2, <1>1, ChainTyped
<1>4. /\ s \in Seq(Option) /\ \A k \in 1..n : s[k] \in Option /\ s[k].at \in Nat /\ s[k].next \in Nat
  BY <1>1, <1>3, OptionFields DEF Written, WrittenAs
<1>5. \A k \in 1..n : i <= s[k].at /\ s[k].next <= end
  BY <1>2, <1>1, <1>3, ChainAscends
<1>6. \A k \in 1..n : s[k].next > s[k].at
  BY <1>2, <1>1, <1>3, ChainTyped
<1>7. \A k \in 1..n : s[k].at + d \in Nat /\ s[k].next + d \in Nat /\ s[k].at + d > 0
  <2> TAKE k \in 1..n
  <2>1. PICK x \in Nat, y \in Nat : x = s[k].at /\ y = s[k].next
    BY <1>4
  <2>2. i <= x /\ y > x
    BY <1>5, <1>6, <2>1
  <2>3. x + d \in Nat /\ y + d \in Nat /\ x + d > 0
    BY <2>1, <2>2, SMTT(30)
  <2>4. QED
    BY <2>1, <2>3
<1>8. PICK t : t = AllMoved(s, d)
  OBVIOUS
<1>9. t \in Seq(Option) /\ Len(t) = n /\ \A k \in 1..n : t[k] = MovedBy(s[k], d)
  BY <1>3, <1>4, <1>7, <1>8, AllMovedIs
<1>10. \A k \in 1..n : t[k].next = s[k].next + d /\ t[k].number = s[k].number
  <2> TAKE k \in 1..n
  <2>1. PICK o : o = s[k]
    OBVIOUS
  <2>2. o \in Option /\ o.at + d \in Nat /\ o.next + d \in Nat /\ t[k] = MovedBy(o, d)
    BY <1>4, <1>7, <1>9, <2>1
  <2>3. QED
    BY <2>1, <2>2, MovedOption
<1>11. EndOf(t, i + d) = end + d
  <2>1. CASE n = 0
    <3>1. s = << >> /\ t = << >>
      BY <1>3, <1>4, <1>9, <2>1, EmptySeq
    <3>2. QED
      BY <1>3, <3>1 DEF EndOf
  <2>2. CASE n # 0
    <3>1. s # << >> /\ t # << >> /\ n \in 1..n
      BY <1>3, <1>9, <2>2
    <3>2. QED
      BY <1>3, <1>9, <1>10, <3>1 DEF EndOf
  <2>3. QED
    BY <2>1, <2>2
<1>12. ASSUME NEW k \in 1..n
       PROVE  Entry(f, StartOf(t, i + d, k), Before(t, p, k), t[k])
  <2>1. PICK from, q, o : from = StartOf(s, i, k) /\ q = Before(s, p, k) /\ o = s[k]
    OBVIOUS
  <2>2. Entry(b, from, q, o) /\ o.at = from /\ q \in Word /\ from \in Nat /\ from > 0
    BY <1>1, <1>3, <2>1 DEF Written, WrittenAs
  <2>3. from + d > 0 /\ i <= from /\ o.next <= end
    BY <1>5, <1>7, <2>1, <2>2
  <2>4. i \in Int /\ end \in Int /\ Agree(b, f, i, end, d)
    BY <1>3
  <2>5. Entry(f, from + d, q, MovedBy(o, d))
    BY <2>2, <2>3, <2>4, EntryMoved
  <2>6. StartOf(t, i + d, k) = from + d /\ Before(t, p, k) = q
    <3>1. CASE k = 1
      BY <2>1, <3>1 DEF StartOf, Before
    <3>2. CASE k # 1
      <4>1. k - 1 \in 1..n
        BY <3>2
      <4>2. QED
        BY <1>10, <2>1, <3>2, <4>1 DEF StartOf, Before
    <3>3. QED
      BY <3>1, <3>2
  <2>7. QED
    BY <1>9, <2>1, <2>5, <2>6
<1>13. QED
  BY <1>3, <1>8, <1>9, <1>11, <1>12 DEF Moved, Written

LEMMA MovedByNothing ==
    ASSUME NEW s \in Seq(Option)
    PROVE  AllMoved(s, 0) = s
<1>1. PICK n \in Nat : n = Len(s)
  BY LenProperties
<1>2. \A k \in 1..n : s[k] \in Option /\ s[k].at \in Nat /\ s[k].next \in Nat
  BY <1>1, ElementOfSeq, OptionFields
<1>3. \A k \in 1..n : MovedBy(s[k], 0) = s[k]
  <2> TAKE k \in 1..n
  <2>1. PICK o : o = s[k]
    OBVIOUS
  <2>2. o \in Option /\ o.at \in Nat /\ o.next \in Nat
    BY <1>2, <2>1
  <2>3. o = [at |-> o.at, next |-> o.next, number |-> o.number, value |-> o.value]
    BY <2>2, OptionFields
  <2>4. o.at + 0 = o.at /\ o.next + 0 = o.next
    BY <2>2
  <2>5. QED
    BY <2>1, <2>3, <2>4 DEF MovedBy
<1>4. 0 \in Int /\ \A k \in 1..n : s[k].at + 0 \in Nat /\ s[k].next + 0 \in Nat
  BY <1>2
<1>5. PICK t : t = AllMoved(s, 0)
  OBVIOUS
<1>6. t \in Seq(Option) /\ Len(t) = n /\ \A k \in 1..n : t[k] = MovedBy(s[k], 0)
  BY <1>1, <1>4, <1>5, AllMovedIs
<1>7. t = s
  BY <1>1, <1>3, <1>6, SeqEqual
<1>8. QED
  BY <1>5, <1>7

\* Everything behind the token moves together.
LEMMA LaidMoved ==
    ASSUME NEW b, NEW s, NEW n, Laid(b, s, n), NEW f \in Seq(Byte), NEW d \in Int,
           Len(f) >= 4, Len(f) = Len(b) + d, GetTokenLength(f) <= 8,
           GetTokenLength(f) = GetTokenLength(b) + d,
           \A j \in FirstOption(b)..Len(b) : f[j + d] = b[j]
    PROVE  Laid(f, AllMoved(s, d), n)
<1>1. b \in Seq(Byte) /\ n \in Nat
  BY DEF Laid
<1>2. PICK first \in Nat, end \in Nat : LaidAs(b, s, n, first, end)
  BY LaidIs
<1>3. PICK l \in Nat : /\ l = Len(b) /\ l + 1 = end + (IF n = 0 THEN 0 ELSE n + 1) /\ l >= 4
                       /\ first = FirstOption(b) /\ end = EndOf(s, first)
                       /\ first = 5 + GetTokenLength(b) /\ GetTokenLength(b) \in 0..8 /\ first <= end
                       /\ first >= 5 /\ AtEnd(b, end)
  BY <1>2 DEF LaidAs
<1>4. PICK m \in Nat : m = Len(f) /\ m = l + d /\ m >= 4
  BY <1>3, LenProperties
<1>5. GetTokenLength(f) \in 0..15 /\ FirstOption(f) = 5 + GetTokenLength(f)
  <2>1. Len(f) > 0
    BY <1>4
  <2>2. QED
    BY <2>1, FirstOptionIs
<1>6. FirstOption(f) = first + d /\ first + d > 0
  <2>1. PICK k \in 0..8, h \in 0..15 : k = GetTokenLength(b) /\ h = GetTokenLength(f)
    BY <1>3, <1>5
  <2>2. h = k + d /\ first = 5 + k /\ FirstOption(f) = 5 + h
    BY <1>3, <1>5, <2>1
  <2>3. 5 + h = (5 + k) + d /\ 5 + h > 0
    BY <2>2
  <2>4. QED
    BY <2>2, <2>3
<1>7. Agree(b, f, first, end, d)
  <2>1. end + d <= m + 1
    BY <1>1, <1>3, <1>4, SMTT(30)
  <2>2. \A j \in first..(end - 1) : j \in FirstOption(b)..Len(b)
    BY <1>1, <1>3, SMTT(30)
  <2>3. QED
    BY <1>4, <2>1, <2>2 DEF Agree
<1>8. Moved(b, first, 0, s, f, d)
  <2>1. first > 0 /\ 0 \in Word /\ Written(b, first, 0, s)
    BY <1>3 DEF Word, Laid
  <2>2. QED
    BY <1>1, <1>3, <1>6, <1>7, <2>1, WrittenMoved
<1>9. Written(f, FirstOption(f), 0, AllMoved(s, d)) /\ EndOf(AllMoved(s, d), FirstOption(f)) = end + d
  BY <1>3, <1>6, <1>8 DEF Moved
<1>10. m + 1 = (end + d) + (IF n = 0 THEN 0 ELSE n + 1)
  BY <1>1, <1>3, <1>4, SMTT(30)
<1>11. n > 0 => f[end + d] = Marker
  <2> HAVE n > 0
  <2>1. b[end] = Marker
    BY <1>2 DEF LaidAs
  <2>2. end \in first..l
    BY <1>1, <1>3
  <2>3. QED
    BY <1>3, <2>1, <2>2
<1>12. QED
  BY <1>1, <1>4, <1>9, <1>10, <1>11 DEF Laid

\* The options stay; the payload behind them is another.
LEMMA LaidPayload ==
    ASSUME NEW b, NEW s, NEW n, Laid(b, s, n), NEW f \in Seq(Byte), NEW end \in Nat,
           end = OptionsEnd(b), NEW m \in Nat, m > 0, Len(f) = end + m,
           \A j \in 1..(end - 1) : f[j] = b[j], f[end] = Marker
    PROVE  Laid(f, s, m)
<1>1. b \in Seq(Byte) /\ n \in Nat
  BY DEF Laid
<1>2. PICK first \in Nat, x \in Nat : LaidAs(b, s, n, first, x)
  BY LaidIs
<1>3. PICK l \in Nat : /\ l = Len(b) /\ l + 1 = end + (IF n = 0 THEN 0 ELSE n + 1) /\ l >= 4
                       /\ first = FirstOption(b) /\ end = EndOf(s, first) /\ x = end
                       /\ first = 5 + GetTokenLength(b) /\ GetTokenLength(b) \in 0..8 /\ first <= end
                       /\ first >= 5 /\ AtEnd(b, end) /\ s \in Seq(Option)
  BY <1>2 DEF LaidAs
<1>4. f[1] = b[1]
  <2>1. 1 \in 1..(end - 1)
    BY <1>3
  <2>2. QED
    BY <2>1
<1>5. GetTokenLength(f) = GetTokenLength(b)
  BY <1>4 DEF GetTokenLength
<1>6. FirstOption(f) = first
  BY <1>3, <1>5 DEF FirstOption
<1>7. Agree(b, f, first, end, 0)
  <2>1. end + 0 <= Len(f) + 1
    BY <1>3
  <2>2. \A j \in first..(end - 1) : f[j + 0] = b[j]
    BY <1>3, SMTT(30)
  <2>3. QED
    BY <2>1, <2>2 DEF Agree
<1>8. Moved(b, first, 0, s, f, 0)
  <2>1. first > 0 /\ first + 0 > 0 /\ 0 \in Word /\ 0 \in Int /\ Written(b, first, 0, s)
    BY <1>3, SMTT(30) DEF Word, Laid
  <2>2. QED
    BY <1>1, <1>3, <1>7, <2>1, WrittenMoved
<1>9. Written(f, first, 0, s)
  <2>1. Written(f, first + 0, 0, AllMoved(s, 0))
    BY <1>8 DEF Moved
  <2>2. first + 0 = first /\ AllMoved(s, 0) = s
    BY <1>3, MovedByNothing
  <2>3. QED
    BY <2>1, <2>2
<1>10. Len(f) + 1 = end + (IF m = 0 THEN 0 ELSE m + 1) /\ Len(f) >= 4 /\ GetTokenLength(f) <= 8
  <2>1. GetTokenLength(f) <= 8
    BY <1>3, <1>5, SMTT(30)
  <2>2. (end + m) + 1 = end + (IF m = 0 THEN 0 ELSE m + 1) /\ end + m >= 4
    BY <1>3, SMTT(30)
  <2>3. QED
    BY <2>1, <2>2
<1>11. QED
  BY <1>3, <1>6, <1>9, <1>10 DEF Laid

-----------------------------------------------------------------------------
(* An insertion's bytes. *)

ExtraOf(y, w) == y \in Nat /\ y = ComputeExtraBytes(w)

DeltaAt(t, b, i, w, y) ==
    t[i] = Nibble(w) * 16 + (b[i] % 16) /\ \A j \in 1..y : t[i + j] = Extension(w)[j]

LEMMA DeltaWritten ==
    ASSUME NEW b \in Seq(Byte), NEW i \in Nat, i > 0, NEW w \in Word, NEW y \in Nat,
           ExtraOf(y, w), i + y <= Len(b), NEW t, t = SetOptionDelta(b, i, w)
    PROVE  DeltaAt(t, b, i, w, y)
<1>1. PICK l \in Nat : l = Len(b)
  BY LenProperties
<1>2. i \in 1..l /\ \A j \in 1..y : i + j \in 1..l
  BY <1>1
<1>3. b[i] \in Byte /\ At(b, i) = b[i]
  BY <1>1, <1>2, LenProperties, ElementOfSeq DEF At
<1>4. PICK d : d = Extension(w)
  OBVIOUS
<1>5. d \in Seq(Byte) /\ Len(d) = y
  BY <1>4, Extended DEF ExtraOf
<1>6. PICK h \in Byte : h = Nibble(w) * 16 + (b[i] % 16)
  <2>1. Nibble(w) \in 0..14
    BY Extended
  <2>2. b[i] % 16 \in 0..15
    <3>1. PICK c \in 0..255 : c = b[i]
      BY <1>3 DEF Byte
    <3>2. c % 16 \in 0..15
      OBVIOUS
    <3>3. QED
      BY <3>1, <3>2
  <2>3. Nibble(w) \in 0..15
    BY <2>1
  <2>4. Nibble(w) * 16 + (b[i] % 16) \in Byte
    BY <2>2, <2>3, HeaderByte
  <2>5. QED
    BY <2>4
<1>7. PICK g : g = << h >>
  OBVIOUS
<1>8. g \in Seq(Byte) /\ Len(g) = 1 /\ g[1] = h
  BY <1>7
<1>9. PICK e : e = g \o d
  OBVIOUS
<1>10. e \in Seq(Byte) /\ Len(e) = 1 + y /\ e[1] = h /\ \A j \in 1..y : e[1 + j] = d[j]
  <2>1. Appends(e, g, d)
    BY <1>5, <1>8, <1>9, Appended
  <2>2. 1 \in 1..1
    OBVIOUS
  <2>3. QED
    BY <1>5, <1>8, <2>1, <2>2 DEF Appends
<1>11. t = Overwrite(b, i, e)
  BY <1>3, <1>4, <1>6, <1>7, <1>9 DEF SetOptionDelta
<1>12. \A j \in 1..l : i <= j /\ j < i + (1 + y) => t[j] = e[j - i + 1]
  <2>1. i \in Int
    OBVIOUS
  <2>2. \A j \in 1..Len(b) : i <= j /\ j < i + Len(e) => Overwrite(b, i, e)[j] = e[j - i + 1]
    BY <1>10, <2>1, Overwritten
  <2>3. QED
    BY <1>1, <1>10, <1>11, <2>2
<1>13. t[i] = h
  <2>1. i <= i /\ i < i + (1 + y) /\ i - i + 1 = 1
    OBVIOUS
  <2>2. QED
    BY <1>2, <1>10, <1>12, <2>1
<1>14. \A j \in 1..y : t[i + j] = d[j]
  <2> TAKE j \in 1..y
  <2>1. i <= i + j /\ i + j < i + (1 + y) /\ i + j - i + 1 = 1 + j
    OBVIOUS
  <2>2. PICK k \in 1..l : k = i + j
    BY <1>2
  <2>3. i <= k /\ k < i + (1 + y) /\ k - i + 1 = 1 + j
    BY <2>1, <2>2
  <2>4. t[k] = e[1 + j]
    BY <1>12, <2>3
  <2>5. QED
    BY <1>10, <2>2, <2>4
<1>15. QED
  BY <1>4, <1>6, <1>13, <1>14 DEF DeltaAt

Opened(o, b, at, gap) ==
    /\ o \in Seq(Byte) /\ Len(o) = Len(b) + gap
    /\ \A j \in 1..(at - 1) : o[j] = b[j]
    /\ \A j \in at..Len(b) : o[j + gap] = b[j]

LEMMA GapOpened ==
    ASSUME NEW b \in Seq(Byte), NEW at \in Nat, NEW gap \in Nat, at > 0, at <= Len(b),
           NEW o, o = OpenGap(b, at, gap)
    PROVE  Opened(o, b, at, gap)
<1>1. PICK l \in Nat, n \in Nat : l = Len(b) /\ n = l + gap
  BY LenProperties
<1>2. PICK r : r = Resize(b, n)
  OBVIOUS
<1>3. r \in Seq(Byte) /\ Len(r) = n /\ \A j \in 1..n : j <= l => r[j] = b[j]
  BY <1>1, <1>2, Resized
<1>4. PICK amount \in Int : amount = l - at + 1
  BY <1>1
<1>5. o = ShiftPDUUp(r, gap, amount)
  BY <1>1, <1>2, <1>4 DEF OpenGap
<1>6. gap \in Int
  OBVIOUS
<1>7. /\ o \in Seq(Byte) /\ Len(o) = n
      /\ \A j \in 1..n : o[j] = IF j > n - amount THEN At(r, j - gap) ELSE r[j]
  BY <1>3, <1>5, <1>6, ShiftedUp
<1>8. \A j \in 1..(at - 1) : o[j] = b[j]
  <2> TAKE j \in 1..(at - 1)
  <2>1. j \in 1..n /\ ~(j > n - amount) /\ j <= l
    BY <1>1, <1>4
  <2>2. QED
    BY <1>3, <1>7, <2>1
<1>9. \A j \in at..l : o[j + gap] = b[j]
  <2> TAKE j \in at..l
  <2>1. j + gap \in 1..n /\ j + gap > n - amount /\ j + gap - gap = j /\ j \in 1..n /\ j <= l
    BY <1>1, <1>4
  <2>2. At(r, j) = b[j]
    BY <1>3, <2>1, LenProperties DEF At
  <2>3. QED
    BY <1>7, <2>1, <2>2
<1>10. QED
  BY <1>1, <1>7, <1>8, <1>9 DEF Opened

\* What InsertInGap leaves: the new option, the header of the one behind with its
\* new delta, and the rest of that option and of the message.
InsertedAs(f, b, option, at, m, x, w, y, gap) ==
    /\ f \in Seq(Byte) /\ Len(f) = Len(b) + gap
    /\ \A j \in 1..(at - 1) : f[j] = b[j]
    /\ \A j \in 1..m : f[at + j - 1] = option[j]
    /\ f[at + m] = Nibble(w) * 16 + (b[at] % 16)
    /\ \A j \in 1..y : f[at + m + j] = Extension(w)[j]
    /\ \A j \in (at + 1 + x)..Len(b) : f[j + gap] = b[j]

LEMMA InsertedBytes ==
    ASSUME NEW b \in Seq(Byte), NEW option \in Seq(Byte), NEW at \in Nat, at > 0,
           NEW m \in Nat, m = Len(option), NEW newDelta, NEW w \in Word, w \in {U16(newDelta)},
           NEW x \in Nat, NEW y \in Nat, ExtraOf(y, w), at + x <= Len(b),
           NEW gap \in Nat, gap + x = m + y
    PROVE  InsertedAs(InsertInGap(b, option, at, gap, newDelta), b, option, at, m, x, w, y, gap)
<1>1. PICK l \in Nat : l = Len(b)
  BY LenProperties
<1>2. PICK n \in Nat : n = l + gap
  <2>1. l + gap \in Nat
    BY <1>1
  <2>2. QED
    BY <2>1
<1>3. PICK o : o = OpenGap(b, at, gap)
  OBVIOUS
<1>4. /\ o \in Seq(Byte) /\ Len(o) = n
      /\ \A j \in 1..(at - 1) : o[j] = b[j]
      /\ \A j \in at..l : o[j + gap] = b[j]
  <2>1. at <= Len(b)
    BY <1>1, <1>2
  <2>2. QED
    <3>1. Opened(o, b, at, gap)
      BY <1>3, <2>1, GapOpened
    <3>2. QED
      BY <1>1, <1>2, <3>1 DEF Opened
<1>5. PICK to \in Nat : to = at + m
  OBVIOUS
<1>6. /\ to \in 1..n /\ to + y <= n /\ at + gap \in 1..n /\ at \in at..l /\ l \in Nat
      /\ at + m + y = at + gap + x
  BY <1>1, <1>2, <1>5, SMTT(30)
<1>7. /\ \A j \in 1..y : to + j \in 1..n
      /\ \A j \in 1..(at - 1) : j \in 1..n /\ j # to /\ j < to
      /\ \A j \in 1..m : at + j - 1 \in 1..n
  <2>1. \A j \in 1..y : to + j \in 1..n
    BY <1>6
  <2>2. \A j \in 1..(at - 1) : j \in 1..n /\ j # to /\ j < to
    BY <1>5, <1>6
  <2>3. \A j \in 1..m : at + j - 1 \in 1..n
    BY <1>5, <1>6
  <2>4. QED
    BY <2>1, <2>2, <2>3
<1>8. \A j \in (at + 1 + x)..l : /\ j \in at..l /\ j + gap \in 1..n /\ j + gap # to
                                 /\ j + gap > to + y /\ j + gap >= at + m
  <2> TAKE j \in (at + 1 + x)..l
  <2>1. j \in at..l /\ j + gap > to + y
    BY <1>5, <1>6
  <2>2. QED
    BY <1>1, <1>2, <1>5, <1>6, <2>1
<1>9. PICK h : h = MoveHeader(o, at + gap, to)
  OBVIOUS
<1>10. /\ h \in Seq(Byte) /\ Len(h) = n /\ h[to] = b[at]
       /\ \A j \in 1..n : j # to => h[j] = o[j]
  <2>1. At(o, at + gap) = b[at]
    BY <1>4, <1>6, LenProperties DEF At
  <2>2. PICK from : from = at + gap
    OBVIOUS
  <2>3. o \in Seq(Byte)
    BY <1>4
  <2>4. /\ MoveHeader(o, from, to) \in Seq(Byte) /\ Len(MoveHeader(o, from, to)) = Len(o)
        /\ \A j \in 1..Len(o) : j # to => MoveHeader(o, from, to)[j] = o[j]
        /\ to \in 1..Len(o) => MoveHeader(o, from, to)[to] = At(o, from)
    BY <2>3, HeaderMoved, Zenon
  <2>5. h = MoveHeader(o, from, to)
    BY <1>9, <2>2
  <2>6. QED
    BY <1>4, <1>6, <2>1, <2>2, <2>4, <2>5
<1>11. PICK t : t = SetOptionDelta(h, to, w)
  OBVIOUS
<1>12. /\ t \in Seq(Byte) /\ Len(t) = n
       /\ \A j \in 1..n : j < to => t[j] = h[j]
       /\ \A j \in 1..n : j > to + y => t[j] = h[j]
  <2>1. to \in Int
    BY <1>5
  <2>2. /\ t \in Seq(Byte) /\ Len(t) = Len(h)
        /\ \A j \in 1..Len(h) : j < to => t[j] = h[j]
        /\ \A j \in 1..Len(h) : j > to + ComputeExtraBytes(w) => t[j] = h[j]
    BY <1>10, <1>11, <2>1, DeltaSet
  <2>3. y = ComputeExtraBytes(w)
    BY DEF ExtraOf
  <2>4. QED
    BY <1>10, <2>2, <2>3
<1>13. t[to] = Nibble(w) * 16 + (b[at] % 16) /\ \A j \in 1..y : t[to + j] = Extension(w)[j]
  <2>1. to > 0
    BY <1>6
  <2>2. to + y <= Len(h)
    BY <1>6, <1>10
  <2>3. to > 0 /\ to + y <= Len(h) /\ to \in Nat /\ h \in Seq(Byte)
    BY <1>10, <2>1, <2>2
  <2>4. DeltaAt(t, h, to, w, y)
    BY <1>11, <2>3, DeltaWritten
  <2>5. QED
    BY <1>10, <2>4 DEF DeltaAt
<1>14. PICK f : f = Overwrite(t, at, option)
  OBVIOUS
<1>15. /\ f \in Seq(Byte) /\ Len(f) = n
       /\ \A j \in 1..n : at <= j /\ j < at + m => f[j] = option[j - at + 1]
       /\ \A j \in 1..n : j < at \/ j >= at + m => f[j] = t[j]
  <2>1. at \in Int
    OBVIOUS
  <2>2. /\ f \in Seq(Byte) /\ Len(f) = Len(t)
        /\ \A j \in 1..Len(t) : at <= j /\ j < at + Len(option) => f[j] = option[j - at + 1]
        /\ \A j \in 1..Len(t) : j < at \/ j >= at + Len(option) => f[j] = t[j]
    <3>1. t \in Seq(Byte)
      BY <1>12
    <3>2. QED
      BY <1>14, <2>1, <3>1, Overwritten, ZenonT(30)
  <2>3. QED
    BY <1>12, <2>2
<1>16. InsertInGap(b, option, at, gap, newDelta) = f
  BY <1>3, <1>5, <1>9, <1>11, <1>14 DEF InsertInGap
<1>17. \A j \in 1..(at - 1) : f[j] = b[j]
  <2> TAKE j \in 1..(at - 1)
  <2>1. j \in 1..n /\ j # to /\ j < to /\ j < at
    <3>1. j < at
      OBVIOUS
    <3>2. QED
      BY <1>7, <3>1
  <2>2. f[j] = t[j]
    BY <1>15, <2>1
  <2>3. t[j] = h[j]
    BY <1>12, <2>1
  <2>4. h[j] = o[j]
    BY <1>10, <2>1
  <2>5. QED
    BY <1>4, <2>2, <2>3, <2>4
<1>18. \A j \in 1..m : f[at + j - 1] = option[j]
  <2> TAKE j \in 1..m
  <2>1. PICK k \in 1..n : k = at + j - 1
    BY <1>7
  <2>2. at <= k /\ k < at + m /\ k - at + 1 = j
    BY <2>1
  <2>3. f[k] = option[j]
    BY <1>15, <2>2
  <2>4. QED
    BY <2>1, <2>3
<1>19. f[to] = t[to] /\ \A j \in 1..y : f[to + j] = t[to + j]
  <2>1. to >= at + m /\ \A j \in 1..y : to + j >= at + m
    BY <1>5
  <2>2. QED
    BY <1>6, <1>15, <1>7, <2>1
<1>20. \A j \in (at + 1 + x)..l : f[j + gap] = b[j]
  <2> TAKE j \in (at + 1 + x)..l
  <2>1. f[j + gap] = t[j + gap]
    BY <1>8, <1>15
  <2>2. t[j + gap] = h[j + gap]
    BY <1>8, <1>12
  <2>3. h[j + gap] = o[j + gap]
    BY <1>8, <1>10
  <2>4. o[j + gap] = b[j]
    BY <1>4, <1>8
  <2>5. QED
    BY <2>1, <2>2, <2>3, <2>4
<1>21. QED
  BY <1>1, <1>2, <1>5, <1>13, <1>15, <1>16, <1>17, <1>18, <1>19, <1>20 DEF InsertedAs

-----------------------------------------------------------------------------
(* Options that are added. *)

\* The option that addOption() writes at i.
OptionPut(i, delta, n, v) ==
    [at |-> i, next |-> i + EncodedSize(delta, Len(v)), number |-> n, value |-> v]

LEMMA PutIs ==
    ASSUME NEW f \in Seq(Byte), NEW i \in Nat, NEW q \in Word, NEW n \in Word,
           NEW v \in Seq(Byte), Len(v) \in Word, NEW delta, delta = U16(n - q),
           Holds(f, i, EncodeOption(delta, v))
    PROVE  /\ Entry(f, i, q, OptionPut(i, delta, n, v))
           /\ OptionPut(i, delta, n, v).next = i + EncodedSize(delta, Len(v))
           /\ OptionPut(i, delta, n, v).number = n
<1>1. PICK size \in Nat : size = EncodedSize(delta, Len(v))
  BY SizeOfOption
<1>2. PICK o : o = OptionPut(i, delta, n, v)
  OBVIOUS
<1>3. o = [at |-> i, next |-> i + size, number |-> n, value |-> v]
  BY <1>1, <1>2 DEF OptionPut
<1>4. o \in Option /\ o.at = i /\ o.next = i + size /\ o.number = n /\ o.value = v
  BY <1>3 DEF Option
<1>5. Entry(f, i, q, o)
  BY <1>1, <1>4 DEF Entry
<1>6. QED
  BY <1>1, <1>2, <1>4, <1>5

\* The number of the last option, 0 if there is none.
LastNumber(s) == Before(s, 0, Len(s) + 1)

\* At the end of a message without a payload.
LEMMA LaidAppended ==
    ASSUME NEW b, NEW s, Laid(b, s, 0), NEW n \in Word, NEW v \in Seq(Byte), Len(v) \in Word,
           NEW delta, delta = U16(n - LastNumber(s))
    PROVE  Laid(b \o EncodeOption(delta, v), Append(s, OptionPut(Len(b) + 1, delta, n, v)), 0)
<1>1. b \in Seq(Byte)
  BY DEF Laid
<1>2. PICK first \in Nat, end \in Nat : LaidAs(b, s, 0, first, end)
  BY LaidIs
<1>3. PICK l \in Nat, m \in Nat :
         /\ l = Len(b) /\ m = Len(s) /\ l + 1 = end /\ l >= 4
         /\ first = FirstOption(b) /\ end = EndOf(s, first) /\ s \in Seq(Option)
         /\ first = 5 + GetTokenLength(b) /\ GetTokenLength(b) \in 0..8 /\ first <= end
         /\ first >= 5 /\ AtEnd(b, end)
  BY <1>2 DEF LaidAs
<1>4. PICK q \in Word : q = LastNumber(s)
  <2>1. CASE m = 0
    <3>1. LastNumber(s) = 0
      BY <1>3, <2>1 DEF LastNumber, Before
    <3>2. QED
      BY <3>1 DEF Word
  <2>2. CASE m # 0
    <3>1. LastNumber(s) = s[m].number /\ m \in 1..m
      BY <1>3, <2>2 DEF LastNumber, Before
    <3>2. s[m] \in Option
      BY <1>3, <3>1, ElementOfSeq
    <3>3. QED
      BY <3>1, <3>2, OptionFields
  <2>3. QED
    BY <2>1, <2>2
<1>5. delta \in Word
  BY <1>4, DeltaIs
<1>6. PICK e : e = EncodeOption(delta, v)
  OBVIOUS
<1>7. PICK size \in Nat : size = EncodedSize(delta, Len(v)) /\ e \in Seq(Byte) /\ Len(e) = size
  BY <1>5, <1>6, SizeOfOption, Encoded
<1>8. PICK f : f = b \o e
  OBVIOUS
<1>9. /\ f \in Seq(Byte) /\ Len(f) = l + size /\ \A j \in 1..l : f[j] = b[j]
      /\ \A j \in 1..size : f[l + j] = e[j]
  <2>1. Appends(f, b, e)
    BY <1>1, <1>7, <1>8, Appended
  <2>2. QED
    BY <1>3, <1>7, <2>1 DEF Appends
<1>10. GetTokenLength(f) = GetTokenLength(b) /\ FirstOption(f) = first
  <2>1. 1 \in 1..l
    BY <1>3
  <2>2. f[1] = b[1]
    BY <1>9, <2>1
  <2>3. QED
    BY <1>3, <2>2 DEF GetTokenLength, FirstOption
<1>11. Written(f, first, 0, s)
  <2>1. Agree(b, f, first, end, 0)
    <3>1. end + 0 <= l + size + 1
      BY <1>3
    <3>2. \A j \in first..(end - 1) : f[j + 0] = b[j]
      BY <1>3, <1>9
    <3>3. QED
      BY <1>9, <3>1, <3>2 DEF Agree
  <2>2. first > 0 /\ first + 0 > 0 /\ 0 \in Word /\ 0 \in Int /\ Written(b, first, 0, s)
    BY <1>3 DEF Word, Laid
  <2>3. Moved(b, first, 0, s, f, 0)
    BY <1>1, <1>3, <1>9, <2>1, <2>2, WrittenMoved
  <2>4. Written(f, first + 0, 0, AllMoved(s, 0))
    BY <2>3 DEF Moved
  <2>5. first + 0 = first /\ AllMoved(s, 0) = s
    BY <1>3, MovedByNothing
  <2>6. QED
    BY <2>4, <2>5
<1>12. PICK o : o = OptionPut(end, delta, n, v)
  OBVIOUS
<1>13. Holds(f, end, e)
  <2>1. end + size - 1 <= l + size
    BY <1>3
  <2>2. \A j \in 1..size : end + j - 1 = l + j
    BY <1>3
  <2>3. QED
    BY <1>7, <1>9, <2>1, <2>2 DEF Holds
<1>14. Entry(f, end, q, o) /\ o.next = end + size
  BY <1>4, <1>6, <1>7, <1>9, <1>12, <1>13, PutIs
<1>15. o \in Option
  BY <1>14 DEF Entry
<1>16. PICK t : t = Append(s, o)
  OBVIOUS
<1>17. /\ t \in Seq(Option) /\ Len(t) = m + 1 /\ \A k \in 1..m : t[k] = s[k]
       /\ t[m + 1] = o
  BY <1>3, <1>15, <1>16, AppendProperties
<1>18. \A k \in 1..(m + 1) : StartOf(t, first, k) = StartOf(s, first, k) /\ Before(t, 0, k) = Before(s, 0, k)
  <2> TAKE k \in 1..(m + 1)
  <2>1. CASE k = 1
    BY <2>1 DEF StartOf, Before
  <2>2. CASE k # 1
    <3>1. k - 1 \in 1..m
      BY <2>2
    <3>2. t[k - 1] = s[k - 1]
      BY <1>17, <3>1
    <3>3. QED
      BY <2>2, <3>2 DEF StartOf, Before
  <2>3. QED
    BY <2>1, <2>2
<1>19. StartOf(s, first, m + 1) = end
  <2>1. CASE m = 0
    <3>1. s = << >>
      BY <1>3, <2>1, EmptySeq
    <3>2. QED
      BY <1>3, <2>1, <3>1 DEF StartOf, EndOf
  <2>2. CASE m # 0
    <3>1. s # << >> /\ m + 1 # 1 /\ m + 1 - 1 = m
      BY <1>3, <2>2
    <3>2. QED
      BY <1>3, <3>1 DEF StartOf, EndOf
  <2>3. QED
    BY <2>1, <2>2
<1>20. ASSUME NEW k \in 1..(m + 1)
       PROVE  Entry(f, StartOf(t, first, k), Before(t, 0, k), t[k])
  <2>1. CASE k = m + 1
    <3>1. StartOf(t, first, k) = end /\ Before(t, 0, k) = q
      BY <1>3, <1>4, <1>18, <1>19, <2>1 DEF LastNumber
    <3>2. QED
      BY <1>14, <1>17, <2>1, <3>1
  <2>2. CASE k # m + 1
    <3>1. k \in 1..m
      BY <2>2
    <3>2. Entry(f, StartOf(s, first, k), Before(s, 0, k), s[k])
      BY <1>3, <1>11, <3>1 DEF Written
    <3>3. QED
      BY <1>17, <1>18, <3>1, <3>2
  <2>3. QED
    BY <2>1, <2>2
<1>21. Written(f, first, 0, t)
  BY <1>17, <1>20 DEF Written
<1>22. EndOf(t, first) = end + size
  <2>1. t # << >>
    BY <1>17
  <2>2. QED
    BY <1>14, <1>17, <2>1 DEF EndOf
<1>23. Laid(f, t, 0)
  <2>1. Len(f) + 1 = end + size /\ Len(f) >= 4
    BY <1>3, <1>9
  <2>2. 0 \in Nat /\ ~(0 > 0) /\ GetTokenLength(f) <= 8 /\ Len(f) + 1 = end + size + 0
    BY <1>3, <1>10, <2>1, SMTT(30)
  <2>3. QED
    BY <1>9, <1>10, <1>21, <1>22, <2>1, <2>2 DEF Laid
<1>24. QED
  BY <1>3, <1>6, <1>8, <1>12, <1>16, <1>23

\* An option whose delta is another: its header and the delta's extension are
\* written at `to', the rest of it has moved.
Rewritten(b, f, i, to, x, w, y, gap) ==
    /\ to + y = i + gap + x /\ Len(f) = Len(b) + gap
    /\ f[to] = Nibble(w) * 16 + (b[i] % 16)
    /\ \A j \in 1..y : f[to + j] = Extension(w)[j]
    /\ \A j \in (i + 1 + x)..Len(b) : f[j + gap] = b[j]

HoldsAgain(f, i, to, d, w, v, gap) ==
    /\ Holds(f, to, EncodeOption(w, v))
    /\ to + EncodedSize(w, Len(v)) = i + EncodedSize(d, Len(v)) + gap

LEMMA ReEncoded ==
    ASSUME NEW b \in Seq(Byte), NEW f \in Seq(Byte), NEW i \in Nat, i > 0, NEW to \in Nat, to > 0,
           NEW d \in Word, NEW w \in Word, NEW v \in Seq(Byte), Len(v) \in Word,
           NEW x \in Nat, NEW y \in Nat, ExtraOf(x, d), ExtraOf(y, w),
           Holds(b, i, EncodeOption(d, v)),
           NEW gap \in Nat, Rewritten(b, f, i, to, x, w, y, gap)
    PROVE  HoldsAgain(f, i, to, d, w, v, gap)
<1>1. /\ to + y = i + gap + x /\ Len(f) = Len(b) + gap
      /\ f[to] = Nibble(w) * 16 + (b[i] % 16)
      /\ \A j \in 1..y : f[to + j] = Extension(w)[j]
      /\ \A j \in (i + 1 + x)..Len(b) : f[j + gap] = b[j]
  BY DEF Rewritten
<1>2. PICK n \in Word : n = Len(v) /\ n \in Nat
  BY DEF Word
<1>3. PICK z \in Nat : z = ComputeExtraBytes(n)
  BY ExtraBytes
<1>4. x = ComputeExtraBytes(d) /\ y = ComputeExtraBytes(w)
  BY DEF ExtraOf
<1>5. PICK e, g : e = EncodeOption(d, v) /\ g = EncodeOption(w, v)
  OBVIOUS
<1>6. Encoding(e, d, v, n, x, z) /\ Encoding(g, w, v, n, y, z)
  BY <1>2, <1>3, <1>4, <1>5, EncodedBytes
<1>7. /\ Len(e) = 1 + x + z + n /\ EncodedSize(d, n) = 1 + x + z + n
      /\ e[1] = Nibble(d) * 16 + Nibble(n)
      /\ \A j \in 1..z : e[1 + x + j] = Extension(n)[j]
      /\ \A j \in 1..n : e[1 + x + z + j] = v[j]
  BY <1>6 DEF Encoding
<1>8. /\ Len(g) = 1 + y + z + n /\ EncodedSize(w, n) = 1 + y + z + n
      /\ g[1] = Nibble(w) * 16 + Nibble(n)
      /\ \A j \in 1..y : g[1 + j] = Extension(w)[j]
      /\ \A j \in 1..z : g[1 + y + j] = Extension(n)[j]
      /\ \A j \in 1..n : g[1 + y + z + j] = v[j]
  BY <1>6 DEF Encoding
<1>9. PICK l \in Nat : l = Len(b)
  BY LenProperties
<1>10. PICK r \in Nat : r = z + n
  BY <1>2
<1>11. i + (1 + x + r) - 1 <= l /\ \A j \in 1..(1 + x + r) : b[i + j - 1] = e[j]
  <2>1. Len(e) = 1 + x + r
    BY <1>2, <1>7, <1>10
  <2>2. QED
    BY <1>5, <1>9, <2>1 DEF Holds
<1>12. f[to] = g[1]
  <2>1. 1 \in 1..(1 + x + r) /\ i + 1 - 1 = i
    OBVIOUS
  <2>2. b[i] = Nibble(d) * 16 + Nibble(n)
    BY <1>7, <1>11, <2>1
  <2>3. Nibble(d) \in 0..15 /\ Nibble(n) \in 0..15
    <3>1. Nibble(d) \in 0..14 /\ Nibble(n) \in 0..14
      BY Extended
    <3>2. QED
      BY <3>1
  <2>4. b[i] % 16 = Nibble(n)
    BY <2>2, <2>3, HeaderByte
  <2>5. QED
    BY <1>1, <1>8, <2>4
<1>13. \A j \in 1..r : g[1 + y + j] = e[1 + x + j]
  <2> TAKE j \in 1..r
  <2>1. CASE j <= z
    <3>1. j \in 1..z
      BY <2>1
    <3>2. QED
      BY <1>7, <1>8, <3>1
  <2>2. CASE ~(j <= z)
    <3>1. PICK h \in 1..n : h = j - z
      BY <1>2, <1>10, <2>2
    <3>2. 1 + y + z + h = 1 + y + j /\ 1 + x + z + h = 1 + x + j
      BY <1>2, <3>1
    <3>3. g[1 + y + z + h] = v[h] /\ e[1 + x + z + h] = v[h]
      BY <1>7, <1>8
    <3>4. QED
      BY <3>2, <3>3
  <2>3. QED
    BY <2>1, <2>2
<1>14. \A j \in 1..r : f[to + y + j] = g[1 + y + j]
  <2> TAKE j \in 1..r
  <2>1. PICK h \in (i + 1 + x)..l : h = i + x + j
    <3>1. i + (1 + x + r) - 1 <= l /\ j >= 1 /\ j <= r
      BY <1>11
    <3>2. i + x + j \in (i + 1 + x)..l
      BY <3>1
    <3>3. QED
      BY <3>2
  <2>2. to + y + j = h + gap
    BY <1>1, <2>1
  <2>3. f[h + gap] = b[h]
    BY <1>1, <1>9
  <2>4. PICK c \in 1..(1 + x + r) : c = 1 + x + j
    OBVIOUS
  <2>5. i + c - 1 = h
    BY <2>1, <2>4
  <2>6. b[h] = e[c]
    BY <1>11, <2>5
  <2>7. QED
    BY <1>13, <2>2, <2>3, <2>4, <2>6
<1>15. \A j \in 1..(1 + y + r) : f[to + j - 1] = g[j]
  <2> TAKE j \in 1..(1 + y + r)
  <2>1. CASE j = 1
    BY <1>12, <2>1
  <2>2. CASE j # 1 /\ j <= 1 + y
    <3>1. PICK h \in 1..y : h = j - 1
      BY <2>2
    <3>2. to + j - 1 = to + h /\ 1 + h = j
      BY <3>1
    <3>3. QED
      BY <1>1, <1>8, <3>2
  <2>3. CASE ~(j <= 1 + y)
    <3>1. PICK h \in 1..r : h = j - (1 + y)
      BY <2>3
    <3>2. to + j - 1 = to + y + h /\ 1 + y + h = j
      BY <3>1
    <3>3. QED
      BY <1>14, <3>2
  <2>4. QED
    BY <2>1, <2>2, <2>3
<1>16. to + (1 + y + r) - 1 <= l + gap
  BY <1>1, <1>11
<1>17. Len(g) = 1 + y + r
  BY <1>2, <1>8, <1>10
<1>18. Holds(f, to, g)
  BY <1>1, <1>9, <1>15, <1>16, <1>17 DEF Holds
<1>19. to + EncodedSize(w, n) = i + EncodedSize(d, n) + gap
  <2>1. to + y = i + gap + x
    BY <1>1
  <2>2. to + (1 + y + z + n) = i + (1 + x + z + n) + gap
    <3>1. \A h \in Nat : to + (1 + y + z + h) = i + (1 + x + z + h) + gap
      BY <2>1
    <3>2. n \in Nat
      BY <1>2
    <3>3. QED
      BY <3>1, <3>2
  <2>3. QED
    BY <1>7, <1>8, <2>2
<1>20. QED
  BY <1>2, <1>5, <1>18, <1>19 DEF HoldsAgain

LEMMA StaysPut ==
    ASSUME NEW o \in Option
    PROVE  MovedBy(o, 0) = o
<1>1. /\ o.at \in Nat /\ o.next \in Nat
      /\ o = [at |-> o.at, next |-> o.next, number |-> o.number, value |-> o.value]
  BY OptionFields
<1>2. o.at + 0 = o.at /\ o.next + 0 = o.next
  BY <1>1
<1>3. QED
  BY <1>1, <1>2 DEF MovedBy

\* The option `new' put before the k+1st of s; that one is `behind', encoded
\* again, and those after it have moved.
WithInserted(s, k, new, behind, gap) ==
    [j \in 1..(Len(s) + 1) |-> IF j <= k THEN s[j] ELSE IF j = k + 1 THEN new
                               ELSE IF j = k + 2 THEN behind ELSE MovedBy(s[j - 1], gap)]

InsertedOptions(t, s, m, k, new, behind, gap) ==
    /\ t \in Seq(Option) /\ Len(t) = m + 1
    /\ \A j \in 1..k : t[j] = s[j]
    /\ t[k + 1] = new /\ t[k + 2] = behind
    /\ \A j \in (k + 2)..m : t[j + 1] = MovedBy(s[j], gap)

LEMMA InsertedOptionsAre ==
    ASSUME NEW s \in Seq(Option), NEW m \in Nat, m = Len(s), NEW k \in 0..(m - 1),
           NEW new \in Option, NEW behind \in Option, NEW gap \in Nat
    PROVE  InsertedOptions(WithInserted(s, k, new, behind, gap), s, m, k, new, behind, gap)
<1>1. PICK t : t = WithInserted(s, k, new, behind, gap)
  OBVIOUS
<1>2. t = [j \in 1..(m + 1) |-> IF j <= k THEN s[j] ELSE IF j = k + 1 THEN new
                                ELSE IF j = k + 2 THEN behind ELSE MovedBy(s[j - 1], gap)]
  BY <1>1 DEF WithInserted
<1>3. ASSUME NEW j \in 1..(m + 1)
      PROVE  (IF j <= k THEN s[j] ELSE IF j = k + 1 THEN new
              ELSE IF j = k + 2 THEN behind ELSE MovedBy(s[j - 1], gap)) \in Option
  <2>1. CASE j <= k
    <3>1. j \in 1..m
      BY <2>1
    <3>2. QED
      BY <2>1, <3>1, ElementOfSeq
  <2>2. CASE j > k + 2
    <3>1. PICK h \in 1..m : h = j - 1
      BY <2>2
    <3>2. PICK o \in Option : o = s[h]
      BY <3>1, ElementOfSeq
    <3>3. o.at \in Nat /\ o.next \in Nat
      BY OptionFields
    <3>4. o.at + gap \in Nat /\ o.next + gap \in Nat /\ gap \in Int
      BY <3>3
    <3>5. MovedBy(o, gap) \in Option
      BY <3>4, MovedOption
    <3>6. ~(j <= k) /\ j # k + 1 /\ j # k + 2
      BY <2>2
    <3>7. QED
      BY <3>1, <3>2, <3>5, <3>6
  <2>3. CASE ~(j <= k) /\ ~(j > k + 2)
    <3>1. j = k + 1 \/ j = k + 2
      BY <2>3
    <3>2. QED
      BY <2>3, <3>1
  <2>4. QED
    BY <2>1, <2>2, <2>3
<1>4. t \in Seq(Option) /\ Len(t) = m + 1
  BY <1>2, <1>3, IsASeq
<1>5. \A j \in 1..k : t[j] = s[j]
  <2> TAKE j \in 1..k
  <2>1. j \in 1..(m + 1) /\ j <= k
    OBVIOUS
  <2>2. QED
    BY <1>2, <2>1
<1>6. t[k + 1] = new
  <2>1. k + 1 \in 1..(m + 1) /\ ~(k + 1 <= k)
    OBVIOUS
  <2>2. QED
    BY <1>2, <2>1
<1>7. t[k + 2] = behind
  <2>1. k + 2 \in 1..(m + 1) /\ ~(k + 2 <= k) /\ k + 2 # k + 1
    OBVIOUS
  <2>2. QED
    BY <1>2, <2>1
<1>8. \A j \in (k + 2)..m : t[j + 1] = MovedBy(s[j], gap)
  <2> TAKE j \in (k + 2)..m
  <2>1. PICK h \in 1..(m + 1) : h = j + 1
    OBVIOUS
  <2>2. ~(h <= k) /\ h # k + 1 /\ h # k + 2 /\ h - 1 = j
    BY <2>1
  <2>3. t[h] = MovedBy(s[h - 1], gap)
    BY <1>2, <2>2
  <2>4. QED
    BY <2>1, <2>2, <2>3
<1>9. QED
  BY <1>1, <1>4, <1>5, <1>6, <1>7, <1>8 DEF InsertedOptions

\* A message that is spliced: up to `at' as it was, then a new option and the one
\* behind it encoded again, then as it was, but moved.
SplicedAs(b, f, at, next, gap) ==
    /\ f \in Seq(Byte) /\ Len(f) = Len(b) + gap
    /\ \A j \in 1..(at - 1) : f[j] = b[j]
    /\ \A j \in next..Len(b) : f[j + gap] = b[j]

SpliceOf(f, at, to, next, gap, q, new, behind, old) ==
    /\ Entry(f, at, q, new) /\ new.next = to
    /\ Entry(f, to, new.number, behind) /\ behind.next = next + gap
    /\ behind.number = old.number

LEMMA LaidSpliced ==
    ASSUME NEW b, NEW s, NEW n, Laid(b, s, n), NEW m \in Nat, m = Len(s), NEW k \in 0..(m - 1),
           NEW at, at = s[k + 1].at, NEW next, next = s[k + 1].next, NEW gap \in Nat,
           NEW f, SplicedAs(b, f, at, next, gap),
           NEW to \in Nat, NEW new, NEW behind,
           SpliceOf(f, at, to, next, gap, Before(s, 0, k + 1), new, behind, s[k + 1])
    PROVE  Laid(f, WithInserted(s, k, new, behind, gap), n)
<1>1. b \in Seq(Byte) /\ n \in Nat
  BY DEF Laid
<1>2. PICK first \in Nat, end \in Nat : LaidAs(b, s, n, first, end)
  BY LaidIs
<1>3. PICK l \in Nat : /\ l = Len(b) /\ l + 1 = end + (IF n = 0 THEN 0 ELSE n + 1) /\ l >= 4
                       /\ first = FirstOption(b) /\ end = EndOf(s, first)
                       /\ first = 5 + GetTokenLength(b) /\ GetTokenLength(b) \in 0..8 /\ first <= end
                       /\ first >= 5 /\ AtEnd(b, end) /\ s \in Seq(Option)
                       /\ WrittenAs(b, first, 0, s) /\ Chain(b, first, 0, s)
  BY <1>2 DEF LaidAs
<1>4. /\ \A j \in 1..m : s[j] \in Option /\ s[j].at \in Nat /\ s[j].next \in Nat
      /\ \A j \in 1..m : first <= s[j].at /\ s[j].next <= end /\ s[j].at < s[j].next
      /\ \A i, j \in 1..m : i < j => s[i].next <= s[j].at
  <2>1. 0 \in Nat
    OBVIOUS
  <2>2. \A j \in 1..m : s[j] \in Option
    BY <1>3, ElementOfSeq
  <2>3. \A j \in 1..m : s[j].next > s[j].at
    BY <1>1, <1>3, <2>1, ChainTyped
  <2>4. \A i, j \in 1..m : i < j => s[i].next <= s[j].at
    BY <1>1, <1>3, <2>1, ChainAscends
  <2>5. \A j \in 1..m : first <= s[j].at /\ s[j].next <= end
    BY <1>1, <1>3, <2>1, ChainAscends
  <2>6. \A j \in 1..m : s[j].at \in Nat /\ s[j].next \in Nat
    BY <2>2, OptionFields
  <2>7. QED
    BY <2>2, <2>3, <2>4, <2>5, <2>6
<1>5. ASSUME NEW j \in 1..m
      PROVE  /\ Entry(b, s[j].at, Before(s, 0, j), s[j]) /\ s[j].at > 0 /\ Before(s, 0, j) \in Word
             /\ s[j].at = StartOf(s, first, j)
  <2>1. /\ s[j].at = StartOf(s, first, j) /\ StartOf(s, first, j) > 0 /\ Before(s, 0, j) \in Word
    BY <1>3 DEF WrittenAs
  <2>2. Written(b, first, 0, s)
    BY <1>3 DEF Laid
  <2>3. Entry(b, StartOf(s, first, j), Before(s, 0, j), s[j])
    BY <2>2 DEF Written
  <2>4. QED
    BY <2>1, <2>3
<1>6. k + 1 \in 1..m
  OBVIOUS
<1>7. /\ at \in Nat /\ next \in Nat /\ at < next /\ first <= at /\ next <= end /\ at > 0
      /\ at = StartOf(s, first, k + 1)
  BY <1>4, <1>5, <1>6
<1>8. first >= 5 /\ l >= 4 /\ l + 1 = end + (IF n = 0 THEN 0 ELSE n + 1)
  BY <1>3
<1>9. /\ 1 \in 1..(at - 1) /\ \A h \in first..(at - 1) : h \in 1..(at - 1) /\ h + 0 = h
      /\ at + 0 <= l + gap + 1 /\ end + gap <= l + gap + 1
      /\ \A i \in next..(end - 1) : i \in next..l
      /\ n > 0 => end \in next..l
      /\ l + gap >= 4 /\ l + gap + 1 = end + gap + (IF n = 0 THEN 0 ELSE n + 1)
      /\ next \in Int /\ end \in Int /\ at \in Int /\ first \in Int /\ gap \in Int
  <2>1. n = 0 \/ n >= 1
    BY <1>1
  <2>2. l + 1 = end \/ (n > 0 /\ l = end + n)
    BY <1>1, <1>8
  <2>3. end <= l + 1 /\ (n > 0 => end <= l)
    BY <1>1, <1>8
  <2>4. 1 \in 1..(at - 1) /\ \A h \in first..(at - 1) : h \in 1..(at - 1) /\ h + 0 = h
    BY <1>7, <1>8
  <2>5. at + 0 <= l + gap + 1 /\ end + gap <= l + gap + 1
    BY <1>7, <2>3
  <2>6. \A i \in next..(end - 1) : i \in next..l
    BY <1>7, <2>3
  <2>7. n > 0 => end \in next..l
    BY <1>7, <2>3
  <2>8. l + gap >= 4 /\ l + gap + 1 = end + gap + (IF n = 0 THEN 0 ELSE n + 1)
    BY <1>1, <1>8
  <2>9. next \in Int /\ end \in Int /\ at \in Int /\ first \in Int /\ gap \in Int
    BY <1>7
  <2>10. QED
    BY <2>4, <2>5, <2>6, <2>7, <2>8, <2>9
<1>10. /\ f \in Seq(Byte) /\ Len(f) = l + gap
       /\ \A j \in 1..(at - 1) : f[j] = b[j]
       /\ \A j \in next..l : f[j + gap] = b[j]
  BY <1>3 DEF SplicedAs
<1>11. PICK q : /\ q = Before(s, 0, k + 1) /\ Entry(f, at, q, new) /\ new.next = to
                /\ Entry(f, to, new.number, behind) /\ behind.next = next + gap
                /\ behind.number = s[k + 1].number
  BY DEF SpliceOf
<1>12. new \in Option /\ behind \in Option
  BY <1>11 DEF Entry
<1>13. PICK t : t = WithInserted(s, k, new, behind, gap)
  OBVIOUS
<1>14. InsertedOptions(t, s, m, k, new, behind, gap)
  BY <1>3, <1>12, <1>13, InsertedOptionsAre
<1>15. /\ t \in Seq(Option) /\ Len(t) = m + 1 /\ \A j \in 1..k : t[j] = s[j]
       /\ t[k + 1] = new /\ t[k + 2] = behind
       /\ \A j \in (k + 2)..m : t[j + 1] = MovedBy(s[j], gap)
  BY <1>14 DEF InsertedOptions
<1>16. \A j \in (k + 1)..m : t[j + 1].next = s[j].next + gap /\ t[j + 1].number = s[j].number
  <2> TAKE j \in (k + 1)..m
  <2>1. CASE j = k + 1
    <3>1. t[j + 1] = behind
      BY <1>15, <2>1
    <3>2. QED
      BY <1>11, <2>1, <3>1
  <2>2. CASE j # k + 1
    <3>1. j \in (k + 2)..m /\ j \in 1..m
      BY <2>2
    <3>2. PICK o \in Option : o = s[j] /\ o.at \in Nat /\ o.next \in Nat
      BY <1>4, <3>1
    <3>3. o.at + gap \in Nat /\ o.next + gap \in Nat /\ gap \in Int
      BY <3>2
    <3>4. t[j + 1] = MovedBy(o, gap)
      BY <1>15, <3>1, <3>2
    <3>5. QED
      BY <3>2, <3>3, <3>4, MovedOption
  <2>3. QED
    BY <2>1, <2>2
<1>17. \A j \in 1..(k + 1) : StartOf(t, first, j) = StartOf(s, first, j) /\ Before(t, 0, j) = Before(s, 0, j)
  <2> TAKE j \in 1..(k + 1)
  <2>1. CASE j = 1
    BY <2>1 DEF StartOf, Before
  <2>2. CASE j # 1
    <3>1. j - 1 \in 1..k
      BY <2>2
    <3>2. t[j - 1] = s[j - 1]
      BY <1>15, <3>1
    <3>3. QED
      BY <2>2, <3>2 DEF StartOf, Before
  <2>3. QED
    BY <2>1, <2>2
<1>18. StartOf(t, first, k + 2) = to /\ Before(t, 0, k + 2) = new.number
  <2>1. k + 2 # 1 /\ k + 2 - 1 = k + 1
    OBVIOUS
  <2>2. QED
    BY <1>11, <1>15, <2>1 DEF StartOf, Before
<1>19. \A j \in (k + 2)..m : /\ StartOf(t, first, j + 1) = StartOf(s, first, j) + gap
                             /\ Before(t, 0, j + 1) = Before(s, 0, j)
  <2> TAKE j \in (k + 2)..m
  <2>1. PICK h \in (k + 1)..m : h = j - 1 /\ j # 1 /\ j + 1 # 1 /\ j + 1 - 1 = h + 1
    OBVIOUS
  <2>2. t[h + 1].next = s[h].next + gap /\ t[h + 1].number = s[h].number
    BY <1>16
  <2>3. QED
    BY <2>1, <2>2 DEF StartOf, Before
<1>20. Agree(b, f, first, at, 0) /\ Agree(b, f, next, end, gap)
  <2>1. at + 0 <= Len(f) + 1 /\ end + gap <= Len(f) + 1
    BY <1>9, <1>10
  <2>2. \A h \in first..(at - 1) : f[h + 0] = b[h]
    BY <1>9, <1>10
  <2>3. \A i \in next..(end - 1) : f[i + gap] = b[i]
    BY <1>9, <1>10
  <2>4. QED
    BY <2>1, <2>2, <2>3 DEF Agree
<1>21. ASSUME NEW j \in 1..(m + 1)
       PROVE  Entry(f, StartOf(t, first, j), Before(t, 0, j), t[j])
  <2>1. CASE j <= k
    <3>1. j \in 1..k /\ j \in 1..m /\ j \in 1..(k + 1) /\ j < k + 1
      BY <2>1
    <3>2. PICK o, a, p : o = s[j] /\ a = o.at /\ p = Before(s, 0, j)
      OBVIOUS
    <3>3. /\ Entry(b, a, p, o) /\ p \in Word /\ a > 0 /\ a = StartOf(s, first, j)
      BY <1>5, <3>1, <3>2
    <3>4. a \in Nat /\ first <= a /\ o \in Option /\ o.next <= at
      BY <1>4, <1>6, <3>1, <3>2
    <3>5. a + 0 = a /\ a + 0 > 0 /\ 0 \in Int
      BY <3>3, <3>4
    <3>6. Entry(f, a + 0, p, MovedBy(o, 0))
      BY <1>1, <1>9, <1>20, <1>10, <3>3, <3>4, <3>5, EntryMoved
    <3>7. Entry(f, a, p, o)
      BY <3>4, <3>5, <3>6, StaysPut
    <3>8. QED
      BY <1>15, <1>17, <3>1, <3>2, <3>3, <3>7
  <2>2. CASE j = k + 1
    <3>1. j \in 1..(k + 1)
      BY <2>2
    <3>2. StartOf(t, first, j) = at /\ Before(t, 0, j) = q
      BY <1>7, <1>11, <1>17, <2>2, <3>1
    <3>3. QED
      BY <1>11, <1>15, <2>2, <3>2
  <2>3. CASE j = k + 2
    BY <1>11, <1>15, <1>18, <2>3
  <2>4. CASE j > k + 2
    <3>1. PICK h \in (k + 2)..m : h = j - 1 /\ h + 1 = j
      BY <2>4
    <3>2. h \in 1..m /\ k + 1 < h
      OBVIOUS
    <3>3. PICK o, a, p : o = s[h] /\ a = o.at /\ p = Before(s, 0, h)
      OBVIOUS
    <3>4. /\ Entry(b, a, p, o) /\ p \in Word /\ a > 0 /\ a = StartOf(s, first, h)
      BY <1>5, <3>2, <3>3
    <3>5. a \in Nat /\ o.next <= end /\ next <= a
      BY <1>4, <1>6, <3>2, <3>3
    <3>6. a + gap > 0
      BY <3>5, <3>4
    <3>7. Entry(f, a + gap, p, MovedBy(o, gap))
      BY <1>1, <1>9, <1>20, <1>10, <3>4, <3>5, <3>6, EntryMoved
    <3>8. t[h + 1] = MovedBy(o, gap) /\ StartOf(t, first, h + 1) = a + gap /\ Before(t, 0, h + 1) = p
      BY <1>15, <1>19, <3>3, <3>4
    <3>9. QED
      BY <3>1, <3>7, <3>8
  <2>5. j <= k \/ j = k + 1 \/ j = k + 2 \/ j > k + 2
    OBVIOUS
  <2>6. QED
    BY <2>1, <2>2, <2>3, <2>4, <2>5
<1>22. f[1] = b[1]
  BY <1>9, <1>10
<1>23. FirstOption(f) = first /\ GetTokenLength(f) <= 8
  <2>1. GetTokenLength(f) = GetTokenLength(b)
    BY <1>22 DEF GetTokenLength
  <2>2. FirstOption(f) = FirstOption(b)
    BY <2>1 DEF FirstOption
  <2>3. GetTokenLength(b) <= 8 /\ FirstOption(b) = first
    BY <1>3 DEF Laid
  <2>4. QED
    BY <2>1, <2>2, <2>3
<1>24. Written(f, first, 0, t)
  BY <1>15, <1>21 DEF Written
<1>25. EndOf(t, first) = end + gap
  <2>1. m \in (k + 1)..m /\ m > 0
    OBVIOUS
  <2>2. t # << >> /\ s # << >>
    BY <1>15, <2>1
  <2>3. EndOf(t, first) = t[m + 1].next /\ EndOf(s, first) = s[m].next
    BY <1>15, <2>2 DEF EndOf
  <2>4. QED
    BY <1>3, <1>16, <2>1, <2>3
<1>26. n > 0 => f[end + gap] = Marker
  <2> HAVE n > 0
  <2>1. b[end] = Marker
    BY <1>2 DEF LaidAs
  <2>2. end \in next..l
    BY <1>9
  <2>3. QED
    BY <1>10, <2>1, <2>2
<1>27. Len(f) >= 4 /\ Len(f) + 1 = end + gap + (IF n = 0 THEN 0 ELSE n + 1)
  BY <1>9, <1>10
<1>28. Laid(f, t, n)
  BY <1>1, <1>10, <1>23, <1>24, <1>25, <1>26, <1>27 DEF Laid
<1>29. QED
  BY <1>13, <1>28

\* An option of number num goes between one of number q and the option old: the
\* delta of the new one, and the old and the new delta of the one behind it.
Deltas(num, q, old, delta, d, w) ==
    delta = U16(num - q) /\ d = U16(old.number - q) /\ w = U16(old.number - num)

\* How far the options behind it move.
GapOf(delta, v, d, w, newDelta, x, y, size, gap) ==
    /\ w = U16(newDelta) /\ ExtraOf(x, d) /\ ExtraOf(y, w)
    /\ size = EncodedSize(delta, Len(v)) /\ gap + x = size + y

\* The bytes of the option that is there, and of the two in its place.
LEMMA SpliceWritten ==
    ASSUME NEW b \in Seq(Byte), NEW at \in Nat, at > 0, NEW q \in Word, NEW old, Entry(b, at, q, old),
           NEW num \in Word, NEW v \in Seq(Byte), Len(v) \in Word,
           NEW delta, NEW d, NEW w, Deltas(num, q, old, delta, d, w), NEW newDelta,
           NEW x \in Nat, NEW y \in Nat, NEW size \in Nat, NEW gap \in Nat,
           GapOf(delta, v, d, w, newDelta, x, y, size, gap),
           NEW f, InsertedAs(f, b, EncodeOption(delta, v), at, size, x, w, y, gap)
    PROVE  /\ SplicedAs(b, f, at, old.next, gap)
           /\ SpliceOf(f, at, at + size, old.next, gap, q, OptionPut(at, delta, num, v),
                       OptionPut(at + size, w, old.number, old.value), old)
<1>1. PICK r \in Word, u \in Seq(Byte), next \in Nat :
         r = old.number /\ u = old.value /\ next = old.next /\ Len(u) \in Word
  <2>1. old \in Option /\ Len(old.value) \in Word
    BY DEF Entry
  <2>2. QED
    BY <2>1, OptionFields
<1>2. delta \in Word /\ d \in Word /\ w \in Word /\ delta = U16(num - q) /\ w = U16(r - num)
  <2>1. delta = U16(num - q) /\ w = U16(r - num) /\ d = U16(r - q)
    BY <1>1 DEF Deltas
  <2>2. QED
    BY <2>1, DeltaIs
<1>3. Holds(b, at, EncodeOption(d, u)) /\ next = at + EncodedSize(d, Len(u))
  <2>1. /\ Holds(b, at, EncodeOption(U16(old.number - q), old.value))
        /\ old.next = at + EncodedSize(U16(old.number - q), Len(old.value))
    BY DEF Entry
  <2>2. QED
    BY <1>1, <2>1 DEF Deltas
<1>4. /\ ExtraOf(x, d) /\ ExtraOf(y, w) /\ size = EncodedSize(delta, Len(v))
      /\ gap + x = size + y
  BY DEF GapOf
<1>5. gap + x = size + y
  BY <1>4
<1>6. size \in {EncodedSize(delta, Len(v))}
  BY <1>4
<1>7. PICK to \in Nat : to = at + size /\ to > 0 /\ to + y = at + gap + x
  <2>1. at + size \in Nat /\ at + size > 0 /\ at + size + y = at + gap + x
    BY <1>5
  <2>2. QED
    BY <2>1
<1>8. PICK l \in Nat : l = Len(b)
  BY LenProperties
<1>9. /\ f \in Seq(Byte) /\ Len(f) = l + gap
      /\ \A j \in 1..(at - 1) : f[j] = b[j]
      /\ \A j \in 1..size : f[at + j - 1] = EncodeOption(delta, v)[j]
      /\ f[to] = Nibble(w) * 16 + (b[at] % 16)
      /\ \A j \in 1..y : f[to + j] = Extension(w)[j]
      /\ \A j \in (at + 1 + x)..l : f[j + gap] = b[j]
  BY <1>8, <1>7 DEF InsertedAs
<1>10. at + 1 + x <= next /\ next <= l + 1
  <2>1. PICK z \in Nat, c \in Nat : z = ComputeExtraBytes(Len(u)) /\ c = Len(u)
    BY <1>1, ExtraBytes, LenProperties
  <2>2. x = ComputeExtraBytes(d)
    BY <1>4 DEF ExtraOf
  <2>3. EncodedSize(d, Len(u)) = 1 + x + z + c
    BY <2>1, <2>2 DEF EncodedSize
  <2>4. at + 1 + x <= next
    BY <1>3, <2>1, <2>3, SMTT(30)
  <2>5. EntryIs(b, at, q, old)
    BY EntryRead
  <2>6. next <= l + 1
    BY <1>1, <1>8, <2>5 DEF EntryIs
  <2>7. QED
    BY <2>4, <2>6
<1>11. SplicedAs(b, f, at, old.next, gap)
  <2>1. \A j \in next..l : f[j + gap] = b[j]
    BY <1>9, <1>10
  <2>2. QED
    BY <1>1, <1>8, <1>9, <2>1 DEF SplicedAs
<1>12. PICK new : new = OptionPut(at, delta, num, v)
  OBVIOUS
<1>13. Entry(f, at, q, new) /\ new.next = to /\ new.number = num
  <2>1. PICK e \in Seq(Byte) : e = EncodeOption(delta, v) /\ Len(e) = size
    BY <1>2, <1>4, Encoded
  <2>2. at + size - 1 <= l + gap
    BY <1>10, <1>7
  <2>3. Holds(f, at, e)
    BY <1>9, <2>1, <2>2 DEF Holds
  <2>4. /\ Entry(f, at, q, new) /\ new.next = at + EncodedSize(delta, Len(v))
        /\ new.number = num
    <3>1. f \in Seq(Byte) /\ Holds(f, at, EncodeOption(delta, v))
      BY <1>9, <2>1, <2>3
    <3>2. num \in Word /\ delta = U16(num - q)
      BY <1>2
    <3>3. QED
      BY <1>12, <3>1, <3>2, PutIs
  <2>5. QED
    BY <1>7, <1>6, <2>4
<1>14. PICK behind : behind = OptionPut(to, w, r, u)
  OBVIOUS
<1>15. Entry(f, to, num, behind) /\ behind.next = next + gap /\ behind.number = r
  <2>1. Len(f) = Len(b) + gap
    BY <1>8, <1>9
  <2>2. \A j \in (at + 1 + x)..Len(b) : f[j + gap] = b[j]
    BY <1>8, <1>9
  <2>3. /\ Holds(f, to, EncodeOption(w, u))
        /\ to + EncodedSize(w, Len(u)) = at + EncodedSize(d, Len(u)) + gap
    <3>1. ExtraOf(x, d) /\ ExtraOf(y, w)
      BY <1>4
    <3>2. /\ f \in Seq(Byte) /\ f[to] = Nibble(w) * 16 + (b[at] % 16)
          /\ \A j \in 1..y : f[to + j] = Extension(w)[j]
      BY <1>9
    <3>3. d \in Word /\ w \in Word /\ Len(u) \in Word /\ Holds(b, at, EncodeOption(d, u))
      BY <1>1, <1>3, <1>2
    <3>4. to > 0 /\ to + y = at + gap + x
      BY <1>7
    <3>5. Rewritten(b, f, at, to, x, w, y, gap)
      BY <2>1, <2>2, <3>2, <3>4 DEF Rewritten
    <3>6. to > 0 /\ f \in Seq(Byte)
      BY <3>2, <3>4
    <3>7. HoldsAgain(f, at, to, d, w, u, gap)
      BY <3>1, <3>3, <3>5, <3>6, ReEncoded
    <3>8. QED
      BY <3>7 DEF HoldsAgain
  <2>4. /\ Entry(f, to, num, behind) /\ behind.next = to + EncodedSize(w, Len(u))
        /\ behind.number = r
    <3>1. f \in Seq(Byte) /\ w = U16(r - num) /\ Len(u) \in Word
      BY <1>1, <1>9, <1>2
    <3>2. QED
      BY <1>14, <2>3, <3>1, PutIs
  <2>5. QED
    BY <1>3, <2>3, <2>4
<1>16. QED
  BY <1>1, <1>11, <1>12, <1>13, <1>14, <1>15, <1>7 DEF SpliceOf

\* In the middle of a message: what is before it stays.
LaidFrom(b, at, f, t, n) == Laid(f, t, n) /\ \A j \in 1..(at - 1) : f[j] = b[j]

LEMMA LaidInserted ==
    ASSUME NEW b, NEW s, NEW n, Laid(b, s, n), NEW m \in Nat, m = Len(s), NEW k \in 0..(m - 1),
           NEW num \in Word, NEW v \in Seq(Byte), Len(v) \in Word, NEW at, at = s[k + 1].at,
           NEW delta, NEW d, NEW w, Deltas(num, Before(s, 0, k + 1), s[k + 1], delta, d, w),
           NEW newDelta, NEW x \in Nat, NEW y \in Nat, NEW size \in Nat, NEW gap \in Nat,
           GapOf(delta, v, d, w, newDelta, x, y, size, gap)
    PROVE  LaidFrom(b, at, InsertInGap(b, EncodeOption(delta, v), at, gap, newDelta),
                    WithInserted(s, k, OptionPut(at, delta, num, v),
                                 OptionPut(at + size, w, s[k + 1].number, s[k + 1].value), gap), n)
<1>1. b \in Seq(Byte)
  BY DEF Laid
<1>2. PICK first \in Nat, end \in Nat : LaidAs(b, s, n, first, end)
  BY LaidIs
<1>3. k + 1 \in 1..m
  OBVIOUS
<1>4. PICK old, q : old = s[k + 1] /\ q = Before(s, 0, k + 1)
  OBVIOUS
<1>5. WrittenAs(b, first, 0, s) /\ Written(b, first, 0, s)
  BY <1>2 DEF LaidAs, Laid
<1>6. old \in Option /\ at \in Nat /\ at > 0 /\ q \in Word /\ Entry(b, at, q, old)
  <2>1. /\ old \in Option /\ StartOf(s, first, k + 1) \in Nat /\ StartOf(s, first, k + 1) > 0
        /\ q \in Word /\ at = StartOf(s, first, k + 1)
    BY <1>3, <1>4, <1>5 DEF WrittenAs
  <2>2. Entry(b, StartOf(s, first, k + 1), q, old)
    BY <1>3, <1>4, <1>5 DEF Written
  <2>3. QED
    BY <2>1, <2>2
<1>7. Deltas(num, q, old, delta, d, w)
  BY <1>4
<1>8. delta \in Word /\ d \in Word /\ w \in Word
  BY <1>6, <1>7, DeltaIs, OptionFields DEF Deltas
<1>9. PICK option \in Seq(Byte) : option = EncodeOption(delta, v) /\ Len(option) = size
  BY <1>8, Encoded DEF GapOf
<1>10. PICK f : f = InsertInGap(b, option, at, gap, newDelta)
  OBVIOUS
<1>11. ExtraOf(x, d) /\ ExtraOf(y, w) /\ w \in {U16(newDelta)} /\ gap + x = size + y
  BY DEF GapOf
<1>12. at + x <= Len(b)
  <2>1. EntryIs(b, at, q, old)
    BY <1>1, <1>6, EntryRead
  <2>2. old.next \in Nat /\ old.next <= Len(b) + 1 /\ Len(b) \in Nat
    BY <1>1, <1>6, <2>1, OptionFields, LenProperties DEF EntryIs
  <2>3. PICK u \in Seq(Byte) : u = old.value
    BY <1>6, OptionFields
  <2>4. PICK z \in Nat, c \in Nat : z = ComputeExtraBytes(Len(u)) /\ c = Len(u)
    BY ExtraBytes, LenProperties
  <2>5. x = ComputeExtraBytes(d)
    BY <1>11 DEF ExtraOf
  <2>6. EncodedSize(d, Len(u)) = 1 + x + z + c
    BY <2>4, <2>5 DEF EncodedSize
  <2>7. old.next = at + EncodedSize(d, Len(u))
    BY <1>6, <1>7, <2>3 DEF Entry, Deltas
  <2>8. PICK next \in Nat, l \in Nat : next = old.next /\ l = Len(b)
    BY <2>2
  <2>9. next = at + (1 + x + z + c) /\ next <= l + 1
    BY <2>2, <2>6, <2>7, <2>8
  <2>10. at + x <= l
    <3>1. next <= l + 1 /\ at + x + 1 <= next
      BY <1>6, <2>9, SMTT(30)
    <3>2. QED
      BY <1>6, <3>1, SMTT(30)
  <2>11. QED
    BY <2>8, <2>10
<1>13. InsertedAs(f, b, option, at, size, x, w, y, gap)
  <2>1. size = Len(option)
    BY <1>9
  <2>2. QED
    BY <1>1, <1>6, <1>8, <1>10, <1>11, <1>12, <2>1, InsertedBytes
<1>14. PICK to \in Nat : to = at + size
  <2>1. at + size \in Nat
    BY <1>6
  <2>2. QED
    BY <2>1
<1>15. PICK new, behind : /\ new = OptionPut(at, delta, num, v)
                          /\ behind = OptionPut(at + size, w, old.number, old.value)
  OBVIOUS
<1>16. /\ SplicedAs(b, f, at, old.next, gap)
       /\ SpliceOf(f, at, at + size, old.next, gap, q, new, behind, old)
  <2>1. InsertedAs(f, b, EncodeOption(delta, v), at, size, x, w, y, gap)
    BY <1>9, <1>13
  <2>2. QED
    BY <1>1, <1>6, <1>7, <1>15, <2>1, SpliceWritten
<1>17. Laid(f, WithInserted(s, k, new, behind, gap), n)
  <2>1. /\ SplicedAs(b, f, at, s[k + 1].next, gap)
        /\ SpliceOf(f, at, to, s[k + 1].next, gap, Before(s, 0, k + 1), new, behind, s[k + 1])
    BY <1>4, <1>14, <1>16
  <2>2. QED
    BY <2>1, LaidSpliced
<1>18. \A j \in 1..(at - 1) : f[j] = b[j]
  BY <1>16 DEF SplicedAs
<1>19. LaidFrom(b, at, f, WithInserted(s, k, new, behind, gap), n)
  BY <1>17, <1>18 DEF LaidFrom
<1>20. QED
  BY <1>4, <1>9, <1>10, <1>15, <1>19

-----------------------------------------------------------------------------
(* An object and its message. *)

Ascending(s) == \A i, j \in 1..Len(s) : i <= j => s[i].number <= s[j].number

\* The fields say where the options and the payload are.
Shaped(c, s) ==
    /\ c \in Fields /\ Laid(c.pdu, s, c.payloadLength) /\ c.numOptions <= Len(s)
    /\ c.payloadPointer = IF c.payloadLength = 0 THEN NULL ELSE OptionsEnd(c.pdu) + 1

\* A message that options may still be added to.
Open(c, s) ==
    /\ Shaped(c, s) /\ c.payloadLength = 0
    /\ c.maxAddedOptionNumber = LastNumber(s) /\ Ascending(s)

\* Where the option goes: at the end, or before the k+1st, the first that is greater.
PlaceAtEnd(place, b, s, m, n) ==
    /\ place.at = Len(b) + 1 /\ place.previous = LastNumber(s)
    /\ \A j \in 1..m : s[j].number <= n

PlaceBefore(place, b, s, m, n, k) ==
    /\ place.at = s[k + 1].at /\ place.at # Len(b) + 1 /\ place.previous = Before(s, 0, k + 1)
    /\ \A j \in 1..k : s[j].number <= n
    /\ \A j \in (k + 1)..m : ~(s[j].number <= n)

LEMMA LastIs ==
    ASSUME NEW s \in Seq(Option), NEW m \in Nat, m = Len(s), Ascending(s)
    PROVE  LastNumber(s) \in Word /\ \A j \in 1..m : s[j].number <= LastNumber(s)
<1>1. CASE m = 0
  <2>1. LastNumber(s) = 0
    BY <1>1 DEF LastNumber, Before
  <2>2. 0 \in Word
    BY DEF Word
  <2>3. QED
    BY <1>1, <2>1, <2>2
<1>2. CASE m # 0
  <2>1. m \in 1..m /\ m + 1 # 1 /\ m + 1 - 1 = m
    BY <1>2
  <2>2. LastNumber(s) = s[m].number
    BY <2>1 DEF LastNumber, Before
  <2>3. s[m] \in Option
    BY <2>1, ElementOfSeq
  <2>4. s[m].number \in Word
    BY <2>3, OptionFields
  <2>5. \A j \in 1..m : j <= m
    OBVIOUS
  <2>6. QED
    BY <2>1, <2>2, <2>4, <2>5 DEF Ascending
<1>3. QED
  BY <1>1, <1>2

LEMMA PlaceIs ==
    ASSUME NEW c, NEW s, Open(c, s), NEW m \in Nat, m = Len(s), NEW n \in Word
    PROVE  \/ PlaceAtEnd(FindInsertionPosition(c, n), c.pdu, s, m, n)
           \/ \E k \in 0..(m - 1) : PlaceBefore(FindInsertionPosition(c, n), c.pdu, s, m, n, k)
<1>1. PICK place : place = FindInsertionPosition(c, n)
  OBVIOUS
<1>2. c \in Fields /\ Laid(c.pdu, s, 0) /\ Ascending(s) /\ c.maxAddedOptionNumber = LastNumber(s)
  BY DEF Open, Shaped
<1>3. PICK b \in Seq(Byte) : b = c.pdu
  BY <1>2, FieldsTyped
<1>4. PICK first \in Nat, end \in Nat : LaidAs(b, s, 0, first, end)
  BY <1>2, <1>3, LaidIs
<1>5. PICK l \in Nat : /\ l = Len(b) /\ l + 1 = end /\ first = FirstOption(b) /\ AtEnd(b, end)
                       /\ s \in Seq(Option) /\ s = OptionsOf(b) /\ Chain(b, first, 0, s)
  BY <1>4 DEF LaidAs
<1>6. LastNumber(s) \in Word /\ \A j \in 1..m : s[j].number <= LastNumber(s)
  BY <1>2, <1>5, LastIs
<1>7. \A j \in 1..m : s[j].number \in Word /\ s[j].at \in Nat
  BY <1>5, ElementOfSeq, OptionFields
<1>8. CASE n >= c.maxAddedOptionNumber \/ FirstOption(b) = l + 1
  <2>1. place = [at |-> l + 1, previous |-> LastNumber(s)]
    BY <1>1, <1>2, <1>3, <1>5, <1>8 DEF FindInsertionPosition
  <2>2. \A j \in 1..m : s[j].number <= n
    <3>1. CASE n >= LastNumber(s)
      <4> TAKE j \in 1..m
      <4>1. PICK x \in Nat, y \in Nat, z \in Nat : x = s[j].number /\ y = LastNumber(s) /\ z = n
        BY <1>6, <1>7 DEF Word
      <4>2. x <= y /\ y <= z
        BY <1>6, <3>1, <4>1
      <4>3. QED
        BY <4>1, <4>2
    <3>2. CASE FirstOption(b) = l + 1
      <4>1. AtEnd(b, first)
        BY <1>5, <3>2
      <4>2. s = << >>
        BY <1>5, <4>1, EmptyChain
      <4>3. m = 0
        BY <4>2
      <4>4. QED
        BY <4>3
    <3>3. QED
      BY <1>2, <1>8, <3>1, <3>2
  <2>3. PlaceAtEnd(place, b, s, m, n)
    BY <1>5, <2>1, <2>2 DEF PlaceAtEnd
  <2>4. QED
    BY <1>1, <1>3, <2>3
<1>9. CASE ~(n >= c.maxAddedOptionNumber \/ FirstOption(b) = l + 1)
  <2>1. place = PositionBehind(c, s, NotGreater(s, n))
    BY <1>1, <1>3, <1>5, <1>9 DEF FindInsertionPosition, PositionAmong
  <2> DEFINE P == {j \in 1..m : s[j].number <= n}
  <2>2. NotGreater(s, n) = Cardinality(Firsts(m, P))
    <3>1. DOMAIN s = 1..m
      BY <1>5, LenProperties
    <3>2. \A i \in 1..m : \A j \in 1..i : j \in 1..m
      OBVIOUS
    <3>3. {i \in DOMAIN s : \A j \in 1..i : s[j].number <= n} = Firsts(m, P)
      BY <3>1, <3>2 DEF Firsts
    <3>4. QED
      BY <3>3 DEF NotGreater
  <2> HIDE DEF P
  <2>3. PICK k \in 0..m : /\ k = NotGreater(s, n) /\ \A j \in 1..k : j \in P
                          /\ k < m => k + 1 \notin P
    BY <2>2, FirstOnes
  <2>4. \A j \in 1..k : s[j].number <= n
    BY <2>3 DEF P
  <2>5. PICK y \in Nat, z \in Nat : y = LastNumber(s) /\ z = n /\ z < y
    BY <1>2, <1>6, <1>9 DEF Word
  <2>6. k < m
    <3>1. CASE m = 0
      <4>1. LastNumber(s) = 0
        BY <3>1 DEF LastNumber, Before
      <4>2. QED
        BY <2>5, <4>1
    <3>2. CASE m # 0
      <4>1. LastNumber(s) = s[m].number
        BY <3>2 DEF LastNumber, Before
      <4>2. ~(s[m].number <= n)
        BY <2>5, <4>1
      <4>3. k # m
        <5>1. k = m => m \in 1..k
          BY <3>2
        <5>2. QED
          BY <2>4, <4>2, <5>1
      <4>4. QED
        BY <4>3
    <3>3. QED
      BY <3>1, <3>2
  <2>7. k \in 0..(m - 1) /\ k + 1 \in 1..m
    BY <2>6
  <2>8. ~(s[k + 1].number <= n)
    BY <2>3, <2>6, <2>7 DEF P
  <2>9. \A j \in (k + 1)..m : ~(s[j].number <= n)
    <3> TAKE j \in (k + 1)..m
    <3>1. j \in 1..m /\ k + 1 <= j
      BY <2>7
    <3>2. s[k + 1].number <= s[j].number
      BY <1>2, <2>7, <3>1 DEF Ascending
    <3>3. PICK x \in Nat, w \in Nat : x = s[k + 1].number /\ w = s[j].number
      BY <1>7, <2>7, <3>1 DEF Word
    <3>4. z < x /\ x <= w
      BY <2>5, <2>8, <3>2, <3>3
    <3>5. QED
      BY <2>5, <3>3, <3>4
  <2>10. place.at = s[k + 1].at /\ place.previous = Before(s, 0, k + 1)
    <3>1. place = [at |-> s[k + 1].at, previous |-> IF k = 0 THEN 0 ELSE s[k].number]
      BY <2>1, <2>3, <2>6 DEF PositionBehind
    <3>2. Before(s, 0, k + 1) = IF k = 0 THEN 0 ELSE s[k].number
      BY DEF Before
    <3>3. QED
      BY <3>1, <3>2
  <2>11. s[k + 1].at # l + 1
    <3>1. 0 \in Nat
      OBVIOUS
    <3>2. s[k + 1].at <= Len(b)
      BY <1>5, <2>7, <3>1, ChainTyped
    <3>3. PICK a \in Nat : a = s[k + 1].at
      BY <1>7, <2>7
    <3>4. QED
      BY <1>5, <3>2, <3>3
  <2>12. PlaceBefore(place, b, s, m, n, k)
    BY <1>5, <2>4, <2>9, <2>10, <2>11 DEF PlaceBefore
  <2>13. QED
    BY <1>1, <1>3, <2>7, <2>12
<1>10. QED
  BY <1>8, <1>9

\* The options t are s with one of number n and value v behind the k first, those
\* that are not greater.
PutIn(s, t, k, n, v) ==
    /\ t \in Seq(Option) /\ Len(t) = Len(s) + 1 /\ k \in 0..Len(s)
    /\ \A j \in 1..k : s[j].number <= n /\ t[j].number = s[j].number /\ t[j].value = s[j].value
    /\ t[k + 1].number = n /\ t[k + 1].value = v
    /\ \A j \in (k + 1)..Len(s) : /\ ~(s[j].number <= n)
                                  /\ t[j + 1].number = s[j].number /\ t[j + 1].value = s[j].value

LEMMA PutInKeepsOrder ==
    ASSUME NEW s \in Seq(Option), Ascending(s), NEW m \in Nat, m = Len(s), NEW n \in Word, NEW v,
           NEW t, NEW k, PutIn(s, t, k, n, v)
    PROVE  /\ Ascending(t) /\ LastNumber(t) = IF k = m THEN n ELSE LastNumber(s)
<1>1. /\ t \in Seq(Option) /\ Len(t) = m + 1 /\ k \in 0..m
      /\ \A j \in 1..k : s[j].number <= n /\ t[j].number = s[j].number
      /\ t[k + 1].number = n
      /\ \A j \in (k + 1)..m : ~(s[j].number <= n) /\ t[j + 1].number = s[j].number
  BY DEF PutIn
<1>2. \A j \in 1..m : s[j].number \in Word /\ s[j].number \in Nat
  BY ElementOfSeq, OptionFields DEF Word
<1>3. PICK x \in Nat : x = n
  BY DEF Word
<1>4. \A i, j \in 1..m : i <= j => s[i].number <= s[j].number
  BY DEF Ascending
<1>5. ASSUME NEW i \in 1..(m + 1), NEW j \in 1..(m + 1), i <= j
      PROVE  t[i].number <= t[j].number
  <2>1. CASE j <= k
    <3>1. i \in 1..k /\ j \in 1..k /\ i \in 1..m /\ j \in 1..m
      BY <1>1, <1>5, <2>1
    <3>2. QED
      BY <1>1, <1>4, <1>5, <3>1
  <2>2. CASE i = k + 1 /\ j = k + 1
    BY <1>1, <1>3, <2>2
  <2>3. CASE i <= k /\ j = k + 1
    <3>1. i \in 1..k
      BY <1>1, <2>3
    <3>2. QED
      BY <1>1, <2>3, <3>1
  <2>4. CASE j > k + 1
    <3>1. PICK h \in (k + 1)..m : h = j - 1 /\ j = h + 1 /\ h \in 1..m
      BY <1>1, <2>4
    <3>2. t[j].number = s[h].number /\ ~(s[h].number <= n)
      BY <1>1, <3>1
    <3>3. PICK y \in Nat : y = s[h].number /\ x < y
      BY <1>2, <1>3, <3>1, <3>2
    <3>4. CASE i <= k
      <4>1. i \in 1..k /\ i \in 1..m
        BY <1>1, <3>4
      <4>2. t[i].number = s[i].number /\ s[i].number <= n /\ s[i].number \in Nat
        BY <1>1, <1>2, <4>1
      <4>3. PICK z \in Nat : z = s[i].number /\ z <= x
        BY <1>3, <4>2
      <4>4. z <= y
        BY <3>3, <4>3
      <4>5. QED
        BY <3>2, <3>3, <4>2, <4>3, <4>4
    <3>5. CASE i = k + 1
      <4>1. x <= y
        BY <3>3
      <4>2. QED
        BY <1>1, <1>3, <3>2, <3>3, <3>5, <4>1
    <3>6. CASE i > k + 1
      <4>1. PICK g \in (k + 1)..m : g = i - 1 /\ i = g + 1 /\ g \in 1..m /\ g <= h
        BY <1>1, <1>5, <3>1, <3>6
      <4>2. t[i].number = s[g].number
        BY <1>1, <4>1
      <4>3. QED
        BY <1>4, <3>1, <3>2, <4>1, <4>2
    <3>7. QED
      BY <1>1, <3>4, <3>5, <3>6
  <2>5. j <= k \/ (i = k + 1 /\ j = k + 1) \/ (i <= k /\ j = k + 1) \/ j > k + 1
    BY <1>1, <1>5
  <2>6. QED
    BY <2>1, <2>2, <2>3, <2>4, <2>5
<1>6. Ascending(t)
  BY <1>1, <1>5 DEF Ascending
<1>7. LastNumber(t) = t[m + 1].number
  <2>1. m + 2 # 1 /\ m + 2 - 1 = m + 1 /\ (m + 1) + 1 = m + 2
    OBVIOUS
  <2>2. QED
    BY <1>1, <2>1 DEF LastNumber, Before
<1>8. CASE k = m
  BY <1>1, <1>6, <1>7, <1>8
<1>9. CASE k # m
  <2>1. m \in (k + 1)..m /\ m + 1 # 1 /\ m + 1 - 1 = m
    BY <1>1, <1>9
  <2>2. LastNumber(s) = s[m].number
    BY <2>1 DEF LastNumber, Before
  <2>3. t[m + 1].number = s[m].number
    BY <1>1, <2>1
  <2>4. QED
    BY <1>6, <1>7, <1>9, <2>2, <2>3
<1>10. QED
  BY <1>8, <1>9

LEMMA AppendedIsPutIn ==
    ASSUME NEW s \in Seq(Option), NEW m \in Nat, m = Len(s), NEW n, NEW v, NEW o \in Option,
           o.number = n, o.value = v, \A j \in 1..m : s[j].number <= n
    PROVE  PutIn(s, Append(s, o), m, n, v)
<1>1. PICK t : t = Append(s, o)
  OBVIOUS
<1>2. t \in Seq(Option) /\ Len(t) = m + 1 /\ \A j \in 1..m : t[j] = s[j]
  BY <1>1, AppendProperties
<1>3. t[m + 1] = o
  BY <1>1, AppendProperties
<1>4. \A j \in (m + 1)..m : FALSE
  OBVIOUS
<1>5. m \in 0..Len(s)
  OBVIOUS
<1>6. PutIn(s, t, m, n, v)
  BY <1>2, <1>3, <1>4, <1>5 DEF PutIn
<1>7. QED
  BY <1>1, <1>6

LEMMA InsertedIsPutIn ==
    ASSUME NEW s \in Seq(Option), NEW m \in Nat, m = Len(s), NEW k \in 0..(m - 1), NEW n, NEW v,
           NEW new \in Option, new.number = n, new.value = v,
           NEW behind \in Option, behind.number = s[k + 1].number, behind.value = s[k + 1].value,
           \A j \in 1..k : s[j].number <= n, \A j \in (k + 1)..m : ~(s[j].number <= n),
           NEW gap \in Nat
    PROVE  PutIn(s, WithInserted(s, k, new, behind, gap), k, n, v)
<1>1. PICK t : t = WithInserted(s, k, new, behind, gap)
  OBVIOUS
<1>2. InsertedOptions(t, s, m, k, new, behind, gap)
  BY <1>1, InsertedOptionsAre
<1>3. /\ t \in Seq(Option) /\ Len(t) = m + 1 /\ \A j \in 1..k : t[j] = s[j]
      /\ t[k + 1] = new /\ t[k + 2] = behind
      /\ \A j \in (k + 2)..m : t[j + 1] = MovedBy(s[j], gap)
  BY <1>2 DEF InsertedOptions
<1>4. \A j \in (k + 1)..m : t[j + 1].number = s[j].number /\ t[j + 1].value = s[j].value
  <2> TAKE j \in (k + 1)..m
  <2>1. CASE j = k + 1
    <3>1. t[j + 1] = behind
      BY <1>3, <2>1
    <3>2. QED
      BY <2>1, <3>1
  <2>2. CASE j # k + 1
    <3>1. j \in (k + 2)..m
      BY <2>2
    <3>2. t[j + 1] = MovedBy(s[j], gap)
      BY <1>3, <3>1
    <3>3. QED
      BY <3>2 DEF MovedBy
  <2>3. QED
    BY <2>1, <2>2
<1>5. k \in 0..m
  OBVIOUS
<1>6. PutIn(s, t, k, n, v)
  BY <1>3, <1>4, <1>5 DEF PutIn
<1>7. QED
  BY <1>1, <1>6

\* What is before the options stays.
HeadKept(b, f) == \A j \in 1..(FirstOption(b) - 1) : f[j] = b[j]

\* addOption() on such an object: it puts the option in, or changes no byte.
PutOrRefused(c, s, n, v, d) ==
    \/ /\ d.result = 0 /\ HeadKept(c.pdu, d.object.pdu)
       /\ \E t, k : PutIn(s, t, k, n, v) /\ Open(d.object, t)
    \/ /\ d.result = 1 /\ d.object.pdu = c.pdu /\ Shaped(d.object, s)
       /\ d.object.payloadLength = 0

LEMMA RefusedIs ==
    ASSUME NEW c, NEW s, Open(c, s), NEW n, NEW v, NEW max \in Word,
           NEW o, o = [c EXCEPT !.maxAddedOptionNumber = max]
    PROVE  PutOrRefused(c, s, n, v, Done(o, 1))
<1>1. /\ c \in Fields /\ Laid(c.pdu, s, 0) /\ c.numOptions <= Len(s) /\ c.payloadLength = 0
      /\ c.payloadPointer = NULL
  BY DEF Open, Shaped
<1>2. /\ o \in Fields /\ o.pdu = c.pdu /\ o.payloadLength = 0 /\ o.payloadPointer = NULL
      /\ o.numOptions = c.numOptions
  BY <1>1 DEF Fields
<1>3. Shaped(o, s)
  BY <1>1, <1>2 DEF Shaped
<1>4. Done(o, 1).object = o /\ Done(o, 1).result = 1
  BY DEF Done
<1>5. QED
  BY <1>2, <1>3, <1>4 DEF PutOrRefused

LEMMA PutIsOpen ==
    ASSUME NEW c, NEW s, Open(c, s), NEW n \in Word, NEW v, NEW t, NEW k, PutIn(s, t, k, n, v),
           NEW o, o \in Fields, Laid(o.pdu, t, 0), HeadKept(c.pdu, o.pdu),
           o.numOptions \in {c.numOptions, c.numOptions + 1}, o.payloadLength = 0, o.payloadPointer = NULL,
           o.maxAddedOptionNumber = IF k = Len(s) THEN n ELSE c.maxAddedOptionNumber
    PROVE  PutOrRefused(c, s, n, v, Done(o, 0))
<1>1. /\ c \in Fields /\ Laid(c.pdu, s, 0) /\ c.numOptions <= Len(s) /\ Ascending(s)
      /\ c.maxAddedOptionNumber = LastNumber(s)
  BY DEF Open, Shaped
<1>2. s \in Seq(Option) /\ Len(s) \in Nat /\ Len(t) = Len(s) + 1
  BY <1>1, LenProperties DEF Laid, Written, PutIn
<1>3. Ascending(t) /\ LastNumber(t) = IF k = Len(s) THEN n ELSE LastNumber(s)
  BY <1>1, <1>2, PutInKeepsOrder
<1>4. o.numOptions <= Len(t)
  <2>1. PICK x \in Nat, m \in Nat : x = c.numOptions /\ m = Len(s) /\ x <= m
    BY <1>1, <1>2 DEF Fields
  <2>2. x <= m + 1 /\ x + 1 <= m + 1
    BY <2>1
  <2>3. QED
    BY <1>2, <2>1, <2>2
<1>5. Open(o, t)
  BY <1>1, <1>3, <1>4 DEF Open, Shaped
<1>6. Done(o, 0).object = o /\ Done(o, 0).result = 0
  BY DEF Done
<1>7. QED
  BY <1>5, <1>6 DEF PutOrRefused

LEMMA PutAtEnd ==
    ASSUME NEW c, NEW s, Open(c, s), NEW m \in Nat, m = Len(s), NEW n \in Word,
           NEW v \in Seq(Byte), Len(v) \in Word, NEW mem \in Memories,
           NEW place, PlaceAtEnd(place, c.pdu, s, m, n)
    PROVE  PutOrRefused(c, s, n, v, AddAt(c, n, v, place, mem))
<1>1. /\ c \in Fields /\ Laid(c.pdu, s, 0) /\ c.numOptions <= m /\ Ascending(s)
      /\ c.maxAddedOptionNumber = LastNumber(s) /\ c.payloadPointer = NULL /\ c.payloadLength = 0
  BY DEF Open, Shaped
<1>2. /\ place.at = Len(c.pdu) + 1 /\ place.previous = LastNumber(s)
      /\ \A j \in 1..m : s[j].number <= n
  BY DEF PlaceAtEnd
<1>3. s \in Seq(Option)
  BY <1>1 DEF Laid, Written
<1>4. LastNumber(s) \in Word
  BY <1>1, <1>3, LastIs
<1>5. PICK delta \in Word : delta = U16(n - LastNumber(s))
  BY <1>4, DeltaIs
<1>6. PICK option : option = EncodeOption(delta, v)
  OBVIOUS
<1>7. option \in Seq(Byte)
  BY <1>6, Encoded
<1>8. AddAt(c, n, v, place, mem) = AppendOption(c, n, option, mem)
  BY <1>2, <1>5, <1>6 DEF AddAt, AddEncoded
<1>9. PICK tried : tried = [c EXCEPT !.maxAddedOptionNumber = n]
  OBVIOUS
<1>10. CASE ~Fits(Len(c.pdu) + Len(option), mem)
  <2>1. AppendOption(c, n, option, mem) = Done(tried, 1)
    BY <1>9, <1>10 DEF AppendOption
  <2>2. PutOrRefused(c, s, n, v, Done(tried, 1))
    BY <1>9, RefusedIs
  <2>3. QED
    BY <1>8, <2>1, <2>2
<1>11. CASE Fits(Len(c.pdu) + Len(option), mem)
  <2>1. PICK b \in Seq(Byte), x \in Nat : b = c.pdu /\ x = c.numOptions /\ x + 1 \in Nat
    BY <1>1 DEF Fields
  <2>2. PICK f : f = b \o option
    OBVIOUS
  <2>3. PICK o : o = [tried EXCEPT !.pdu = f, !.numOptions = x + 1, !.payloadPointer = NULL]
    OBVIOUS
  <2>4. AppendOption(c, n, option, mem) = Done(o, 0)
    <3>1. Repointed(NULL, mem) = NULL
      BY DEF Repointed
    <3>2. tried.pdu = b /\ tried.numOptions = x /\ tried.payloadPointer = NULL
      BY <1>1, <1>9, <2>1 DEF Fields
    <3>3. o = [tried EXCEPT !.pdu = tried.pdu \o option, !.numOptions = tried.numOptions + 1,
                            !.payloadPointer = Repointed(tried.payloadPointer, mem)]
      BY <2>2, <2>3, <3>1, <3>2
    <3>4. QED
      BY <1>9, <1>11, <3>3 DEF AppendOption
  <2>5. f \in Seq(Byte)
    BY <1>7, <2>2, ConcatProperties
  <2>6. /\ o \in Fields /\ o.pdu = f /\ o.numOptions = x + 1 /\ o.payloadPointer = NULL
        /\ o.payloadLength = 0 /\ o.maxAddedOptionNumber = n
    BY <1>1, <1>9, <2>1, <2>3, <2>5 DEF Fields
  <2>7. PICK new : new = OptionPut(Len(b) + 1, delta, n, v)
    OBVIOUS
  <2>8. Laid(f, Append(s, new), 0)
    BY <1>1, <1>5, <1>6, <2>1, <2>2, <2>7, LaidAppended
  <2>9. new \in Option /\ new.number = n /\ new.value = v
    <3>1. PICK l \in Nat, size \in Nat : l = Len(b) + 1 /\ size = EncodedSize(delta, Len(v))
      BY SizeOfOption, LenProperties
    <3>2. new = [at |-> l, next |-> l + size, number |-> n, value |-> v]
      BY <2>7, <3>1 DEF OptionPut
    <3>3. QED
      BY <3>2 DEF Option
  <2>10. PutIn(s, Append(s, new), m, n, v)
    BY <1>2, <1>3, <2>9, AppendedIsPutIn
  <2>11. HeadKept(b, f)
    <3>1. PICK l \in Nat, first \in Nat : l = Len(b) /\ first = FirstOption(b) /\ first <= l + 1
      <4>1. PICK first \in Nat, end \in Nat : LaidAs(b, s, 0, first, end)
        BY <1>1, <2>1, LaidIs
      <4>2. first = FirstOption(b) /\ first <= end /\ Len(b) \in Nat /\ Len(b) + 1 = end + 0
        BY <4>1 DEF LaidAs
      <4>3. QED
        BY <4>1, <4>2
    <3>2. \A j \in 1..l : f[j] = b[j]
      BY <1>7, <2>1, <2>2, <3>1, Appended DEF Appends
    <3>3. \A j \in 1..(first - 1) : j \in 1..l
      BY <3>1
    <3>4. QED
      BY <3>1, <3>2, <3>3 DEF HeadKept
  <2>12. PutOrRefused(c, s, n, v, Done(o, 0))
    BY <2>1, <2>6, <2>8, <2>10, <2>11, PutIsOpen
  <2>13. QED
    BY <1>8, <2>4, <2>12
<1>12. QED
  BY <1>10, <1>11

LEMMA DeltaBehind ==
    ASSUME NEW b \in Seq(Byte), NEW at \in Nat, at > 0, NEW q \in Word, NEW old, Entry(b, at, q, old),
           q <= old.number, NEW n \in Word, ~(old.number <= n)
    PROVE  /\ GetOptionDelta(b, at) = U16(old.number - q)
           /\ q + GetOptionDelta(b, at) - n = U16(old.number - n)
<1>1. old.number \in Word /\ old.value \in Seq(Byte) /\ Len(old.value) \in Word
      /\ Holds(b, at, EncodeOption(U16(old.number - q), old.value))
  BY OptionFields DEF Entry
<1>2. PICK r \in Word, d \in Word, u \in Seq(Byte) : /\ r = old.number /\ d = U16(r - q)
                                                     /\ u = old.value /\ Len(u) \in Word
  BY <1>1, DeltaIs
<1>3. Reads(b, at, d, u)
  BY <1>1, <1>2, OptionRead
<1>4. GetOptionDelta(b, at) = d
  BY <1>3 DEF Reads
<1>5. PICK x \in Nat, y \in Nat, z \in Nat : x = r /\ y = q /\ z = n
  BY DEF Word
<1>6. y <= x /\ z < x
  BY <1>2, <1>5
<1>7. d = x - y
  BY <1>2, <1>5, <1>6, DeltaIs
<1>8. U16(x - z) = x - z
  BY <1>2, <1>5, <1>6, DeltaIs
<1>9. y + (x - y) - z = x - z
  OBVIOUS
<1>10. QED
  BY <1>2, <1>4, <1>5, <1>7, <1>8, <1>9

\* The gap of an insertion is not negative.
LEMMA GapIs ==
    ASSUME NEW n \in Word, NEW q \in Word, NEW old, old.number \in Word, q <= old.number,
           ~(old.number <= n), NEW v \in Seq(Byte), Len(v) \in Word,
           NEW delta, NEW d, NEW w, Deltas(n, q, old, delta, d, w)
    PROVE  \E x, y, size, gap \in Nat :
              /\ GapOf(delta, v, d, w, w, x, y, size, gap)
              /\ gap = size + ComputeExtraBytes(w) - ComputeExtraBytes(d)
<1>1. PICK r \in Word : r = old.number /\ q <= r /\ ~(r <= n)
  OBVIOUS
<1>2. delta = U16(n - q) /\ d = U16(r - q) /\ w = U16(r - n)
  BY <1>1 DEF Deltas
<1>3. delta \in Word /\ d \in Word /\ w \in Word /\ U16(w) = w
  BY <1>1, <1>2, DeltaIs, U16OfWord
<1>4. PICK x \in 0..2, y \in 0..2, z \in 0..2, h \in 0..2 :
         /\ x = ComputeExtraBytes(d) /\ y = ComputeExtraBytes(w)
         /\ z = ComputeExtraBytes(delta) /\ h = ComputeExtraBytes(Len(v))
  BY ExtraBytes
<1>5. PICK size \in Nat, c \in Nat : /\ size = EncodedSize(delta, Len(v)) /\ c = Len(v)
                                     /\ size = 1 + z + h + c
  <2>1. Len(v) \in Nat
    BY LenProperties
  <2>2. EncodedSize(delta, Len(v)) = 1 + z + h + Len(v)
    BY <1>4 DEF EncodedSize
  <2>3. QED
    BY <1>4, <2>1, <2>2
<1>6. n - q \in Int /\ d - (n - q) = w
  <2>1. PICK a \in Nat, e \in Nat, g \in Nat : a = r /\ e = q /\ g = n
    BY DEF Word
  <2>2. e <= a /\ g < a
    BY <1>1, <2>1
  <2>3. d = a - e /\ w = a - g
    BY <1>1, <1>2, <2>1, <2>2, DeltaIs, SMTT(30)
  <2>4. (a - e) - (g - e) = a - g /\ g - e \in Int
    OBVIOUS
  <2>5. QED
    BY <2>1, <2>3, <2>4
<1>7. ComputeExtraBytes(d) <= 1 + ComputeExtraBytes(U16(n - q)) + ComputeExtraBytes(d - (n - q))
  BY <1>3, <1>6, SplitDelta
<1>8. x <= 1 + z + y
  BY <1>2, <1>4, <1>6, <1>7
<1>9. PICK gap \in Nat : gap = size + y - x
  <2>1. size + y - x \in Nat
    BY <1>5, <1>8
  <2>2. QED
    BY <2>1
<1>10. gap + x = size + y /\ x \in Nat /\ y \in Nat
  BY <1>9
<1>11. ExtraOf(x, d) /\ ExtraOf(y, w)
  BY <1>4, <1>10 DEF ExtraOf
<1>12. GapOf(delta, v, d, w, w, x, y, size, gap)
  BY <1>3, <1>5, <1>10, <1>11 DEF GapOf
<1>13. QED
  BY <1>4, <1>9, <1>10, <1>12

LEMMA InsertedIs ==
    ASSUME NEW c, NEW s, Open(c, s), NEW n \in Word, NEW v, NEW t, NEW k, k # Len(s),
           PutIn(s, t, k, n, v), NEW f \in Seq(Byte), Laid(f, t, 0), HeadKept(c.pdu, f),
           NEW mem \in Memories
    PROVE  PutOrRefused(c, s, n, v, Inserted(c, f, mem))
<1>1. c \in Fields /\ c.maxAddedOptionNumber \in Word /\ c.payloadLength = 0 /\ c.payloadPointer = NULL
  BY DEF Open, Shaped, Fields
<1>2. CASE ~Fits(Len(f), mem)
  <2>1. PICK o : o = [c EXCEPT !.maxAddedOptionNumber = c.maxAddedOptionNumber]
    OBVIOUS
  <2>2. o = c
    BY <1>1, <2>1 DEF Fields
  <2>3. PutOrRefused(c, s, n, v, Done(o, 1))
    BY <1>1, <2>1, RefusedIs
  <2>4. QED
    BY <1>2, <2>2, <2>3 DEF Inserted
<1>3. CASE Fits(Len(f), mem)
  <2>1. PICK o : o = [c EXCEPT !.pdu = f, !.payloadPointer = NULL]
    OBVIOUS
  <2>2. /\ o \in Fields /\ o.pdu = f /\ o.numOptions = c.numOptions /\ o.payloadPointer = NULL
        /\ o.payloadLength = 0 /\ o.maxAddedOptionNumber = c.maxAddedOptionNumber
    BY <1>1, <2>1 DEF Fields
  <2>3. PutOrRefused(c, s, n, v, Done(o, 0))
    BY <2>2, PutIsOpen
  <2>4. Inserted(c, f, mem) = Done(o, 0)
    <3>1. Repointed(c.payloadPointer, mem) = NULL
      BY <1>1 DEF Repointed
    <3>2. QED
      BY <1>3, <2>1, <3>1 DEF Inserted
  <2>5. QED
    BY <2>3, <2>4
<1>4. QED
  BY <1>2, <1>3

LEMMA PutBefore ==
    ASSUME NEW c, NEW s, Open(c, s), NEW m \in Nat, m = Len(s), NEW n \in Word,
           NEW v \in Seq(Byte), Len(v) \in Word, NEW mem \in Memories,
           NEW place, NEW k \in 0..(m - 1), PlaceBefore(place, c.pdu, s, m, n, k)
    PROVE  PutOrRefused(c, s, n, v, AddAt(c, n, v, place, mem))
<1>1. c \in Fields /\ Laid(c.pdu, s, 0) /\ Ascending(s)
  BY DEF Open, Shaped
<1>2. PICK b \in Seq(Byte) : b = c.pdu
  BY <1>1, FieldsTyped
<1>3. /\ place.at = s[k + 1].at /\ place.at # Len(b) + 1 /\ place.previous = Before(s, 0, k + 1)
      /\ \A j \in 1..k : s[j].number <= n
      /\ \A j \in (k + 1)..m : ~(s[j].number <= n)
  BY <1>2 DEF PlaceBefore
<1>4. PICK first \in Nat, end \in Nat : LaidAs(b, s, 0, first, end)
  BY <1>1, <1>2, LaidIs
<1>5. WrittenAs(b, first, 0, s) /\ Written(b, first, 0, s) /\ s \in Seq(Option)
  BY <1>1, <1>2, <1>4 DEF LaidAs, Laid
<1>6. k + 1 \in 1..m /\ k + 1 \in (k + 1)..m
  OBVIOUS
<1>7. PICK old, q : old = s[k + 1] /\ q = Before(s, 0, k + 1)
  OBVIOUS
<1>8. PICK at \in Nat : at = place.at /\ at > 0 /\ old \in Option /\ q \in Word /\ Entry(b, at, q, old)
  <2>1. /\ old \in Option /\ StartOf(s, first, k + 1) \in Nat /\ StartOf(s, first, k + 1) > 0
        /\ q \in Word /\ old.at = StartOf(s, first, k + 1)
    BY <1>5, <1>6, <1>7 DEF WrittenAs
  <2>2. Entry(b, StartOf(s, first, k + 1), q, old)
    BY <1>5, <1>6, <1>7 DEF Written
  <2>3. QED
    BY <1>3, <1>7, <2>1, <2>2
<1>9. old.number \in Word /\ q <= old.number /\ ~(old.number <= n)
  <2>1. old.number \in Word
    BY <1>8, OptionFields
  <2>2. q <= old.number
    <3>1. CASE k = 0
      <4>1. q = 0
        BY <1>7, <3>1 DEF Before
      <4>2. old.number \in Nat
        BY <2>1 DEF Word
      <4>3. QED
        BY <4>1, <4>2
    <3>2. CASE k # 0
      <4>1. k \in 1..m /\ k <= k + 1 /\ k + 1 # 1 /\ k + 1 - 1 = k
        BY <3>2
      <4>2. q = s[k].number
        BY <1>7, <4>1 DEF Before
      <4>3. QED
        BY <1>1, <1>6, <1>7, <4>1, <4>2 DEF Ascending
    <3>3. QED
      BY <3>1, <3>2
  <2>3. QED
    BY <1>3, <1>6, <1>7, <2>1, <2>2
<1>10. PICK delta, d, w : Deltas(n, q, old, delta, d, w)
  BY DEF Deltas
<1>11. delta = U16(n - q) /\ d = U16(old.number - q) /\ w = U16(old.number - n)
  BY <1>10 DEF Deltas
<1>12. delta \in Word /\ d \in Word /\ w \in Word
  BY <1>8, <1>9, <1>11, DeltaIs
<1>13. PICK x \in Nat, y \in Nat, size \in Nat, gap \in Nat :
          /\ GapOf(delta, v, d, w, w, x, y, size, gap)
          /\ gap = size + ComputeExtraBytes(w) - ComputeExtraBytes(d)
  BY <1>8, <1>9, <1>10, GapIs
<1>14. PICK option : option = EncodeOption(delta, v) /\ option \in Seq(Byte) /\ Len(option) = size
  BY <1>12, <1>13, Encoded DEF GapOf
<1>15. GetOptionDelta(b, at) = d /\ q + GetOptionDelta(b, at) - n = w
  BY <1>8, <1>9, <1>11, DeltaBehind
<1>16. PICK f : f = InsertInGap(b, option, at, gap, w)
  OBVIOUS
<1>17. AddAt(c, n, v, place, mem) = Inserted(c, f, mem)
  <2>1. AddAt(c, n, v, place, mem) = AddEncoded(c, n, option, place, mem)
    BY <1>3, <1>7, <1>11, <1>14 DEF AddAt
  <2>2. AddEncoded(c, n, option, place, mem) = InsertOption(c, option, place, d, w, mem)
    BY <1>2, <1>3, <1>7, <1>8, <1>15 DEF AddEncoded
  <2>3. InsertOption(c, option, place, d, w, mem) = Inserted(c, f, mem)
    BY <1>2, <1>8, <1>13, <1>14, <1>16 DEF InsertOption
  <2>4. QED
    BY <2>1, <2>2, <2>3
<1>18. PICK new, behind : /\ new = OptionPut(at, delta, n, v)
                          /\ behind = OptionPut(at + size, w, old.number, old.value)
  OBVIOUS
<1>19. PICK t : t = WithInserted(s, k, new, behind, gap)
  OBVIOUS
<1>20. Laid(f, t, 0) /\ HeadKept(b, f)
  <2>1. at = s[k + 1].at /\ Deltas(n, Before(s, 0, k + 1), s[k + 1], delta, d, w)
    BY <1>3, <1>7, <1>8, <1>10
  <2>2. Laid(b, s, 0)
    BY <1>1, <1>2
  <2>3. LaidFrom(b, at, f, t, 0)
    BY <1>7, <1>13, <1>14, <1>16, <1>18, <1>19, <2>1, <2>2, LaidInserted
  <2>4. first <= at /\ first = FirstOption(b)
    <3>1. Chain(b, first, 0, s) /\ first = FirstOption(b)
      BY <1>4 DEF LaidAs
    <3>2. first <= s[k + 1].at
      BY <1>6, <3>1, ChainAscends
    <3>3. QED
      BY <2>1, <3>1, <3>2
  <2>5. \A j \in 1..(first - 1) : j \in 1..(at - 1)
    BY <2>4
  <2>6. QED
    BY <2>3, <2>4, <2>5 DEF HeadKept, LaidFrom
<1>21. f \in Seq(Byte)
  BY <1>20 DEF Laid
<1>22. /\ new \in Option /\ new.number = n /\ new.value = v
       /\ behind \in Option /\ behind.number = old.number /\ behind.value = old.value
  <2>1. PICK x1 \in Nat, x2 \in Nat, r \in Word, u \in Seq(Byte) :
           /\ x1 = at + EncodedSize(delta, Len(v)) /\ x2 = (at + size) + EncodedSize(w, Len(old.value))
           /\ r = old.number /\ u = old.value
    <3>1. Len(old.value) \in Word
      BY <1>8 DEF Entry
    <3>2. PICK y1 \in Nat, y2 \in Nat : y1 = EncodedSize(delta, Len(v)) /\ y2 = EncodedSize(w, Len(old.value))
      BY <3>1, SizeOfOption
    <3>3. at + y1 \in Nat /\ (at + size) + y2 \in Nat
      BY <1>8, SMTT(30)
    <3>4. QED
      BY <1>8, <3>2, <3>3, OptionFields
  <2>2. new = [at |-> at, next |-> x1, number |-> n, value |-> v]
    BY <1>18, <2>1 DEF OptionPut
  <2>3. behind = [at |-> at + size, next |-> x2, number |-> r, value |-> u] /\ at + size \in Nat
    BY <1>18, <2>1 DEF OptionPut
  <2>4. QED
    BY <2>1, <2>2, <2>3 DEF Option
<1>23. PutIn(s, t, k, n, v)
  BY <1>3, <1>5, <1>7, <1>19, <1>22, InsertedIsPutIn
<1>24. k # Len(s)
  OBVIOUS
<1>25. PutOrRefused(c, s, n, v, Inserted(c, f, mem))
  BY <1>2, <1>20, <1>21, <1>23, <1>24, InsertedIs
<1>26. QED
  BY <1>17, <1>25

\* addOption(), while the options are in order and there is no payload.
LEMMA OptionPutIn ==
    ASSUME NEW c, NEW s, Open(c, s), NEW n \in Word, NEW v \in Seq(Byte), Len(v) \in Word,
           NEW mem \in Memories
    PROVE  PutOrRefused(c, s, n, v, AddOption(c, n, v, mem))
<1>1. s \in Seq(Option)
  BY DEF Open, Shaped, Laid, Written
<1>2. PICK m \in Nat : m = Len(s)
  BY <1>1, LenProperties
<1>3. PICK place : place = FindInsertionPosition(c, n)
  OBVIOUS
<1>4. \/ PlaceAtEnd(place, c.pdu, s, m, n)
      \/ \E k \in 0..(m - 1) : PlaceBefore(place, c.pdu, s, m, n, k)
  BY <1>2, <1>3, PlaceIs
<1>5. PutOrRefused(c, s, n, v, AddAt(c, n, v, place, mem))
  BY <1>2, <1>4, PutAtEnd, PutBefore
<1>6. QED
  BY <1>3, <1>5 DEF AddOption

-----------------------------------------------------------------------------
(* The calls that edit a message, on an object whose fields say where things are. *)

\* The header changes, and nothing behind it.
HeaderOnly(b, f) ==
    /\ f \in Seq(Byte) /\ Len(f) = Len(b) /\ GetTokenLength(f) = GetTokenLength(b)
    /\ \A j \in 5..Len(b) : f[j] = b[j]

LEMMA LaidHeader ==
    ASSUME NEW b, NEW s, NEW n, Laid(b, s, n), NEW f, HeaderOnly(b, f)
    PROVE  Laid(f, s, n) /\ OptionsEnd(f) = OptionsEnd(b)
<1>1. b \in Seq(Byte) /\ n \in Nat /\ s \in Seq(Option)
  BY DEF Laid, Written
<1>2. PICK first \in Nat, end \in Nat : LaidAs(b, s, n, first, end)
  BY LaidIs
<1>3. /\ first = FirstOption(b) /\ first >= 5 /\ end = EndOf(s, first) /\ OptionsEnd(b) = end
      /\ GetTokenLength(b) \in 0..8 /\ Len(b) \in Nat /\ Len(b) >= 4
  BY <1>2 DEF LaidAs
<1>4. f \in Seq(Byte) /\ Len(f) = Len(b) /\ GetTokenLength(f) = GetTokenLength(b)
  BY DEF HeaderOnly
<1>5. 0 \in Int /\ Len(f) >= 4 /\ Len(f) = Len(b) + 0 /\ GetTokenLength(f) <= 8
      /\ GetTokenLength(f) = GetTokenLength(b) + 0
  BY <1>3, <1>4
<1>6. \A j \in FirstOption(b)..Len(b) : f[j + 0] = b[j]
  <2> TAKE j \in FirstOption(b)..Len(b)
  <2>1. j \in 5..Len(b) /\ j + 0 = j
    BY <1>3
  <2>2. QED
    BY <2>1 DEF HeaderOnly
<1>7. Laid(f, AllMoved(s, 0), n)
  BY <1>4, <1>5, <1>6, LaidMoved
<1>8. Laid(f, s, n)
  BY <1>1, <1>7, MovedByNothing
<1>9. PICK g \in Nat, e \in Nat : LaidAs(f, s, n, g, e)
  BY <1>8, LaidIs
<1>10. OptionsEnd(f) = e /\ e = EndOf(s, g) /\ g = FirstOption(f)
  BY <1>9 DEF LaidAs
<1>11. g = first
  BY <1>3, <1>4, <1>10 DEF FirstOption
<1>12. QED
  BY <1>3, <1>8, <1>10, <1>11

LEMMA HeaderShaped ==
    ASSUME NEW c, NEW s, Shaped(c, s), NEW f, HeaderOnly(c.pdu, f)
    PROVE  /\ Shaped(WithBytes(c, f), s)
           /\ Open(c, s) => Open(WithBytes(c, f), s)
<1>1. /\ c \in Fields /\ Laid(c.pdu, s, c.payloadLength) /\ c.numOptions <= Len(s)
      /\ c.payloadPointer = IF c.payloadLength = 0 THEN NULL ELSE OptionsEnd(c.pdu) + 1
  BY DEF Shaped
<1>2. Laid(f, s, c.payloadLength) /\ OptionsEnd(f) = OptionsEnd(c.pdu) /\ f \in Seq(Byte)
  BY <1>1, LaidHeader DEF HeaderOnly
<1>3. PICK o : o = WithBytes(c, f) /\ o = [c EXCEPT !.pdu = f]
  BY DEF WithBytes
<1>4. /\ o \in Fields /\ o.pdu = f /\ o.numOptions = c.numOptions
      /\ o.payloadPointer = c.payloadPointer /\ o.payloadLength = c.payloadLength
      /\ o.maxAddedOptionNumber = c.maxAddedOptionNumber
  BY <1>1, <1>2, <1>3 DEF Fields
<1>5. Shaped(o, s)
  BY <1>1, <1>2, <1>4 DEF Shaped
<1>6. Open(c, s) => Open(o, s)
  BY <1>4, <1>5 DEF Open
<1>7. QED
  BY <1>3, <1>5, <1>6

LEMMA ByteSet ==
    ASSUME NEW b \in Seq(Byte), Len(b) >= 4, NEW i \in 1..4, NEW y, NEW f, f = [b EXCEPT ![i] = y],
           SameToken(b, f)
    PROVE  HeaderOnly(b, f)
<1>1. \A j \in 5..Len(b) : f[j] = b[j]
  <2> TAKE j \in 5..Len(b)
  <2>1. j \in 1..Len(b) /\ j # i
    BY LenProperties
  <2>2. QED
    BY <2>1, LenProperties
<1>2. QED
  BY <1>1 DEF HeaderOnly, SameToken

\* setVersion(), setType(), setCode() and setMessageID().
LEMMA HeaderSet ==
    ASSUME NEW b \in Seq(Byte), Len(b) >= 4
    PROVE  /\ \A v \in 0..3 : HeaderOnly(b, SetVersion(b, v))
           /\ \A t \in HeaderTypes : HeaderOnly(b, SetType(b, t))
           /\ \A code \in Byte : HeaderOnly(b, SetCode(b, code))
           /\ \A id \in Word : HeaderOnly(b, SetMessageID(b, id))
<1>1. Len(b) \in Nat /\ Len(b) > 0 /\ Len(b) > 1 /\ 1 \in 1..4 /\ 2 \in 1..4
  BY LenProperties
<1>2. ASSUME NEW v \in 0..3
      PROVE  HeaderOnly(b, SetVersion(b, v))
  <2>1. PICK f, y : f = SetVersion(b, v) /\ f = [b EXCEPT ![1] = y]
    BY DEF SetVersion
  <2>2. SameToken(b, f)
    BY <1>1, <2>1, VersionSet
  <2>3. QED
    BY <1>1, <2>1, <2>2, ByteSet
<1>3. ASSUME NEW t \in HeaderTypes
      PROVE  HeaderOnly(b, SetType(b, t))
  <2>1. PICK f, y : f = SetType(b, t) /\ f = [b EXCEPT ![1] = y]
    BY DEF SetType
  <2>2. SameToken(b, f)
    BY <1>1, <2>1, TypeSet
  <2>3. QED
    BY <1>1, <2>1, <2>2, ByteSet
<1>4. ASSUME NEW code \in Byte
      PROVE  HeaderOnly(b, SetCode(b, code))
  <2>1. PICK f, y : f = SetCode(b, code) /\ f = [b EXCEPT ![2] = y]
    BY DEF SetCode
  <2>2. SameToken(b, f)
    BY <1>1, <2>1, CodeSet
  <2>3. QED
    BY <1>1, <2>1, <2>2, ByteSet
<1>5. ASSUME NEW id \in Word
      PROVE  HeaderOnly(b, SetMessageID(b, id))
  <2>1. PICK s \in Seq(Byte) : s = TwoBytes(id) /\ Len(s) = 2
    BY TwoBytesAreBytes
  <2>2. PICK f : f = SetMessageID(b, id) /\ f = Overwrite(b, 3, s)
    BY <2>1 DEF SetMessageID
  <2>3. \A j \in 1..Len(b) : j < 3 \/ j >= 3 + Len(s) => f[j] = b[j]
    BY <2>2, Overwritten
  <2>4. \A j \in 5..Len(b) : f[j] = b[j]
    BY <1>1, <2>1, <2>3
  <2>5. SameToken(b, f)
    BY <2>2, MessageIDSet
  <2>6. QED
    BY <2>2, <2>4, <2>5 DEF HeaderOnly, SameToken
<1>6. QED
  BY <1>2, <1>3, <1>4, <1>5

-----------------------------------------------------------------------------
(* Tokens in a message laid out. *)

\* The token changes, and everything behind it moves by the difference.
TokenChanged(b, f, t, d) ==
    /\ f \in Seq(Byte) /\ Len(f) = Len(b) + d /\ Len(f) >= 4
    /\ GetTokenLength(f) = GetTokenLength(b) + d /\ GetTokenLength(f) <= 8
    /\ \A j \in FirstOption(b)..Len(b) : f[j + d] = b[j]
    /\ f[1] \div 16 = b[1] \div 16 /\ \A j \in 2..4 : f[j] = b[j]
    /\ GetTokenLength(f) = Len(t) /\ \A j \in 1..Len(t) : f[4 + j] = t[j]

\* The same options, wherever they are.
SameOptions(s, r) ==
    /\ s \in Seq(Option) /\ r \in Seq(Option) /\ Len(r) = Len(s)
    /\ \A k \in 1..Len(s) : r[k].number = s[k].number /\ r[k].value = s[k].value

LEMMA SameOrder ==
    ASSUME NEW s, NEW r, SameOptions(s, r)
    PROVE  LastNumber(r) = LastNumber(s) /\ (Ascending(s) => Ascending(r))
<1>1. /\ s \in Seq(Option) /\ r \in Seq(Option) /\ Len(r) = Len(s)
      /\ \A k \in 1..Len(s) : r[k].number = s[k].number
  BY DEF SameOptions
<1>2. PICK m \in Nat : m = Len(s)
  BY <1>1, LenProperties
<1>3. Ascending(s) => Ascending(r)
  BY <1>1, <1>2 DEF Ascending
<1>4. LastNumber(r) = LastNumber(s)
  <2>1. CASE m = 0
    <3>1. m + 1 = 1
      BY <2>1
    <3>2. QED
      BY <1>1, <1>2, <3>1 DEF LastNumber, Before
  <2>2. CASE m # 0
    <3>1. m \in 1..m /\ m + 1 # 1 /\ m + 1 - 1 = m
      BY <2>2
    <3>2. QED
      BY <1>1, <1>2, <3>1 DEF LastNumber, Before
  <2>3. QED
    BY <2>1, <2>2
<1>5. QED
  BY <1>3, <1>4

LEMMA LaidToken ==
    ASSUME NEW b, NEW s, Laid(b, s, 0), NEW f, NEW t, NEW d \in Int, TokenChanged(b, f, t, d)
    PROVE  \E r : Laid(f, r, 0) /\ SameOptions(s, r)
<1>1. b \in Seq(Byte) /\ s \in Seq(Option)
  BY DEF Laid, Written
<1>2. /\ f \in Seq(Byte) /\ Len(f) = Len(b) + d /\ Len(f) >= 4
      /\ GetTokenLength(f) = GetTokenLength(b) + d /\ GetTokenLength(f) <= 8
      /\ \A j \in FirstOption(b)..Len(b) : f[j + d] = b[j]
  BY DEF TokenChanged
<1>3. PICK r : r = AllMoved(s, d) /\ Laid(f, r, 0)
  BY <1>2, LaidMoved
<1>4. PICK m \in Nat : m = Len(s)
  BY <1>1, LenProperties
<1>5. r = [k \in 1..m |-> MovedBy(s[k], d)]
  BY <1>3, <1>4 DEF AllMoved
<1>6. r \in Seq(Option)
  BY <1>3 DEF Laid, Written
<1>7. Len(r) = m /\ \A k \in 1..m : r[k].number = s[k].number /\ r[k].value = s[k].value
  <2>1. DOMAIN r = 1..m /\ DOMAIN r = 1..Len(r) /\ Len(r) \in Nat
    BY <1>5, <1>6, LenProperties
  <2>2. Len(r) = m
    BY <2>1
  <2>3. \A k \in 1..m : r[k].number = s[k].number /\ r[k].value = s[k].value
    BY <1>5 DEF MovedBy
  <2>4. QED
    BY <2>2, <2>3
<1>8. QED
  BY <1>1, <1>3, <1>4, <1>6, <1>7 DEF SameOptions

\* setToken() on an object whose message has no payload.
Retokened(c, s, d) ==
    \E r : /\ SameOptions(s, r) /\ Shaped(d.object, r) /\ d.object.payloadLength = 0
           /\ Open(c, s) => Open(d.object, r)

LEMMA TokenShaped ==
    ASSUME NEW c, NEW s, Shaped(c, s), c.payloadLength = 0, NEW f, NEW t, NEW d \in Int,
           TokenChanged(c.pdu, f, t, d), NEW result
    PROVE  Retokened(c, s, Done(WithBytes(c, f), result))
<1>1. /\ c \in Fields /\ Laid(c.pdu, s, 0) /\ c.numOptions <= Len(s) /\ c.payloadPointer = NULL
  BY DEF Shaped
<1>2. PICK r : Laid(f, r, 0) /\ SameOptions(s, r)
  BY <1>1, LaidToken
<1>3. f \in Seq(Byte) /\ Len(r) = Len(s) /\ LastNumber(r) = LastNumber(s) /\ (Ascending(s) => Ascending(r))
  BY <1>2, SameOrder DEF Laid, SameOptions
<1>4. PICK o : o = WithBytes(c, f) /\ o = [c EXCEPT !.pdu = f]
  BY DEF WithBytes
<1>5. /\ o \in Fields /\ o.pdu = f /\ o.numOptions = c.numOptions
      /\ o.payloadPointer = c.payloadPointer /\ o.payloadLength = 0
      /\ o.maxAddedOptionNumber = c.maxAddedOptionNumber
  BY <1>1, <1>3, <1>4 DEF Fields
<1>6. Shaped(o, r)
  BY <1>1, <1>2, <1>3, <1>5 DEF Shaped
<1>7. Open(c, s) => Open(o, r)
  BY <1>3, <1>5, <1>6 DEF Open
<1>8. Done(o, result).object = o
  BY DEF Done
<1>9. QED
  BY <1>2, <1>4, <1>5, <1>6, <1>7, <1>8 DEF Retokened

\* What setTokenLength() makes of the first byte, and of no other.
LEMMA LengthSet ==
    ASSUME NEW b \in Seq(Byte), Len(b) >= 4, NEW n \in 0..8
    PROVE  /\ SetTokenLength(b, n) \in Seq(Byte) /\ Len(SetTokenLength(b, n)) = Len(b)
           /\ GetTokenLength(SetTokenLength(b, n)) = n
           /\ SetTokenLength(b, n)[1] \div 16 = b[1] \div 16
           /\ \A j \in 2..Len(b) : SetTokenLength(b, n)[j] = b[j]
<1>1. Len(b) \in Nat /\ 1 \in 1..Len(b)
  BY LenProperties
<1>2. PICK x \in Byte : x = b[1]
  BY <1>1, ElementOfSeq
<1>3. PICK h \in 0..15 : h = x \div 16
  BY DEF Byte
<1>4. PICK y \in Byte : y = h * 16 + n /\ y \div 16 = h /\ y % 16 = n
  <2>1. n \in 0..15
    OBVIOUS
  <2>2. QED
    BY <2>1, HeaderByte
<1>5. PICK f : f = [b EXCEPT ![1] = y]
  OBVIOUS
<1>6. f \in Seq(Byte) /\ Len(f) = Len(b) /\ f[1] = y /\ \A j \in 1..Len(b) : j # 1 => f[j] = b[j]
  BY <1>1, <1>5, Replaced
<1>7. SetTokenLength(b, n) = f
  <2>1. ~(n > 8)
    OBVIOUS
  <2>2. QED
    BY <1>2, <1>3, <1>4, <1>5, <2>1 DEF SetTokenLength
<1>8. \A j \in 2..Len(b) : f[j] = b[j]
  BY <1>1, <1>6
<1>9. QED
  BY <1>2, <1>3, <1>4, <1>6, <1>7, <1>8 DEF GetTokenLength

\* The lengths of a message and its token, and of the token to come.
Sized(b, k, l, t, n) ==
    /\ b \in Seq(Byte) /\ k = GetTokenLength(b) /\ l = Len(b)
    /\ t \in Seq(Byte) /\ n = Len(t)

\* The token written where there is now room for it.
WithRoom(b, k, l, t, n, g, m) ==
    /\ g \in Seq(Byte) /\ Len(g) = m /\ \A j \in 1..4 : g[j] = b[j]
    /\ \A j \in (5 + k)..l : g[j + (n - k)] = b[j]
    /\ \A j \in 1..n : g[4 + j] = t[j]

LEMMA TokenWritten ==
    ASSUME NEW b, NEW k \in 0..8, NEW l \in Nat, l >= 4 + k, NEW t, NEW n \in 1..8,
           Sized(b, k, l, t, n), NEW m \in Nat, m = l - k + n,
           NEW g, WithRoom(b, k, l, t, n, g, m)
    PROVE  TokenChanged(b, SetTokenLength(g, n), t, n - k)
<1>1. m >= 4 + n /\ l > 0 /\ m >= 4 /\ n \in 0..8
  OBVIOUS
<1>2. g \in Seq(Byte) /\ Len(g) = m /\ Len(g) >= 4
  BY <1>1 DEF WithRoom
<1>3. PICK f : f = SetTokenLength(g, n)
  OBVIOUS
<1>4. /\ f \in Seq(Byte) /\ Len(f) = m /\ GetTokenLength(f) = n
      /\ f[1] \div 16 = g[1] \div 16 /\ \A j \in 2..m : f[j] = g[j]
  <2>1. Len(g) = m
    BY <1>2
  <2>2. /\ f \in Seq(Byte) /\ Len(f) = Len(g) /\ GetTokenLength(f) = n
        /\ f[1] \div 16 = g[1] \div 16 /\ \A j \in 2..Len(g) : f[j] = g[j]
    BY <1>1, <1>2, <1>3, LengthSet
  <2>3. QED
    BY <2>1, <2>2
<1>5. FirstOption(b) = 5 + k /\ Len(b) = l
  BY <1>1, FirstOptionIs DEF Sized
<1>6. \A j \in FirstOption(b)..Len(b) : f[j + (n - k)] = b[j]
  <2> TAKE j \in FirstOption(b)..Len(b)
  <2>1. j \in (5 + k)..l
    BY <1>1, <1>5
  <2>2. j + (n - k) \in 2..m
    BY <1>1, <2>1
  <2>3. g[j + (n - k)] = b[j]
    BY <2>1 DEF WithRoom
  <2>4. QED
    BY <1>4, <2>2, <2>3
<1>7. g[1] = b[1] /\ \A j \in 2..4 : f[j] = b[j]
  <2>1. 1 \in 1..4 /\ \A j \in 2..4 : j \in 1..4 /\ j \in 2..m
    BY <1>2
  <2>2. \A j \in 1..4 : g[j] = b[j]
    BY DEF WithRoom
  <2>3. QED
    BY <1>4, <2>1, <2>2
<1>8. \A j \in 1..n : f[4 + j] = t[j]
  <2> TAKE j \in 1..n
  <2>1. 4 + j \in 2..m
    BY <1>1
  <2>2. g[4 + j] = t[j]
    BY DEF WithRoom
  <2>3. QED
    BY <1>4, <2>1, <2>2
<1>9. m = l + (n - k) /\ n = k + (n - k) /\ n <= 8
  OBVIOUS
<1>10. QED
  BY <1>1, <1>3, <1>4, <1>6, <1>7, <1>8, <1>9 DEF TokenChanged, Sized

LEMMA GrownBytes ==
    ASSUME NEW b, NEW k \in 0..8, NEW l \in Nat, l >= 4 + k, NEW t, NEW n \in 1..8,
           Sized(b, k, l, t, n), n > k,
           NEW m \in Nat, m = l - k + n
    PROVE  TokenChanged(b, SetTokenLength(Overwrite(ShiftPDUUp(Resize(b, m), m - l, m - n - 4), 5, t), n),
                        t, n - k)
<1>1. PICK u \in Int, v \in Int : u = m - l /\ v = m - n - 4 /\ u = n - k /\ m - v = n + 4 /\ m > l
  <2>1. m - l \in Int /\ m - n - 4 \in Int /\ m - l = n - k /\ m - (m - n - 4) = n + 4 /\ m > l
    OBVIOUS
  <2>2. QED
    BY <2>1
<1>2. PICK r : /\ r = Resize(b, m) /\ r \in Seq(Byte) /\ Len(r) = m
               /\ \A j \in 1..m : j <= l => r[j] = b[j]
  <2>1. b \in Seq(Byte) /\ Len(b) = l
    BY DEF Sized
  <2>2. PICK r : r = Resize(b, m)
    OBVIOUS
  <2>3. r \in Seq(Byte) /\ Len(r) = m /\ \A j \in 1..m : j <= Len(b) => r[j] = b[j]
    BY <2>1, <2>2, Resized
  <2>4. QED
    BY <2>1, <2>2, <2>3
<1>3. PICK s : s = ShiftPDUUp(r, u, v)
  OBVIOUS
<1>4. /\ s \in Seq(Byte) /\ Len(s) = m
      /\ \A j \in 1..m : s[j] = IF j > n + 4 THEN At(r, j - u) ELSE r[j]
  <2>1. /\ s \in Seq(Byte) /\ Len(s) = Len(r)
        /\ \A j \in 1..Len(r) : s[j] = IF j > Len(r) - v THEN At(r, j - u) ELSE r[j]
    BY <1>2, <1>3, ShiftedUp
  <2>2. Len(r) - v = n + 4
    BY <1>1, <1>2
  <2>3. QED
    BY <1>2, <2>1, <2>2
<1>5. PICK g : g = Overwrite(s, 5, t)
  OBVIOUS
<1>6. /\ g \in Seq(Byte) /\ Len(g) = m
      /\ \A j \in 1..m : 5 <= j /\ j < 5 + n => g[j] = t[j - 5 + 1]
      /\ \A j \in 1..m : j < 5 \/ j >= 5 + n => g[j] = s[j]
  BY <1>4, <1>5, Overwritten, SMTT(30) DEF Sized
<1>7. \A j \in 1..4 : g[j] = b[j]
  <2> TAKE j \in 1..4
  <2>1. j \in 1..m /\ j <= l /\ j < 5 /\ ~(j > n + 4)
    BY <1>1
  <2>2. QED
    BY <1>2, <1>4, <1>6, <2>1
<1>8. \A j \in (5 + k)..l : g[j + (n - k)] = b[j]
  <2> TAKE j \in (5 + k)..l
  <2>1. PICK i \in 1..m : i = j + (n - k) /\ i >= 5 + n /\ i > n + 4 /\ i - u = j
    <3>1. /\ j + (n - k) \in 1..m /\ j + (n - k) >= 5 + n /\ j + (n - k) > n + 4
          /\ j + (n - k) - u = j
      BY <1>1
    <3>2. QED
      BY <3>1
  <2>2. j \in 1..m /\ j <= l
    BY <1>1
  <2>3. g[i] = At(r, j)
    BY <1>4, <1>6, <2>1
  <2>4. At(r, j) = b[j]
    BY <1>2, <2>2, LenProperties DEF At, Sized
  <2>5. QED
    BY <2>1, <2>3, <2>4
<1>9. \A j \in 1..n : g[4 + j] = t[j]
  <2> TAKE j \in 1..n
  <2>1. PICK i \in 1..m : i = 4 + j /\ 5 <= i /\ i < 5 + n /\ i - 5 + 1 = j
    <3>1. 4 + j \in 1..m /\ 5 <= 4 + j /\ 4 + j < 5 + n /\ 4 + j - 5 + 1 = j
      BY <1>1
    <3>2. QED
      BY <3>1
  <2>2. QED
    BY <1>6, <2>1
<1>10. TokenChanged(b, SetTokenLength(g, n), t, n - k)
  <2>1. WithRoom(b, k, l, t, n, g, m)
    BY <1>6, <1>7, <1>8, <1>9 DEF WithRoom
  <2>2. QED
    BY <2>1, TokenWritten
<1>11. QED
  BY <1>1, <1>2, <1>3, <1>5, <1>10

LEMMA ShrunkBytes ==
    ASSUME NEW b, NEW k \in 0..8, NEW l \in Nat, l >= 4 + k, NEW t, NEW n \in 1..8,
           Sized(b, k, l, t, n), n < k,
           NEW m \in Nat, m = l - k + n
    PROVE  TokenChanged(b, SetTokenLength(Resize(ShiftPDUDown(Overwrite(b, 5, t), n + 5, l - m, l - k - 4),
                                                 m), n), t, n - k)
<1>1. PICK a \in Int, u \in Int, v \in Int :
         /\ a = n + 5 /\ u = l - m /\ v = l - k - 4 /\ a + v - 1 = m /\ u = k - n /\ m < l
  <2>1. /\ n + 5 \in Int /\ l - m \in Int /\ l - k - 4 \in Int /\ (n + 5) + (l - k - 4) - 1 = m
        /\ l - m = k - n /\ m < l
    OBVIOUS
  <2>2. QED
    BY <2>1
<1>2. PICK r : r = Overwrite(b, 5, t)
  OBVIOUS
<1>3. /\ r \in Seq(Byte) /\ Len(r) = l
      /\ \A j \in 1..l : 5 <= j /\ j < 5 + n => r[j] = t[j - 5 + 1]
      /\ \A j \in 1..l : j < 5 \/ j >= 5 + n => r[j] = b[j]
  BY <1>2, Overwritten, SMTT(30) DEF Sized
<1>4. PICK s : s = ShiftPDUDown(r, a, u, v)
  OBVIOUS
<1>5. /\ s \in Seq(Byte) /\ Len(s) = l
      /\ \A j \in 1..l : s[j] = IF j \in a..m THEN At(r, j + u) ELSE r[j]
  BY <1>1, <1>3, <1>4, ShiftedDown
<1>6. PICK g : /\ g = Resize(s, m) /\ g \in Seq(Byte) /\ Len(g) = m
               /\ \A j \in 1..m : j <= l => g[j] = s[j]
  <2>1. m \in Nat
    OBVIOUS
  <2>2. /\ Resize(s, m) \in Seq(Byte) /\ Len(Resize(s, m)) = m
        /\ \A j \in 1..m : j <= Len(s) => Resize(s, m)[j] = s[j]
    BY <1>5, <2>1, Resized
  <2>3. QED
    BY <1>5, <2>2
<1>7. \A j \in 1..4 : g[j] = b[j]
  <2> TAKE j \in 1..4
  <2>1. j \in 1..m /\ j <= l /\ j \in 1..l /\ j < 5 /\ ~(j \in a..m)
    BY <1>1
  <2>2. QED
    BY <1>3, <1>5, <1>6, <2>1
<1>8. \A j \in (5 + k)..l : g[j + (n - k)] = b[j]
  <2> TAKE j \in (5 + k)..l
  <2>1. PICK i \in 1..m : i = j + (n - k) /\ i \in a..m /\ i <= l /\ i \in 1..l /\ i + u = j
    <3>1. /\ j + (n - k) \in 1..m /\ j + (n - k) \in a..m /\ j + (n - k) <= l
          /\ j + (n - k) \in 1..l /\ j + (n - k) + u = j
      BY <1>1
    <3>2. QED
      BY <3>1
  <2>2. j \in 1..l /\ j >= 5 + n
    BY <1>1
  <2>3. g[i] = At(r, j)
    BY <1>5, <1>6, <2>1
  <2>4. At(r, j) = b[j]
    BY <1>3, <2>2, LenProperties DEF At
  <2>5. QED
    BY <2>1, <2>3, <2>4
<1>9. \A j \in 1..n : g[4 + j] = t[j]
  <2> TAKE j \in 1..n
  <2>1. PICK i \in 1..m : /\ i = 4 + j /\ 5 <= i /\ i < 5 + n /\ i - 5 + 1 = j /\ i <= l
                          /\ i \in 1..l /\ ~(i \in a..m)
    <3>1. /\ 4 + j \in 1..m /\ 5 <= 4 + j /\ 4 + j < 5 + n /\ 4 + j - 5 + 1 = j /\ 4 + j <= l
          /\ 4 + j \in 1..l /\ ~(4 + j \in a..m)
      BY <1>1
    <3>2. QED
      BY <3>1
  <2>2. QED
    BY <1>3, <1>5, <1>6, <2>1
<1>10. TokenChanged(b, SetTokenLength(g, n), t, n - k)
  <2>1. WithRoom(b, k, l, t, n, g, m)
    BY <1>6, <1>7, <1>8, <1>9 DEF WithRoom
  <2>2. QED
    BY <2>1, TokenWritten
<1>11. QED
  BY <1>1, <1>2, <1>4, <1>6, <1>10

LEMMA ReplacedBytes ==
    ASSUME NEW b, NEW k \in 0..8, NEW l \in Nat, l >= 4 + k, NEW t, Sized(b, k, l, t, k)
    PROVE  TokenChanged(b, Overwrite(b, 5, t), t, 0)
<1>1. PICK f : f = Overwrite(b, 5, t)
  OBVIOUS
<1>2. /\ f \in Seq(Byte) /\ Len(f) = l
      /\ \A j \in 1..l : 5 <= j /\ j < 5 + k => f[j] = t[j - 5 + 1]
      /\ \A j \in 1..l : j < 5 \/ j >= 5 + k => f[j] = b[j]
  <2>1. b \in Seq(Byte) /\ Len(b) = l /\ t \in Seq(Byte) /\ Len(t) = k
    BY DEF Sized
  <2>2. PICK i \in Int : i = 5 /\ f = Overwrite(b, i, t)
    BY <1>1
  <2>3. b \in Seq(Byte) /\ t \in Seq(Byte) /\ f = Overwrite(b, i, t)
    BY <2>1, <2>2
  <2>4. /\ f \in Seq(Byte) /\ Len(f) = Len(b)
        /\ \A j \in 1..Len(b) : i <= j /\ j < i + Len(t) => f[j] = t[j - i + 1]
        /\ \A j \in 1..Len(b) : j < i \/ j >= i + Len(t) => f[j] = b[j]
    BY <2>3, Overwritten
  <2>5. QED
    BY <2>1, <2>2, <2>4
<1>3. \A j \in 1..4 : f[j] = b[j]
  <2> TAKE j \in 1..4
  <2>1. j \in 1..l /\ j < 5
    OBVIOUS
  <2>2. QED
    BY <1>2, <2>1
<1>4. f[1] = b[1]
  BY <1>3
<1>5. GetTokenLength(f) = k
  BY <1>4 DEF GetTokenLength, Sized
<1>6. FirstOption(b) = 5 + k /\ Len(b) = l
  <2>1. l > 0
    OBVIOUS
  <2>2. QED
    BY <2>1, FirstOptionIs DEF Sized
<1>7. \A j \in FirstOption(b)..Len(b) : f[j + 0] = b[j]
  <2> TAKE j \in FirstOption(b)..Len(b)
  <2>1. j \in 1..l /\ j >= 5 + k /\ j + 0 = j
    BY <1>6
  <2>2. QED
    BY <1>2, <2>1
<1>8. \A j \in 1..k : f[4 + j] = t[j]
  <2> TAKE j \in 1..k
  <2>1. PICK i \in 1..l : i = 4 + j /\ 5 <= i /\ i < 5 + k /\ i - 5 + 1 = j
    <3>1. 4 + j \in 1..l /\ 5 <= 4 + j /\ 4 + j < 5 + k /\ 4 + j - 5 + 1 = j
      OBVIOUS
    <3>2. QED
      BY <3>1
  <2>2. QED
    BY <1>2, <2>1
<1>9. l >= 4 /\ l + 0 = l /\ k + 0 = k /\ k <= 8 /\ \A j \in 2..4 : f[j] = b[j]
  BY <1>3
<1>10. GetTokenLength(b) = k /\ Len(t) = k
  BY DEF Sized
<1>11. /\ f \in Seq(Byte) /\ Len(f) = Len(b) + 0 /\ Len(f) >= 4
       /\ GetTokenLength(f) = GetTokenLength(b) + 0 /\ GetTokenLength(f) <= 8
  BY <1>2, <1>5, <1>6, <1>9, <1>10
<1>12. TokenChanged(b, f, t, 0)
  BY <1>4, <1>5, <1>7, <1>8, <1>9, <1>10, <1>11 DEF TokenChanged
<1>13. QED
  BY <1>1, <1>12

\* setToken(), on a message without a payload, of a token of at most eight bytes.
LEMMA TokenSetShaped ==
    ASSUME NEW c, NEW s, Shaped(c, s), c.payloadLength = 0, Len(c.pdu) < 256,
           NEW t \in Seq(Byte), Len(t) <= 8, NEW mem \in Memories
    PROVE  /\ Retokened(c, s, SetToken(c, t, mem))
           /\ \/ SetToken(c, t, mem) = Done(c, 1)
              \/ \E f, d : /\ SetToken(c, t, mem) = Done(WithBytes(c, f), 0)
                           /\ t # << >> /\ d \in Int /\ TokenChanged(c.pdu, f, t, d)
<1>1. c \in Fields /\ Laid(c.pdu, s, 0) /\ c.payloadPointer = NULL
  BY DEF Shaped
<1>2. PICK b \in Seq(Byte) : b = c.pdu
  BY <1>1, FieldsTyped
<1>3. PICK first \in Nat, end \in Nat : LaidAs(b, s, 0, first, end)
  BY <1>1, <1>2, LaidIs
<1>4. PICK k \in 0..8, l \in Nat : k = GetTokenLength(b) /\ l = Len(b) /\ l >= 4 + k /\ l < 256
  <2>1. /\ GetTokenLength(b) \in 0..8 /\ first = 5 + GetTokenLength(b) /\ first <= end
        /\ Len(b) \in Nat /\ Len(b) + 1 = end + 0 /\ Len(b) < 256
    BY <1>2, <1>3 DEF LaidAs
  <2>2. PICK k \in 0..8, l \in Nat : k = GetTokenLength(b) /\ l = Len(b)
    BY <2>1
  <2>3. first = 5 + k /\ l + 1 = end + 0 /\ l < 256
    BY <2>1, <2>2
  <2>4. l >= 4 + k
    BY <2>1, <2>3
  <2>5. QED
    BY <2>2, <2>3, <2>4, ZenonT(30)
<1>5. PICK n \in 0..8 : n = Len(t)
  <2>1. PICK n \in Nat : n = Len(t)
    BY LenProperties
  <2>2. n <= 8
    BY <2>1
  <2>3. n \in 0..8
    BY <2>2
  <2>4. QED
    BY <2>1, <2>3
<1>6. l % 256 = l
  BY <1>4, SMTT(30)
<1>7. Sized(b, k, l, t, n)
  BY <1>4, <1>5 DEF Sized
<1>8. Repointed(c.payloadPointer, mem) = NULL
  BY <1>1 DEF Repointed
<1>9. PICK d : d = SetToken(c, t, mem)
  OBVIOUS
<1>10. ASSUME NEW f, NEW x \in Int, d = Done(WithBytes(c, f), 0), t # << >>, TokenChanged(b, f, t, x)
       PROVE  /\ Retokened(c, s, d)
              /\ \/ d = Done(c, 1)
                 \/ \E g, y : /\ d = Done(WithBytes(c, g), 0) /\ t # << >>
                              /\ y \in Int /\ TokenChanged(c.pdu, g, t, y)
  BY <1>2, <1>10, TokenShaped
<1>11. CASE d = Done(c, 1)
  <2>1. SameOptions(s, s)
    BY <1>1 DEF SameOptions, Laid, Written
  <2>2. d.object = c
    BY <1>11 DEF Done
  <2>3. Retokened(c, s, d)
    BY <2>1, <2>2 DEF Retokened
  <2>4. QED
    BY <1>9, <1>11, <2>3
<1>12. CASE t = << >>
  <2>1. d = Done(c, 1)
    BY <1>9, <1>12 DEF SetToken
  <2>2. QED
    BY <1>11, <2>1
<1>13. CASE t # << >> /\ n = k
  <2>1. PICK f : f = Overwrite(b, 5, t)
    OBVIOUS
  <2>2. d = Done(WithBytes(c, f), 0)
    BY <1>2, <1>4, <1>5, <1>9, <1>13, <2>1 DEF SetToken, HeaderSize, WithBytes
  <2>3. TokenChanged(b, f, t, 0)
    BY <1>4, <1>7, <1>13, <2>1, ReplacedBytes
  <2>4. 0 \in Int
    OBVIOUS
  <2>5. QED
    BY <1>9, <1>10, <1>13, <2>2, <2>3, <2>4
<1>14. CASE t # << >> /\ n # k
  <2>1. n \in 1..8
    <3>1. n # 0
      BY <1>5, <1>14, EmptySeq
    <3>2. QED
      BY <3>1
  <2>2. PICK m \in Nat, x \in Int : m = l - k + n /\ x = n - k /\ (m > l <=> n > k)
    <3>1. l - k + n \in Nat /\ n - k \in Int /\ (l - k + n > l <=> n > k)
      BY <1>4, SMTT(30)
    <3>2. QED
      BY <3>1
  <2>3. d = IF m > l THEN GrowForToken(c, t, l, m, mem) ELSE ShrinkForToken(c, t, l, m, mem)
    <3>1. Len(c.pdu) % 256 = l
      BY <1>2, <1>4, <1>6
    <3>2. Len(c.pdu) - GetTokenLength(c.pdu) + Len(t) = m
      BY <1>2, <1>4, <1>5, <2>2
    <3>3. Len(t) # GetTokenLength(c.pdu)
      BY <1>2, <1>4, <1>5, <1>14
    <3>4. QED
      BY ZenonT(30), <1>9, <1>14, <3>1, <3>2, <3>3 DEF SetToken
  <2>4. CASE n > k
    <3>1. PICK f : f = SetTokenLength(Overwrite(ShiftPDUUp(Resize(b, m), m - l, m - n - 4), 5, t), n)
      OBVIOUS
    <3>2. TokenChanged(b, f, t, x)
      BY <1>4, <1>7, <2>1, <2>2, <2>4, <3>1, GrownBytes
    <3>3. d = IF ~Fits(m, mem) THEN Done([c EXCEPT !.pdu = Resize(b, l)], 1)
              ELSE Done([c EXCEPT !.pdu = f, !.payloadPointer = NULL], 0)
      BY <1>2, <1>5, <1>8, <2>2, <2>3, <2>4, <3>1 DEF GrowForToken, HeaderSize
    <3>4. [c EXCEPT !.pdu = f, !.payloadPointer = NULL] = WithBytes(c, f)
      BY <1>1 DEF WithBytes, Fields
    <3>5. [c EXCEPT !.pdu = Resize(b, l)] = c
      BY <1>1, <1>2, <1>4, ResizedToItself DEF Fields
    <3>6. QED
      BY <1>9, <1>10, <1>11, <1>14, <3>2, <3>3, <3>4, <3>5
  <2>5. CASE n < k
    <3>1. PICK f : f = SetTokenLength(Resize(ShiftPDUDown(Overwrite(b, 5, t), n + 5, l - m, l - k - 4),
                                             m), n)
      OBVIOUS
    <3>2. TokenChanged(b, f, t, x)
      BY <1>4, <1>7, <2>1, <2>2, <2>5, <3>1, ShrunkBytes
    <3>3. ~(m > l) /\ 4 + n + 1 = n + 5
      BY <2>2, <2>5
    <3>4. d = Done([c EXCEPT !.pdu = f, !.payloadPointer = NULL], 0)
      BY <1>2, <1>4, <1>5, <1>8, <2>3, <3>1, <3>3 DEF ShrinkForToken, HeaderSize
    <3>5. [c EXCEPT !.pdu = f, !.payloadPointer = NULL] = WithBytes(c, f)
      BY <1>1 DEF WithBytes, Fields
    <3>6. QED
      BY <1>9, <1>10, <1>14, <3>2, <3>4, <3>5
  <2>6. QED
    BY <1>14, <2>4, <2>5
<1>15. QED
  BY <1>12, <1>13, <1>14

-----------------------------------------------------------------------------
(* Payloads in a message laid out. *)

\* The payload x in the message f, whose options are those of b and end where they did.
PayloadIn(b, f, end, x) ==
    /\ f \in Seq(Byte) /\ Len(f) = end + Len(x) /\ f[end] = Marker
    /\ \A j \in 1..(end - 1) : f[j] = b[j]
    /\ \A j \in 1..Len(x) : f[end + j] = x[j]

\* setPayload(): it changes nothing, or the message ends in a marker and the payload.
PayloadPut(c, s, x, d) ==
    \/ d = Done(c, 1)
    \/ /\ d.result = 0 /\ x # << >> /\ Shaped(d.object, s) /\ d.object.payloadLength = Len(x)
       /\ PayloadIn(c.pdu, d.object.pdu, OptionsEnd(c.pdu), x)

PayloadReady(b, r, end, x) ==
    /\ r \in Seq(Byte) /\ x \in Seq(Byte) /\ Len(r) = end + Len(x) /\ r[end] = Marker
    /\ \A j \in 1..(end - 1) : r[j] = b[j]

LEMMA PayloadWritten ==
    ASSUME NEW b, NEW r, NEW end \in Nat, end >= 5, NEW x, PayloadReady(b, r, end, x)
    PROVE  PayloadIn(b, Overwrite(r, end + 1, x), end, x)
<1>1. PICK i \in Int, n \in Nat, m \in Nat : i = end + 1 /\ n = Len(x) /\ m = end + n
  <2>1. PICK n \in Nat : n = Len(x)
    BY LenProperties DEF PayloadReady
  <2>2. end + 1 \in Int /\ end + n \in Nat
    OBVIOUS
  <2>3. QED
    BY <2>1, <2>2
<1>2. PICK f : f = Overwrite(r, i, x)
  OBVIOUS
<1>3. /\ f \in Seq(Byte) /\ Len(f) = Len(r)
      /\ \A j \in 1..Len(r) : i <= j /\ j < i + Len(x) => f[j] = x[j - i + 1]
      /\ \A j \in 1..Len(r) : j < i \/ j >= i + Len(x) => f[j] = r[j]
  <2>1. r \in Seq(Byte) /\ x \in Seq(Byte)
    BY DEF PayloadReady
  <2>2. /\ Overwrite(r, i, x) \in Seq(Byte) /\ Len(Overwrite(r, i, x)) = Len(r)
        /\ \A j \in 1..Len(r) : i <= j /\ j < i + Len(x) => Overwrite(r, i, x)[j] = x[j - i + 1]
        /\ \A j \in 1..Len(r) : j < i \/ j >= i + Len(x) => Overwrite(r, i, x)[j] = r[j]
    BY <2>1, Overwritten
  <2>3. QED
    BY <1>2, <2>2
<1>4. /\ Len(r) = m /\ Len(x) = n /\ r[end] = Marker
      /\ \A j \in 1..(end - 1) : r[j] = b[j]
  BY <1>1 DEF PayloadReady
<1>5. \A j \in 1..end : f[j] = r[j]
  <2> TAKE j \in 1..end
  <2>1. j \in 1..m /\ j < i
    BY <1>1
  <2>2. QED
    BY <1>3, <1>4, <2>1
<1>6. \A j \in 1..n : f[end + j] = x[j]
  <2> TAKE j \in 1..n
  <2>1. PICK h \in 1..m : h = end + j /\ i <= h /\ h < i + n /\ h - i + 1 = j
    <3>1. end + j \in 1..m /\ i <= end + j /\ end + j < i + n /\ end + j - i + 1 = j
      BY <1>1
    <3>2. QED
      BY <3>1
  <2>2. f[h] = x[h - i + 1]
    BY <1>3, <1>4, <2>1
  <2>3. QED
    BY <2>1, <2>2
<1>7. end \in 1..end /\ \A j \in 1..(end - 1) : j \in 1..end
  OBVIOUS
<1>8. f[end] = Marker /\ \A j \in 1..(end - 1) : f[j] = b[j]
  BY <1>4, <1>5, <1>7
<1>9. PayloadIn(b, f, end, x)
  BY <1>1, <1>3, <1>4, <1>6, <1>8 DEF PayloadIn
<1>10. QED
  BY <1>1, <1>9, <1>2

LEMMA PayloadShaped ==
    ASSUME NEW c, NEW s, Shaped(c, s), NEW end \in Nat, end = OptionsEnd(c.pdu),
           NEW x \in Seq(Byte), x # << >>, NEW f, PayloadIn(c.pdu, f, end, x)
    PROVE  PayloadPut(c, s, x, Done(WithPayload(c, f, end + 1, Len(x)), 0))
<1>1. c \in Fields /\ Laid(c.pdu, s, c.payloadLength) /\ c.numOptions <= Len(s)
  BY DEF Shaped
<1>2. PICK b \in Seq(Byte) : b = c.pdu
  BY <1>1, FieldsTyped
<1>3. PICK first \in Nat, y \in Nat : LaidAs(b, s, c.payloadLength, first, y)
  BY <1>1, <1>2, LaidIs
<1>4. end = y /\ first = FirstOption(b) /\ end = EndOf(s, first) /\ first >= 5 /\ first <= end
  BY <1>2, <1>3 DEF LaidAs
<1>5. PICK n \in Nat : n = Len(x) /\ n > 0
  BY EmptySeq, LenProperties
<1>6. /\ f \in Seq(Byte) /\ Len(f) = end + n /\ f[end] = Marker
      /\ \A j \in 1..(end - 1) : f[j] = b[j]
  BY <1>2, <1>5 DEF PayloadIn
<1>7. Laid(f, s, n)
  BY <1>1, <1>2, <1>5, <1>6, LaidPayload
<1>8. OptionsEnd(f) = end
  <2>1. PICK g \in Nat, e \in Nat : LaidAs(f, s, n, g, e)
    BY <1>7, LaidIs
  <2>2. OptionsEnd(f) = EndOf(s, FirstOption(f))
    BY <2>1 DEF LaidAs
  <2>3. 1 \in 1..(end - 1)
    BY <1>4
  <2>4. f[1] = b[1]
    BY <1>6, <2>3
  <2>5. FirstOption(f) = first
    BY <1>4, <2>4 DEF FirstOption, GetTokenLength
  <2>6. QED
    BY <1>4, <2>2, <2>5
<1>9. PICK p \in Nat : p = end + 1 /\ n # 0
  BY <1>5
<1>10. PICK o : o = WithPayload(c, f, p, n)
  OBVIOUS
<1>11. /\ o \in Fields /\ o.pdu = f /\ o.numOptions = c.numOptions
       /\ o.payloadPointer = p /\ o.payloadLength = n
  BY <1>1, <1>6, <1>10 DEF WithPayload, Fields
<1>12. Shaped(o, s)
  BY <1>1, <1>7, <1>8, <1>9, <1>11 DEF Shaped
<1>13. PICK d : d = Done(o, 0)
  OBVIOUS
<1>14. d.object = o /\ d.result = 0
  BY <1>13 DEF Done
<1>15. PayloadPut(c, s, x, d)
  BY <1>5, <1>11, <1>12, <1>14 DEF PayloadPut
<1>16. QED
  BY <1>5, <1>9, <1>10, <1>13, <1>15

LEMMA PayloadSetShaped ==
    ASSUME NEW c, NEW s, Shaped(c, s), NEW x \in Seq(Byte), NEW mem \in Memories,
           mem.moves => c.payloadLength \in {0, Len(x)}
    PROVE  PayloadPut(c, s, x, SetPayload(c, x, mem))
<1>1. c \in Fields /\ Laid(c.pdu, s, c.payloadLength) /\ c.numOptions <= Len(s)
  BY DEF Shaped
<1>2. PICK b \in Seq(Byte), p \in Nat : b = c.pdu /\ p = c.payloadLength
  BY <1>1, FieldsTyped
<1>3. PICK first \in Nat, end \in Nat : LaidAs(b, s, p, first, end)
  BY <1>1, <1>2, LaidIs
<1>4. PICK l \in Nat : /\ l = Len(b) /\ l + 1 = end + (IF p = 0 THEN 0 ELSE p + 1) /\ end >= 5
                       /\ end = OptionsEnd(b) /\ (p > 0 => b[end] = Marker)
  <2>1. first >= 5 /\ first <= end
    BY <1>3 DEF LaidAs
  <2>2. end >= 5
    BY <2>1
  <2>3. QED
    BY <1>3, <2>2 DEF LaidAs
<1>5. c.payloadPointer = IF p = 0 THEN NULL ELSE end + 1
  BY <1>2, <1>4 DEF Shaped
<1>6. PICK q \in Nat : q = end + 1 /\ q # NULL /\ q # Dangling
  <2>1. end + 1 \in Nat /\ end + 1 # NULL /\ end + 1 # Dangling
    BY DEF NULL, Dangling
  <2>2. QED
    BY <2>1
<1>7. PICK e : e = SetPayload(c, x, mem)
  OBVIOUS
<1>8. CASE x = << >>
  <2>1. e = Done(c, 1)
    BY <1>7, <1>8 DEF SetPayload
  <2>2. QED
    BY <1>7, <2>1 DEF PayloadPut
<1>9. CASE x # << >>
  <2>1. PICK n \in Nat : n = Len(x) /\ n # 0
    BY <1>9, LenProperties, EmptySeq
  <2>2. PICK g \in Int, m \in Nat :
           /\ g = n - p + (IF p = 0 THEN 1 ELSE 0) /\ m = l + g /\ (n # p \/ p = 0 => m = end + n)
    <3>1. /\ n - p + (IF p = 0 THEN 1 ELSE 0) \in Int /\ l + (n - p + (IF p = 0 THEN 1 ELSE 0)) = end + n
      BY <1>4
    <3>2. end + n \in Nat
      OBVIOUS
    <3>3. QED
      BY <3>1, <3>2
  <2>3. ASSUME NEW r, PayloadReady(b, r, end, x),
               e = Done(WithPayload(c, Overwrite(r, q, x), q, n), 0)
        PROVE  PayloadPut(c, s, x, e)
    <3>1. PayloadIn(b, Overwrite(r, end + 1, x), end, x)
      BY <1>4, <2>3, PayloadWritten
    <3>2. end = OptionsEnd(c.pdu)
      BY <1>2, <1>4
    <3>3. PayloadPut(c, s, x, Done(WithPayload(c, Overwrite(r, end + 1, x), end + 1, Len(x)), 0))
      BY <1>2, <1>9, <3>1, <3>2, PayloadShaped
    <3>4. QED
      BY <1>6, <2>1, <2>3, <3>3
  <2>4. PICK h : h = MallocPayload(c, n, mem)
    OBVIOUS
  <2>5. e = IF h.result = 1 \/ h.object.payloadPointer = Dangling THEN h
            ELSE Done([h.object EXCEPT !.pdu = Overwrite(h.object.pdu, h.object.payloadPointer, x)], 0)
    BY <1>7, <1>9, <2>1, <2>4 DEF SetPayload
  <2>6. h = IF n = p THEN Done(c, IF c.payloadPointer = NULL THEN 1 ELSE 0)
            ELSE IF g > 0 /\ ~Fits(m, mem) THEN Done(c, 1)
            ELSE IF c.payloadPointer = NULL
                 THEN Done([c EXCEPT !.pdu = Overwrite(Resize(b, m), l + 1, << Marker >>),
                                     !.payloadPointer = l + 2, !.payloadLength = n], 0)
                 ELSE Done([c EXCEPT !.pdu = Resize(b, m),
                                     !.payloadPointer = Repointed(c.payloadPointer, mem),
                                     !.payloadLength = n], 0)
    BY <1>2, <1>4, <2>2, <2>4 DEF MallocPayload
  <2>7. CASE h = Done(c, 1)
    <3>1. e = h
      BY <2>5, <2>7 DEF Done
    <3>2. QED
      BY <1>7, <2>7, <3>1 DEF PayloadPut
  <2>8. ASSUME NEW r, PayloadReady(b, r, end, x), h = Done(WithPayload(c, r, q, n), 0)
        PROVE  PayloadPut(c, s, x, e)
    <3>1. PICK o : o = WithPayload(c, r, q, n)
      OBVIOUS
    <3>2. r \in Seq(Byte) /\ o.pdu = r /\ o.payloadPointer = q
      BY <1>1, <2>8, <3>1 DEF PayloadReady, WithPayload, Fields
    <3>3. h.object = o /\ h.result = 0
      BY <2>8, <3>1 DEF Done
    <3>4. e = Done([o EXCEPT !.pdu = Overwrite(r, q, x)], 0)
      <4>1. ~(h.result = 1 \/ h.object.payloadPointer = Dangling)
        BY <1>6, <3>2, <3>3
      <4>2. e = Done([h.object EXCEPT !.pdu = Overwrite(h.object.pdu, h.object.payloadPointer, x)], 0)
        BY <2>5, <4>1
      <4>3. QED
        BY <3>2, <3>3, <4>2
    <3>5. [o EXCEPT !.pdu = Overwrite(r, q, x)] = WithPayload(c, Overwrite(r, q, x), q, n)
      BY <1>1, <3>1 DEF WithPayload, Fields
    <3>6. QED
      BY <2>3, <2>8, <3>4, <3>5
  <2>9. CASE n = p
    <3>1. PayloadReady(b, b, end, x)
      <4>1. p > 0 /\ l = end + n
        BY <1>4, <2>1, <2>9
      <4>2. QED
        BY <1>4, <2>1, <4>1 DEF PayloadReady
    <3>2. c.payloadPointer = q
      BY <1>5, <1>6, <2>1, <2>9
    <3>3. h = Done(c, 0)
      BY <1>6, <2>6, <2>9, <3>2
    <3>4. c = WithPayload(c, b, q, n)
      BY <1>1, <1>2, <2>9, <3>2 DEF WithPayload, Fields
    <3>5. QED
      BY <1>7, <2>8, <3>1, <3>3, <3>4
  <2>10. CASE n # p /\ g > 0 /\ ~Fits(m, mem)
    <3>1. h = Done(c, 1)
      BY <2>6, <2>10
    <3>2. QED
      BY <2>7, <3>1
  <2>11. CASE n # p /\ ~(g > 0 /\ ~Fits(m, mem))
    <3>1. m = end + n
      BY <2>2, <2>11
    <3>2. PICK r : /\ r = Resize(b, m) /\ r \in Seq(Byte) /\ Len(r) = m
                   /\ \A j \in 1..m : j <= Len(b) => r[j] = b[j]
      <4>1. PICK r : r = Resize(b, m)
        OBVIOUS
      <4>2. r \in Seq(Byte) /\ Len(r) = m /\ \A j \in 1..m : j <= Len(b) => r[j] = b[j]
        BY <4>1, Resized
      <4>3. QED
        BY <4>1, <4>2
    <3>3. \A j \in 1..(end - 1) : r[j] = b[j]
      <4> TAKE j \in 1..(end - 1)
      <4>1. j \in 1..m /\ j <= l
        BY <1>4, <3>1
      <4>2. QED
        BY <1>4, <3>2, <4>1
    <3>4. CASE p = 0
      <4>1. end = l + 1 /\ q = l + 2 /\ c.payloadPointer = NULL
        BY <1>4, <1>5, <1>6, <3>4
      <4>2. PICK z \in Seq(Byte) : z = << Marker >> /\ Len(z) = 1 /\ z[1] = Marker
        <5>1. PICK y \in Byte : y = Marker
          BY DEF Marker, Byte
        <5>2. << y >> \in Seq(Byte) /\ Len(<< y >>) = 1 /\ << y >>[1] = y
          OBVIOUS
        <5>3. QED
          BY <5>1, <5>2
      <4>3. PICK w : w = Overwrite(r, end, z)
        OBVIOUS
      <4>4. /\ w \in Seq(Byte) /\ Len(w) = m
            /\ \A j \in 1..m : end <= j /\ j < end + 1 => w[j] = z[j - end + 1]
            /\ \A j \in 1..m : j < end \/ j >= end + 1 => w[j] = r[j]
        <5>1. end \in Int /\ r \in Seq(Byte)
          BY <3>2
        <5>2. /\ w \in Seq(Byte) /\ Len(w) = Len(r)
              /\ \A j \in 1..Len(r) : end <= j /\ j < end + Len(z) => w[j] = z[j - end + 1]
              /\ \A j \in 1..Len(r) : j < end \/ j >= end + Len(z) => w[j] = r[j]
          BY <4>3, <5>1, Overwritten
        <5>3. QED
          BY <3>2, <4>2, <5>2
      <4>5. w[end] = Marker
        <5>1. end \in 1..m /\ end <= end /\ end < end + 1 /\ end - end + 1 = 1
          BY <1>4, <3>1
        <5>2. QED
          BY <4>2, <4>4, <5>1
      <4>6. \A j \in 1..(end - 1) : w[j] = b[j]
        <5> TAKE j \in 1..(end - 1)
        <5>1. j \in 1..m /\ j < end
          BY <3>1
        <5>2. QED
          BY <3>3, <4>4, <5>1
      <4>7. PayloadReady(b, w, end, x)
        BY <2>1, <3>1, <4>4, <4>5, <4>6 DEF PayloadReady
      <4>8. h = Done(WithPayload(c, w, q, n), 0)
        BY <2>6, <2>11, <3>2, <4>1, <4>2, <4>3 DEF WithPayload
      <4>9. QED
        BY <1>7, <2>8, <4>7, <4>8
    <3>5. CASE p # 0
      <4>1. c.payloadPointer = q /\ ~mem.moves
        BY <1>2, <1>5, <1>6, <2>1, <2>11, <3>5
      <4>2. r[end] = Marker
        <5>1. end \in 1..m /\ end <= l /\ p > 0
          BY <1>4, <3>1, <3>5
        <5>2. QED
          BY <1>4, <3>2, <5>1
      <4>3. PayloadReady(b, r, end, x)
        BY <2>1, <3>1, <3>2, <3>3, <4>2 DEF PayloadReady
      <4>4. Repointed(c.payloadPointer, mem) = q
        BY <4>1 DEF Repointed
      <4>5. h = Done(WithPayload(c, r, q, n), 0)
        BY <1>6, <2>6, <2>11, <3>2, <4>1, <4>4 DEF WithPayload
      <4>6. QED
        BY <1>7, <2>8, <4>3, <4>5
    <3>6. QED
      BY <3>4, <3>5
  <2>12. QED
    BY <2>9, <2>10, <2>11
<1>10. QED
  BY <1>8, <1>9

-----------------------------------------------------------------------------
(* Several options of one number. *)

\* The options t are s with the first m of the values vs, all of number n, behind
\* the k first, those that are not greater.
PutFirst(s, t, k, n, vs, m) ==
    /\ t \in Seq(Option) /\ Len(t) = Len(s) + m /\ k \in 0..Len(s) /\ m \in 0..Len(vs)
    /\ \A j \in 1..k : s[j].number <= n /\ t[j].number = s[j].number /\ t[j].value = s[j].value
    /\ \A j \in 1..m : t[k + j].number = n /\ t[k + j].value = vs[j]
    /\ \A j \in (k + 1)..Len(s) : /\ ~(s[j].number <= n)
                                  /\ t[j + m].number = s[j].number /\ t[j + m].value = s[j].value

LEMMA NonePut ==
    ASSUME NEW s \in Seq(Option), Ascending(s), NEW n \in Word, NEW vs, Len(vs) \in Nat
    PROVE  \E k : PutFirst(s, s, k, n, vs, 0)
<1>1. PICK l \in Nat : l = Len(s)
  BY LenProperties
<1>2. \A j \in 1..l : s[j].number \in Nat
  BY <1>1, ElementOfSeq, OptionFields DEF Word
<1>3. n \in Nat
  BY DEF Word
<1> DEFINE P == {j \in 1..l : s[j].number <= n}
<1> HIDE DEF P
<1>4. PICK k \in 0..l : /\ \A j \in 1..k : j \in P
                        /\ k < l => k + 1 \notin P
  BY FirstOnes
<1>5. \A j \in 1..k : s[j].number <= n
  BY <1>4 DEF P
<1>6. ASSUME NEW j \in (k + 1)..l
      PROVE  ~(s[j].number <= n)
  <2>1. j \in 1..l /\ k + 1 \in 1..l /\ k + 1 <= j /\ k < l
    BY <1>6
  <2>2. ~(s[k + 1].number <= n) /\ s[k + 1].number <= s[j].number
    BY <1>1, <1>4, <2>1 DEF P, Ascending
  <2>3. PICK x \in Nat, y \in Nat : x = s[k + 1].number /\ y = s[j].number
    BY <1>2, <2>1
  <2>4. QED
    BY <1>3, <2>2, <2>3
<1>7. \A j \in (k + 1)..l : s[j + 0] = s[j]
  OBVIOUS
<1>8. PutFirst(s, s, k, n, vs, 0)
  BY <1>1, <1>5, <1>6, <1>7 DEF PutFirst
<1>9. QED
  BY <1>8

LEMMA PutNext ==
    ASSUME NEW s \in Seq(Option), NEW n \in Word, NEW vs, NEW m \in Nat, m + 1 <= Len(vs), Len(vs) \in Nat,
           NEW t, NEW k, PutFirst(s, t, k, n, vs, m), NEW u, NEW h, PutIn(t, u, h, n, vs[m + 1])
    PROVE  PutFirst(s, u, k, n, vs, m + 1)
<1>1. PICK l \in Nat : l = Len(s)
  BY LenProperties
<1>2. n \in Nat /\ n <= n
  BY DEF Word
<1>3. /\ t \in Seq(Option) /\ Len(t) = l + m /\ k \in 0..l
      /\ \A j \in 1..k : s[j].number <= n /\ t[j].number = s[j].number /\ t[j].value = s[j].value
      /\ \A j \in 1..m : t[k + j].number = n /\ t[k + j].value = vs[j]
      /\ \A j \in (k + 1)..l : /\ ~(s[j].number <= n)
                               /\ t[j + m].number = s[j].number /\ t[j + m].value = s[j].value
  BY <1>1 DEF PutFirst
<1>4. /\ u \in Seq(Option) /\ Len(u) = l + m + 1 /\ h \in 0..(l + m)
      /\ \A j \in 1..h : t[j].number <= n /\ u[j].number = t[j].number /\ u[j].value = t[j].value
      /\ u[h + 1].number = n /\ u[h + 1].value = vs[m + 1]
      /\ \A j \in (h + 1)..(l + m) : /\ ~(t[j].number <= n)
                                     /\ u[j + 1].number = t[j].number /\ u[j + 1].value = t[j].value
  BY <1>3 DEF PutIn
<1>5. k \in Nat /\ k <= l /\ h \in Nat /\ h <= l + m
  <2>1. k \in 0..l /\ h \in 0..(l + m)
    BY <1>3, <1>4
  <2>2. QED
    BY <2>1
<1>6. ~(h < k + m)
  <2> SUFFICES ASSUME h < k + m
               PROVE  FALSE
    OBVIOUS
  <2>1. PICK g \in (h + 1)..(l + m) : g = h + 1 /\ g <= k + m
    BY <1>3, <1>4
  <2>2. ~(t[g].number <= n)
    BY <1>4
  <2>3. CASE g <= k
    <3>1. g \in 1..k
      BY <1>4, <2>1, <2>3
    <3>2. QED
      BY <1>3, <2>2, <3>1
  <2>4. CASE ~(g <= k)
    <3>1. PICK j \in 1..m : j = g - k /\ g = k + j
      BY <1>3, <1>4, <2>1, <2>4
    <3>2. t[g].number = n
      BY <1>3, <3>1
    <3>3. QED
      BY <1>2, <2>2, <3>2
  <2>5. QED
    BY <2>3, <2>4
<1>7. ~(h > k + m)
  <2> SUFFICES ASSUME h > k + m
               PROVE  FALSE
    OBVIOUS
  <2>1. PICK g \in 1..h : g = k + m + 1 /\ g <= l + m
    BY <1>3, <1>4
  <2>2. PICK j \in (k + 1)..l : j = k + 1 /\ g = j + m
    BY <1>5, <2>1
  <2>3. t[g].number <= n
    BY <1>4
  <2>4. t[g].number = s[j].number /\ ~(s[j].number <= n)
    BY <1>3, <2>2
  <2>5. QED
    BY <2>3, <2>4
<1>8. h = k + m
  BY <1>6, <1>7, <1>5
<1>9. ASSUME NEW j \in 1..k
      PROVE  s[j].number <= n /\ u[j].number = s[j].number /\ u[j].value = s[j].value
  <2>1. j \in 1..h
    BY <1>3, <1>8
  <2>2. QED
    BY <1>3, <1>4, <2>1
<1>10. ASSUME NEW j \in 1..(m + 1)
      PROVE  u[k + j].number = n /\ u[k + j].value = vs[j]
  <2>1. CASE j = m + 1
    <3>1. k + j = h + 1
      BY <1>3, <1>8, <2>1
    <3>2. QED
      BY <1>4, <2>1, <3>1
  <2>2. CASE j # m + 1
    <3>1. j \in 1..m
      BY <2>2
    <3>2. PICK g \in 1..h : g = k + j
      BY <1>8, <1>5, <3>1
    <3>3. u[g].number = t[g].number /\ u[g].value = t[g].value
      BY <1>4
    <3>4. QED
      BY <1>3, <3>1, <3>2, <3>3
  <2>3. QED
    BY <2>1, <2>2
<1>11. ASSUME NEW j \in (k + 1)..l
       PROVE  /\ ~(s[j].number <= n)
              /\ u[j + (m + 1)].number = s[j].number /\ u[j + (m + 1)].value = s[j].value
  <2>1. PICK g \in (h + 1)..(l + m) : g = j + m /\ j + (m + 1) = g + 1
    BY <1>8, <1>5
  <2>2. QED
    BY <1>3, <1>4, <2>1
<1>12. Len(u) = l + (m + 1) /\ m + 1 \in 0..Len(vs)
  BY <1>4
<1>13. QED
  BY <1>1, <1>3, <1>4, <1>9, <1>10, <1>11, <1>12 DEF PutFirst

LEMMA OnePut ==
    ASSUME NEW s \in Seq(Option), NEW t, NEW k, NEW n, NEW v, PutIn(s, t, k, n, v)
    PROVE  PutFirst(s, t, k, n, << v >>, 1)
<1>1. PICK l \in Nat : l = Len(s)
  BY LenProperties
<1>2. PICK vs : vs = << v >>
  OBVIOUS
<1>3. Len(vs) = 1 /\ vs[1] = v
  BY <1>2
<1>4. \A j \in 1..1 : j = 1
  OBVIOUS
<1>5. PutFirst(s, t, k, n, vs, 1)
  BY <1>1, <1>3, <1>4 DEF PutFirst, PutIn
<1>6. QED
  BY <1>2, <1>5

\* The first m of the values vs have been added as options of number n: they are in
\* the message, and if they are all of them, more may be added.
PartAdded(c, s, n, vs, m, o) ==
    /\ \E t, k : /\ PutFirst(s, t, k, n, vs, m) /\ Shaped(o, t)
                 /\ m = Len(vs) => Open(o, t)
    /\ o.payloadLength = 0 /\ HeadKept(c.pdu, o.pdu)

\* A call that adds options one at a time, up to the first that does not fit.
Added(c, s, n, vs, d) ==
    \E m : /\ PartAdded(c, s, n, vs, m, d.object)
          /\ \/ d.result = 0 /\ m = Len(vs)
             \/ d.result = 1 /\ m < Len(vs)

\* Unless it has added all of them, it says so or has not changed the message.
PutOrTold(c, s, n, vs, m, d) ==
    /\ PartAdded(c, s, n, vs, m, d.object)
    /\ (m = Len(vs) \/ d.result # 0 \/ d.object.pdu = c.pdu)

\* So far.
AddedUpTo(c, s, n, vs, i, d) ==
    \E t, k, m :
        /\ PutFirst(s, t, k, n, vs, m)
        /\ Shaped(d.object, t) /\ d.object.payloadLength = 0 /\ HeadKept(c.pdu, d.object.pdu)
        /\ \/ d.result = 0 /\ m = i /\ Open(d.object, t)
           \/ d.result = 1 /\ m < i

LEMMA HeadKeptTwice ==
    ASSUME NEW b \in Seq(Byte), NEW f \in Seq(Byte), Len(b) >= 4, Len(f) >= 4,
           HeadKept(b, f), NEW g, HeadKept(f, g)
    PROVE  HeadKept(b, g)
<1>1. PICK k \in 0..15, h \in 0..15 :
         /\ k = GetTokenLength(b) /\ FirstOption(b) = 5 + k
         /\ h = GetTokenLength(f) /\ FirstOption(f) = 5 + h
  <2>1. Len(b) > 0 /\ Len(f) > 0
    BY LenProperties
  <2>2. PICK k \in 0..15 : k = GetTokenLength(b) /\ FirstOption(b) = 5 + k
    BY <2>1, FirstOptionIs
  <2>3. PICK h \in 0..15 : h = GetTokenLength(f) /\ FirstOption(f) = 5 + h
    BY <2>1, FirstOptionIs
  <2>4. QED
    BY <2>2, <2>3
<1>2. 1 \in 1..(5 + k - 1)
  <2>1. k >= 0 /\ 5 + k - 1 >= 1
    BY SMTT(30)
  <2>2. QED
    BY <2>1
<1>3. f[1] = b[1]
  BY <1>1, <1>2 DEF HeadKept
<1>4. h = k
  BY <1>1, <1>3 DEF GetTokenLength
<1>5. QED
  BY <1>1, <1>4 DEF HeadKept

LEMMA OpenIs ==
    ASSUME NEW c, NEW s, Open(c, s)
    PROVE  /\ c \in Fields /\ s \in Seq(Option) /\ Ascending(s) /\ c.payloadLength = 0
           /\ Len(c.pdu) \in Nat /\ Len(c.pdu) >= 4
<1>1. c \in Fields /\ Laid(c.pdu, s, 0) /\ Ascending(s) /\ c.payloadLength = 0
  BY DEF Open, Shaped
<1>2. s \in Seq(Option) /\ Len(c.pdu) >= 4
  BY <1>1 DEF Laid, Written
<1>3. QED
  BY <1>1, <1>2, FieldsTyped

LEMMA SegmentPut ==
    ASSUME NEW c, NEW s \in Seq(Option), c.pdu \in Seq(Byte), Len(c.pdu) >= 4, NEW segments \in Seq(Values), NEW mem \in Memories,
           NEW i \in 1..Len(segments), NEW d,
           AddedUpTo(c, s, UriPath, segments, i - 1, d), d.result # 1
    PROVE  AddedUpTo(c, s, UriPath, segments, i, AddOption(d.object, UriPath, segments[i], mem))
<1>1. PICK l \in Nat : l = Len(segments) /\ i \in 1..l
  BY LenProperties
<1>2. PICK t, k, m : /\ PutFirst(s, t, k, UriPath, segments, m)
                     /\ m = i - 1 /\ Open(d.object, t) /\ HeadKept(c.pdu, d.object.pdu)
  BY DEF AddedUpTo
<1>3. PICK v \in Seq(Byte) : v = segments[i] /\ Len(v) \in Word
  BY ElementOfSeq DEF Values
<1>4. UriPath \in Word
  BY DEF UriPath, Word
<1>5. PICK o : o = d.object
  OBVIOUS
<1>6. PICK e : e = AddOption(o, UriPath, v, mem)
  OBVIOUS
<1>7. PutOrRefused(o, t, UriPath, v, e)
  BY <1>2, <1>3, <1>4, <1>5, <1>6, OptionPutIn
<1>8. CASE /\ e.result = 0 /\ HeadKept(o.pdu, e.object.pdu)
           /\ \E u, h : PutIn(t, u, h, UriPath, v) /\ Open(e.object, u)
  <2>1. PICK u, h : PutIn(t, u, h, UriPath, v) /\ Open(e.object, u)
    BY <1>8
  <2>2. m \in Nat /\ m + 1 = i /\ m + 1 <= Len(segments) /\ Len(segments) \in Nat
    BY <1>1, <1>2
  <2>3. PutIn(t, u, h, UriPath, segments[m + 1])
    BY <1>3, <2>1, <2>2
  <2>4. PutFirst(s, u, k, UriPath, segments, m + 1)
    BY <1>2, <1>4, <2>2, <2>3, PutNext
  <2>5. Shaped(e.object, u) /\ e.object.payloadLength = 0
    BY <2>1 DEF Open
  <2>6. HeadKept(c.pdu, e.object.pdu)
    <3>1. PICK b \in Seq(Byte), f \in Seq(Byte) : /\ b = c.pdu /\ f = o.pdu
                                                  /\ Len(b) >= 4 /\ Len(f) >= 4
      BY <1>2, <1>5, OpenIs, FieldsTyped
    <3>2. QED
      BY <1>2, <1>5, <1>8, <3>1, HeadKeptTwice
  <2>7. AddedUpTo(c, s, UriPath, segments, i, e)
    BY <1>8, <2>1, <2>2, <2>4, <2>5, <2>6 DEF AddedUpTo
  <2>8. QED
    BY <1>3, <1>5, <1>6, <2>7
<1>9. CASE /\ e.result = 1 /\ e.object.pdu = o.pdu /\ Shaped(e.object, t)
           /\ e.object.payloadLength = 0
  <2>1. m < i
    BY <1>1, <1>2
  <2>2. AddedUpTo(c, s, UriPath, segments, i, e)
    BY <1>2, <1>5, <1>9, <2>1 DEF AddedUpTo
  <2>3. QED
    BY <1>3, <1>5, <1>6, <2>2
<1>10. QED
  BY <1>7, <1>8, <1>9 DEF PutOrRefused

LEMMA PathPut ==
    ASSUME NEW c, NEW s, Open(c, s), NEW segments \in Seq(Values), NEW mem \in Memories
    PROVE  Added(c, s, UriPath, segments, AddPath(c, segments, mem))
<1>1. /\ c \in Fields /\ s \in Seq(Option) /\ Ascending(s) /\ c.payloadLength = 0
      /\ Len(c.pdu) \in Nat /\ Len(c.pdu) >= 4
  BY OpenIs
<1>2. PICK f : f = PathFrom(c, segments, mem, f) /\ AddPath(c, segments, mem) = f[Len(segments)]
  BY <1>1, PathExists, PathUnfolds
<1>3. PICK l \in Nat : l = Len(segments)
  BY LenProperties
<1>4. UriPath \in Word
  BY DEF UriPath, Word
<1> DEFINE T == {i \in Nat : i <= l => AddedUpTo(c, s, UriPath, segments, i, f[i])}
<1>5. 0 \in T
  <2>1. PICK d : d = Done(c, 0)
    OBVIOUS
  <2>2. f[0] = d
    BY <1>2, <1>3, <2>1 DEF PathFrom
  <2>3. d.object = c /\ d.result = 0
    BY <2>1 DEF Done
  <2>4. PICK k : PutFirst(s, s, k, UriPath, segments, 0)
    BY <1>1, <1>3, <1>4, NonePut
  <2>5. Shaped(c, s)
    BY DEF Open
  <2>6. HeadKept(c.pdu, c.pdu)
    BY DEF HeadKept
  <2>7. AddedUpTo(c, s, UriPath, segments, 0, d)
    BY <1>1, <2>3, <2>4, <2>5, <2>6 DEF AddedUpTo
  <2>8. QED
    BY <2>2, <2>7
<1>6. ASSUME NEW j \in Nat, j \in T
      PROVE  j + 1 \in T
  <2> SUFFICES ASSUME j + 1 <= l
               PROVE  AddedUpTo(c, s, UriPath, segments, j + 1, f[j + 1])
    OBVIOUS
  <2>1. AddedUpTo(c, s, UriPath, segments, j, f[j])
    BY <1>6
  <2>2. PICK i \in 1..Len(segments) : i = j + 1 /\ j = i - 1 /\ i \in 0..Len(segments) /\ i # 0
    BY <1>3
  <2>3. f[i] = IF f[j].result = 1 THEN f[j]
               ELSE AddOption(f[j].object, UriPath, segments[i], mem)
    BY <1>2, <2>2 DEF PathFrom
  <2>4. PICK d : d = f[j]
    OBVIOUS
  <2>5. CASE d.result = 1
    <3>1. PICK t, x, m : /\ PutFirst(s, t, x, UriPath, segments, m) /\ m < j
                         /\ Shaped(d.object, t) /\ d.object.payloadLength = 0
                         /\ HeadKept(c.pdu, d.object.pdu)
      BY <2>1, <2>4, <2>5 DEF AddedUpTo
    <3>2. m \in 0..Len(segments)
      BY <3>1 DEF PutFirst
    <3>3. m < i
      BY <1>3, <2>2, <3>1, <3>2
    <3>4. AddedUpTo(c, s, UriPath, segments, i, d)
      BY <2>5, <3>1, <3>3 DEF AddedUpTo
    <3>5. QED
      BY <2>2, <2>3, <2>4, <2>5, <3>4
  <2>6. CASE d.result # 1
    <3>1. AddedUpTo(c, s, UriPath, segments, i - 1, d)
      BY <2>1, <2>2, <2>4
    <3>2. c.pdu \in Seq(Byte)
      BY <1>1, FieldsTyped
    <3>3. AddedUpTo(c, s, UriPath, segments, i, AddOption(d.object, UriPath, segments[i], mem))
      BY <1>1, <2>6, <3>1, <3>2, SegmentPut
    <3>4. QED
      BY <2>2, <2>3, <2>4, <2>6, <3>3
  <2>7. QED
    BY <2>5, <2>6
<1>7. Nat \subseteq T
  <2> HIDE DEF T
  <2>1. QED
    BY <1>5, <1>6, Induction
<1>8. AddedUpTo(c, s, UriPath, segments, l, f[l])
  BY <1>7
<1>9. PICK d : d = f[l] /\ d = AddPath(c, segments, mem)
  BY <1>2, <1>3
<1>10. PICK t, k, m :
          /\ PutFirst(s, t, k, UriPath, segments, m)
          /\ Shaped(d.object, t) /\ d.object.payloadLength = 0 /\ HeadKept(c.pdu, d.object.pdu)
          /\ \/ d.result = 0 /\ m = l /\ Open(d.object, t)
             \/ d.result = 1 /\ m < l
  BY <1>8, <1>9 DEF AddedUpTo
<1>11. m \in 0..l
  BY <1>3, <1>10 DEF PutFirst
<1>12. m = l => Open(d.object, t)
  BY <1>10, <1>11
<1>13. PartAdded(c, s, UriPath, segments, m, d.object)
  BY <1>3, <1>10, <1>12 DEF PartAdded
<1>14. Added(c, s, UriPath, segments, d)
  BY <1>3, <1>10, <1>13 DEF Added
<1>15. QED
  BY <1>9, <1>14

\* One option.
LEMMA OptionAddedTo ==
    ASSUME NEW c, NEW s, Open(c, s), NEW n \in Word, NEW v \in Seq(Byte), Len(v) \in Word,
           NEW mem \in Memories, NEW d, d = AddOption(c, n, v, mem)
    PROVE  Added(c, s, n, << v >>, d) /\ (d.result # 0 => d.object.pdu = c.pdu)
<1>1. s \in Seq(Option) /\ Ascending(s)
  BY OpenIs
<1>2. PICK vs : vs = << v >>
  OBVIOUS
<1>3. Len(vs) = 1
  BY <1>2
<1>4. PutOrRefused(c, s, n, v, d)
  BY OptionPutIn
<1>5. CASE /\ d.result = 0 /\ HeadKept(c.pdu, d.object.pdu)
           /\ \E t, k : PutIn(s, t, k, n, v) /\ Open(d.object, t)
  <2>1. PICK t, k : PutIn(s, t, k, n, v) /\ Open(d.object, t)
    BY <1>5
  <2>2. PutFirst(s, t, k, n, vs, 1)
    BY <1>1, <1>2, <2>1, OnePut
  <2>3. Shaped(d.object, t) /\ d.object.payloadLength = 0
    BY <2>1 DEF Open
  <2>4. PartAdded(c, s, n, vs, 1, d.object)
    BY <1>5, <2>1, <2>2, <2>3 DEF PartAdded
  <2>5. Added(c, s, n, vs, d)
    BY <1>3, <1>5, <2>4 DEF Added
  <2>6. QED
    BY <1>2, <1>5, <2>5
<1>6. CASE d.result = 1 /\ d.object.pdu = c.pdu /\ Shaped(d.object, s) /\ d.object.payloadLength = 0
  <2>1. PICK k : PutFirst(s, s, k, n, vs, 0)
    BY <1>1, <1>3, NonePut
  <2>2. HeadKept(c.pdu, d.object.pdu)
    BY <1>6 DEF HeadKept
  <2>3. PartAdded(c, s, n, vs, 0, d.object)
    BY <1>3, <1>6, <2>1, <2>2 DEF PartAdded
  <2>4. 0 < Len(vs)
    BY <1>3
  <2>5. Added(c, s, n, vs, d)
    BY <1>6, <2>3, <2>4 DEF Added
  <2>6. QED
    BY <1>2, <1>6, <2>5
<1>7. QED
  BY <1>4, <1>5, <1>6 DEF PutOrRefused

FormatValue(format) ==
    IF format = 0 THEN << >> ELSE IF format < 256 THEN << format >> ELSE TwoBytes(format)

LEMMA FormatTyped ==
    ASSUME NEW format \in Word
    PROVE  FormatValue(format) \in Seq(Byte) /\ Len(FormatValue(format)) \in Word
<1>1. PICK value : value = FormatValue(format)
  OBVIOUS
<1>2. value \in Seq(Byte) /\ Len(value) \in 0..2
  <2>1. CASE format = 0
    BY <1>1, <2>1, EmptySeq DEF FormatValue
  <2>2. CASE format # 0 /\ format < 256
    <3>1. format \in Byte /\ value = << format >>
      BY <1>1, <2>2 DEF Word, Byte, FormatValue
    <3>2. QED
      BY <3>1
  <2>3. CASE format # 0 /\ ~(format < 256)
    BY <1>1, <2>3, TwoBytesAreBytes DEF FormatValue
  <2>4. QED
    BY <2>1, <2>2, <2>3
<1>3. PICK k \in 0..2 : k = Len(value)
  BY <1>2
<1>4. k \in Word
  BY DEF Word
<1>5. QED
  BY <1>1, <1>2, <1>3, <1>4

LEMMA FormatAdded ==
    ASSUME NEW c, NEW s, Open(c, s), NEW format \in Word, NEW mem \in Memories
    PROVE  /\ Added(c, s, ContentFormat, << FormatValue(format) >>, SetContentFormat(c, format, mem))
           /\ SetContentFormat(c, format, mem).result # 0 =>
                 SetContentFormat(c, format, mem).object.pdu = c.pdu
<1>1. PICK value \in Seq(Byte) : value = FormatValue(format) /\ Len(value) \in Word
  BY FormatTyped
<1>2. ContentFormat \in Word
  BY DEF Word, ContentFormat
<1>3. PICK d : d = AddOption(c, ContentFormat, value, mem)
  OBVIOUS
<1>4. Added(c, s, ContentFormat, << value >>, d) /\ (d.result # 0 => d.object.pdu = c.pdu)
  BY <1>1, <1>2, <1>3, OptionAddedTo
<1>5. QED
  BY <1>1, <1>3, <1>4 DEF SetContentFormat, FormatValue

\* The path that setURI() adds.
PathOf(uri) == IF uri = << >> THEN << >> ELSE IF Len(uri) = 1 THEN << uri >> ELSE SegmentsFrom(uri)

\* It says that it did unless a segment did not fit, or if there is only one character.
PathSet(c, s, uri, vs, d) ==
    \E m : /\ PutOrTold(c, s, UriPath, vs, m, d)
          /\ d.result = IF uri # << >> /\ (m = Len(vs) \/ Len(uri) = 1) THEN 0 ELSE 1

LEMMA URIAdded ==
    ASSUME NEW c, NEW s, Open(c, s), NEW uri \in Values, NEW mem \in Memories
    PROVE  PathSet(c, s, uri, PathOf(uri), SetURI(c, uri, mem))
<1>1. uri \in Seq(Byte) /\ Len(uri) \in Word /\ UriPath \in Word
  BY DEF Values, UriPath, Word
<1>2. PICK vs, d : vs = PathOf(uri) /\ d = SetURI(c, uri, mem)
  OBVIOUS
<1>3. CASE uri = << >>
  <2>1. Len(vs) = 0 /\ d = Done(c, 1)
    BY <1>2, <1>3 DEF PathOf, SetURI
  <2>2. s \in Seq(Option) /\ Ascending(s) /\ Shaped(c, s) /\ c.payloadLength = 0
    BY OpenIs DEF Open
  <2>3. PICK k : PutFirst(s, s, k, UriPath, vs, 0)
    BY <1>1, <2>1, <2>2, NonePut
  <2>4. d.object = c /\ d.result = 1
    BY <2>1 DEF Done
  <2>5. HeadKept(c.pdu, c.pdu)
    BY DEF HeadKept
  <2>6. PartAdded(c, s, UriPath, vs, 0, d.object)
    BY <2>2, <2>3, <2>4, <2>5 DEF PartAdded
  <2>7. PutOrTold(c, s, UriPath, vs, 0, d)
    BY <2>1, <2>6 DEF PutOrTold
  <2>8. PathSet(c, s, uri, vs, d)
    BY <1>3, <2>4, <2>7 DEF PathSet
  <2>9. QED
    BY <1>2, <2>8
<1>4. CASE uri # << >> /\ Len(uri) = 1
  <2>1. PICK e : e = AddOption(c, UriPath, uri, mem)
    OBVIOUS
  <2>2. d = Done(e.object, 0) /\ vs = << uri >>
    BY <1>2, <1>4, <2>1 DEF SetURI, PathOf
  <2>3. Added(c, s, UriPath, vs, e) /\ (e.result # 0 => e.object.pdu = c.pdu)
    BY <1>1, <2>1, <2>2, OptionAddedTo
  <2>4. PICK m : /\ PartAdded(c, s, UriPath, vs, m, e.object)
                 /\ (m = Len(vs) \/ e.result = 1)
    BY <2>3 DEF Added
  <2>5. d.object = e.object /\ d.result = 0
    BY <2>2 DEF Done
  <2>6. m = Len(vs) \/ d.object.pdu = c.pdu
    BY <2>3, <2>4, <2>5
  <2>7. PutOrTold(c, s, UriPath, vs, m, d)
    BY <2>4, <2>5, <2>6 DEF PutOrTold
  <2>8. d.result = IF uri # << >> /\ (m = Len(vs) \/ Len(uri) = 1) THEN 0 ELSE 1
    BY <1>4, <2>5
  <2>9. PathSet(c, s, uri, vs, d)
    BY <2>7, <2>8 DEF PathSet
  <2>10. QED
    BY <1>2, <2>9
<1>5. CASE uri # << >> /\ Len(uri) # 1
  <2>1. SegmentsFrom(uri) \in Seq(Values)
    BY <1>1, SegmentsTyped
  <2>2. PICK segments \in Seq(Values) : segments = SegmentsFrom(uri)
    BY <2>1
  <2>3. vs = segments /\ d = AddPath(c, segments, mem)
    BY <1>2, <1>5, <2>2 DEF SetURI, PathOf
  <2>4. Added(c, s, UriPath, vs, d)
    BY <2>3, PathPut
  <2>5. PICK m : /\ PartAdded(c, s, UriPath, vs, m, d.object)
                 /\ \/ d.result = 0 /\ m = Len(vs)
                    \/ d.result = 1 /\ m < Len(vs)
    BY <2>4 DEF Added
  <2>6. m \in Nat /\ Len(vs) \in Nat
    BY <2>3, <2>5, LenProperties DEF PartAdded, PutFirst
  <2>7. m < Len(vs) => m # Len(vs)
    BY <2>6
  <2>8. d.result = IF uri # << >> /\ (m = Len(vs) \/ Len(uri) = 1) THEN 0 ELSE 1
    BY <1>5, <2>5, <2>7
  <2>9. PutOrTold(c, s, UriPath, vs, m, d)
    BY <2>5 DEF PutOrTold
  <2>10. PathSet(c, s, uri, vs, d)
    BY <2>8, <2>9 DEF PathSet
  <2>11. QED
    BY <1>2, <2>10
<1>6. QED
  BY <1>3, <1>4, <1>5

-----------------------------------------------------------------------------
(* What validate() accepts is laid out as it would be written. *)

\* What the nibble u and the bytes behind position i read as.
ReadAs(b, i, u) ==
    IF u = 13 THEN At(b, i + 1) + 13
    ELSE IF u = 14 THEN U16(FromTwoBytes(b, i + 1) + 269)
    ELSE u

LEMMA TwoBytesBack ==
    ASSUME NEW b \in Seq(Byte), NEW i \in Int
    PROVE  TwoBytes(FromTwoBytes(b, i)) = << At(b, i), At(b, i + 1) >>
<1>1. PICK h \in Byte, l \in Byte : h = At(b, i) /\ l = At(b, i + 1)
  BY AtIsByte
<1>2. PICK n \in Word : n = h * 256 + l /\ n \div 256 = h /\ n % 256 = l
  BY Joined
<1>3. PICK m \in Word : m = HTONS(n) /\ HTONS(m) = n
  BY Swapped
<1>4. FromTwoBytes(b, i) = m
  BY <1>1, <1>2, <1>3 DEF FromTwoBytes
<1>5. TwoBytes(m) = << h, l >>
  BY <1>2, <1>3 DEF TwoBytes
<1>6. QED
  BY <1>1, <1>4, <1>5

\* A number that is read from bytes is written as those bytes, unless it has wrapped.
LEMMA ExtensionBack ==
    ASSUME NEW b \in Seq(Byte), NEW i \in Int, NEW u \in 0..14, NEW n \in Word,
           n = ReadAs(b, i, u), u = 14 => n >= 269
    PROVE  Nibble(n) = u /\ \A j \in 1..ComputeExtraBytes(n) : At(b, i + j) = Extension(n)[j]
<1>1. n \in Nat /\ U16(n) = n
  BY U16OfWord DEF Word
<1>2. CASE u < 13
  <2>1. n = u /\ n < 13
    BY <1>2 DEF ReadAs
  <2>2. Nibble(n) = u /\ ComputeExtraBytes(n) = 0
    BY <1>1, <2>1 DEF Nibble, ComputeExtraBytes
  <2>3. QED
    BY <2>2
<1>3. CASE u = 13
  <2>1. PICK x \in Byte : x = At(b, i + 1)
    BY AtIsByte
  <2>2. n = x + 13
    BY <1>3, <2>1 DEF ReadAs
  <2>3. ~(n < 13) /\ n < 269 /\ n - 13 = x
    BY <2>2 DEF Byte
  <2>4. Nibble(n) = 13 /\ ComputeExtraBytes(n) = 1 /\ Extension(n) = << x >>
    BY <1>1, <2>3 DEF Nibble, ComputeExtraBytes, Extension
  <2>5. \A j \in 1..1 : At(b, i + j) = << x >>[j]
    BY <2>1
  <2>6. QED
    BY <1>3, <2>4, <2>5
<1>4. CASE u = 14
  <2>1. PICK w \in Word : w = FromTwoBytes(b, i + 1)
    BY FromTwoBytesIsWord
  <2>2. n = U16(w + 269)
    BY <1>4, <2>1 DEF ReadAs
  <2>3. w \in Nat /\ w < 65536 /\ n >= 269
    BY <1>4 DEF Word
  <2>4. n = w + 269
    BY <1>1, <2>2, <2>3 DEF U16
  <2>5. ~(n < 13) /\ ~(n < 269) /\ n - 269 = w
    BY <2>3, <2>4
  <2>6. Nibble(n) = 14 /\ ComputeExtraBytes(n) = 2 /\ Extension(n) = TwoBytes(w)
    BY <1>1, <2>5 DEF Nibble, ComputeExtraBytes, Extension
  <2>7. PICK k \in Int : k = i + 1 /\ k + 1 = i + 2
    OBVIOUS
  <2>8. TwoBytes(w) = << At(b, i + 1), At(b, i + 2) >>
    BY <2>1, <2>7, TwoBytesBack
  <2>9. \A j \in 1..2 : At(b, i + j) = << At(b, i + 1), At(b, i + 2) >>[j]
    OBVIOUS
  <2>10. QED
    BY <1>4, <2>6, <2>8, <2>9
<1>5. QED
  BY <1>2, <1>3, <1>4

\* The two-byte extensions of the option at i do not wrap when 269 is added: a number
\* or a length that has 16 bits, as CoAP's have.
Unwrapped(b, i) ==
    /\ At(b, i) \div 16 = 14 => GetOptionDelta(b, i) >= 269
    /\ At(b, i) % 16 = 14 => GetOptionValueLength(b, i) >= 269

NoWrap(b) == \A k \in 1..Len(OptionsOf(b)) : Unwrapped(b, OptionsOf(b)[k].at)

\* The fields of an option that is read.
ReadFields(b, i, u, v, x, d, n) ==
    /\ At(b, i) = u * 16 + v /\ Nibble(d) = u /\ Nibble(n) = v
    /\ x = ComputeExtraBytes(d)
    /\ \A j \in 1..x : At(b, i + j) = Extension(d)[j]
    /\ \A j \in 1..ComputeExtraBytes(n) : At(b, i + x + j) = Extension(n)[j]

LEMMA FieldsBack ==
    ASSUME NEW b \in Seq(Byte), NEW i \in 1..Len(b), ~Unsound(b, i), Unwrapped(b, i),
           NEW d \in Word, NEW n \in Word, d = GetOptionDelta(b, i), n = GetOptionValueLength(b, i)
    PROVE  \E u, v, x \in Nat : ReadFields(b, i, u, v, x, d, n)
<1>1. PICK h \in Byte : h = At(b, i)
  BY AtIsByte
<1>2. i \in DOMAIN b /\ At(b, i) = b[i] /\ i \in Int
  BY LenProperties DEF At
<1>3. h \div 16 # 15 /\ h % 16 # 15
  BY <1>1, <1>2 DEF Unsound
<1>4. PICK u \in 0..14, v \in 0..14 : u = h \div 16 /\ v = h % 16 /\ h = u * 16 + v
  <2>1. h \div 16 \in 0..15 /\ h % 16 \in 0..15 /\ h = (h \div 16) * 16 + (h % 16)
    BY DEF Byte
  <2>2. h \div 16 \in 0..14 /\ h % 16 \in 0..14
    BY <1>3, <2>1
  <2>3. QED
    BY <2>1, <2>2
<1>5. PICK x \in 0..2 : x = IF u \in {13, 14} THEN u - 12 ELSE 0
  OBVIOUS
<1>6. d = ReadAs(b, i, u)
  BY <1>1, <1>4 DEF GetOptionDelta, ReadAs
<1>7. PICK k \in Int : k = i + x
  BY <1>2
<1>8. n = ReadAs(b, k, v)
  <2>1. n = IF v < 13 THEN v ELSE IF v = 13 THEN At(b, k + 1) + 13
            ELSE U16(FromTwoBytes(b, k + 1) + 269)
    BY <1>1, <1>4, <1>5, <1>7, ZenonT(30) DEF GetOptionValueLength
  <2>2. QED
    BY <2>1 DEF ReadAs
<1>9. (u = 14 => d >= 269) /\ (v = 14 => n >= 269)
  BY <1>1, <1>4 DEF Unwrapped
<1>10. Nibble(d) = u /\ \A j \in 1..ComputeExtraBytes(d) : At(b, i + j) = Extension(d)[j]
  BY <1>2, <1>6, <1>9, ExtensionBack, SMTT(30)
<1>11. Nibble(n) = v /\ \A j \in 1..ComputeExtraBytes(n) : At(b, k + j) = Extension(n)[j]
  BY <1>8, <1>9, ExtensionBack, SMTT(30)
<1>12. x = ComputeExtraBytes(d)
  BY <1>5, <1>10, NibbleExtra
<1>13. ReadFields(b, i, u, v, x, d, n)
  BY <1>1, <1>4, <1>7, <1>10, <1>11, <1>12 DEF ReadFields
<1>14. QED
  BY <1>13

LEMMA EntryBack ==
    ASSUME NEW b \in Seq(Byte), NEW i \in Nat, i > 0, NEW q \in Word,
           ~AtEnd(b, i), ~Unsound(b, i), Unwrapped(b, i)
    PROVE  /\ Entry(b, i, q, OptionHere(b, i, q))
           /\ OptionHere(b, i, q).next <= Len(b) + 1
<1>1. PICK l \in Nat : l = Len(b)
  BY LenProperties
<1>2. i \in 1..l
  BY <1>1 DEF AtEnd
<1>3. PICK d \in Word, n \in Word : d = GetOptionDelta(b, i) /\ n = GetOptionValueLength(b, i)
  BY DeltaIsWord, LengthIsWord
<1>4. PICK u \in Nat, v \in Nat, x \in Nat : ReadFields(b, i, u, v, x, d, n)
  BY <1>1, <1>2, <1>3, FieldsBack
<1>5. PICK y \in Nat : y = ComputeExtraBytes(n)
  BY ExtraBytes
<1>6. n \in Nat /\ d \in Nat /\ q \in Nat /\ d < 65536 /\ q < 65536
  BY DEF Word
<1>7. PICK size \in Nat : size = EncodedSize(d, n) /\ size = 1 + x + y + n
  BY <1>4, <1>5, <1>6, SMTT(30) DEF EncodedSize, ReadFields
<1>8. i + size - 1 <= l
  <2>1. ~(i + OptionSize(b, i) - 1 > l)
    BY <1>1 DEF Unsound
  <2>2. QED
    BY <1>3, <1>7, <2>1 DEF OptionSize
<1>9. PICK value \in Seq(Byte) : /\ value = Slice(b, i + size - n, n) /\ Len(value) = n
                                 /\ \A j \in 1..n : value[j] = At(b, i + size - n + j - 1)
  <2>1. i + size - n \in Int
    BY <1>6
  <2>2. PICK value : value = Slice(b, i + size - n, n)
    OBVIOUS
  <2>3. QED
    BY <1>6, <2>1, <2>2, Sliced
<1>10. PICK o \in Option : /\ o = OptionHere(b, i, q) /\ o.at = i /\ o.next = i + size
                           /\ o.number = U16(q + d) /\ o.value = value
  <2>1. OptionHere(b, i, q) \in Option
    BY <1>6, OptionTyped
  <2>2. OptionHere(b, i, q) = [at |-> i, next |-> i + size, number |-> U16(q + d), value |-> value]
    BY <1>3, <1>7, <1>9 DEF OptionHere, OptionAt
  <2>3. QED
    BY <2>1, <2>2
<1>11. U16(o.number - q) = d
  <2>1. U16(q + d) = IF q + d < 65536 THEN q + d ELSE q + d - 65536
    BY <1>6 DEF U16
  <2>2. CASE q + d < 65536
    BY <1>6, <1>10, <2>1, <2>2 DEF U16
  <2>3. CASE ~(q + d < 65536)
    <3>1. o.number - q = d - 65536
      BY <1>6, <1>10, <2>1, <2>3
    <3>2. U16(d - 65536) = d
      BY <1>6 DEF U16
    <3>3. QED
      BY <3>1, <3>2
  <2>4. QED
    BY <2>2, <2>3
<1>12. PICK e : e = EncodeOption(d, value)
  OBVIOUS
<1>13. /\ Len(e) = size /\ e[1] = u * 16 + v
       /\ \A j \in 1..x : e[1 + j] = Extension(d)[j]
       /\ \A j \in 1..y : e[1 + x + j] = Extension(n)[j]
       /\ \A j \in 1..n : e[1 + x + y + j] = value[j]
  <2>1. x = ComputeExtraBytes(d) /\ Nibble(d) = u /\ Nibble(n) = v
    BY <1>4 DEF ReadFields
  <2>2. Encoding(e, d, value, n, x, y)
    BY <1>5, <1>9, <1>12, <2>1, EncodedBytes
  <2>3. QED
    BY <1>7, <2>1, <2>2 DEF Encoding
<1>14. /\ At(b, i) = u * 16 + v
       /\ \A j \in 1..x : At(b, i + j) = Extension(d)[j]
       /\ \A j \in 1..y : At(b, i + x + j) = Extension(n)[j]
  BY <1>4, <1>5 DEF ReadFields
<1>15. ASSUME NEW j \in 1..size
       PROVE  b[i + j - 1] = e[j]
  <2>1. PICK g \in Nat : g = i + j - 1 /\ g \in 1..l
    BY <1>2, <1>8
  <2>2. At(b, g) = b[g]
    BY <1>1, <2>1, LenProperties DEF At
  <2>3. CASE j = 1
    BY <1>13, <1>14, <2>1, <2>2, <2>3
  <2>4. CASE j > 1 /\ j <= 1 + x
    <3>1. PICK h \in 1..x : h = j - 1 /\ j = 1 + h /\ g = i + h
      BY <2>1, <2>4
    <3>2. At(b, g) = e[j]
      BY <1>13, <1>14, <3>1
    <3>3. QED
      BY <2>1, <2>2, <3>2
  <2>5. CASE j > 1 + x /\ j <= 1 + x + y
    <3>1. PICK h \in 1..y : h = j - x - 1 /\ j = 1 + x + h /\ g = i + x + h
      BY <2>1, <2>5
    <3>2. At(b, g) = e[j]
      BY <1>13, <1>14, <3>1
    <3>3. QED
      BY <2>1, <2>2, <3>2
  <2>6. CASE j > 1 + x + y
    <3>1. PICK h \in 1..n : h = j - 1 - x - y /\ j = 1 + x + y + h /\ g = i + size - n + h - 1
      BY <1>6, <1>7, <2>1, <2>6
    <3>2. At(b, g) = value[h] /\ e[j] = value[h]
      BY <1>9, <1>13, <3>1
    <3>3. QED
      BY <2>1, <2>2, <3>2
  <2>7. QED
    BY <2>3, <2>4, <2>5, <2>6
<1>16. Holds(b, i, e)
  BY <1>1, <1>8, <1>13, <1>15 DEF Holds
<1>17. Entry(b, i, q, o)
  BY <1>7, <1>9, <1>10, <1>11, <1>12, <1>16 DEF Entry
<1>18. o.next <= l + 1
  BY <1>8, <1>10
<1>19. QED
  BY <1>1, <1>10, <1>17, <1>18

\* The chain of a sound message is what would have been written.
LEMMA ChainIsWritten ==
    ASSUME NEW b \in Seq(Byte), NEW i \in Nat, i > 0, NEW s, Chain(b, i, 0, s),
           \A k \in 1..Len(s) : ~Unsound(b, s[k].at) /\ Unwrapped(b, s[k].at)
    PROVE  Written(b, i, 0, s) /\ \A k \in 1..Len(s) : s[k].next <= Len(b) + 1
<1>1. /\ s \in Seq(Option) /\ Len(s) \in Nat
      /\ \A k \in 1..Len(s) : s[k] \in Option /\ s[k].at = StartOf(s, i, k) /\ s[k].next > s[k].at
  BY ChainTyped
<1>2. ASSUME NEW k \in 1..Len(s)
      PROVE  Entry(b, StartOf(s, i, k), Before(s, 0, k), s[k]) /\ s[k].next <= Len(b) + 1
  <2>1. PICK a, q, o : a = StartOf(s, i, k) /\ q = Before(s, 0, k) /\ o = s[k]
    OBVIOUS
  <2>2. ~AtEnd(b, a) /\ o = OptionHere(b, a, q) /\ ~Unsound(b, a) /\ Unwrapped(b, a)
    BY <1>1, <2>1 DEF Chain
  <2>3. a \in Nat /\ a > 0 /\ q \in Word
    <3>1. CASE k = 1
      <4>1. a = i /\ q = 0 /\ 0 \in Word
        BY <2>1, <3>1 DEF StartOf, Before, Word
      <4>2. QED
        BY <4>1
    <3>2. CASE k # 1
      <4>1. PICK h \in 1..Len(s) : h = k - 1
        BY <1>1, <3>2
      <4>2. a = s[h].next /\ q = s[h].number /\ s[h] \in Option /\ s[h].next > s[h].at
        BY <1>1, <2>1, <3>2, <4>1 DEF StartOf, Before
      <4>3. a \in Nat /\ q \in Word /\ s[h].at \in Nat
        BY <4>2, OptionFields
      <4>4. a > 0
        BY <4>2, <4>3
      <4>5. QED
        BY <4>3, <4>4
    <3>3. QED
      BY <3>1, <3>2
  <2>4. Entry(b, a, q, o) /\ o.next <= Len(b) + 1
    BY <2>2, <2>3, EntryBack
  <2>5. QED
    BY <2>1, <2>4
<1>3. QED
  BY <1>1, <1>2 DEF Written

LEMMA SoundIsLaid ==
    ASSUME NEW b \in Seq(Byte), HeaderSound(b), NEW s, s = OptionsOf(b),
           NEW l \in Nat, l = Len(b), NEW end, end = EndOf(s, FirstOption(b)), end # l,
           \A k \in 1..Len(s) : ~Unsound(b, s[k].at) /\ Unwrapped(b, s[k].at)
    PROVE  /\ end \in Nat
           /\ Laid(b, s, IF end > l THEN 0 ELSE l - end)
           /\ end < l <=> ~(end > l)
<1>1. l > 0 /\ l >= 4 /\ GetTokenLength(b) <= 8 /\ l >= 4 + GetTokenLength(b)
  BY DEF HeaderSound
<1>2. PICK i \in Nat : i = FirstOption(b) /\ i = 5 + GetTokenLength(b) /\ GetTokenLength(b) \in 0..15
  BY <1>1, FirstOptionIs
<1>3. i > 0 /\ i <= l + 1
  BY <1>1, <1>2, SMTT(30)
<1>4. Chain(b, i, 0, s)
  BY <1>1, <1>2, OptionsAreChain
<1>5. Written(b, i, 0, s) /\ \A k \in 1..Len(s) : s[k].next <= l + 1
  BY <1>3, <1>4, ChainIsWritten
<1>6. AtEnd(b, end) /\ s \in Seq(Option)
  BY <1>2, <1>4 DEF Chain
<1>7. end \in Nat /\ end > 0
  <2>1. WrittenAs(b, i, 0, s)
    <3>1. 0 \in Word
      BY DEF Word
    <3>2. QED
      BY <1>3, <1>5, <3>1, WrittenIs
  <2>2. QED
    BY <1>2, <2>1 DEF WrittenAs
<1>8. end <= l + 1
  <2>1. CASE s = << >>
    BY <1>2, <1>3, <2>1 DEF EndOf
  <2>2. CASE s # << >>
    <3>1. Len(s) \in 1..Len(s) /\ end = s[Len(s)].next
      BY <1>2, <1>6, <2>2, LenProperties, EmptySeq DEF EndOf
    <3>2. QED
      BY <1>5, <3>1
  <2>3. QED
    BY <2>1, <2>2
<1>9. CASE end > l
  <2>1. l + 1 = end + 0 /\ 0 \in Nat
    BY <1>7, <1>8, <1>9
  <2>2. Laid(b, s, 0)
    BY <1>1, <1>2, <1>5, <2>1 DEF Laid
  <2>3. QED
    BY <1>7, <1>9, <2>2
<1>10. CASE ~(end > l)
  <2>1. end < l
    BY <1>7, <1>10
  <2>2. PICK n \in Nat : n = l - end /\ n # 0 /\ l + 1 = end + (n + 1)
    BY <1>7, <2>1
  <2>3. b[end] = Marker
    <3>1. end \in DOMAIN b
      BY <1>7, <2>1, LenProperties
    <3>2. QED
      BY <1>6, <1>10, <3>1 DEF AtEnd, At
  <2>4. Laid(b, s, n)
    BY <1>1, <1>2, <1>5, <2>2, <2>3 DEF Laid
  <2>5. QED
    BY <1>7, <1>10, <2>1, <2>2, <2>4
<1>11. QED
  BY <1>9, <1>10

\* validate(), by an object without a payload: the fields say where things are.
LEMMA ValidShaped ==
    ASSUME NEW c \in Fields, c.payloadPointer = NULL, NoWrap(c.pdu),
           NEW d, d = Validate(c), d.result = 1
    PROVE  d.object.pdu = c.pdu /\ Shaped(d.object, OptionsOf(c.pdu))
<1>1. PICK b \in Seq(Byte) : b = c.pdu
  BY FieldsTyped
<1>2. PICK l \in Nat : l = Len(b)
  BY LenProperties
<1>3. HeaderSound(b)
  <2>1. Done(c, 0).result # 1
    BY DEF Done
  <2>2. QED
    BY <1>1, <2>1, ValidateIs
<1>4. l > 0 /\ l >= 4 /\ GetTokenLength(b) <= 8
  BY <1>2, <1>3 DEF HeaderSound
<1>5. PICK i \in Nat : i = FirstOption(b)
  BY <1>2, <1>4, FirstOptionIs
<1>6. PICK s : s = OptionsOf(b) /\ Chain(b, i, 0, s)
  BY <1>2, <1>4, <1>5, OptionsAreChain
<1>7. s \in Seq(Option) /\ Len(s) \in Nat
  BY <1>6, LenProperties DEF Chain
<1>8. \A k \in 1..Len(s) : Unwrapped(b, s[k].at)
  BY <1>1, <1>6 DEF NoWrap
<1>9. PICK end : end = EndOf(s, i) /\ end = OptionsEnd(b)
  BY <1>5, <1>6 DEF OptionsEnd
<1>10. CASE i = l + 1
  <2>1. AtEnd(b, i)
    BY <1>2, <1>10 DEF AtEnd
  <2>2. s = << >>
    BY <1>6, <2>1, EmptyChain
  <2>3. end = l + 1 /\ end # l /\ end > l
    BY <1>9, <1>10, <2>2 DEF EndOf
  <2>4. \A k \in 1..Len(s) : ~Unsound(b, s[k].at) /\ Unwrapped(b, s[k].at)
    BY <2>2
  <2>5. Laid(b, s, 0)
    BY <1>2, <1>3, <1>5, <1>6, <1>9, <2>3, <2>4, SoundIsLaid
  <2>6. PICK o : o = [c EXCEPT !.numOptions = 0, !.payloadLength = 0]
    OBVIOUS
  <2>7. /\ o \in Fields /\ o.pdu = b /\ o.numOptions = 0 /\ o.payloadLength = 0
        /\ o.payloadPointer = NULL
    BY <1>1, <2>6 DEF Fields
  <2>8. d = Done(o, 1)
    BY <1>1, <1>2, <1>3, <1>5, <1>10, <2>6, ValidateIs
  <2>9. d.object = o
    BY <2>8 DEF Done
  <2>10. Shaped(o, s)
    BY <1>7, <2>5, <2>7 DEF Shaped
  <2>11. QED
    BY <1>1, <1>6, <2>7, <2>9, <2>10
<1>11. CASE i # l + 1
  <2>1. d \in Verdicts(c, s, i, 0)
    BY <1>1, <1>2, <1>3, <1>5, <1>6, <1>11, ValidateIs
  <2>2. Acceptable(b, s, end)
    <3>1. Done(c, 0).result # 1 /\ Done(Cleared(c), 0).result # 1
      BY DEF Done
    <3>2. QED
      BY <1>1, <1>9, <2>1, <3>1 DEF Verdicts
  <2>3. 0 + Len(s) = Len(s)
    BY <1>7
  <2>4. d = Accepted(c, Len(s), end)
    BY <1>1, <1>9, <2>1, <2>2, <2>3 DEF Verdicts
  <2>5. end # l /\ \A k \in 1..Len(s) : ~Unsound(b, s[k].at) /\ Unwrapped(b, s[k].at)
    BY <1>2, <1>8, <2>2 DEF Acceptable
  <2>6. PICK n : n = IF end > l THEN 0 ELSE l - end
    OBVIOUS
  <2>7. end \in Nat /\ Laid(b, s, n) /\ (end < l <=> ~(end > l))
    BY <1>2, <1>3, <1>5, <1>6, <1>9, <2>5, <2>6, SoundIsLaid
  <2>8. PICK at \in Nat : at = IF end > l THEN 0 ELSE end + 1
    BY <2>7
  <2>9. n \in Nat /\ at <= l + 1 /\ n = (IF at = 0 THEN 0 ELSE l - at + 1) /\ at = IF n = 0 THEN 0 ELSE end + 1
    BY <2>6, <2>7, <2>8
  <2>10. PICK o : o = Parsed(c, Len(s), at)
    OBVIOUS
  <2>11. o \in Fields
    BY <1>1, <1>2, <1>7, <2>9, <2>10, ParsedTyped
  <2>12. o.pdu = b /\ o.numOptions = Len(s) /\ o.payloadPointer = at /\ o.payloadLength = n
    BY <1>1, <1>2, <2>9, <2>10 DEF Parsed, Fields, NULL
  <2>13. d = Done(o, 1)
    BY <1>1, <1>2, <2>4, <2>8, <2>10 DEF Accepted, NULL
  <2>14. d.object = o
    BY <2>13 DEF Done
  <2>15. Shaped(o, s)
    <3>1. o.numOptions <= Len(s)
      BY <1>7, <2>12
    <3>2. o.payloadPointer = IF o.payloadLength = 0 THEN NULL ELSE OptionsEnd(o.pdu) + 1
      BY <1>9, <2>9, <2>12 DEF NULL
    <3>3. Laid(o.pdu, s, o.payloadLength)
      BY <2>7, <2>12
    <3>4. QED
      BY <2>11, <3>1, <3>2, <3>3 DEF Shaped
  <2>16. QED
    BY <1>1, <1>6, <2>12, <2>14, <2>15
<1>12. QED
  BY <1>10, <1>11

-----------------------------------------------------------------------------
(* A new object. *)

LEMMA StartsOpen ==
    ASSUME NEW c \in {New, Blank}
    PROVE  Open(c, << >>) /\ c.payloadPointer = NULL
<1>1. c \in Fields /\ Len(c.pdu) = 4 /\ c.pdu[1] \in {0, 64} /\ c.numOptions = 0
      /\ c.maxAddedOptionNumber = 0 /\ c.payloadPointer = NULL /\ c.payloadLength = 0
  <2>1. Blank \in Fields /\ New \in Fields
    BY NewRoom
  <2>2. New = [pdu |-> <<64, 0, 0, 0>>, numOptions |-> 0, maxAddedOptionNumber |-> 0,
               payloadPointer |-> NULL, payloadLength |-> 0]
    <3>1. SetVersion(<<0, 0, 0, 0>>, 1) = <<64, 0, 0, 0>>
      BY DEF SetVersion
    <3>2. QED
      BY <3>1 DEF New, Blank
  <2>3. QED
    BY <2>1, <2>2 DEF Blank
<1>2. PICK b \in Seq(Byte) : b = c.pdu
  BY <1>1, FieldsTyped
<1>3. GetTokenLength(b) = 0 /\ FirstOption(b) = 5
  <2>1. GetTokenLength(b) = 0
    BY <1>1, <1>2 DEF GetTokenLength
  <2>2. QED
    BY <1>1, <1>2, <2>1, FirstOptionIs
<1>4. << >> \in Seq(Option) /\ Len(<< >>) = 0
  BY EmptySeq
<1>5. EndOf(<< >>, 5) = 5 /\ LastNumber(<< >>) = 0
  BY <1>4 DEF EndOf, LastNumber, Before
<1>6. Written(b, 5, 0, << >>) /\ Ascending(<< >>)
  BY <1>4 DEF Written, Ascending
<1>7. Laid(b, << >>, 0)
  <2>1. Len(b) = 4
    BY <1>1, <1>2
  <2>2. Len(b) >= 4 /\ GetTokenLength(b) <= 8 /\ Len(b) + 1 = 5 + 0
    BY <1>3, <2>1
  <2>3. 0 \in Nat /\ ~(0 > 0)
    OBVIOUS
  <2>4. QED
    BY <1>2, <1>3, <1>5, <1>6, <2>2, <2>3 DEF Laid
<1>8. QED
  BY <1>1, <1>2, <1>4, <1>5, <1>6, <1>7 DEF Open, Shaped
=============================================================================
