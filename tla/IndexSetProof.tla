---------------------------- MODULE IndexSetProof ----------------------------
(***************************************************************************)
(* Proofs about IndexSet for every number of indices, every width of a     *)
(* word, with the layers they need, and every set of threads: summaries    *)
(* are exact or owed by one thread or task, and to its callers the tree is *)
(* the set of AbstractSet.                                                 *)
(***************************************************************************)
EXTENDS IndexSet, WordsProof, FiniteSetTheorems

-----------------------------------------------------------------------------
(* What init() fills. *)
LEMMA FilledIsAll ==
  ASSUME Geometry, NEW k \in Levels
  PROVE  Filled(k) = 0..(Length(k) - 1)
<1> DEFINE L == Length(k)
           W == NumWords(k)
           d == L \div B
<1>1. B \in Nat /\ B >= 2 /\ k \in 0..Layers
  BY Parameters
<1>2. L \in Nat
  BY <1>1, Lengths
<1> HIDE DEF L
<1>3. d \in Nat /\ d * B <= L /\ L < d * B + B /\ L % B = L - d * B
  BY <1>1, <1>2, Z3
<1> HIDE DEF d
<1>4. W = IF L % B = 0 THEN d ELSE d + 1
  <2>1. L + B - 1 \in Nat /\ d * B \in Nat /\ B \in Nat \ {0}
    BY <1>1, <1>2, <1>3
  <2>2. CASE L % B = 0
    <3>1. d * B <= L + B - 1 /\ L + B - 1 < d * B + B
      BY <1>1, <1>2, <1>3, <2>1, <2>2
    <3> QED BY <1>3, <2>1, <2>2, <3>1, Division DEF NumWords, L
  <2>3. CASE L % B # 0
    <3>1. (d + 1) * B = d * B + B
      BY <1>1, <1>3, Z3
    <3>2. (d + 1) * B <= L + B - 1 /\ L + B - 1 < (d + 1) * B + B /\ d + 1 \in Nat
      BY <1>1, <1>2, <1>3, <2>1, <2>3, <3>1
    <3> QED BY <2>1, <2>3, <3>2, Division DEF NumWords, L
  <2> QED BY <2>2, <2>3
<1> HIDE DEF W
<1>5. W \in Nat /\ W * B \in Nat /\ L <= W * B
  <2>1. W \in Nat
    BY <1>3, <1>4
  <2>2. CASE W = d /\ L = d * B
    BY <1>1, <1>2, <2>1, <2>2
  <2>3. CASE W = d + 1
    <3>1. (d + 1) * B = d * B + B
      BY <1>1, <1>3, Z3
    <3>2. W * B = d * B + B /\ d * B \in Nat
      BY <1>1, <1>3, <2>3, <3>1
    <3> QED BY <1>1, <1>2, <1>3, <2>1, <3>2
  <2>4. d * B \in Nat
    BY <1>1, <1>3
  <2> QED BY <1>1, <1>2, <1>3, <1>4, <2>2, <2>3, <2>4
<1>6. ASSUME NEW p \in 0..(W * B - 1)
      PROVE  (word_id(p) < W - 1 \/ L % B = 0 \/ p % B < L % B) <=> p < L
  <2> DEFINE q == word_id(p)
  <2>1. p \in Nat /\ p < W * B
    BY <1>5
  <2>2. q \in Nat /\ q * B <= p /\ p < q * B + B /\ p % B = p - q * B
    BY <1>1, <2>1, Z3 DEF word_id
  <2> HIDE DEF q
  <2>3. d * B \in Nat /\ q * B \in Nat /\ (d + 1) * B = d * B + B /\ (q + 1) * B = q * B + B
    BY <1>1, <1>3, <2>2, Z3
  <2>4. CASE L % B = 0
    <3>1. W * B = d * B
      BY <1>4, <2>4
    <3>2. d * B = L
      BY <1>2, <1>3, <2>3, <2>4
    <3> QED BY <2>1, <2>4, <3>1, <3>2
  <2>5. CASE L % B # 0
    <3>1. W = d + 1
      BY <1>4, <2>5
    <3>2. q < d + 1
      <4>1. q * B < (d + 1) * B
        BY <1>1, <2>1, <2>2, <2>3, <3>1
      <4> QED BY <1>1, <1>3, <2>2, <4>1, Z3
    <3>3. CASE q < d
      <4>1. (q + 1) * B <= d * B
        BY <1>1, <1>3, <2>2, <3>3, Z3
      <4>2. p < L
        BY <1>1, <1>2, <1>3, <2>1, <2>2, <2>3, <4>1
      <4> QED BY <1>3, <2>2, <3>1, <3>3, <4>2 DEF q
    <3>4. CASE q = d
      <4>1. q * B = d * B
        BY <3>4
      <4>2. p % B < L % B <=> p < L
        BY <1>1, <1>2, <1>3, <2>1, <2>2, <2>3, <4>1
      <4>3. ~ q < W - 1
        BY <1>3, <3>1, <3>4
      <4> QED BY <2>5, <4>2, <4>3 DEF q
    <3> QED BY <1>3, <2>2, <3>2, <3>3, <3>4
  <2> QED BY <2>4, <2>5
<1>7. Filled(k) = {p \in 0..(W * B - 1) : word_id(p) < W - 1 \/ L % B = 0 \/ p % B < L % B}
  BY DEF Filled, W, L
<1>8. ASSUME NEW p \in Filled(k) PROVE p \in 0..(L - 1)
  <2>1. p \in 0..(W * B - 1) /\ p < L
    BY <1>6, <1>7, <1>8
  <2> QED BY <1>2, <1>5, <2>1
<1>9. ASSUME NEW p \in 0..(L - 1) PROVE p \in Filled(k)
  <2>1. p \in 0..(W * B - 1) /\ p < L
    BY <1>2, <1>5
  <2> QED BY <1>6, <1>7, <2>1
<1>10. Filled(k) = 0..(L - 1)
  <2>1. \A p : p \in Filled(k) <=> p \in 0..(L - 1)
    BY <1>8, <1>9
  <2> HIDE DEF L
  <2> QED BY <2>1
<1> QED BY <1>10 DEF L

(***************************************************************************)
(* A bit added where it was 0 and one taken away where it was 1 touch no   *)
(* other bit: nothing is carried or borrowed.                              *)
(***************************************************************************)
LEMMA NoCarry ==
  ASSUME Geometry, NEW S, NEW p \in Nat
  PROVE  /\ p \notin S => AddBit(S, p) = S \cup {p}
         /\ p \in S => SubBit(S, p) = S \ {p}
<1> DEFINE up == Upwards(p)
<1>1. p \in up /\ \A q \in up : q \in Nat /\ p <= q
  <2> B \in Nat \ {0}
    BY Parameters
  <2>1. word_id(p) \in Nat /\ word_id(p) * B <= p /\ p < word_id(p) * B + B
    BY Division DEF word_id
  <2>2. word_id(p) * B \in Nat
    BY <2>1
  <2> QED BY <2>1, <2>2 DEF Upwards
<1> HIDE DEF up
<1>2. ASSUME NEW T, p \in T, T \subseteq up PROVE First(T) = p
  <2>1. p \in T /\ \A q \in T : p <= q
    BY <1>1, <1>2
  <2>2. \A m : m \in T /\ (\A q \in T : m <= q) => m = p
    BY <1>1, <1>2, <2>1
  <2> QED BY <2>1, <2>2, Zenon DEF First
<1>3. ASSUME p \notin S PROVE AddBit(S, p) = S \cup {p}
  <2> DEFINE zeros == up \ S
  <2>1. p \in zeros /\ First(zeros) = p /\ p..p = {p}
    BY <1>1, <1>2, <1>3
  <2>2. AddBit(S, p) = (S \ (p..First(zeros))) \cup {First(zeros)}
    BY <2>1 DEF AddBit, up
  <2> HIDE DEF zeros
  <2> QED BY <1>3, <2>1, <2>2
<1>4. ASSUME p \in S PROVE SubBit(S, p) = S \ {p}
  <2> DEFINE ones == up \cap S
  <2>1. p \in ones /\ First(ones) = p /\ p..(p - 1) = {}
    BY <1>1, <1>2, <1>4
  <2>2. SubBit(S, p) = (S \ {First(ones)}) \cup (p..(First(ones) - 1))
    BY <2>1 DEF SubBit, up
  <2> HIDE DEF ones
  <2> QED BY <1>4, <2>1, <2>2
<1> QED BY <1>3, <1>4

(***************************************************************************)
(* The masks of for_range keep the words that have an index in the range,  *)
(* and no others.                                                          *)
(***************************************************************************)
LEMMA MaskHas ==
  ASSUME Geometry, NEW k \in Levels, NEW i \in Nat, NEW l \in Nat, NEW r \in Nat, l <= i, i < r
  PROVE  Pos(k, i) \in Mask(k, Pos(k + 1, i) * B ^ (k + 1), l, r)
<1> DEFINE m == B ^ k
           z == B ^ (k + 1)
           p == Pos(k, i)
           w == Pos(k + 1, i)
           a == w * z
           x == p % B
<1>1. m \in Nat \ {0} /\ z \in Nat \ {0} /\ B \in Nat \ {0} /\ z = m * B
  BY Parameters
<1>2. /\ p \in Nat /\ p * m <= i /\ i < p * m + m /\ word_id(p) = w
      /\ w \in Nat
  <2>1. /\ p \in Nat /\ p * m <= i /\ i < p * m + m /\ word_id(p) = w
    BY Positions
  <2> QED BY <1>1, <2>1, Division DEF word_id
<1> HIDE DEF m, z, p, w
<1>3. a \in Nat /\ w * B \in Nat /\ p * m \in Nat /\ a = (w * B) * m
  BY <1>1, <1>2, Z3
<1>4. x = p - w * B /\ x \in Nat /\ x < B
  BY <1>1, <1>2, Z3 DEF word_id
<1>5. x * m = p * m - a /\ x * m \in Nat
  <2>1. x * m = p * m - (w * B) * m
    BY <1>1, <1>2, <1>3, <1>4, Products
  <2> QED BY <1>1, <1>3, <1>4, <2>1, Z3
<1>6. Pos(k + 1, a) = w
  <2>1. a <= a /\ a < a + z
    BY <1>1, <1>3
  <2> QED BY <1>1, <1>2, <1>3, <2>1, Division DEF Pos, z
<1> HIDE DEF x, a
<1>7. Low(k, a, l) <= x
  <2>1. CASE l > a
    <3> DEFINE d == (l - a) \div m
    <3>1. l - a \in Nat
      BY <1>3, <2>1
    <3>2. d \in Nat /\ d * m <= l - a
      BY <1>1, <3>1, Division
    <3> HIDE DEF d
    <3>3. d * m \in Nat /\ (x + 1) * m = x * m + m
      BY <1>1, <1>4, <3>2, Z3
    <3>4. d * m < (x + 1) * m
      BY <1>1, <1>2, <1>3, <1>5, <3>2, <3>3
    <3>5. d < x + 1
      BY <1>1, <1>4, <3>2, <3>4, Z3
    <3> QED BY <1>4, <2>1, <3>2, <3>5 DEF Low, d, m
  <2> QED BY <1>3, <1>4, <2>1 DEF Low
<1>8. x < B - High(k, a, r)
  <2>0. High(k, a, r) = IF r < a + z THEN (a + z - r) \div m ELSE 0
    BY <1>1, <1>3 DEF High, m, z
  <2>1. CASE r < a + z
    <3> DEFINE e == (a + z - r) \div m
    <3>1. a + z - r \in Nat
      BY <1>1, <1>3, <2>1
    <3>2. e \in Nat /\ e * m <= a + z - r
      BY <1>1, <3>1, Division
    <3> HIDE DEF e
    <3>3. e * m \in Nat /\ (B - x) * m = z - x * m /\ B - x \in Nat
      BY <1>1, <1>4, <3>2, Z3
    <3>4. e * m < (B - x) * m
      BY <1>1, <1>2, <1>3, <1>5, <3>2, <3>3
    <3>5. e < B - x
      BY <1>1, <1>4, <3>2, <3>3, <3>4, Z3
    <3> QED BY <1>1, <1>4, <2>0, <2>1, <3>2, <3>5 DEF e
  <2>2. CASE ~ r < a + z
    BY <1>1, <1>4, <2>0, <2>2
  <2> QED BY <2>1, <2>2
<1>9. p \in OfWord(w)
  BY <1>2, InWord
<1> QED BY <1>6, <1>7, <1>8, <1>9 DEF Mask, p, w, x, z, a

LEMMA MaskMeets ==
  ASSUME Geometry, NEW k \in Levels, NEW w \in Nat, NEW l \in Nat, NEW r \in Nat,
         l < w * B ^ (k + 1) + B ^ (k + 1), w * B ^ (k + 1) < r,
         NEW p \in Mask(k, w * B ^ (k + 1), l, r)
  PROVE  p \in Nat /\ word_id(p) = w /\ l < p * B ^ k + B ^ k /\ p * B ^ k < r
<1> DEFINE m == B ^ k
           z == B ^ (k + 1)
           a == w * z
           x == p % B
<1>1. m \in Nat \ {0} /\ z \in Nat \ {0} /\ B \in Nat \ {0} /\ z = m * B
  BY Parameters
<1>2. Pos(k + 1, a) = w /\ a \in Nat
  <2> HIDE DEF z
  <2>1. a \in Nat /\ a <= a /\ a < a + z
    BY <1>1
  <2> QED BY <1>1, <2>1, Division DEF Pos, z
<1>3. p \in OfWord(w) /\ x >= Low(k, a, l) /\ x < B - High(k, a, r)
  BY <1>2 DEF Mask
<1>4. p \in Nat /\ word_id(p) = w
  <2>1. p \in Nat
    BY <1>1, <1>3 DEF OfWord
  <2> QED BY <1>3, <2>1, InWord
<1>5. l < a + z /\ a < r
  OBVIOUS
<1> HIDE DEF m, z
<1>6. x = p - w * B /\ x \in Nat /\ x < B /\ w * B \in Nat /\ p * m \in Nat /\ a = (w * B) * m
  BY <1>1, <1>4, Z3 DEF word_id
<1>7. x * m = p * m - a /\ x * m \in Nat /\ (x + 1) * m = x * m + m
  <2>1. x * m = p * m - (w * B) * m
    BY <1>1, <1>4, <1>6, Products
  <2> QED BY <1>1, <1>6, <2>1, Z3
<1> HIDE DEF x, a
<1>8. l < p * m + m
  <2>1. CASE l > a
    <3> DEFINE d == (l - a) \div m
    <3>1. l - a \in Nat
      BY <1>2, <2>1
    <3>2. d \in Nat /\ l - a < d * m + m
      BY <1>1, <3>1, Division
    <3>3. d <= x
      BY <1>3, <2>1 DEF Low, m
    <3> HIDE DEF d
    <3>4. d * m <= x * m /\ d * m \in Nat
      BY <1>1, <1>6, <3>2, <3>3, Z3
    <3> QED BY <1>1, <1>2, <1>6, <1>7, <3>2, <3>4
  <2> QED BY <1>1, <1>2, <1>6, <1>7, <2>1
<1>9. p * m < r
  <2>0. High(k, a, r) = IF r < a + z THEN (a + z - r) \div m ELSE 0
    BY <1>1, <1>2 DEF High, m, z
  <2>1. CASE r < a + z
    <3> DEFINE e == (a + z - r) \div m
    <3>1. a + z - r \in Nat
      BY <1>1, <1>2, <2>1
    <3>2. e \in Nat /\ a + z - r < e * m + m
      BY <1>1, <3>1, Division
    <3>3. x < B - e
      BY <1>3, <2>0, <2>1
    <3> HIDE DEF e
    <3>4. x + 1 <= B - e /\ B - e \in Nat
      BY <1>1, <1>6, <3>2, <3>3
    <3>5. (x + 1) * m <= (B - e) * m /\ (B - e) * m = z - e * m /\ e * m \in Nat
      BY <1>1, <1>6, <3>2, <3>4, Z3
    <3> QED BY <1>1, <1>2, <1>6, <1>7, <3>2, <3>5
  <2>2. CASE ~ r < a + z
    <3>1. (x + 1) * m <= z
      BY <1>1, <1>6, Z3
    <3> QED BY <1>1, <1>2, <1>6, <1>7, <2>2, <3>1
  <2> QED BY <2>1, <2>2
<1> QED BY <1>4, <1>8, <1>9 DEF m

(* A word with an index in the range is not shifted out of existence. *)
LEMMA ShiftsAreShort ==
  ASSUME Geometry, NEW k \in Levels, NEW w \in Nat, NEW l \in Nat, NEW r \in Nat,
         l < w * B ^ (k + 1) + B ^ (k + 1), w * B ^ (k + 1) < r
  PROVE  Low(k, w * B ^ (k + 1), l) < B /\ High(k, w * B ^ (k + 1), r) < B
<1> DEFINE m == B ^ k
           z == B ^ (k + 1)
           a == w * z
<1>1. m \in Nat \ {0} /\ z \in Nat \ {0} /\ B \in Nat \ {0} /\ z = m * B /\ l < a + z /\ a < r
  BY Parameters
<1> HIDE DEF m, z
<1>2. a \in Nat
  BY <1>1
<1> HIDE DEF a
<1>3. ASSUME NEW y \in Nat, y < z PROVE y \div m < B
  <2> DEFINE d == y \div m
  <2>1. d \in Nat /\ d * m <= y
    BY <1>1, Division
  <2> HIDE DEF d
  <2>2. d * m < B * m
    <3>1. d * m \in Nat /\ B * m = z
      BY <1>1, <2>1, Z3
    <3> QED BY <1>1, <1>3, <2>1, <3>1
  <2>3. d < B
    BY <1>1, <2>1, <2>2, Z3
  <2> QED BY <2>3 DEF d
<1>4. Low(k, a, l) < B
  <2>1. CASE l > a
    <3>1. l - a \in Nat /\ l - a < z
      BY <1>1, <1>2, <2>1
    <3> QED BY <1>3, <2>1, <3>1 DEF Low, m
  <2> QED BY <1>1, <2>1 DEF Low
<1>5. High(k, a, r) < B
  <2>0. High(k, a, r) = IF r < a + z THEN (a + z - r) \div m ELSE 0
    BY <1>1, <1>2 DEF High, m, z
  <2>1. CASE r < a + z
    <3>1. a + z - r \in Nat /\ a + z - r < z
      BY <1>1, <1>2, <2>1
    <3> QED BY <1>3, <2>0, <2>1, <3>1
  <2> QED BY <1>1, <2>0, <2>1
<1> QED BY <1>4, <1>5 DEF a, z

-----------------------------------------------------------------------------
(***************************************************************************)
(* The inductive invariant.  It says what SummariesAreExact,               *)
(* SummariesAreOwed and SummariesAreKept do without counting: a summary    *)
(* bit and its word differ exactly where one thread, or in consume_each    *)
(* one task, is still to see to it.                                        *)
(***************************************************************************)
Differs(k, p) == ~ (p \in bits[k] <=> HasBits(k - 1, p))
Owes(t, k, p) == climber[t].layer = k /\ Pos(k, climber[t].index) = p
OneOwes(k, p) ==
  /\ Differs(k, p) <=> \E t \in Threads : Owes(t, k, p)
  /\ \A t, u \in Threads : Owes(t, k, p) /\ Owes(u, k, p) => t = u

Owed(k, p) ==
  /\ phase # "consume_each" => OneOwes(k, p)
  /\ phase = "consume_each" => (Differs(k, p) <=> <<k - 1, p>> \in tasks)
  /\ phase \in {"insert", "consume_each"} => (p \in bits[k] => HasBits(k - 1, p))
  /\ phase \in Removing => (HasBits(k - 1, p) => p \in bits[k])

AllOwed == \A k \in 1..Top : \A p \in 0..(Length(k) - 1) : Owed(k, p)

Sound ==
  /\ TypeOK
  /\ PhasesAreApart
  /\ AllOwed
  /\ TasksMeetRange
  /\ TasksAreApart
  /\ NobodyIsForgotten

(* A word, bit by bit. *)
LEMMA WordIs ==
  ASSUME Geometry, TypeOK, NEW k \in Levels, NEW w \in Nat
  PROVE  /\ \A p : p \in Word(k, w) <=> p \in bits[k] /\ word_id(p) = w
         /\ HasBits(k, w) <=> \E p \in bits[k] : word_id(p) = w
         /\ \A p \in bits[k] : p \in 0..(Length(k) - 1) /\ p \in Indices /\ p \in Nat
<1>1. ASSUME NEW p \in bits[k] PROVE p \in 0..(Length(k) - 1) /\ p \in Indices /\ p \in Nat
  <2>1. p \in 0..(Length(k) - 1)
    BY DEF TypeOK
  <2>2. p \in Indices
    BY <2>1, LengthsDiffer
  <2> QED BY <2>1, <2>2, PositionsInLayer
<1>2. ASSUME NEW p PROVE p \in Word(k, w) <=> p \in bits[k] /\ word_id(p) = w
  BY <1>1, InWord DEF Word
<1> QED BY <1>1, <1>2 DEF HasBits

(* A bit of layer a is given, or taken. *)
LEMMA BitGiven ==
  ASSUME Geometry, TypeOK, TypeOK', NEW a \in Levels, NEW P \in 0..(Length(a) - 1),
         bits' = [bits EXCEPT ![a] = @ \cup {P}],
         NEW k \in 1..Top, NEW p \in 0..(Length(k) - 1)
  PROVE  /\ p \in bits'[k] <=> p \in bits[k] \/ (k = a /\ p = P)
         /\ HasBits(k - 1, p)' <=> HasBits(k - 1, p) \/ (k = a + 1 /\ p = word_id(P))
<1>1. k \in Levels /\ k - 1 \in Levels /\ a \in Nat /\ p \in Nat
  <2>1. k \in Levels /\ k - 1 \in Levels /\ a \in Nat
    BY Parameters
  <2> QED BY <2>1, Lengths, Parameters
<1>2. \A j \in Levels : bits'[j] = IF j = a THEN bits[a] \cup {P} ELSE bits[j]
  BY DEF TypeOK
<1>3. HasBits(k - 1, p) <=> \E q \in bits[k - 1] : word_id(q) = p
  BY <1>1, WordIs
<1>4. HasBits(k - 1, p)' <=> \E q \in bits'[k - 1] : word_id(q) = p
  <2>1. \A q : q \in Word(k - 1, p)' <=> q \in bits'[k - 1] /\ word_id(q) = p
    <3>1. ASSUME NEW q \in bits'[k - 1] PROVE q \in Nat
      <4>1. q \in Indices
        BY <1>1, <3>1 DEF TypeOK
      <4> QED BY <4>1, PositionsInLayer
    <3> QED BY <1>1, <3>1, InWord DEF Word
  <2> QED BY <2>1 DEF HasBits
<1>5. p \in bits'[k] <=> p \in bits[k] \/ (k = a /\ p = P)
  <2>1. CASE k = a
    <3>1. bits'[k] = bits[k] \cup {P}
      BY <1>1, <1>2, <2>1
    <3> QED BY <2>1, <3>1
  <2>2. CASE k # a
    BY <1>1, <1>2, <2>2
  <2> QED BY <2>1, <2>2
<1>6. CASE k - 1 = a
  <2>1. HasBits(k - 1, p)' <=> (\E q \in bits[a] : word_id(q) = p) \/ word_id(P) = p
    BY <1>1, <1>2, <1>4, <1>6
  <2>2. k = a + 1
    BY <1>1, <1>6
  <2>3. HasBits(k - 1, p) <=> \E q \in bits[a] : word_id(q) = p
    BY <1>3, <1>6
  <2> QED BY <1>5, <2>1, <2>2, <2>3
<1>7. CASE k - 1 # a
  <2>1. k # a + 1 /\ bits'[k - 1] = bits[k - 1]
    BY <1>1, <1>2, <1>7
  <2>2. HasBits(k - 1, p)' <=> HasBits(k - 1, p)
    BY <1>3, <1>4, <2>1
  <2> QED BY <1>5, <2>1, <2>2
<1> QED BY <1>6, <1>7

LEMMA BitTaken ==
  ASSUME Geometry, TypeOK, TypeOK', NEW a \in Levels, NEW P \in 0..(Length(a) - 1),
         bits' = [bits EXCEPT ![a] = @ \ {P}],
         NEW k \in 1..Top, NEW p \in 0..(Length(k) - 1)
  PROVE  /\ p \in bits'[k] <=> p \in bits[k] /\ ~ (k = a /\ p = P)
         /\ HasBits(k - 1, p)' <=>
              HasBits(k - 1, p) /\ ~ (k = a + 1 /\ p = word_id(P) /\ Word(a, word_id(P)) = {P})
<1>1. k \in Levels /\ k - 1 \in Levels /\ a \in Nat /\ p \in Nat
  <2>1. k \in Levels /\ k - 1 \in Levels /\ a \in Nat
    BY Parameters
  <2> QED BY <2>1, Lengths, Parameters
<1>2. \A j \in Levels : bits'[j] = IF j = a THEN bits[a] \ {P} ELSE bits[j]
  BY DEF TypeOK
<1>3. \A q : q \in Word(k - 1, p) <=> q \in bits[k - 1] /\ word_id(q) = p
  BY <1>1, WordIs
<1>4. HasBits(k - 1, p)' <=> \E q \in bits'[k - 1] : word_id(q) = p
  <2>1. \A q : q \in Word(k - 1, p)' <=> q \in bits'[k - 1] /\ word_id(q) = p
    <3>1. ASSUME NEW q \in bits'[k - 1] PROVE q \in Nat
      <4>1. q \in Indices
        BY <1>1, <3>1 DEF TypeOK
      <4> QED BY <4>1, PositionsInLayer
    <3> QED BY <1>1, <3>1, InWord DEF Word
  <2> QED BY <2>1 DEF HasBits
<1>5. HasBits(k - 1, p) <=> \E q : q \in Word(k - 1, p)
  BY DEF HasBits
<1>6. CASE k - 1 = a /\ p = word_id(P)
  <2>1. HasBits(k - 1, p)' <=> \E q \in Word(a, p) : q # P
    BY <1>1, <1>2, <1>3, <1>4, <1>6
  <2>2. k = a + 1 /\ k # a
    BY <1>1, <1>6
  <2> QED BY <1>1, <1>2, <1>5, <1>6, <2>1, <2>2
<1>7. CASE ~ (k - 1 = a /\ p = word_id(P))
  <2>1. HasBits(k - 1, p)' <=> HasBits(k - 1, p)
    BY <1>1, <1>2, <1>3, <1>4, <1>5, <1>7
  <2>2. ~ (k = a + 1 /\ p = word_id(P))
    BY <1>1, <1>7
  <2> QED BY <1>1, <1>2, <2>1, <2>2
<1> QED BY <1>6, <1>7

(* One thread moves from what it owed to what it owes. *)
LEMMA OwnersMove ==
  ASSUME TypeOK, NEW t \in Threads, NEW c, climber' = [climber EXCEPT ![t] = c],
         NEW k, NEW p, OneOwes(k, p),
         (c.layer = k /\ Pos(k, c.index) = p) => ~ Owes(t, k, p) /\ ~ Differs(k, p),
         Differs(k, p)' <=> \/ c.layer = k /\ Pos(k, c.index) = p
                            \/ Differs(k, p) /\ ~ Owes(t, k, p)
  PROVE  OneOwes(k, p)'
<1> DEFINE After == c.layer = k /\ Pos(k, c.index) = p
<1>1. \A u \in Threads : Owes(u, k, p)' <=> IF u = t THEN After ELSE Owes(u, k, p)
  BY DEF TypeOK, Owes
<1>2. Differs(k, p) <=> \E u \in Threads : Owes(u, k, p)
  BY DEF OneOwes
<1>3. \A u, v \in Threads : Owes(u, k, p) /\ Owes(v, k, p) => u = v
  BY DEF OneOwes
<1> HIDE DEF After
<1>4. /\ After => ~ Owes(t, k, p) /\ ~ Differs(k, p)
      /\ Differs(k, p)' <=> After \/ (Differs(k, p) /\ ~ Owes(t, k, p))
  BY DEF After
<1>5. Differs(k, p)' <=> \E u \in Threads : Owes(u, k, p)'
  <2>1. CASE After
    BY <1>1, <1>4, <2>1
  <2>2. CASE ~ After
    BY <1>1, <1>2, <1>3, <1>4, <2>2
  <2> QED BY <2>1, <2>2
<1>6. \A u, v \in Threads : Owes(u, k, p)' /\ Owes(v, k, p)' => u = v
  BY <1>1, <1>2, <1>3, <1>4
<1> QED BY <1>5, <1>6 DEF OneOwes

-----------------------------------------------------------------------------
(***************************************************************************)
(* insert and remove.  What one step of them does, in whatever layer: the  *)
(* bit of i is given or taken, and thread t goes on to the next layer if   *)
(* its word was empty or has become so.                                    *)
(***************************************************************************)
Up(t, i, a) ==
  /\ a \in Levels /\ i \in Indices
  /\ climber[t].layer = a /\ (a # 0 => climber[t].index = i)

Next1(t, i, a, stops) ==
  climber' = [climber EXCEPT ![t] =
                IF stops \/ a + 1 = Layers THEN Idle ELSE [index |-> i, layer |-> a + 1]]

Inserts(t, i, a) ==
  /\ phase = "insert" /\ phase' = phase
  /\ Up(t, i, a)
  /\ bits' = [bits EXCEPT ![a] = @ \cup {Pos(a, i)}]
  /\ Next1(t, i, a, HasBits(a, Pos(a + 1, i)))

Removes(t, i, a) ==
  /\ phase \in Removing /\ phase' = phase
  /\ Up(t, i, a)
  /\ bits' = [bits EXCEPT ![a] = @ \ {Pos(a, i)}]
  /\ Next1(t, i, a, Word(a, Pos(a + 1, i)) # {Pos(a, i)})

LEMMA Kinds ==
  /\ Removing = {"remove", "consume_range", "for_each_remove"}
  /\ Ranged = {"for_range", "consume_range"}
  /\ LeafByLeaf = {"consume_range", "for_each_remove"}
  /\ Traversals = {"for_each", "consume_each", "for_range", "consume_range", "for_each_remove"}
BY DEF Removing, Ranged, LeafByLeaf, Traversals

(* Where t is and where it goes, seen from one summary bit. *)
LEMMA Owners ==
  ASSUME Geometry, TypeOK, NEW t \in Threads, NEW i, NEW a, Up(t, i, a),
         NEW stops \in BOOLEAN, NEW k \in 1..Top, NEW p
  PROVE  LET c == IF stops \/ a + 1 = Layers THEN Idle ELSE [index |-> i, layer |-> a + 1]
         IN  /\ Owes(t, k, p) <=> k = a /\ p = Pos(a, i)
             /\ (c.layer = k /\ Pos(k, c.index) = p) <=>
                  k = a + 1 /\ p = Pos(a + 1, i) /\ ~ stops
<1>1. k \in Nat /\ k # 0 /\ k # Layers /\ a \in Nat
  <2>1. Top \in Nat /\ Layers = Top + 1 /\ Levels = 0..Top
    BY Parameters
  <2>2. a \in Levels
    BY DEF Up
  <2> QED BY <2>1, <2>2
<1>2. Owes(t, k, p) <=> k = a /\ p = Pos(a, i)
  BY <1>1 DEF Up, Owes
<1> DEFINE c == IF stops \/ a + 1 = Layers THEN Idle ELSE [index |-> i, layer |-> a + 1]
<1>3. CASE stops \/ a + 1 = Layers
  <2>1. c = Idle
    BY <1>3
  <2>2. c.layer = 0
    BY <2>1 DEF Idle
  <2> QED BY <1>1, <1>2, <1>3, <2>2
<1>4. CASE ~ (stops \/ a + 1 = Layers)
  <2>1. c.layer = a + 1 /\ c.index = i
    BY <1>4
  <2> QED BY <1>1, <1>2, <1>4, <2>1
<1> QED BY <1>3, <1>4

LEMMA InsertsKeep ==
  ASSUME Geometry, TypeOK, TypeOK', AllOwed, NEW t \in Threads, NEW i, NEW a, Inserts(t, i, a)
  PROVE  AllOwed'
<1>1. a \in Levels /\ i \in Indices /\ Up(t, i, a) /\ phase = "insert" /\ phase' = phase
  BY DEF Inserts, Up
<1> SUFFICES ASSUME NEW k \in 1..Top, NEW p \in 0..(Length(k) - 1) PROVE Owed(k, p)'
  BY DEF AllOwed
<1> DEFINE P == Pos(a, i)
           Q == Pos(a + 1, i)
           stops == HasBits(a, Q)
           c == IF stops \/ a + 1 = Layers THEN Idle ELSE [index |-> i, layer |-> a + 1]
<1>2. P \in 0..(Length(a) - 1) /\ word_id(P) = Q
  BY <1>1, PositionsInLayer
<1>3. /\ p \in bits'[k] <=> p \in bits[k] \/ (k = a /\ p = P)
      /\ HasBits(k - 1, p)' <=> HasBits(k - 1, p) \/ (k = a + 1 /\ p = Q)
  <2>1. bits' = [bits EXCEPT ![a] = @ \cup {P}]
    BY DEF Inserts
  <2> HIDE DEF P, Q
  <2>2. /\ p \in bits'[k] <=> p \in bits[k] \/ (k = a /\ p = P)
        /\ HasBits(k - 1, p)' <=> HasBits(k - 1, p) \/ (k = a + 1 /\ p = word_id(P))
    BY <1>1, <1>2, <2>1, BitGiven
  <2> QED BY <1>2, <2>2
<1>4. /\ Owes(t, k, p) <=> k = a /\ p = P
      /\ (c.layer = k /\ Pos(k, c.index) = p) <=> k = a + 1 /\ p = Q /\ ~ stops
  <2>1. stops \in BOOLEAN
    BY DEF HasBits
  <2> QED BY <1>1, <2>1, Owners
<1>5. climber' = [climber EXCEPT ![t] = c]
  BY DEF Inserts, Next1
<1>6. OneOwes(k, p) /\ (p \in bits[k] => HasBits(k - 1, p))
  BY <1>1 DEF AllOwed, Owed
<1>7. Owes(t, k, p) => Differs(k, p)
  BY <1>6 DEF OneOwes
<1>8. k = a + 1 => HasBits(k - 1, p) = HasBits(a, p)
  BY <1>1, Parameters
<1> HIDE DEF P, Q, c
<1>9. a # a + 1
  BY <1>1, Parameters
<1>10. Differs(k, p)' <=> ~ (p \in bits'[k] <=> HasBits(k - 1, p)')
  BY DEF Differs
<1>11. Differs(k, p) <=> ~ (p \in bits[k] <=> HasBits(k - 1, p))
  BY DEF Differs
<1>12. k = a + 1 /\ p = Q => (HasBits(k - 1, p) <=> stops)
  BY <1>8
<1> HIDE DEF stops
<1>13. (c.layer = k /\ Pos(k, c.index) = p) => ~ Owes(t, k, p) /\ ~ Differs(k, p)
  BY <1>4, <1>6, <1>9, <1>11, <1>12
<1>14. Differs(k, p)' <=> \/ c.layer = k /\ Pos(k, c.index) = p
                          \/ Differs(k, p) /\ ~ Owes(t, k, p)
  <2>1. CASE k = a /\ p = P
    BY <1>3, <1>4, <1>6, <1>7, <1>9, <1>10, <1>11, <2>1
  <2>2. CASE k = a + 1 /\ p = Q
    BY <1>3, <1>4, <1>6, <1>9, <1>10, <1>11, <1>12, <2>2
  <2>3. CASE ~ (k = a /\ p = P) /\ ~ (k = a + 1 /\ p = Q)
    BY <1>3, <1>4, <1>10, <1>11, <2>3
  <2> QED BY <2>1, <2>2, <2>3
<1>15. OneOwes(k, p)'
  BY <1>5, <1>6, <1>13, <1>14, OwnersMove
<1>16. p \in bits'[k] => HasBits(k - 1, p)'
  <2>1. CASE k = a /\ p = P
    <3>1. HasBits(k - 1, p)
      BY <1>4, <1>6, <1>7, <1>11, <2>1
    <3> QED BY <1>3, <3>1
  <2>2. CASE ~ (k = a /\ p = P)
    BY <1>3, <1>6, <2>2
  <2> QED BY <2>1, <2>2
<1>17. phase' # "consume_each" /\ phase' \notin Removing
  BY <1>1, Kinds
<1> QED BY <1>15, <1>16, <1>17 DEF Owed

LEMMA RemovesKeep ==
  ASSUME Geometry, TypeOK, TypeOK', AllOwed, NEW t \in Threads, NEW i, NEW a, Removes(t, i, a)
  PROVE  AllOwed'
<1>1. a \in Levels /\ i \in Indices /\ Up(t, i, a) /\ phase \in Removing /\ phase' = phase
  BY DEF Removes, Up
<1> SUFFICES ASSUME NEW k \in 1..Top, NEW p \in 0..(Length(k) - 1) PROVE Owed(k, p)'
  BY DEF AllOwed
<1> DEFINE P == Pos(a, i)
           Q == Pos(a + 1, i)
           stops == Word(a, Q) # {P}
           c == IF stops \/ a + 1 = Layers THEN Idle ELSE [index |-> i, layer |-> a + 1]
<1>2. P \in 0..(Length(a) - 1) /\ word_id(P) = Q
  BY <1>1, PositionsInLayer
<1>3. /\ p \in bits'[k] <=> p \in bits[k] /\ ~ (k = a /\ p = P)
      /\ HasBits(k - 1, p)' <=> HasBits(k - 1, p) /\ ~ (k = a + 1 /\ p = Q /\ ~ stops)
  BY <1>1, <1>2, BitTaken DEF Removes
<1>4. /\ Owes(t, k, p) <=> k = a /\ p = P
      /\ (c.layer = k /\ Pos(k, c.index) = p) <=> k = a + 1 /\ p = Q /\ ~ stops
  <2>1. stops \in BOOLEAN
    OBVIOUS
  <2> HIDE DEF stops
  <2> QED BY <1>1, <2>1, Owners
<1>5. climber' = [climber EXCEPT ![t] = c]
  BY DEF Removes, Next1
<1>6. OneOwes(k, p) /\ (HasBits(k - 1, p) => p \in bits[k])
  BY <1>1, Kinds DEF AllOwed, Owed
<1>7. Owes(t, k, p) => Differs(k, p)
  BY <1>6 DEF OneOwes
<1>8. k = a + 1 /\ p = Q /\ ~ stops => HasBits(k - 1, p)
  <2> SUFFICES ASSUME k = a + 1, p = Q, ~ stops PROVE HasBits(k - 1, p)
    OBVIOUS
  <2>1. k - 1 = a
    BY <1>1, Parameters
  <2> QED BY <2>1 DEF HasBits
<1> HIDE DEF P, Q, c, stops
<1>9. a # a + 1
  BY <1>1, Parameters
<1>10. Differs(k, p)' <=> ~ (p \in bits'[k] <=> HasBits(k - 1, p)')
  BY DEF Differs
<1>11. Differs(k, p) <=> ~ (p \in bits[k] <=> HasBits(k - 1, p))
  BY DEF Differs
<1>13. (c.layer = k /\ Pos(k, c.index) = p) => ~ Owes(t, k, p) /\ ~ Differs(k, p)
  BY <1>4, <1>6, <1>8, <1>9, <1>11
<1>14. Differs(k, p)' <=> \/ c.layer = k /\ Pos(k, c.index) = p
                          \/ Differs(k, p) /\ ~ Owes(t, k, p)
  BY <1>3, <1>4, <1>6, <1>7, <1>8, <1>9, <1>10, <1>11
<1>15. OneOwes(k, p)'
  BY <1>5, <1>6, <1>13, <1>14, OwnersMove
<1>16. HasBits(k - 1, p)' => p \in bits'[k]
  BY <1>3, <1>4, <1>6, <1>7, <1>11
<1>17. phase' # "consume_each" /\ phase' # "insert"
  BY <1>1, Kinds
<1> QED BY <1>15, <1>16, <1>17 DEF Owed

(* The actions of insert and remove are such steps: a summary bit is added *)
(* where it is 0 and taken away where it is 1.                             *)
LEMMA WhoClimbsOwes ==
  ASSUME Geometry, TypeOK, PhasesAreApart, AllOwed, NEW t \in Threads, climber[t] # Idle
  PROVE  LET k == climber[t].layer
             i == climber[t].index
         IN  /\ k \in 1..Top /\ i \in Indices /\ k \in Levels
             /\ Pos(k, i) \in 0..(Length(k) - 1) /\ Pos(k, i) \in Nat
             /\ phase \in {"insert"} \cup Removing
             /\ Owed(k, Pos(k, i)) /\ OneOwes(k, Pos(k, i)) /\ Differs(k, Pos(k, i))
<1> DEFINE k == climber[t].layer
           i == climber[t].index
<1>1. k # 0 /\ phase \in {"insert"} \cup Removing
  BY DEF PhasesAreApart
<1>2. k \in Levels /\ i \in Indices
  BY DEF TypeOK
<1>3. k \in 1..Top
  BY <1>1, <1>2, Parameters
<1> DEFINE P == Pos(k, i)
<1>4. P \in 0..(Length(k) - 1) /\ P \in Nat
  <2>1. P \in 0..(Length(k) - 1)
    BY <1>2, PositionsInLayer
  <2>2. P \in Indices
    BY <1>2, PositionsInLayer
  <2> QED BY <2>1, <2>2, PositionsInLayer
<1>5. Owes(t, k, P)
  BY DEF Owes
<1> HIDE DEF k, i, P
<1>6. Owed(k, P)
  BY <1>3, <1>4 DEF AllOwed
<1>7. phase # "consume_each"
  BY <1>1, Kinds
<1>8. OneOwes(k, P)
  BY <1>6, <1>7 DEF Owed
<1>9. Differs(k, P)
  BY <1>5, <1>8 DEF OneOwes
<1> QED BY <1>1, <1>2, <1>3, <1>4, <1>6, <1>8, <1>9 DEF k, i, P

LEMMA InsertSteps ==
  ASSUME Geometry, TypeOK, PhasesAreApart, AllOwed, NEW t \in Threads,
         \/ InsertUp(t)
         \/ \E i \in Indices : InsertLeaf(t, i)
  PROVE  \E i \in Indices, a \in Levels : Inserts(t, i, a)
<1>1. CASE InsertUp(t)
  <2> DEFINE k == climber[t].layer
             i == climber[t].index
             P == Pos(k, i)
  <2>1. climber[t] # Idle /\ phase = "insert" /\ phase' = phase
    BY <1>1 DEF InsertUp
  <2>2. /\ bits' = [bits EXCEPT ![k] = AddBit(@, P)]
        /\ Climb(t, i, IF Word(k, Pos(k + 1, i)) # {} THEN Layers ELSE k + 1)
    BY <1>1 DEF InsertUp
  <2>3. /\ k \in 1..Top /\ i \in Indices /\ k \in Levels /\ P \in Nat
        /\ Owed(k, P) /\ Differs(k, P)
    BY <2>1, WhoClimbsOwes
  <2> HIDE DEF k, i, P
  <2>4. P \notin bits[k]
    BY <2>1, <2>3 DEF Owed, Differs
  <2>5. bits' = [bits EXCEPT ![k] = @ \cup {P}]
    BY <2>2, <2>3, <2>4, NoCarry
  <2>6. Next1(t, i, k, HasBits(k, Pos(k + 1, i)))
    BY <2>2 DEF Climb, Next1, HasBits
  <2>7. Up(t, i, k)
    BY <2>3 DEF Up, k, i
  <2> QED BY <2>1, <2>3, <2>5, <2>6, <2>7 DEF Inserts, P
<1>2. ASSUME NEW i \in Indices, InsertLeaf(t, i) PROVE Inserts(t, i, 0)
  <2>1. /\ climber[t] = Idle /\ phase = "insert" /\ phase' = phase
        /\ bits' = [bits EXCEPT ![0] = @ \cup {i}]
        /\ IF Word(0, word_id(i)) # {} THEN UNCHANGED climber ELSE Climb(t, i, 1)
    BY <1>2 DEF InsertLeaf
  <2>2. 0 \in Levels /\ Pos(0, i) = i /\ Pos(0 + 1, i) = word_id(i)
    BY Parameters, PositionsInLayer
  <2>3. Next1(t, i, 0, HasBits(0, Pos(0 + 1, i)))
    <3>1. climber = [climber EXCEPT ![t] = Idle]
      BY <2>1 DEF TypeOK
    <3> QED BY <2>1, <2>2, <3>1 DEF Climb, Next1, HasBits
  <2>4. Up(t, i, 0)
    BY <2>1, <2>2 DEF Up, Idle
  <2> QED BY <2>1, <2>2, <2>3, <2>4 DEF Inserts
<1>3. 0 \in Levels
  BY Parameters
<1> QED BY <1>1, <1>2, <1>3

LEMMA RemoveFromRemoves ==
  ASSUME Geometry, TypeOK, NEW t \in Threads, NEW i \in Indices, climber[t] = Idle,
         phase \in Removing, phase' = phase, RemoveFrom(t, i)
  PROVE  Removes(t, i, 0)
<1>1. /\ bits' = [bits EXCEPT ![0] = @ \ {i}]
      /\ IF Word(0, word_id(i)) # {i} THEN UNCHANGED climber ELSE Climb(t, i, 1)
  BY DEF RemoveFrom
<1>2. 0 \in Levels /\ Pos(0, i) = i /\ Pos(0 + 1, i) = word_id(i)
  BY Parameters, PositionsInLayer
<1>3. Next1(t, i, 0, Word(0, Pos(0 + 1, i)) # {Pos(0, i)})
  <2>1. climber = [climber EXCEPT ![t] = Idle]
    BY DEF TypeOK
  <2> QED BY <1>1, <1>2, <2>1 DEF Climb, Next1
<1>4. Up(t, i, 0)
  BY <1>2 DEF Up, Idle
<1> QED BY <1>1, <1>2, <1>3, <1>4 DEF Removes

LEMMA RemoveSteps ==
  ASSUME Geometry, TypeOK, PhasesAreApart, AllOwed, NEW t \in Threads,
         \/ RemoveUp(t)
         \/ \E i \in Indices : RemoveLeaf(t, i)
  PROVE  \E i \in Indices, a \in Levels : Removes(t, i, a)
<1>1. CASE RemoveUp(t)
  <2> DEFINE k == climber[t].layer
             i == climber[t].index
             P == Pos(k, i)
  <2>1. climber[t] # Idle /\ phase \in Removing /\ phase' = phase
    BY <1>1 DEF RemoveUp
  <2>2. /\ bits' = [bits EXCEPT ![k] = SubBit(@, P)]
        /\ Climb(t, i, IF Word(k, Pos(k + 1, i)) # {P} THEN Layers ELSE k + 1)
    BY <1>1 DEF RemoveUp
  <2>3. /\ k \in 1..Top /\ i \in Indices /\ k \in Levels /\ P \in Nat
        /\ Owed(k, P) /\ Differs(k, P)
    BY <2>1, WhoClimbsOwes
  <2> HIDE DEF k, i, P
  <2>4. P \in bits[k]
    BY <2>1, <2>3 DEF Owed, Differs
  <2>5. bits' = [bits EXCEPT ![k] = @ \ {P}]
    BY <2>2, <2>3, <2>4, NoCarry
  <2>6. Next1(t, i, k, Word(k, Pos(k + 1, i)) # {P})
    BY <2>2 DEF Climb, Next1
  <2>7. Up(t, i, k)
    BY <2>3 DEF Up, k, i
  <2> QED BY <2>1, <2>3, <2>5, <2>6, <2>7 DEF Removes, P
<1>2. ASSUME NEW i \in Indices, RemoveLeaf(t, i) PROVE Removes(t, i, 0)
  BY <1>2, Kinds, RemoveFromRemoves DEF RemoveLeaf
<1>3. 0 \in Levels
  BY Parameters
<1> QED BY <1>1, <1>2, <1>3

(* Types, and who is on its way. *)
BitsOK ==
  /\ bits \in [Levels -> SUBSET Indices]
  /\ \A k \in Levels : bits[k] \subseteq 0..(Length(k) - 1)

LEMMA MoveTypes ==
  ASSUME Geometry, TypeOK, PhasesAreApart, NEW t \in Threads, NEW i, NEW a,
         Inserts(t, i, a) \/ Removes(t, i, a)
  PROVE  /\ BitsOK'
         /\ climber' \in [Threads -> [index : Indices, layer : Levels]]
         /\ \A u \in Threads : climber'[u] # Idle =>
              climber'[u].layer # 0 /\ phase \in {"insert"} \cup Removing
<1>1. Up(t, i, a) /\ phase \in {"insert"} \cup Removing
  BY DEF Inserts, Removes
<1>2. a \in Levels /\ i \in Indices /\ Pos(a, i) \in Indices /\ Pos(a, i) \in 0..(Length(a) - 1)
  BY <1>1, PositionsInLayer DEF Up
<1>3. BitsOK'
  <2>1. CASE Inserts(t, i, a)
    BY <1>2, <2>1 DEF Inserts, BitsOK, TypeOK
  <2>2. CASE Removes(t, i, a)
    BY <1>2, <2>2 DEF Removes, BitsOK, TypeOK
  <2> QED BY <2>1, <2>2
<1>4. PICK stops : Next1(t, i, a, stops)
  BY DEF Inserts, Removes
<1> DEFINE c == IF stops \/ a + 1 = Layers THEN Idle ELSE [index |-> i, layer |-> a + 1]
<1>5. climber' = [climber EXCEPT ![t] = c]
  BY <1>4 DEF Next1
<1>6. c \in [index : Indices, layer : Levels] /\ (c # Idle => c.layer # 0)
  <2>1. Idle \in [index : Indices, layer : Levels]
    BY Parameters DEF Idle
  <2>2. a + 1 # Layers => a + 1 \in Levels /\ a + 1 # 0
    BY <1>2, Parameters
  <2>3. a + 1 # Layers =>
          [index |-> i, layer |-> a + 1] \in [index : Indices, layer : Levels]
    BY <1>2, <2>2
  <2> QED BY <2>1, <2>2, <2>3
<1> HIDE DEF c
<1>7. climber' \in [Threads -> [index : Indices, layer : Levels]]
  BY <1>5, <1>6 DEF TypeOK
<1>8. ASSUME NEW u \in Threads, climber'[u] # Idle PROVE climber'[u].layer # 0
  BY <1>5, <1>6, <1>8 DEF TypeOK, PhasesAreApart
<1> QED BY <1>1, <1>3, <1>7, <1>8

-----------------------------------------------------------------------------
(* The inductive step, one lemma for each kind of action. *)

(***************************************************************************)
(* The way from an index that is asked for up to its task stays marked:    *)
(* remove clears a summary bit only if its word is empty.                  *)
(***************************************************************************)
LEMMA WayStays ==
  ASSUME Geometry, TypeOK, PhasesAreApart, AllOwed, NobodyIsForgotten,
         NEW t \in Threads, RemoveUp(t), NEW i \in InRange, NEW j \in Over(i), NEW k \in 0..j
  PROVE  Pos(k, i) \in bits'[k]
<1> DEFINE a == climber[t].layer
           e == climber[t].index
           P == Pos(a, e)
<1>1. climber[t] # Idle /\ phase \in Removing /\ bits' = [bits EXCEPT ![a] = SubBit(@, P)]
  BY DEF RemoveUp
<1>2. /\ a \in 1..Top /\ a \in Levels /\ P \in Nat
      /\ P \in 0..(Length(a) - 1) /\ Owed(a, P) /\ Differs(a, P)
  BY <1>1, WhoClimbsOwes
<1> HIDE DEF a, e, P
<1>3. P \in bits[a] /\ ~ HasBits(a - 1, P)
  BY <1>1, <1>2 DEF Owed, Differs
<1>4. bits' = [bits EXCEPT ![a] = @ \ {P}]
  BY <1>1, <1>2, <1>3, NoCarry
<1>5. j \in Levels /\ i \in Indices
  BY DEF Over, InRange, TypeOK
<1>6. k \in Levels /\ \A m \in 0..j : Pos(m, i) \in bits[m]
  <2>1. k \in Levels
    BY <1>5, Parameters
  <2>2. \A m \in 0..j : Pos(m, i) \in bits[m]
    BY DEF NobodyIsForgotten
  <2> QED BY <2>1, <2>2
<1>7. CASE k = a
  <2>1. a - 1 \in 0..j /\ a - 1 \in Levels /\ a - 1 + 1 = a
    BY <1>2, <1>5, <1>7, Parameters
  <2>2. Pos(a - 1, i) \in bits[a - 1]
    BY <1>6, <2>1
  <2>3. word_id(Pos(a - 1, i)) = Pos(a, i)
    BY <1>5, <2>1, PositionsInLayer
  <2>4. Pos(a, i) # P
    BY <1>2, <1>3, <2>1, <2>2, <2>3, WordIs
  <2> QED BY <1>2, <1>4, <1>6, <1>7, <2>4 DEF TypeOK
<1>8. CASE k # a
  BY <1>2, <1>4, <1>6, <1>8 DEF TypeOK
<1> QED BY <1>7, <1>8

LEMMA ClimbSound ==
  ASSUME Geometry, Sound, NEW t \in Threads,
         \/ InsertUp(t) \/ RemoveUp(t)
         \/ \E i \in Indices : InsertLeaf(t, i) \/ RemoveLeaf(t, i)
  PROVE  Sound'
<1> USE DEF Sound
<1>1. /\ UNCHANGED <<phase, tasks, leaves, range, base, visited>>
      /\ phase \in {"insert"} \cup Removing
      /\ ~ RemoveUp(t) => phase \in {"insert", "remove"}
  BY Kinds DEF InsertUp, RemoveUp, InsertLeaf, RemoveLeaf, walk
<1>2. PICK i, a : Inserts(t, i, a) \/ Removes(t, i, a)
  <2>1. CASE InsertUp(t) \/ \E i \in Indices : InsertLeaf(t, i)
    BY <2>1, InsertSteps
  <2>2. CASE RemoveUp(t) \/ \E i \in Indices : RemoveLeaf(t, i)
    BY <2>2, RemoveSteps
  <2> QED BY <2>1, <2>2
<1>3. /\ BitsOK'
      /\ climber' \in [Threads -> [index : Indices, layer : Levels]]
      /\ \A u \in Threads : climber'[u] # Idle =>
           climber'[u].layer # 0 /\ phase \in {"insert"} \cup Removing
  BY <1>2, MoveTypes
<1>4. TypeOK'
  BY <1>1, <1>3 DEF TypeOK, BitsOK
<1>5. PhasesAreApart'
  BY <1>1, <1>3 DEF PhasesAreApart
<1>6. AllOwed'
  BY <1>2, <1>4, InsertsKeep, RemovesKeep
<1>7. TasksMeetRange'
  BY <1>1 DEF TasksMeetRange
<1>8. Over(1)' = Over(1) /\ \A x : Over(x)' = Over(x)
  BY <1>1 DEF Over
<1>9. InRange' = InRange
  BY <1>1 DEF InRange
<1>10. RemoveUp(t) => bits'[0] = bits[0]
  <2> SUFFICES ASSUME RemoveUp(t) PROVE bits'[0] = bits[0]
    OBVIOUS
  <2>1. climber[t].layer \in 1..Top
    BY WhoClimbsOwes DEF RemoveUp
  <2>2. 0 \in Levels /\ climber[t].layer # 0
    BY <2>1, Parameters
  <2> QED BY <2>2 DEF RemoveUp, TypeOK
<1>11. ~ RemoveUp(t) => phase \notin Traversals /\ base = {}
  BY <1>1, Kinds DEF PhasesAreApart
<1>12. TasksAreApart'
  BY <1>1, <1>8, <1>9, <1>10, <1>11 DEF TasksAreApart
<1>13. NobodyIsForgotten'
  <2>1. CASE RemoveUp(t)
    <3> SUFFICES ASSUME NEW x \in InRange
                 PROVE  /\ visited'[x] = 0 => x \in bits'[0] /\ (x \in leaves' \/ Over(x)' # {})
                        /\ \A j \in Over(x)' : \A k \in 0..j : Pos(k, x) \in bits'[k]
      BY <1>9 DEF NobodyIsForgotten
    <3>1. \A j \in Over(x)' : \A k \in 0..j : Pos(k, x) \in bits'[k]
      BY <1>8, <2>1, WayStays
    <3>2. visited'[x] = 0 => x \in bits'[0] /\ (x \in leaves' \/ Over(x)' # {})
      BY <1>1, <1>8, <1>10, <2>1 DEF NobodyIsForgotten
    <3> QED BY <3>1, <3>2
  <2>2. CASE ~ RemoveUp(t)
    <3>1. InRange = {}
      BY <1>11, <2>2 DEF InRange
    <3> QED BY <1>9, <3>1 DEF NobodyIsForgotten
  <2> QED BY <2>1, <2>2
<1> QED BY <1>4, <1>5, <1>6, <1>7, <1>12, <1>13

(* What changes no bit and moves no thread owes what it did. *)
LEMMA OwedStays ==
  ASSUME AllOwed, UNCHANGED <<phase, bits, climber>>,
         phase = "consume_each" => UNCHANGED tasks
  PROVE  AllOwed'
<1> SUFFICES ASSUME NEW k \in 1..Top, NEW p \in 0..(Length(k) - 1) PROVE Owed(k, p)'
  BY DEF AllOwed
<1>1. Owed(k, p)
  BY DEF AllOwed
<1>2. (Differs(k, p)' <=> Differs(k, p)) /\ (HasBits(k - 1, p)' <=> HasBits(k - 1, p))
  BY DEF Differs, HasBits, Word
<1>3. \A t \in Threads : Owes(t, k, p)' <=> Owes(t, k, p)
  BY DEF Owes
<1>4. OneOwes(k, p) => OneOwes(k, p)'
  BY <1>2, <1>3 DEF OneOwes
<1> QED BY <1>1, <1>2, <1>4 DEF Owed

(* A leaf is visited: f is called on an element that is asked for. *)
LEMMA CallSound ==
  ASSUME Geometry, Sound, NEW t \in Threads, NEW i \in Indices, CallLeaf(t, i)
  PROVE  Sound'
<1> USE DEF Sound
<1>1. /\ phase \in LeafByLeaf /\ climber[t] = Idle /\ i \in leaves
      /\ leaves' = leaves \ {i}
      /\ visited' = [visited EXCEPT ![i] = @ + 1]
      /\ UNCHANGED <<phase, tasks, range, base>>
      /\ RemoveFrom(t, i) \/ UNCHANGED <<bits, climber>>
  BY DEF CallLeaf
<1>2. phase \in Removing /\ phase \in Traversals
  BY <1>1, Kinds
<1>3. Removes(t, i, 0) \/ UNCHANGED <<bits, climber>>
  BY <1>1, <1>2, RemoveFromRemoves
<1>4. /\ BitsOK'
      /\ climber' \in [Threads -> [index : Indices, layer : Levels]]
      /\ \A u \in Threads : climber'[u] # Idle =>
           climber'[u].layer # 0 /\ phase \in {"insert"} \cup Removing
  <2>1. CASE Removes(t, i, 0)
    BY <2>1, MoveTypes
  <2>2. CASE UNCHANGED <<bits, climber>>
    BY <2>2 DEF BitsOK, TypeOK, PhasesAreApart
  <2> QED BY <1>3, <2>1, <2>2
<1>5. TypeOK'
  <2>1. visited' \in [Indices -> Nat]
    BY <1>1 DEF TypeOK
  <2> QED BY <1>1, <1>4, <2>1 DEF TypeOK, BitsOK
<1>6. PhasesAreApart'
  BY <1>1, <1>2, <1>4 DEF PhasesAreApart
<1>7. AllOwed'
  <2>1. CASE Removes(t, i, 0)
    BY <1>5, <2>1, RemovesKeep
  <2>2. CASE UNCHANGED <<bits, climber>>
    BY <1>1, <2>2, OwedStays
  <2> QED BY <1>3, <2>1, <2>2
<1>8. TasksMeetRange'
  BY <1>1 DEF TasksMeetRange
<1>9. /\ InRange' = InRange /\ \A x : Over(x)' = Over(x)
      /\ i \in InRange /\ Over(i) = {} /\ visited[i] = 0
  BY <1>1 DEF InRange, Over, TasksAreApart
<1>10. /\ 0 \in Levels /\ \A k \in Levels : k # 0 => bits'[k] = bits[k]
       /\ bits[0] \ {i} \subseteq bits'[0] /\ bits'[0] \subseteq bits[0]
  <2>1. 0 \in Levels /\ Pos(0, i) = i
    BY Parameters, PositionsInLayer
  <2>2. CASE Removes(t, i, 0)
    BY <2>1, <2>2 DEF Removes, TypeOK
  <2>3. CASE UNCHANGED <<bits, climber>>
    BY <2>1, <2>3
  <2> QED BY <1>3, <2>2, <2>3
<1>11. \A x \in Indices : visited'[x] = IF x = i THEN 1 ELSE visited[x]
  BY <1>1, <1>9 DEF TypeOK
<1>12. TasksAreApart'
  <2> SUFFICES ASSUME NEW x \in Indices
               PROVE  /\ \A k, j \in Over(x)' : k = j
                      /\ Over(x)' # {} \/ x \in leaves' => visited'[x] = 0
                      /\ Over(x)' # {} => x \notin leaves'
                      /\ visited'[x] # 0 \/ x \in leaves' => x \in InRange'
                      /\ visited'[x] \in {0, 1}
                      /\ phase' \in Traversals /\ x \in bits'[0] => x \in base'
    BY DEF TasksAreApart
  <2> HIDE DEF Sound
  <2>1. TasksAreApart
    BY DEF Sound
  <2>2. CASE x = i
    BY <1>1, <1>9, <1>10, <1>11, <2>1, <2>2 DEF TasksAreApart
  <2>3. CASE x # i
    BY <1>1, <1>9, <1>10, <1>11, <2>1, <2>3 DEF TasksAreApart
  <2> QED BY <2>2, <2>3
<1>13. NobodyIsForgotten'
  <2> SUFFICES ASSUME NEW x \in InRange
               PROVE  /\ visited'[x] = 0 => x \in bits'[0] /\ (x \in leaves' \/ Over(x)' # {})
                      /\ \A j \in Over(x)' : \A k \in 0..j : Pos(k, x) \in bits'[k]
    BY <1>9 DEF NobodyIsForgotten
  <2>1. x \in Indices
    BY DEF InRange, TypeOK
  <2>2. CASE x = i
    BY <1>9, <1>11, <2>1, <2>2
  <2>3. CASE x # i
    <3>1. visited'[x] = 0 => x \in bits'[0] /\ (x \in leaves' \/ Over(x)' # {})
      BY <1>1, <1>9, <1>10, <1>11, <2>1, <2>3 DEF NobodyIsForgotten
    <3>2. ASSUME NEW j \in Over(x), NEW k \in 0..j PROVE Pos(k, x) \in bits'[k]
      <4>1. k \in Levels /\ Pos(k, x) \in bits[k]
        <5>1. j \in Levels
          BY DEF Over
        <5> QED BY <5>1, Parameters DEF NobodyIsForgotten
      <4>2. k = 0 => Pos(k, x) = x
        BY <2>1, PositionsInLayer
      <4> QED BY <1>10, <2>3, <4>1, <4>2
    <3> QED BY <1>9, <3>1, <3>2
  <2> QED BY <2>2, <2>3
<1> QED BY <1>5, <1>6, <1>7, <1>8, <1>12, <1>13

(***************************************************************************)
(* A task reads word w of layer a and sees the bits of seen.               *)
(***************************************************************************)
Visits(a, w, seen) ==
  /\ a \in Levels /\ w \in Nat /\ <<a, w>> \in tasks
  /\ phase \in Traversals
  /\ UNCHANGED <<phase, climber, range, base>>
  /\ \A p \in seen : p \in bits[a] /\ word_id(p) = w
  /\ \A k, p : <<k, p>> \in tasks' <=>
       \/ <<k, p>> \in tasks /\ ~ (k = a /\ p = w)
       \/ a # 0 /\ k = a - 1 /\ p \in seen

  /\ phase # "consume_each" => bits' = bits
  /\ phase = "consume_each" => bits' = [bits EXCEPT ![a] = @ \ OfWord(w)]
  /\ \A x \in Indices :
       /\ x \in leaves' <=> x \in leaves \/ (a = 0 /\ phase \in LeafByLeaf /\ x \in seen)
       /\ visited'[x] =
            visited[x] + IF a = 0 /\ phase \notin LeafByLeaf /\ x \in seen THEN 1 ELSE 0

LEMMA VisitVisits ==
  ASSUME Geometry, TypeOK, NEW task \in tasks, Visit(task)
  PROVE  /\ task = <<task[1], task[2]>>
         /\ Visits(task[1], task[2], Seen(task[1], task[2]))
         /\ tasks' \subseteq Levels \X Indices /\ leaves' \subseteq Indices
         /\ visited' \in [Indices -> Nat]
         /\ phase \notin LeafByLeaf => leaves' = leaves
<1> DEFINE a == task[1]
           w == task[2]
           seen == Seen(a, w)
<1>1. a \in Levels /\ w \in Indices /\ task = <<a, w>> /\ w \in Nat
  <2>1. a \in Levels /\ w \in Indices /\ task = <<a, w>>
    BY DEF TypeOK
  <2> QED BY <2>1, PositionsInLayer
<1>2. seen \subseteq Word(a, w)
  BY DEF Seen
<1>3. \A p \in seen : p \in bits[a] /\ word_id(p) = w /\ p \in Indices
  BY <1>1, <1>2, WordIs
<1>4. /\ phase \in Traversals
      /\ tasks' = (tasks \ {task}) \cup (IF a = 0 THEN {} ELSE {<<a - 1, p>> : p \in seen})
      /\ bits' = IF phase = "consume_each" THEN [bits EXCEPT ![a] = @ \ OfWord(w)] ELSE bits
      /\ UNCHANGED <<phase, climber, range, base>>
  BY DEF Visit
<1>5. IF a = 0 /\ phase \in LeafByLeaf
        THEN leaves' = leaves \cup seen /\ UNCHANGED visited
        ELSE /\ visited' = [x \in Indices |-> visited[x] + (IF a = 0 /\ x \in seen THEN 1 ELSE 0)]
             /\ UNCHANGED leaves
  BY DEF Visit
<1> HIDE DEF a, w, seen
<1>6. \A k, p : <<k, p>> \in tasks' <=>
       \/ <<k, p>> \in tasks /\ ~ (k = a /\ p = w)
       \/ a # 0 /\ k = a - 1 /\ p \in seen
  BY <1>1, <1>4
<1>7. \A x \in Indices :
       /\ x \in leaves' <=> x \in leaves \/ (a = 0 /\ phase \in LeafByLeaf /\ x \in seen)
       /\ visited'[x] =
            visited[x] + IF a = 0 /\ phase \notin LeafByLeaf /\ x \in seen THEN 1 ELSE 0
  <2>1. CASE a = 0 /\ phase \in LeafByLeaf
    BY <1>5, <2>1 DEF TypeOK
  <2>2. CASE ~ (a = 0 /\ phase \in LeafByLeaf)
    BY <1>5, <2>2 DEF TypeOK
  <2> QED BY <2>1, <2>2
<1>8. Visits(a, w, seen)
  BY <1>1, <1>3, <1>4, <1>6, <1>7 DEF Visits
<1>9. a # 0 => a - 1 \in Levels
  BY <1>1, Parameters
<1>10. tasks' \subseteq Levels \X Indices
  BY <1>3, <1>4, <1>9 DEF TypeOK
<1>11. leaves' \subseteq Indices /\ visited' \in [Indices -> Nat]
       /\ (phase \notin LeafByLeaf => leaves' = leaves)
  <2>1. CASE a = 0 /\ phase \in LeafByLeaf
    BY <1>3, <1>5, <2>1 DEF TypeOK
  <2>2. CASE ~ (a = 0 /\ phase \in LeafByLeaf)
    BY <1>5, <2>2 DEF TypeOK
  <2> QED BY <2>1, <2>2
<1> QED BY <1>1, <1>8, <1>10, <1>11 DEF a, w, seen

(* consume_each clears the words it reads and leaves their summaries to   *)
(* the tasks of the layer below.                                          *)
LEMMA BitsAfterVisit ==
  ASSUME Geometry, TypeOK, NEW a, NEW w, NEW seen, Visits(a, w, seen), NEW k \in Levels
  PROVE  /\ \A p \in Nat : p \in bits'[k] <=>
              p \in bits[k] /\ ~ (phase = "consume_each" /\ k = a /\ word_id(p) = w)
         /\ bits'[k] \subseteq bits[k]
<1>1. a \in Levels /\ w \in Nat
  BY DEF Visits
<1>2. CASE phase = "consume_each"
  <2>1. bits'[k] = IF k = a THEN bits[k] \ OfWord(w) ELSE bits[k]
    BY <1>1, <1>2 DEF Visits, TypeOK
  <2>2. \A p \in Nat : p \in OfWord(w) <=> word_id(p) = w
    BY <1>1, InWord
  <2> QED BY <1>2, <2>1, <2>2
<1>3. CASE phase # "consume_each"
  BY <1>3 DEF Visits
<1> QED BY <1>2, <1>3

LEMMA ConsumeKeeps ==
  ASSUME Geometry, TypeOK, AllOwed, phase = "consume_each",
         NEW a, NEW w, Visits(a, w, Seen(a, w))
  PROVE  AllOwed'
<1> SUFFICES ASSUME NEW k \in 1..Top, NEW p \in 0..(Length(k) - 1) PROVE Owed(k, p)'
  BY DEF AllOwed
<1> DEFINE set == p \in bits[k]
           due == HasBits(k - 1, p)
           task == <<k - 1, p>> \in tasks
           below == k = a + 1 /\ p = w
           here == k = a /\ word_id(p) = w
<1>1. /\ a \in Levels /\ w \in Nat /\ <<a, w>> \in tasks /\ phase' = phase
      /\ k \in Levels /\ k - 1 \in Levels /\ p \in Nat
  <2>1. a \in Levels /\ w \in Nat /\ <<a, w>> \in tasks /\ phase' = phase
    BY DEF Visits
  <2>2. k \in Levels /\ k - 1 \in Levels /\ k \in 0..Layers
    BY Parameters
  <2> QED BY <2>1, <2>2, Lengths
<1>2. Seen(a, w) = Word(a, w)
  BY Kinds DEF Seen, Word
<1>3. p \in bits'[k] <=> set /\ ~ here
  BY <1>1, BitsAfterVisit
<1>4. HasBits(k - 1, p)' <=> due /\ ~ below
  <2>1. HasBits(k - 1, p)' <=> \E q \in bits'[k - 1] : word_id(q) = p
    <3>1. \A q : q \in Word(k - 1, p)' <=> q \in bits'[k - 1] /\ word_id(q) = p
      <4>1. \A q \in bits'[k - 1] : q \in Nat
        BY <1>1, BitsAfterVisit, WordIs
      <4> QED BY <1>1, <4>1, InWord DEF Word
    <3> QED BY <3>1 DEF HasBits
  <2>2. HasBits(k - 1, p) <=> \E q \in bits[k - 1] : word_id(q) = p
    BY <1>1, WordIs
  <2>3. \A q \in bits[k - 1] : q \in Nat
    BY <1>1, WordIs
  <2>4. \A q \in Nat : q \in bits'[k - 1] <=> q \in bits[k - 1] /\ ~ (k - 1 = a /\ word_id(q) = w)
    BY <1>1, BitsAfterVisit
  <2>5. \A q \in bits'[k - 1] : q \in Nat
    BY <1>1, <2>3, BitsAfterVisit
  <2>6. k - 1 = a <=> k = a + 1
    BY <1>1, Parameters
  <2> QED BY <2>1, <2>2, <2>3, <2>4, <2>5, <2>6
<1>5. <<k - 1, p>> \in tasks' <=> (task /\ ~ below) \/ (set /\ here)
  <2>1. \A i, q : <<i, q>> \in tasks' <=>
          \/ <<i, q>> \in tasks /\ ~ (i = a /\ q = w)
          \/ a # 0 /\ i = a - 1 /\ q \in Word(a, w)
    BY <1>2 DEF Visits
  <2>2. <<k - 1, p>> \in tasks' <=>
          \/ <<k - 1, p>> \in tasks /\ ~ (k - 1 = a /\ p = w)
          \/ a # 0 /\ k - 1 = a - 1 /\ p \in Word(a, w)
    BY <2>1
  <2>3. (k - 1 = a <=> k = a + 1) /\ (a # 0 /\ k - 1 = a - 1 <=> k = a)
    <3>1. k \in Nat /\ a \in Nat /\ k # 0
      BY <1>1, Parameters
    <3>2. k - 1 = a <=> k = a + 1
      BY <3>1
    <3>3. k - 1 = a - 1 <=> k = a
      BY <3>1
    <3>4. k = a => a # 0
      BY <3>1
    <3> QED BY <3>2, <3>3, <3>4
  <2>4. p \in Word(a, w) <=> p \in bits[a] /\ word_id(p) = w
    BY <1>1, WordIs
  <2> QED BY <2>2, <2>3, <2>4
<1>6. below => task
  <2>1. k = a + 1 => k - 1 = a
    BY <1>1, Parameters
  <2> QED BY <1>1, <2>1
<1>7. (Differs(k, p) <=> ~ (set <=> due)) /\ (Differs(k, p)' <=> ~ (p \in bits'[k] <=> HasBits(k - 1, p)'))
  BY DEF Differs
<1>8. (Differs(k, p) <=> task) /\ (set => due)
  BY DEF AllOwed, Owed
<1>9. ~ (below /\ here)
  BY <1>1, Parameters
<1> HIDE DEF set, due, task, below, here
<1>10. Differs(k, p)' <=> <<k - 1, p>> \in tasks'
  <2>1. CASE below
    BY <1>3, <1>4, <1>5, <1>6, <1>7, <1>8, <1>9, <2>1
  <2>2. CASE here
    BY <1>3, <1>4, <1>5, <1>7, <1>8, <1>9, <2>2
  <2>3. CASE ~ below /\ ~ here
    BY <1>3, <1>4, <1>5, <1>7, <1>8, <2>3
  <2> QED BY <2>1, <2>2, <2>3
<1>11. p \in bits'[k] => HasBits(k - 1, p)'
  <2>1. CASE below
    BY <1>3, <1>6, <1>7, <1>8, <2>1
  <2>2. CASE ~ below
    BY <1>3, <1>4, <1>8, <2>2
  <2> QED BY <2>1, <2>2
<1>12. phase' \notin Removing /\ phase' # "insert" /\ phase' = "consume_each"
  BY <1>1, Kinds
<1> QED BY <1>10, <1>11, <1>12 DEF Owed

(* What a visit means for one index x: whether the task is above x, and  *)
(* whether it sees the bit that leads to x.                               *)
LEMMA VisitedIndex ==
  ASSUME Geometry, Sound, NEW a, NEW w, Visits(a, w, Seen(a, w)), NEW x \in Indices
  PROVE  LET below == Pos(a + 1, x) = w
             sees == Pos(a, x) \in Seen(a, w)
         IN  /\ below => a \in Over(x)
             /\ sees => below /\ Pos(a, x) \in bits[a]
             /\ \A k : k \in Over(x)' <=>
                  \/ k \in Over(x) /\ ~ (k = a /\ below)
                  \/ a # 0 /\ k = a - 1 /\ sees
             /\ x \in InRange /\ below => sees
             /\ a = 0 /\ sees => x \in InRange
<1> USE DEF Sound
<1> DEFINE below == Pos(a + 1, x) = w
           sees == Pos(a, x) \in Seen(a, w)
<1>1. /\ a \in Levels /\ w \in Nat /\ <<a, w>> \in tasks /\ phase \in Traversals
      /\ UNCHANGED <<phase, climber, range, base>>
      /\ \A p \in Seen(a, w) : p \in bits[a] /\ word_id(p) = w
      /\ \A k, p : <<k, p>> \in tasks' <=>
           \/ <<k, p>> \in tasks /\ ~ (k = a /\ p = w)
           \/ a # 0 /\ k = a - 1 /\ p \in Seen(a, w)
  BY DEF Visits
<1>2. /\ x \in Nat /\ Pos(0, x) = x /\ Pos(a, x) \in Nat /\ word_id(Pos(a, x)) = Pos(a + 1, x)
  BY <1>1, PositionsInLayer, Positions
<1>3. below => a \in Over(x)
  BY <1>1 DEF Over
<1>4. sees => below /\ Pos(a, x) \in bits[a]
  BY <1>1, <1>2
<1>5. \A k : k \in Over(x)' <=>
        \/ k \in Over(x) /\ ~ (k = a /\ below)
        \/ a # 0 /\ k = a - 1 /\ sees
  <2> SUFFICES ASSUME NEW k
               PROVE  k \in Over(x)' <=>
                        \/ k \in Over(x) /\ ~ (k = a /\ below)
                        \/ a # 0 /\ k = a - 1 /\ sees
    OBVIOUS
  <2>1. k \in Over(x)' <=> k \in Levels /\ <<k, Pos(k + 1, x)>> \in tasks'
    BY DEF Over
  <2>2. k \in Over(x) <=> k \in Levels /\ <<k, Pos(k + 1, x)>> \in tasks
    BY DEF Over
  <2>3. <<k, Pos(k + 1, x)>> \in tasks' <=>
          \/ <<k, Pos(k + 1, x)>> \in tasks /\ ~ (k = a /\ Pos(k + 1, x) = w)
          \/ a # 0 /\ k = a - 1 /\ Pos(k + 1, x) \in Seen(a, w)
    BY <1>1
  <2>4. ASSUME a # 0, k = a - 1 PROVE k \in Levels /\ k + 1 = a
    <3>1. a \in 0..Top /\ Top \in Nat /\ Levels = 0..Top
      BY <1>1, Parameters
    <3> QED BY <2>4, <3>1
  <2> QED BY <2>1, <2>2, <2>3, <2>4
<1>6. phase \in Ranged => range[1] \in Nat /\ range[2] \in Nat
      /\ range[1] < w * B ^ (a + 1) + B ^ (a + 1) /\ w * B ^ (a + 1) < range[2]
  <2>1. range[1] \in Nat /\ range[2] \in Nat
    BY Parameters DEF TypeOK
  <2>2. ASSUME phase \in Ranged
        PROVE  range[1] < w * B ^ (a + 1) + B ^ (a + 1) /\ w * B ^ (a + 1) < range[2]
    BY <1>1, <2>2 DEF TasksMeetRange
  <2> QED BY <2>1, <2>2
<1>7. ASSUME x \in InRange, below PROVE sees
  <2>1. a \in 0..a
    BY <1>1, Parameters
  <2>2. Pos(a, x) \in bits[a]
    BY <1>3, <1>7, <2>1 DEF NobodyIsForgotten
  <2>3. Pos(a, x) \in Word(a, w)
    BY <1>1, <1>2, <1>7, <2>2, WordIs
  <2>4. CASE phase \in Ranged
    <3>1. range[1] <= x /\ x < range[2]
      BY <1>7 DEF InRange
    <3>2. Pos(a, x) \in Mask(a, Pos(a + 1, x) * B ^ (a + 1), range[1], range[2])
      BY <1>1, <1>2, <1>6, <2>4, <3>1, MaskHas
    <3> QED BY <1>7, <2>3, <2>4, <3>2 DEF Seen
  <2>5. CASE phase \notin Ranged
    <3>1. Pos(a, x) \in OfWord(w)
      BY <1>1, <1>2, <1>7, InWord
    <3> QED BY <2>3, <2>5, <3>1 DEF Seen
  <2> QED BY <2>4, <2>5
<1>8. ASSUME a = 0, sees PROVE x \in InRange
  <2>1. x \in Seen(0, w) /\ x \in bits[0]
    BY <1>2, <1>4, <1>8
  <2>2. x \in base
    BY <1>1, <2>1 DEF TasksAreApart
  <2>3. CASE phase \in Ranged
    <3>1. x \in Mask(0, w * B ^ (0 + 1), range[1], range[2])
      BY <2>1, <2>3 DEF Seen
    <3>2. 0 \in Levels /\ B ^ 0 = 1
      BY Parameters DEF Geometry
    <3>3. range[1] < x * B ^ 0 + B ^ 0 /\ x * B ^ 0 < range[2]
      BY <1>1, <1>6, <1>8, <2>3, <3>1, <3>2, MaskMeets
    <3>4. range[1] < x + 1 /\ x < range[2]
      BY <1>2, <3>2, <3>3
    <3> QED BY <1>2, <1>6, <2>2, <2>3, <3>4 DEF InRange
  <2>4. CASE phase \notin Ranged
    <3>1. range[1] = 0 /\ range[2] = n
      BY <2>4 DEF PhasesAreApart
    <3> QED BY <1>2, <2>2, <3>1, Parameters DEF InRange
  <2> QED BY <2>3, <2>4
<1> QED BY <1>3, <1>4, <1>5, <1>7, <1>8

(* A visit hands the indices below its word on to the words it sees. *)
LEMMA VisitSound ==
  ASSUME Geometry, Sound, NEW task \in tasks, Visit(task)
  PROVE  Sound'
<1> DEFINE a == task[1]
           w == task[2]
           seen == Seen(a, w)
<1>1. Visits(a, w, seen)
  BY VisitVisits DEF Sound
<1>2. /\ tasks' \subseteq Levels \X Indices /\ leaves' \subseteq Indices
      /\ visited' \in [Indices -> Nat]
      /\ phase \notin LeafByLeaf => leaves' = leaves
  BY VisitVisits DEF Sound
<1> HIDE DEF a, w, seen
<1>3. /\ a \in Levels /\ w \in Nat /\ phase \in Traversals
      /\ UNCHANGED <<phase, climber, range, base>>
      /\ phase # "consume_each" => bits' = bits
      /\ phase = "consume_each" => bits' = [bits EXCEPT ![a] = @ \ OfWord(w)]
      /\ a # 0 => a - 1 + 1 = a
  <2>1. /\ a \in Levels /\ w \in Nat /\ phase \in Traversals
        /\ UNCHANGED <<phase, climber, range, base>>
        /\ phase # "consume_each" => bits' = bits
        /\ phase = "consume_each" => bits' = [bits EXCEPT ![a] = @ \ OfWord(w)]
    BY <1>1 DEF Visits
  <2>2. a \in Nat
    BY <2>1, Parameters
  <2> QED BY <2>1, <2>2
<1>4. \A k \in Levels : bits'[k] \subseteq bits[k]
  BY <1>1, BitsAfterVisit DEF Sound
<1>5. bits' \in [Levels -> SUBSET Indices] /\ \A k \in Levels : bits'[k] \subseteq 0..(Length(k) - 1)
  <2>1. bits' \in [Levels -> SUBSET Indices]
    BY <1>3 DEF Sound, TypeOK
  <2>2. \A k \in Levels : bits[k] \subseteq 0..(Length(k) - 1)
    BY DEF Sound, TypeOK
  <2> QED BY <1>4, <2>1, <2>2
<1>6. TypeOK'
  BY <1>2, <1>3, <1>5 DEF Sound, TypeOK
<1>7. PhasesAreApart'
  BY <1>2, <1>3, Kinds DEF Sound, PhasesAreApart, Idle
<1>8. AllOwed'
  <2>1. CASE phase = "consume_each"
    BY <1>1, <2>1, ConsumeKeeps DEF Sound, seen
  <2>2. CASE phase # "consume_each"
    BY <1>3, <2>2, OwedStays DEF Sound
  <2> QED BY <2>1, <2>2
<1>9. TasksMeetRange'
  <2> SUFFICES ASSUME phase \in Ranged, NEW k, NEW p, <<k, p>> \in tasks'
               PROVE  range[1] < p * B ^ (k + 1) + B ^ (k + 1) /\ p * B ^ (k + 1) < range[2]
    BY <1>2, <1>3 DEF TasksMeetRange
  <2>1. CASE <<k, p>> \in tasks
    BY <2>1 DEF Sound, TasksMeetRange
  <2>2. CASE a # 0 /\ k = a - 1 /\ p \in seen
    <3>1. k + 1 = a
      BY <1>3, <2>2
    <3>2. range[1] \in Nat /\ range[2] \in Nat
      BY Parameters DEF Sound, TypeOK
    <3>3. range[1] < w * B ^ (a + 1) + B ^ (a + 1) /\ w * B ^ (a + 1) < range[2]
      BY <1>1 DEF Sound, TasksMeetRange, Visits
    <3>4. p \in Mask(a, w * B ^ (a + 1), range[1], range[2])
      BY <2>2 DEF Seen, seen
    <3> QED BY <1>3, <3>1, <3>2, <3>3, <3>4, MaskMeets
  <2>3. <<k, p>> \in tasks \/ (a # 0 /\ k = a - 1 /\ p \in seen)
    BY <1>1 DEF Visits
  <2> QED BY <2>1, <2>2, <2>3
<1>10. InRange' = InRange
  BY <1>3 DEF InRange
<1>11. ASSUME NEW x \in Indices
       PROVE  LET below == Pos(a + 1, x) = w
                  sees == Pos(a, x) \in seen
              IN  /\ below => a \in Over(x)
                  /\ sees => below /\ Pos(a, x) \in bits[a]
                  /\ \A k : k \in Over(x)' <=>
                       \/ k \in Over(x) /\ ~ (k = a /\ below)
                       \/ a # 0 /\ k = a - 1 /\ sees
                  /\ x \in InRange /\ below => sees
                  /\ a = 0 /\ sees => x \in InRange
  BY <1>1, VisitedIndex DEF seen
<1>12. ASSUME NEW x \in Indices
       PROVE  /\ \A k, j \in Over(x) : k = j
              /\ Over(x) # {} \/ x \in leaves => visited[x] = 0
              /\ Over(x) # {} => x \notin leaves
              /\ visited[x] # 0 \/ x \in leaves => x \in InRange
              /\ visited[x] \in {0, 1}
              /\ phase \in Traversals /\ x \in bits[0] => x \in base
  BY DEF Sound, TasksAreApart
<1>13. ASSUME NEW x \in Indices
       PROVE  /\ x \in leaves' <=> x \in leaves \/ (a = 0 /\ phase \in LeafByLeaf /\ Pos(a, x) \in seen)
              /\ visited'[x] =
                   visited[x] + IF a = 0 /\ phase \notin LeafByLeaf /\ Pos(a, x) \in seen THEN 1 ELSE 0
  <2>1. Pos(0, x) = x
    BY PositionsInLayer
  <2>2. a = 0 => Pos(a, x) = x
    BY <2>1
  <2> QED BY <1>1, <2>2 DEF Visits
<1>14. TasksAreApart'
  <2> SUFFICES ASSUME NEW x \in Indices
      PROVE  /\ \A k, j \in Over(x)' : k = j
             /\ Over(x)' # {} \/ x \in leaves' => visited'[x] = 0
             /\ Over(x)' # {} => x \notin leaves'
             /\ visited'[x] # 0 \/ x \in leaves' => x \in InRange
             /\ visited'[x] \in {0, 1}
             /\ phase \in Traversals /\ x \in bits'[0] => x \in base
    BY <1>3, <1>10 DEF TasksAreApart
  <2> DEFINE below == Pos(a + 1, x) = w
             sees == Pos(a, x) \in seen
  <2>1. x \in bits'[0] => x \in bits[0]
    <3>1. 0 \in Levels
      BY Parameters
    <3> QED BY <1>4, <3>1
  <2>2. CASE ~ below
    <3>1. ~ sees /\ Over(x)' = Over(x)
      BY <1>11, <2>2
    <3>2. (x \in leaves' <=> x \in leaves) /\ visited'[x] = visited[x]
      <4>1. visited[x] \in Nat
        BY DEF Sound, TypeOK
      <4> QED BY <1>13, <3>1, <4>1
    <3> QED BY <1>12, <2>1, <3>1, <3>2
  <2>3. CASE below
    <3>1. a \in Over(x) /\ visited[x] = 0 /\ x \notin leaves /\ \A k \in Over(x) : k = a
      BY <1>11, <1>12, <2>3
    <3>2. \A k : k \in Over(x)' <=> a # 0 /\ k = a - 1 /\ sees
      BY <1>11, <2>3, <3>1
    <3>3. CASE a = 0
      <4>1. Over(x)' = {}
        BY <3>2, <3>3
      <4>2. (x \in leaves' <=> phase \in LeafByLeaf /\ sees)
            /\ visited'[x] = IF phase \notin LeafByLeaf /\ sees THEN 1 ELSE 0
        BY <1>13, <3>1, <3>3
      <4>3. sees => x \in InRange
        BY <1>11, <3>3
      <4> QED BY <1>12, <2>1, <4>1, <4>2, <4>3
    <3>4. CASE a # 0
      <4>1. x \notin leaves' /\ visited'[x] = 0
        BY <1>13, <3>1, <3>4
      <4> QED BY <1>12, <2>1, <3>2, <4>1
    <3> QED BY <3>3, <3>4
  <2> QED BY <2>2, <2>3
<1>15. NobodyIsForgotten'
  <2> SUFFICES ASSUME NEW x \in InRange
      PROVE  /\ visited'[x] = 0 => x \in bits'[0] /\ (x \in leaves' \/ Over(x)' # {})
             /\ \A j \in Over(x)' : \A k \in 0..j : Pos(k, x) \in bits'[k]
    BY <1>3, <1>10 DEF NobodyIsForgotten
  <2> DEFINE below == Pos(a + 1, x) = w
             sees == Pos(a, x) \in seen
  <2>1. x \in Indices
    BY DEF Sound, TypeOK, InRange
  <2>2. /\ visited[x] = 0 => x \in bits[0] /\ (x \in leaves \/ Over(x) # {})
        /\ \A j \in Over(x) : \A k \in 0..j : Pos(k, x) \in bits[k]
    BY DEF Sound, NobodyIsForgotten
  <2>3. \A k \in Levels : Pos(k, x) \in Nat /\ word_id(Pos(k, x)) = Pos(k + 1, x)
    BY <2>1, PositionsInLayer, Positions
  <2>4. Pos(0, x) = x /\ 0 \in Levels
    BY <2>1, PositionsInLayer, Parameters
  <2>5. ASSUME NEW k \in Levels, Pos(k, x) \in bits[k], ~ (k = a /\ below)
        PROVE  Pos(k, x) \in bits'[k]
    <3>1. ~ (k = a /\ word_id(Pos(k, x)) = w)
      BY <2>3, <2>5
    <3> QED BY <1>1, <2>3, <2>5, <3>1, BitsAfterVisit DEF Sound
  <2>6. \A j \in Over(x) : j \in Levels
    BY DEF Over
  <2>7. \A j \in Levels : \A k \in 0..j : k \in Levels
    BY Parameters
  <2>8. CASE ~ below
    <3>1. ~ sees /\ Over(x)' = Over(x)
      BY <1>11, <2>1, <2>8
    <3>2. (x \in leaves' <=> x \in leaves) /\ visited'[x] = visited[x]
      <4>1. visited[x] \in Nat
        BY <2>1 DEF Sound, TypeOK
      <4> QED BY <1>13, <2>1, <3>1, <4>1
    <3>3. x \in bits[0] => x \in bits'[0]
      BY <2>4, <2>5, <2>8
    <3> QED BY <2>2, <2>5, <2>6, <2>7, <2>8, <3>1, <3>2, <3>3
  <2>9. CASE below
    <3>1. a \in Over(x) /\ visited[x] = 0 /\ sees
      BY <1>11, <1>12, <2>1, <2>9
    <3>2. \A k : k \in Over(x)' <=> a # 0 /\ k = a - 1
      <4>1. \A k \in Over(x) : k = a
        BY <1>12, <2>1, <3>1
      <4> QED BY <1>11, <2>1, <2>9, <3>1, <4>1
    <3>3. CASE a = 0
      <4>1. IF phase \in LeafByLeaf THEN x \in leaves' /\ visited'[x] = 0 ELSE visited'[x] = 1
        BY <1>13, <2>1, <3>1, <3>3
      <4>2. phase \in LeafByLeaf => x \in bits'[0]
        BY <1>3, <2>2, <3>1, Kinds
      <4> QED BY <3>2, <3>3, <4>1, <4>2
    <3>4. CASE a # 0
      <4>1. x \in bits'[0]
        BY <2>2, <2>4, <2>5, <3>1, <3>4
      <4>2. a - 1 \in Over(x)'
        BY <3>2, <3>4
      <4>3. ASSUME NEW k \in 0..(a - 1) PROVE Pos(k, x) \in bits'[k]
        <5>1. k \in 0..a /\ k # a
          BY <1>3, Parameters
        <5> QED BY <2>2, <2>5, <2>7, <3>1, <5>1, <1>3
      <4>4. \A j \in Over(x)' : j = a - 1
        BY <3>2
      <4> QED BY <4>1, <4>2, <4>3, <4>4
    <3> QED BY <3>3, <3>4
  <2> QED BY <2>8, <2>9
<1> QED BY <1>6, <1>7, <1>8, <1>9, <1>14, <1>15 DEF Sound

(* Between the phases no thread climbs and nobody owes anything. *)
LEMMA QuietIsExact ==
  ASSUME Sound, Resting, tasks = {}, NEW k \in 1..Top, NEW p \in 0..(Length(k) - 1)
  PROVE  ~ Differs(k, p)
<1>1. Owed(k, p)
  BY DEF Sound, AllOwed
<1>2. \A t \in Threads : ~ Owes(t, k, p)
  <2>1. 0 # k
    OBVIOUS
  <2> QED BY <2>1 DEF Resting, Owes, Idle
<1> QED BY <1>1, <1>2 DEF Owed, OneOwes

LEMMA QuietOwesNothing ==
  ASSUME Geometry, Sound, Resting, tasks = {}, UNCHANGED <<bits, climber>>,
         tasks' \subseteq {<<Top, 0>>}
  PROVE  AllOwed'
<1> SUFFICES ASSUME NEW k \in 1..Top, NEW p \in 0..(Length(k) - 1) PROVE Owed(k, p)'
  BY DEF AllOwed
<1>1. ~ Differs(k, p)
  BY QuietIsExact
<1>2. ~ Differs(k, p)' /\ (p \in bits'[k] <=> HasBits(k - 1, p)')
  BY <1>1 DEF Differs, HasBits, Word
<1>3. \A t \in Threads : ~ Owes(t, k, p)'
  <2>1. 0 # k
    OBVIOUS
  <2> QED BY <2>1 DEF Resting, Owes, Idle
<1>4. <<k - 1, p>> \notin tasks'
  <2>1. k - 1 # Top
    BY Parameters
  <2> QED BY <2>1
<1> QED BY <1>2, <1>3, <1>4 DEF Owed, OneOwes

LEMMA InitSound ==
  ASSUME Geometry, Init
  PROVE  Sound
<1>1. PICK init_value \in BOOLEAN : bits = [k \in Levels |-> IF init_value THEN Filled(k) ELSE {}]
  BY DEF Init
<1>2. ASSUME NEW k \in Levels PROVE bits[k] = IF init_value THEN 0..(Length(k) - 1) ELSE {}
  BY <1>1, <1>2, FilledIsAll
<1>3. /\ phase = "quiet" /\ climber = [t \in Threads |-> Idle] /\ tasks = {} /\ leaves = {}
      /\ range = <<0, n>> /\ base = {} /\ visited = NoCount
  BY DEF Init
<1>4. TypeOK
  <2>1. \A k \in Levels : bits[k] \subseteq 0..(Length(k) - 1)
    BY <1>2
  <2>2. bits \in [Levels -> SUBSET Indices]
    BY <1>1, <1>2, LengthsDiffer
  <2>3. climber \in [Threads -> [index : Indices, layer : Levels]]
    <3>1. 0 \in Indices /\ 0 \in Levels
      BY Parameters
    <3> QED BY <1>3, <3>1 DEF Idle
  <2>4. range \in (0..n) \X (0..n)
    BY <1>3, Parameters
  <2> QED BY <1>3, <2>1, <2>2, <2>3, <2>4 DEF TypeOK, NoCount
<1>5. PhasesAreApart
  BY <1>3, Kinds DEF PhasesAreApart
<1>6. AllOwed
  <2> SUFFICES ASSUME NEW k \in 1..Top, NEW p \in 0..(Length(k) - 1) PROVE Owed(k, p)
    BY DEF AllOwed
  <2>1. k \in Levels /\ k - 1 \in Levels /\ k - 1 + 1 = k /\ k \in 0..Layers
    BY Parameters
  <2>2. p \in Nat
    BY <2>1, Lengths
  <2>3. HasBits(k - 1, p) <=> \E q \in bits[k - 1] : word_id(q) = p
    BY <1>4, <2>1, <2>2, WordIs
  <2>4. ~ Differs(k, p)
    <3>1. CASE init_value
      <4>1. p * B \in 0..(Length(k - 1) - 1) /\ word_id(p * B) = p
        BY <2>1, WordsOfLayer
      <4> QED BY <1>2, <2>1, <2>3, <3>1, <4>1 DEF Differs
    <3>2. CASE ~ init_value
      BY <1>2, <2>1, <2>3, <3>2 DEF Differs
    <3> QED BY <3>1, <3>2
  <2>5. \A t \in Threads : ~ Owes(t, k, p)
    <3>1. 0 # k
      OBVIOUS
    <3> QED BY <1>3, <3>1 DEF Owes, Idle
  <2> QED BY <1>3, <2>4, <2>5, Kinds DEF Owed, OneOwes
<1>7. InRange = {} /\ \A i : Over(i) = {}
  BY <1>3 DEF InRange, Over
<1>8. TasksMeetRange
  BY <1>3 DEF TasksMeetRange
<1>9. TasksAreApart
  BY <1>3, <1>7, Kinds DEF TasksAreApart, NoCount
<1>10. NobodyIsForgotten
  BY <1>7 DEF NobodyIsForgotten
<1> QED BY <1>4, <1>5, <1>6, <1>8, <1>9, <1>10 DEF Sound

LEMMA BeginSound ==
  ASSUME Geometry, Sound, NEW p \in {"insert", "remove"}, Begin(p)
  PROVE  Sound'
<1>1. /\ phase = "quiet" /\ phase' = p /\ UNCHANGED <<bits, climber, tasks, leaves, range, base, visited>>
  BY DEF Begin, walk
<1>2. tasks = {} /\ base = {} /\ visited = NoCount /\ leaves = {} /\ range = <<0, n>> /\ Resting
  BY <1>1, Kinds DEF Sound, PhasesAreApart, Resting
<1>3. TypeOK'
  BY <1>1 DEF Sound, TypeOK
<1>4. PhasesAreApart'
  <2>1. Resting'
    BY <1>1, <1>2 DEF Resting
  <2> QED BY <1>1, <1>2, <2>1, Kinds DEF PhasesAreApart, Resting
<1>5. AllOwed'
  BY <1>1, <1>2, QuietOwesNothing
<1>6. (InRange = {})' /\ \A i : Over(i)' = {}
  BY <1>1, <1>2 DEF InRange, Over
<1>7. TasksMeetRange'
  BY <1>1, <1>2 DEF TasksMeetRange
<1>8. TasksAreApart'
  <2>1. phase' \notin Traversals
    BY <1>1, Kinds
  <2> QED BY <1>1, <1>2, <1>6, <2>1 DEF TasksAreApart, NoCount
<1>9. NobodyIsForgotten'
  BY <1>6 DEF NobodyIsForgotten
<1> QED BY <1>3, <1>4, <1>5, <1>7, <1>8, <1>9 DEF Sound

LEMMA EndSound ==
  ASSUME Geometry, Sound, End
  PROVE  Sound'
<1>1. /\ Resting /\ tasks = {} /\ leaves = {} /\ phase' = "quiet"
      /\ base' = {} /\ visited' = NoCount /\ range' = <<0, n>>
      /\ UNCHANGED <<bits, climber, tasks, leaves>>
  BY DEF End
<1>2. TypeOK'
  <2>1. range' \in (0..n) \X (0..n)
    BY <1>1, Parameters
  <2> QED BY <1>1, <2>1 DEF Sound, TypeOK, NoCount
<1>3. PhasesAreApart'
  BY <1>1, Kinds DEF PhasesAreApart, Resting
<1>4. AllOwed'
  BY <1>1, QuietOwesNothing
<1>5. (InRange = {})' /\ \A i : Over(i)' = {}
  BY <1>1 DEF InRange, Over
<1>6. TasksMeetRange'
  BY <1>1 DEF TasksMeetRange
<1>7. TasksAreApart'
  BY <1>1, <1>5, Kinds DEF TasksAreApart, NoCount
<1>8. NobodyIsForgotten'
  BY <1>5 DEF NobodyIsForgotten
<1> QED BY <1>2, <1>3, <1>4, <1>6, <1>7, <1>8 DEF Sound

(* When nothing is owed the bits above an element are all set. *)
LEMMA WayUp ==
  ASSUME Geometry, Sound, Resting, tasks = {}, NEW i \in bits[0], NEW k \in Levels
  PROVE  i \in Indices /\ Pos(k, i) \in bits[k]
<1> DEFINE missing == {j \in Levels : Pos(j, i) \notin bits[j]}
<1>1. i \in Indices
  <2>1. 0 \in Levels
    BY Parameters
  <2> QED BY <2>1 DEF Sound, TypeOK
<1>2. CASE missing # {}
  <2>1. missing \subseteq Nat
    BY Parameters
  <2>2. PICK j \in missing : \A m \in missing : ~ (<<m, j>> \in OpToRel(<, Nat))
    BY <1>2, <2>1, NatLessThanWellFounded, WFMin
  <2>3. j \in Levels /\ Pos(j, i) \notin bits[j] /\ j \in Nat
    BY <2>1
  <2>4. j # 0
    BY <1>1, <2>3, PositionsInLayer
  <2>5. j \in 1..Top /\ j - 1 \in Levels /\ j - 1 + 1 = j /\ j - 1 \in Nat /\ j - 1 < j
    <3>1. Top \in Nat /\ Levels = 0..Top
      BY Parameters
    <3> QED BY <2>3, <2>4, <3>1
  <2>6. Pos(j - 1, i) \in bits[j - 1]
    BY <2>2, <2>3, <2>5 DEF OpToRel
  <2>7. /\ word_id(Pos(j - 1, i)) = Pos(j, i)
        /\ Pos(j, i) \in 0..(Length(j) - 1) /\ Pos(j, i) \in Nat
    <3>1. Pos(j, i) \in 0..(Length(j) - 1) /\ word_id(Pos(j - 1, i)) = Pos(j - 1 + 1, i)
      BY <1>1, <2>3, <2>5, PositionsInLayer
    <3>2. i \in Nat
      BY <1>1, PositionsInLayer
    <3> QED BY <2>3, <2>5, <3>1, <3>2, Positions
  <2>8. HasBits(j - 1, Pos(j, i))
    BY <2>5, <2>6, <2>7, WordIs DEF Sound
  <2>9. ~ Differs(j, Pos(j, i))
    BY <2>5, <2>7, QuietIsExact
  <2> QED BY <2>3, <2>8, <2>9 DEF Differs
<1> QED BY <1>1, <1>2

(* The top word tells whether there are elements. *)
LEMMA EmptyIsEmpty ==
  ASSUME Geometry, Sound, Resting, tasks = {}, empty
  PROVE  bits[0] = {}
<1> SUFFICES ASSUME NEW i \in bits[0] PROVE FALSE
  OBVIOUS
<1>1. Top \in Levels /\ Top + 1 = Layers
  BY Parameters
<1>2. i \in Indices /\ Pos(Top, i) \in bits[Top]
  BY <1>1, WayUp
<1>3. word_id(Pos(Top, i)) = 0 /\ 0 \in Nat
  BY <1>1, <1>2, PositionsInLayer
<1>4. Pos(Top, i) \in Word(Top, 0)
  BY <1>1, <1>2, <1>3, WordIs DEF Sound
<1> QED BY <1>4 DEF empty

LEMMA BeginTraversalSound ==
  ASSUME Geometry, Sound, NEW p \in Traversals, BeginTraversal(p)
  PROVE  Sound'
<1>1. PICK l \in 0..n, r \in 0..n :
        /\ p \notin Ranged => l = 0 /\ r = n
        /\ range' = <<l, r>>
        /\ tasks' = IF empty \/ l >= r THEN {} ELSE {<<Top, 0>>}
  BY DEF BeginTraversal
<1>2. phase = "quiet" /\ phase' = p /\ base' = bits[0] /\ UNCHANGED <<bits, climber, leaves, visited>>
  BY DEF BeginTraversal, Elements
<1>3. tasks = {} /\ visited = NoCount /\ leaves = {} /\ Resting
  BY <1>2, Kinds DEF Sound, PhasesAreApart, Resting
<1>4. Top \in Levels /\ Top + 1 = Layers /\ 0 \in Indices /\ 0 \in Levels
      /\ n \in Nat /\ B ^ Layers \in Nat /\ n <= B ^ Layers
  BY Parameters
<1>5. TypeOK'
  <2>1. bits[0] \subseteq Indices
    BY <1>4 DEF Sound, TypeOK
  <2>2. tasks' \subseteq Levels \X Indices
    BY <1>1, <1>4
  <2>3. range' \in (0..n) \X (0..n)
    BY <1>1
  <2> QED BY <1>2, <2>1, <2>2, <2>3 DEF Sound, TypeOK
<1>6. PhasesAreApart'
  <2>1. Resting'
    BY <1>2, <1>3 DEF Resting
  <2> QED BY <1>1, <1>2, <1>3, <2>1, Kinds DEF PhasesAreApart, Resting
<1>7. AllOwed'
  BY <1>1, <1>2, <1>3, QuietOwesNothing
<1>8. \A i : i \in InRange' <=> i \in bits[0] /\ l <= i /\ i < r
  BY <1>1, <1>2 DEF InRange
<1>9. TasksMeetRange'
  <2>1. ASSUME ~ (l >= r)
        PROVE  l < 0 * B ^ (Top + 1) + B ^ (Top + 1) /\ 0 * B ^ (Top + 1) < r
    BY <1>4, <2>1
  <2> QED BY <1>1, <2>1 DEF TasksMeetRange
<1>10. ASSUME NEW i \in Indices PROVE Over(i)' = IF empty \/ l >= r THEN {} ELSE {Top}
  <2>1. Pos(Top + 1, i) = 0
    BY <1>4, PositionsInLayer
  <2> QED BY <1>1, <1>4, <2>1 DEF Over
<1>11. TasksAreApart'
  BY <1>2, <1>3, <1>10 DEF TasksAreApart, NoCount
<1>12. NobodyIsForgotten'
  <2> SUFFICES ASSUME NEW i \in InRange'
      PROVE  /\ visited'[i] = 0 => i \in bits'[0] /\ (i \in leaves' \/ Over(i)' # {})
             /\ \A j \in Over(i)' : \A k \in 0..j : Pos(k, i) \in bits'[k]
    BY DEF NobodyIsForgotten
  <2>1. i \in bits[0] /\ l <= i /\ i < r /\ i \in Indices /\ i \in Nat
    <3>1. i \in bits[0] /\ l <= i /\ i < r
      BY <1>8
    <3> QED BY <1>4, <3>1, WordIs DEF Sound
  <2>2. ~ empty
    BY <1>3, <2>1, EmptyIsEmpty
  <2>3. ~ (l >= r)
    BY <2>1
  <2>4. Over(i)' = {Top}
    BY <1>10, <2>1, <2>2, <2>3
  <2>5. \A k \in 0..Top : k \in Levels
    BY Parameters
  <2>6. \A k \in 0..Top : Pos(k, i) \in bits[k]
    BY <1>3, <2>1, <2>5, WayUp
  <2> QED BY <1>2, <2>1, <2>4, <2>6
<1> QED BY <1>5, <1>6, <1>7, <1>9, <1>11, <1>12 DEF Sound

(* Every step keeps the invariant. *)
LEMMA StepSound ==
  ASSUME Geometry, Sound, [Next]_vars
  PROVE  Sound'
<1>1. CASE \E p \in Phases \cap {"insert", "remove"} : Begin(p)
  BY <1>1, BeginSound
<1>2. CASE \E p \in Phases \cap Traversals : BeginTraversal(p)
  BY <1>2, BeginTraversalSound
<1>3. CASE End
  BY <1>3, EndSound
<1>4. ASSUME NEW t \in Threads, InsertUp(t) \/ RemoveUp(t) PROVE Sound'
  BY <1>4, ClimbSound
<1>5. ASSUME NEW t \in Threads, NEW i \in Indices, InsertLeaf(t, i) \/ RemoveLeaf(t, i) PROVE Sound'
  BY <1>5, ClimbSound
<1>6. ASSUME NEW t \in Threads, NEW i \in Indices, CallLeaf(t, i) PROVE Sound'
  BY <1>6, CallSound
<1>7. ASSUME NEW task \in tasks, Visit(task) PROVE Sound'
  BY <1>7, VisitSound
<1>8. CASE UNCHANGED vars
  <2>1. UNCHANGED <<bits, phase, climber, tasks, leaves, range, base, visited>>
    BY <1>8 DEF vars
  <2>2. TypeOK' /\ PhasesAreApart'
    BY <2>1 DEF Sound, TypeOK, PhasesAreApart
  <2>3. AllOwed'
    BY <2>1, OwedStays DEF Sound
  <2>4. TasksMeetRange'
    BY <2>1 DEF Sound, TasksMeetRange
  <2>5. InRange' = InRange /\ \A i : Over(i)' = Over(i)
    BY <2>1 DEF InRange, Over
  <2>6. TasksAreApart'
    BY <2>1, <2>5 DEF Sound, TasksAreApart
  <2>7. NobodyIsForgotten'
    BY <2>1, <2>5 DEF Sound, NobodyIsForgotten
  <2> QED BY <2>2, <2>3, <2>4, <2>6, <2>7 DEF Sound
<1> QED BY <1>1, <1>2, <1>3, <1>4, <1>5, <1>6, <1>7, <1>8 DEF Next

-----------------------------------------------------------------------------
(***************************************************************************)
(* What the invariant says of the summaries, and with counting.            *)
(***************************************************************************)
LEMMA WhoOwes ==
  ASSUME NEW k, NEW p, OneOwes(k, p)
  PROVE  Cardinality(Owing(k, p)) = IF Differs(k, p) THEN 1 ELSE 0
<1>1. \A t : t \in Owing(k, p) <=> t \in Threads /\ Owes(t, k, p)
  BY DEF Owing, Owes
<1>2. CASE Differs(k, p)
  <2>1. PICK t \in Threads : Owes(t, k, p)
    BY <1>2 DEF OneOwes
  <2>2. Owing(k, p) = {t}
    BY <1>1, <2>1 DEF OneOwes
  <2> QED BY <1>2, <2>2, FS_Singleton
<1>3. CASE ~ Differs(k, p)
  <2>1. Owing(k, p) = {}
    BY <1>1, <1>3 DEF OneOwes
  <2> QED BY <1>3, <2>1, FS_EmptySet
<1> QED BY <1>2, <1>3

LEMMA ExactWhenQuiet ==
  ASSUME Geometry, Sound
  PROVE  SummariesAreExact
<1> SUFFICES ASSUME phase = "quiet", NEW k \in 1..Top
             PROVE  bits[k] = {word_id(q) : q \in bits[k - 1]}
  BY DEF SummariesAreExact
<1>1. Resting /\ tasks = {}
  BY Kinds DEF Sound, PhasesAreApart, Resting
<1>2. k \in Levels /\ k - 1 \in Levels /\ k - 1 + 1 = k /\ k \in 0..Layers
  BY Parameters
<1>3. ASSUME NEW p \in 0..(Length(k) - 1)
      PROVE  p \in bits[k] <=> \E q \in bits[k - 1] : word_id(q) = p
  <2>1. p \in Nat
    BY <1>2, Lengths
  <2>2. HasBits(k - 1, p) <=> \E q \in bits[k - 1] : word_id(q) = p
    BY <1>2, <2>1, WordIs DEF Sound
  <2>3. ~ Differs(k, p)
    BY <1>1, QuietIsExact
  <2> QED BY <2>2, <2>3 DEF Differs
<1>4. bits[k] \subseteq 0..(Length(k) - 1) /\ bits[k - 1] \subseteq 0..(Length(k - 1) - 1)
  BY <1>2 DEF Sound, TypeOK
<1>5. \A q \in bits[k - 1] : word_id(q) \in 0..(Length(k) - 1)
  BY <1>2, <1>4, WordsOfLayer
<1> QED BY <1>3, <1>4, <1>5

LEMMA SoundIsRight ==
  ASSUME Geometry, Sound
  PROVE  SetInvariant
<1>1. SummariesAreOwed
  <2> SUFFICES ASSUME NEW k \in 1..Top, NEW p \in 0..(Length(k) - 1)
      PROVE  LET due == HasBits(k - 1, p)
                 set == p \in bits[k]
             IN  /\ phase = "insert" =>
                      (set => due) /\ Cardinality(Owing(k, p)) = IF due /\ ~ set THEN 1 ELSE 0
                 /\ phase \in Removing =>
                      (due => set) /\ Cardinality(Owing(k, p)) = IF set /\ ~ due THEN 1 ELSE 0
    BY DEF SummariesAreOwed
  <2>1. Owed(k, p)
    BY DEF Sound, AllOwed
  <2>2. phase # "consume_each" =>
          Cardinality(Owing(k, p)) = IF Differs(k, p) THEN 1 ELSE 0
    BY <2>1, WhoOwes DEF Owed
  <2> DEFINE due == HasBits(k - 1, p)
             set == p \in bits[k]
  <2>3. Differs(k, p) <=> ~ (set <=> due)
    BY DEF Differs
  <2>4. /\ phase = "insert" => (set => due)
        /\ phase \in Removing => (due => set)
    BY <2>1 DEF Owed
  <2> HIDE DEF due, set
  <2>5. ASSUME phase = "insert"
        PROVE  (set => due) /\ Cardinality(Owing(k, p)) = IF due /\ ~ set THEN 1 ELSE 0
    <3>1. (set => due) /\ (Differs(k, p) <=> due /\ ~ set)
      BY <2>3, <2>4, <2>5
    <3> QED BY <2>2, <2>5, <3>1
  <2>6. ASSUME phase \in Removing
        PROVE  (due => set) /\ Cardinality(Owing(k, p)) = IF set /\ ~ due THEN 1 ELSE 0
    <3>1. (due => set) /\ (Differs(k, p) <=> set /\ ~ due)
      BY <2>3, <2>4, <2>6
    <3>2. phase # "consume_each"
      BY <2>6, Kinds
    <3> QED BY <2>2, <3>1, <3>2
  <2> QED BY <2>5, <2>6 DEF due, set
<1>2. ShiftsAreDefined
  <2> SUFFICES ASSUME phase \in Ranged, NEW task \in tasks
      PROVE  LET k == task[1]
                 i == task[2] * B ^ (k + 1)
             IN  Low(k, i, range[1]) < B /\ High(k, i, range[2]) < B
    BY DEF ShiftsAreDefined
  <2>1. task[1] \in Levels /\ task[2] \in Nat
    <3>1. task[1] \in Levels /\ task[2] \in Indices
      BY DEF Sound, TypeOK
    <3> QED BY <3>1, PositionsInLayer
  <2>2. range[1] \in Nat /\ range[2] \in Nat
    BY Parameters DEF Sound, TypeOK
  <2>3. /\ range[1] < task[2] * B ^ (task[1] + 1) + B ^ (task[1] + 1)
        /\ task[2] * B ^ (task[1] + 1) < range[2]
    BY DEF Sound, TasksMeetRange
  <2> QED BY <2>1, <2>2, <2>3, ShiftsAreShort
<1>3. SummariesAreKept
  <2> SUFFICES ASSUME NEW k \in 1..Top, NEW p \in 0..(Length(k) - 1)
      PROVE  /\ phase \in {"for_each", "for_range"} => (p \in bits[k] <=> HasBits(k - 1, p))
             /\ phase = "consume_each" =>
                  /\ p \in bits[k] => HasBits(k - 1, p)
                  /\ <<k - 1, p>> \in tasks <=> HasBits(k - 1, p) /\ p \notin bits[k]
    BY DEF SummariesAreKept
  <2>1. Owed(k, p)
    BY DEF Sound, AllOwed
  <2>2. ASSUME phase \in {"for_each", "for_range"} PROVE p \in bits[k] <=> HasBits(k - 1, p)
    <3>1. \A t \in Threads : climber[t] = Idle
      BY <2>2, Kinds DEF Sound, PhasesAreApart
    <3>2. 0 # k
      OBVIOUS
    <3>3. \A t \in Threads : ~ Owes(t, k, p)
      BY <3>1, <3>2 DEF Owes, Idle
    <3> QED BY <2>1, <2>2, <3>3 DEF Owed, OneOwes, Differs
  <2>3. ASSUME phase = "consume_each"
        PROVE  /\ p \in bits[k] => HasBits(k - 1, p)
               /\ <<k - 1, p>> \in tasks <=> HasBits(k - 1, p) /\ p \notin bits[k]
    <3>1. (p \in bits[k] => HasBits(k - 1, p)) /\ (Differs(k, p) <=> <<k - 1, p>> \in tasks)
      BY <2>1, <2>3 DEF Owed
    <3> QED BY <3>1 DEF Differs
  <2> QED BY <2>2, <2>3
<1>4. SummariesAreExact
  BY ExactWhenQuiet
<1> QED BY <1>1, <1>2, <1>3, <1>4 DEF Sound, SetInvariant

(***************************************************************************)
(* Whatever the number of indices and layers, the width of a word, the     *)
(* threads and the kinds of phases: insertions and removals that race      *)
(* leave every summary bit exact or owed by exactly one thread, and a      *)
(* traversal keeps each index below one task at most and forgets none.     *)
(***************************************************************************)
THEOREM SetIsRight == Spec => []SetInvariant
<1>0. Geometry
  BY WordsAssumption
<1>1. Init => Sound
  BY <1>0, InitSound
<1>2. Sound /\ [Next]_vars => Sound'
  BY <1>0, StepSound
<1>3. Sound => SetInvariant
  BY <1>0, SoundIsRight
<1> QED BY <1>1, <1>2, <1>3, PTL DEF Spec

-----------------------------------------------------------------------------
(***************************************************************************)
(* To its callers the tree is the set of AbstractSet: each step is one of  *)
(* that set, or changes only summaries, tasks and climbers, which callers  *)
(* do not see.                                                             *)
(***************************************************************************)
Seeming == <<bits[0], phase, InRange, visited>>

LEMMA InitMaps ==
  ASSUME Geometry, Init
  PROVE  Promise!Init
<1>1. PICK init_value \in BOOLEAN : bits = [k \in Levels |-> IF init_value THEN Filled(k) ELSE {}]
  BY DEF Init
<1>2. 0 \in Levels
  BY Parameters
<1>3. Filled(0) = Indices
  BY <1>2, FilledIsAll, LengthsDiffer
<1>4. bits[0] \in {{}, Indices}
  BY <1>1, <1>2, <1>3
<1>5. InRange = {}
  BY DEF Init, InRange
<1> QED BY <1>4, <1>5 DEF Init, NoCount, Promise!Init, Promise!NoCount

(* Insertions, removals and the ends of phases. *)
LEMMA CallMaps ==
  ASSUME Geometry, Sound, NEW t \in Threads,
         \/ InsertUp(t) \/ RemoveUp(t)
         \/ \E i \in Indices : InsertLeaf(t, i) \/ RemoveLeaf(t, i)
  PROVE  [Promise!Next]_Seeming
<1>1. 0 \in Levels /\ bits \in [Levels -> SUBSET Indices]
  BY Parameters DEF Sound, TypeOK
<1>2. UNCHANGED <<phase, base, range, visited>>
  BY DEF InsertUp, RemoveUp, InsertLeaf, RemoveLeaf, walk
<1>3. InRange' = InRange
  BY <1>2 DEF InRange
<1>4. CASE InsertUp(t) \/ RemoveUp(t)
  <2>1. climber[t] # Idle
    BY <1>4 DEF InsertUp, RemoveUp
  <2>2. climber[t].layer # 0
    BY <2>1 DEF Sound, PhasesAreApart
  <2>3. bits'[0] = bits[0]
    BY <1>1, <1>4, <2>2 DEF InsertUp, RemoveUp
  <2> QED BY <1>2, <1>3, <2>3 DEF Seeming
<1>5. ASSUME NEW i \in Indices, InsertLeaf(t, i) PROVE Promise!Next
  <2>1. phase = "insert" /\ bits'[0] = bits[0] \cup {i}
    BY <1>1, <1>5 DEF InsertLeaf
  <2>2. Promise!Insert(i)
    BY <1>2, <1>3, <2>1 DEF Promise!Insert
  <2> QED BY <2>2 DEF Promise!Next
<1>6. ASSUME NEW i \in Indices, RemoveLeaf(t, i) PROVE Promise!Next
  <2>1. phase = "remove" /\ bits'[0] = bits[0] \ {i}
    BY <1>1, <1>6 DEF RemoveLeaf, RemoveFrom
  <2>2. Promise!Remove(i)
    BY <1>2, <1>3, <2>1 DEF Promise!Remove
  <2> QED BY <2>2 DEF Promise!Next
<1> QED BY <1>4, <1>5, <1>6

LEMMA PhaseMaps ==
  ASSUME Geometry, Sound,
         \/ \E p \in Phases \cap {"insert", "remove"} : Begin(p)
         \/ \E p \in Phases \cap Traversals : BeginTraversal(p)
         \/ End
  PROVE  Promise!Next
<1>1. ASSUME NEW p \in Phases \cap {"insert", "remove"}, Begin(p) PROVE Promise!Next
  <2>1. phase = "quiet" /\ phase' = p /\ UNCHANGED <<bits, base, range, visited>>
    BY <1>1 DEF Begin, walk
  <2>2. base = {}
    BY <2>1, Kinds DEF Sound, PhasesAreApart
  <2>3. InRange' = {}
    BY <2>1, <2>2 DEF InRange
  <2>4. Promise!Begin(p)
    BY <2>1, <2>3 DEF Promise!Begin, Promise!Traversals, Promise!Consuming
  <2> QED BY <2>4 DEF Promise!Next
<1>2. ASSUME NEW p \in Phases \cap Traversals, BeginTraversal(p) PROVE Promise!Next
  <2>1. PICK l \in 0..n, r \in 0..n :
          /\ p \notin Ranged => l = 0 /\ r = n
          /\ range' = <<l, r>>
    BY <1>2 DEF BeginTraversal
  <2>2. phase = "quiet" /\ phase' = p /\ base' = bits[0] /\ UNCHANGED <<bits, visited>>
    BY <1>2 DEF BeginTraversal, Elements
  <2>3. \A i : i \in InRange' <=> i \in bits[0] /\ l <= i /\ i < r
    BY <2>1, <2>2 DEF InRange
  <2>4. \A i \in bits[0] : i \in Nat /\ i < n
    <3>1. 0 \in Levels
      BY Parameters
    <3>2. bits[0] \subseteq Indices
      BY <3>1 DEF Sound, TypeOK
    <3> QED BY <3>2, Parameters
  <2>5. CASE p \in Ranged
    <3>1. InRange' \in SUBSET bits[0]
      BY <2>3
    <3>2. ASSUME NEW i \in InRange', NEW k \in InRange', NEW j \in bits[0], j \in i..k
          PROVE  j \in InRange'
      BY <2>3, <2>4, <3>2
    <3>3. \A i, k \in InRange' : bits[0] \cap i..k \subseteq InRange'
      BY <3>2
    <3>4. Promise!Begin(p)
      BY <2>2, <2>5, <3>1, <3>3, Kinds DEF Promise!Begin
    <3> QED BY <3>4 DEF Promise!Next
  <2>6. CASE p \notin Ranged
    <3>1. l = 0 /\ r = n
      BY <2>1, <2>6
    <3>2. InRange' = bits[0]
      BY <2>3, <2>4, <3>1
    <3>3. Promise!Begin(p)
      BY <2>2, <2>6, <3>2, Kinds DEF Promise!Begin, Promise!Traversals, Promise!Consuming
    <3> QED BY <3>3 DEF Promise!Next
  <2> QED BY <2>5, <2>6
<1>3. ASSUME End PROVE Promise!Next
  <2>1. /\ phase # "quiet" /\ phase' = "quiet" /\ tasks = {} /\ leaves = {}
        /\ base' = {} /\ visited' = NoCount /\ bits' = bits
    BY <1>3 DEF End
  <2>2. \A i \in InRange : visited[i] = 1
    <3> SUFFICES ASSUME NEW i \in InRange PROVE visited[i] = 1
      OBVIOUS
    <3>1. i \in Indices
      BY DEF Sound, TypeOK, InRange
    <3>2. Over(i) = {}
      BY <2>1 DEF Over
    <3>3. visited[i] # 0
      BY <2>1, <3>2 DEF Sound, NobodyIsForgotten
    <3> QED BY <3>1, <3>3 DEF Sound, TasksAreApart
  <2>3. InRange' = {}
    BY <2>1 DEF InRange
  <2>4. Promise!End
    BY <2>1, <2>2, <2>3 DEF Promise!End, NoCount, Promise!NoCount
  <2> QED BY <2>4 DEF Promise!Next
<1> QED BY <1>1, <1>2, <1>3

(* f is called on one index read from a leaf, which is taken out. *)
LEMMA CallLeafMaps ==
  ASSUME Geometry, Sound, NEW t \in Threads, NEW i \in Indices, CallLeaf(t, i)
  PROVE  Promise!Next
<1>1. /\ phase \in LeafByLeaf /\ i \in leaves
      /\ visited' = [visited EXCEPT ![i] = @ + 1]
      /\ UNCHANGED <<phase, range, base>>
      /\ \/ RemoveFrom(t, i)
         \/ phase = "for_each_remove" /\ UNCHANGED bits
  BY DEF CallLeaf
<1>2. InRange' = InRange
  BY <1>1 DEF InRange
<1>3. i \in InRange /\ visited[i] = 0
  BY <1>1 DEF Sound, TasksAreApart
<1>4. visited' = [x \in Indices |-> visited[x] + IF x \in {i} THEN 1 ELSE 0]
  <2>1. visited \in [Indices -> Nat]
    BY DEF Sound, TypeOK
  <2>2. visited' = [x \in Indices |-> IF x = i THEN visited[x] + 1 ELSE visited[x]]
    BY <1>1, <2>1
  <2>3. \A x \in Indices : (IF x = i THEN visited[x] + 1 ELSE visited[x])
                            = visited[x] + IF x \in {i} THEN 1 ELSE 0
    BY <2>1
  <2> QED BY <2>2, <2>3
<1>5. RemoveFrom(t, i) => bits'[0] = bits[0] \ {i}
  <2>1. 0 \in Levels /\ bits \in [Levels -> SUBSET Indices]
    BY Parameters DEF Sound, TypeOK
  <2> QED BY <2>1 DEF RemoveFrom
<1>6. \/ phase = "consume_range" /\ bits'[0] = bits[0] \ {i}
      \/ phase = "for_each_remove" /\ \E T \in SUBSET {i} : bits'[0] = bits[0] \ T
  <2>1. CASE RemoveFrom(t, i)
    BY <1>1, <1>5, <2>1, Kinds
  <2>2. CASE phase = "for_each_remove" /\ UNCHANGED bits
    <3>1. bits'[0] = bits[0] \ {}
      BY <2>2
    <3> QED BY <2>2, <3>1
  <2> QED BY <1>1, <2>1, <2>2
<1>7. Promise!HandOut({i})
  BY <1>1, <1>2, <1>3, <1>4, <1>6 DEF Promise!HandOut, Promise!Traversals, Promise!Consuming
<1>8. {i} \in SUBSET InRange
  BY <1>3
<1> QED BY <1>7, <1>8 DEF Promise!Next

(* A task in layer 0 hands out what it sees, others only go down. *)
LEMMA VisitMaps ==
  ASSUME Geometry, Sound, NEW task \in tasks, Visit(task)
  PROVE  [Promise!Next]_Seeming
<1> DEFINE a == task[1]
           w == task[2]
           seen == Seen(a, w)
<1>1. Visits(a, w, seen) /\ visited' \in [Indices -> Nat]
  BY VisitVisits DEF Sound
<1> HIDE DEF a, w, seen
<1>2. /\ a \in Levels /\ w \in Nat /\ phase \in Traversals
      /\ UNCHANGED <<phase, range, base>>
      /\ phase # "consume_each" => bits' = bits
      /\ phase = "consume_each" => bits' = [bits EXCEPT ![a] = @ \ OfWord(w)]
      /\ \A p \in seen : p \in bits[a] /\ word_id(p) = w
      /\ \A x \in Indices :
           visited'[x] =
             visited[x] + IF a = 0 /\ phase \notin LeafByLeaf /\ x \in seen THEN 1 ELSE 0
  BY <1>1 DEF Visits
<1>3. InRange' = InRange
  BY <1>2 DEF InRange
<1>4. 0 \in Levels /\ bits \in [Levels -> SUBSET Indices] /\ visited \in [Indices -> Nat]
  BY Parameters DEF Sound, TypeOK
<1>5. CASE a # 0 \/ phase \in LeafByLeaf
  <2>1. \A x \in Indices : visited'[x] = visited[x]
    BY <1>2, <1>4, <1>5
  <2>2. visited' = visited
    BY <1>1, <1>4, <2>1
  <2>3. bits'[0] = bits[0]
    <3>1. CASE phase = "consume_each"
      <4>1. a # 0
        BY <1>5, <3>1, Kinds
      <4> QED BY <1>2, <1>4, <3>1, <4>1
    <3>2. CASE phase # "consume_each"
      BY <1>2, <3>2
    <3> QED BY <3>1, <3>2
  <2> QED BY <1>2, <1>3, <2>2, <2>3 DEF Seeming
<1>6. CASE a = 0 /\ phase \notin LeafByLeaf
  <2>1. \A x \in seen : x \in bits[0] /\ x \in Indices
    BY <1>2, <1>4, <1>6
  <2>2. \A x \in seen : x \in InRange /\ visited[x] = 0
    <3> SUFFICES ASSUME NEW x \in seen PROVE x \in InRange /\ visited[x] = 0
      OBVIOUS
    <3>1. x \in Indices /\ Pos(a, x) = x
      BY <1>6, <2>1, PositionsInLayer
    <3>2. /\ Pos(a + 1, x) = w => a \in Over(x)
          /\ Pos(a, x) \in seen => Pos(a + 1, x) = w
          /\ a = 0 /\ Pos(a, x) \in seen => x \in InRange
      BY <1>1, <3>1, VisitedIndex DEF seen
    <3>3. x \in InRange /\ a \in Over(x)
      BY <1>6, <3>1, <3>2
    <3> QED BY <3>1, <3>3 DEF Sound, TasksAreApart
  <2>3. visited' = [x \in Indices |-> visited[x] + IF x \in seen THEN 1 ELSE 0]
    BY <1>1, <1>2, <1>6
  <2>4. phase = "consume_each" => bits'[0] = bits[0] \ seen
    <3>1. ASSUME phase = "consume_each" PROVE bits'[0] = bits[0] \ seen
      <4>1. bits'[0] = bits[0] \ OfWord(w)
        BY <1>2, <1>4, <1>6, <3>1
      <4>2. seen = bits[0] \cap OfWord(w)
        BY <1>6, <3>1, Kinds DEF seen, Seen, Word
      <4> QED BY <4>1, <4>2
    <3> QED BY <3>1
  <2>5. phase # "consume_each" => phase \in {"for_each", "for_range"} /\ bits'[0] = bits[0]
    BY <1>2, <1>6, Kinds
  <2>6. Promise!HandOut(seen)
    BY <1>2, <1>3, <2>2, <2>3, <2>4, <2>5, Kinds
    DEF Promise!HandOut, Promise!Traversals, Promise!Consuming
  <2>7. seen \in SUBSET InRange
    BY <2>2
  <2> QED BY <2>6, <2>7 DEF Promise!Next
<1> QED BY <1>5, <1>6

LEMMA StepMaps ==
  ASSUME Geometry, Sound, [Next]_vars
  PROVE  [Promise!Next]_Seeming
<1>1. CASE \/ \E p \in Phases \cap {"insert", "remove"} : Begin(p)
           \/ \E p \in Phases \cap Traversals : BeginTraversal(p)
           \/ End
  BY <1>1, PhaseMaps
<1>2. ASSUME NEW t \in Threads, InsertUp(t) \/ RemoveUp(t) PROVE [Promise!Next]_Seeming
  BY <1>2, CallMaps
<1>3. ASSUME NEW t \in Threads, NEW i \in Indices, InsertLeaf(t, i) \/ RemoveLeaf(t, i)
      PROVE  [Promise!Next]_Seeming
  BY <1>3, CallMaps
<1>4. ASSUME NEW t \in Threads, NEW i \in Indices, CallLeaf(t, i) PROVE [Promise!Next]_Seeming
  BY <1>4, CallLeafMaps
<1>5. ASSUME NEW task \in tasks, Visit(task) PROVE [Promise!Next]_Seeming
  BY <1>5, VisitMaps
<1>6. CASE UNCHANGED vars
  BY <1>6 DEF vars, Seeming, InRange
<1> QED BY <1>1, <1>2, <1>3, <1>4, <1>5, <1>6 DEF Next

(***************************************************************************)
(* The tree implements the set: what is inserted or removed is so at once, *)
(* and a traversal hands out each element in its range once, no other      *)
(* index, and takes out what it consumes.                                  *)
(***************************************************************************)
THEOREM TreeIsASet == Spec => ImplementsSet
<1>0. Geometry
  BY WordsAssumption
<1>1. Init => Sound /\ Promise!Init
  BY <1>0, InitSound, InitMaps
<1>2. Sound /\ [Next]_vars => Sound' /\ [Promise!Next]_(Promise!vars)
  <2> SUFFICES ASSUME Sound, [Next]_vars PROVE Sound' /\ [Promise!Next]_(Promise!vars)
    OBVIOUS
  <2>1. Promise!Next \/ UNCHANGED Seeming
    BY <1>0, StepMaps
  <2>2. UNCHANGED Seeming => UNCHANGED (Promise!vars)
    BY DEF Promise!vars, Seeming
  <2> QED BY <1>0, <2>1, <2>2, StepSound
<1> QED BY <1>1, <1>2, PTL DEF Spec, ImplementsSet, Promise!Spec

=============================================================================
