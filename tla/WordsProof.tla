----------------------------- MODULE WordsProof -----------------------------
(***************************************************************************)
(* Arithmetic of the words of Words.tla: the lemmas on positions, layers   *)
(* and least elements that the proofs about both toggle trees rest on.     *)
(***************************************************************************)
EXTENDS Words, WellFoundedInduction, TLAPS

-----------------------------------------------------------------------------
(* Arithmetic: what a position and a word are. *)

LEMMA Division ==
  ASSUME NEW a \in Nat, NEW m \in Nat \ {0}
  PROVE  /\ a \div m \in Nat
         /\ (a \div m) * m <= a /\ a < (a \div m) * m + m
         /\ \A q \in Nat : q * m <= a /\ a < q * m + m => a \div m = q
<1>1. a \div m \in Nat /\ (a \div m) * m <= a /\ a < (a \div m) * m + m
  BY Z3
<1>2. ASSUME NEW q \in Nat, q * m <= a, a < q * m + m PROVE a \div m = q
  BY <1>2, Z3
<1> QED BY <1>1, <1>2

LEMMA Products ==
  ASSUME NEW a \in Int, NEW b \in Int, NEW m \in Nat
  PROVE  /\ a * m \in Int /\ (a + b) * m = a * m + b * m /\ (a - b) * m = a * m - b * m
         /\ a <= b => a * m <= b * m
         /\ m # 0 /\ a * m < b * m => a < b
         /\ m # 0 /\ a < b => a * m < b * m
BY Z3

LEMMA Parameters ==
  ASSUME Geometry
  PROVE  /\ B \in Nat /\ B >= 2 /\ n \in Nat \ {0} /\ Layers \in Nat \ {0}
         /\ Top \in Nat /\ Layers = Top + 1 /\ Levels = 0..Top /\ Indices = 0..(n - 1)
         /\ n <= B ^ Layers
         /\ \A k \in 0..Layers : B ^ k \in Nat \ {0}
         /\ \A k \in Levels : /\ B ^ k \in Nat \ {0} /\ B ^ (k + 1) \in Nat \ {0}
                              /\ B ^ (k + 1) = B ^ k * B
                              /\ k \in 0..Layers /\ k + 1 \in 0..Layers
BY DEF Geometry, Top, Levels, Indices

LEMMA Positions ==
  ASSUME Geometry, NEW k \in Levels, NEW i \in Nat
  PROVE  /\ Pos(k, i) \in Nat
         /\ Pos(k, i) * B ^ k <= i /\ i < Pos(k, i) * B ^ k + B ^ k
         /\ word_id(Pos(k, i)) = Pos(k + 1, i)
<1> DEFINE m == B ^ k
           p == Pos(k, i)
           q == p \div B
<1>1. m \in Nat \ {0} /\ B \in Nat \ {0} /\ B ^ (k + 1) = m * B /\ m * B \in Nat \ {0}
  BY Parameters
<1> HIDE DEF m
<1>2. p \in Nat /\ p * m <= i /\ i < p * m + m
  BY <1>1, Division DEF Pos, m
<1> HIDE DEF p
<1>3. q \in Nat /\ q * B <= p /\ p < q * B + B
  BY <1>1, <1>2, Division
<1> HIDE DEF q
<1>4. (q * B) * m <= p * m /\ p + 1 <= q * B + B /\ (p + 1) * m <= (q * B + B) * m
  <2>1. q * B \in Nat /\ p + 1 <= q * B + B
    BY <1>1, <1>2, <1>3
  <2> QED BY <1>1, <1>2, <1>3, <2>1, Products
<1>5. q * (m * B) = (q * B) * m /\ (q * B + B) * m = q * (m * B) + m * B /\ (p + 1) * m = p * m + m
  BY <1>1, <1>2, <1>3, Z3
<1>6. q * (m * B) <= i /\ i < q * (m * B) + m * B
  <2> DEFINE x == q * (m * B)
             y == p * m
             z == m * B
  <2>1. x \in Int /\ y \in Int /\ z \in Int /\ m \in Int /\ i \in Int
    BY <1>1, <1>2, <1>3
  <2>2. x <= y /\ y + m <= x + z /\ y <= i /\ i < y + m
    BY <1>2, <1>4, <1>5
  <2> HIDE DEF x, y, z
  <2>3. x <= i /\ i < x + z
    BY <2>1, <2>2
  <2> QED BY <2>3 DEF x, z
<1>7. Pos(k + 1, i) = q
  BY <1>1, <1>3, <1>6, Division DEF Pos
<1> QED BY <1>2, <1>7 DEF p, q, m, word_id

LEMMA InWord ==
  ASSUME Geometry, NEW p \in Nat, NEW w \in Nat
  PROVE  p \in OfWord(w) <=> word_id(p) = w
<1>1. B \in Nat \ {0}
  BY Parameters
<1>2. w * B \in Nat /\ (w * B <= p /\ p < w * B + B => word_id(p) = w)
  BY <1>1, Division DEF word_id
<1>3. word_id(p) \in Nat /\ word_id(p) * B <= p /\ p < word_id(p) * B + B
  BY <1>1, Division DEF word_id
<1>4. p \in OfWord(w) <=> w * B <= p /\ p < w * B + B
  BY <1>1, <1>2 DEF OfWord
<1> QED BY <1>2, <1>3, <1>4

(* Layer k has a bit for every B ^ k indices. *)
LEMMA Lengths ==
  ASSUME Geometry, NEW k \in 0..Layers
  PROVE  /\ Length(k) \in Nat
         /\ \A p \in Nat : p \in 0..(Length(k) - 1) <=> p * B ^ k < n
<1> DEFINE m == B ^ k
           L == Length(k)
<1>1. m \in Nat \ {0} /\ n \in Nat \ {0}
  BY Parameters
<1> HIDE DEF m
<1>2. n + m - 1 \in Nat
  BY <1>1
<1>3. L \in Nat /\ L * m <= n + m - 1 /\ n + m - 1 < L * m + m
  BY <1>1, <1>2, Division DEF Length, m
<1> HIDE DEF L
<1>4. ASSUME NEW p \in Nat PROVE p < L <=> p * m < n
  <2>1. CASE p < L
    <3>1. (p + 1) * m <= L * m /\ (p + 1) * m = p * m + m
      BY <1>1, <1>3, <2>1, Z3
    <3>2. p * m \in Nat /\ L * m \in Nat
      BY <1>1, <1>3, Products
    <3> QED BY <1>1, <1>3, <2>1, <3>1, <3>2
  <2>2. CASE ~ p < L
    <3>1. L * m <= p * m
      BY <1>1, <1>3, <2>2, Z3
    <3>2. p * m \in Nat /\ L * m \in Nat
      BY <1>1, <1>3, Products
    <3> QED BY <1>1, <1>3, <2>2, <3>1, <3>2
  <2> QED BY <2>1, <2>2
<1> QED BY <1>3, <1>4 DEF L, m

LEMMA LengthsDiffer ==
  ASSUME Geometry
  PROVE  /\ \A k \in Levels : 0..(Length(k) - 1) \subseteq Indices
         /\ 0..(Length(0) - 1) = Indices
         /\ \A p \in Nat : p \in 0..(Length(Layers) - 1) <=> p = 0
<1>1. ASSUME NEW k \in Levels, NEW p \in 0..(Length(k) - 1) PROVE p \in Indices
  <2> DEFINE m == B ^ k
  <2>1. m \in Nat \ {0} /\ k \in 0..Layers /\ n \in Nat \ {0}
    BY Parameters
  <2>2. p \in Nat /\ p * m < n
    <3>1. p \in Nat
      BY <2>1, Lengths
    <3> QED BY <2>1, <3>1, Lengths
  <2> HIDE DEF m
  <2>3. p <= p * m /\ p * m \in Nat
    BY <2>1, <2>2, Z3
  <2> QED BY <2>1, <2>2, <2>3 DEF Indices
<1>2. ASSUME NEW p \in Indices PROVE p \in 0..(Length(0) - 1)
  <2>1. p \in Nat /\ p < n /\ B ^ 0 = 1 /\ 0 \in 0..Layers
    BY Parameters DEF Geometry
  <2>2. p * B ^ 0 < n
    BY <2>1, Parameters
  <2> QED BY <2>1, <2>2, Lengths
<1>3. ASSUME NEW p \in Nat PROVE p \in 0..(Length(Layers) - 1) <=> p = 0
  <2> DEFINE m == B ^ Layers
  <2>1. m \in Nat \ {0} /\ n \in Nat \ {0} /\ n <= m /\ Layers \in 0..Layers
    BY Parameters
  <2>2. p \in 0..(Length(Layers) - 1) <=> p * m < n
    BY <2>1, Lengths
  <2> HIDE DEF m
  <2>3. p # 0 => p * m >= m /\ p * m \in Nat
    BY <2>1, Z3
  <2>4. p = 0 => p * m = 0
    BY <2>1
  <2> QED BY <2>1, <2>2, <2>3, <2>4
<1>4. 0 \in Levels
  BY Parameters
<1> QED BY <1>1, <1>2, <1>3, <1>4

(* One layer up, and down again. *)
LEMMA WordsOfLayer ==
  ASSUME Geometry, NEW k \in Levels
  PROVE  /\ \A p \in 0..(Length(k) - 1) : word_id(p) \in 0..(Length(k + 1) - 1)
         /\ \A q \in 0..(Length(k + 1) - 1) :
              q * B \in 0..(Length(k) - 1) /\ word_id(q * B) = q
<1> DEFINE m == B ^ k
           z == B ^ (k + 1)
<1>1. /\ m \in Nat \ {0} /\ B \in Nat \ {0} /\ n \in Nat \ {0} /\ z = m * B
      /\ k \in 0..Layers /\ k + 1 \in 0..Layers
  BY Parameters
<1>2. /\ Length(k) \in Nat /\ \A p \in Nat : p \in 0..(Length(k) - 1) <=> p * m < n
      /\ Length(k + 1) \in Nat /\ \A p \in Nat : p \in 0..(Length(k + 1) - 1) <=> p * z < n
  BY <1>1, Lengths
<1> HIDE DEF m, z
<1>3. ASSUME NEW p \in 0..(Length(k) - 1) PROVE word_id(p) \in 0..(Length(k + 1) - 1)
  <2> DEFINE q == word_id(p)
  <2>1. p \in Nat /\ p * m < n
    BY <1>2
  <2>2. q \in Nat /\ q * B <= p
    BY <1>1, <2>1, Division DEF word_id
  <2> HIDE DEF q
  <2>3. (q * B) * m <= p * m /\ q * z = (q * B) * m
    BY <1>1, <2>1, <2>2, Z3
  <2>4. q * z \in Nat /\ p * m \in Nat
    BY <1>1, <2>1, <2>2, Z3
  <2>5. q * z < n
    BY <1>1, <2>1, <2>3, <2>4
  <2> QED BY <1>2, <2>2, <2>5 DEF q
<1>4. ASSUME NEW q \in 0..(Length(k + 1) - 1)
      PROVE  q * B \in 0..(Length(k) - 1) /\ word_id(q * B) = q
  <2>1. q \in Nat /\ q * z < n
    BY <1>2
  <2>2. (q * B) * m = q * z /\ q * B \in Nat
    BY <1>1, <2>1, Z3
  <2>3. q * B <= q * B /\ q * B < q * B + B
    BY <1>1, <2>2
  <2> QED BY <1>1, <1>2, <2>1, <2>2, <2>3, Division DEF word_id
<1> QED BY <1>3, <1>4

LEMMA PositionsInLayer ==
  ASSUME Geometry, NEW i \in Indices
  PROVE  /\ Pos(0, i) = i /\ Pos(Layers, i) = 0 /\ i \in Nat
         /\ \A k \in 0..Layers : Pos(k, i) \in 0..(Length(k) - 1)
         /\ \A k \in Levels : /\ Pos(k, i) \in Indices /\ Pos(k, i) \in 0..(Length(k) - 1)
                              /\ word_id(Pos(k, i)) = Pos(k + 1, i)
<1>1. i \in Nat /\ i < n
  BY Parameters
<1>2. ASSUME NEW k \in 0..Layers PROVE Pos(k, i) \in 0..(Length(k) - 1)
  <2> DEFINE m == B ^ k
  <2>1. m \in Nat \ {0}
    BY Parameters
  <2>2. Pos(k, i) \in Nat /\ Pos(k, i) * m <= i
    BY <1>1, <2>1, Division DEF Pos
  <2>3. Pos(k, i) * m < n
    <3> HIDE DEF m
    <3>1. Pos(k, i) * m \in Nat /\ n \in Nat
      BY <2>1, <2>2, Parameters
    <3> QED BY <1>1, <2>2, <3>1
  <2> QED BY <2>2, <2>3, Lengths
<1>3. Pos(0, i) = i
  <2>1. B ^ 0 = 1
    BY DEF Geometry
  <2> QED BY <1>1, <2>1 DEF Pos
<1>4. Pos(Layers, i) = 0
  <2>1. Layers \in 0..Layers
    BY Parameters
  <2>2. Pos(Layers, i) \in 0..(Length(Layers) - 1) /\ Length(Layers) \in Nat
    BY <1>2, <2>1, Lengths
  <2>3. Pos(Layers, i) \in Nat
    BY <2>2
  <2> QED BY <2>2, <2>3, LengthsDiffer
<1>5. ASSUME NEW k \in Levels
      PROVE  /\ Pos(k, i) \in Indices /\ Pos(k, i) \in 0..(Length(k) - 1)
             /\ word_id(Pos(k, i)) = Pos(k + 1, i)
  BY <1>1, <1>2, Parameters, Positions, LengthsDiffer
<1> QED BY <1>1, <1>2, <1>3, <1>4, <1>5

-----------------------------------------------------------------------------
(* First: the least element of a set of numbers. *)

LEMMA FirstIsLeast ==
  ASSUME NEW S \in SUBSET Nat, S # {}
  PROVE  /\ First(S) \in S /\ First(S) \in Nat
         /\ \A q \in S : First(S) <= q
<1>1. \E m \in S : \A d \in S : ~ <<d, m>> \in OpToRel(<, Nat)
  BY WFMin, NatLessThanWellFounded, Zenon
<1>2. PICK m \in S : \A d \in S : ~ <<d, m>> \in OpToRel(<, Nat)
  BY <1>1
<1>3. \A d \in S : m <= d
  <2>1. \A d \in S : ~ d < m
    BY <1>2 DEF OpToRel
  <2> QED BY <2>1
<1>4. First(S) \in S /\ \A q \in S : First(S) <= q
  BY <1>3, Zenon DEF First
<1> QED BY <1>4

LEMMA FirstWhenLeast ==
  ASSUME NEW S \in SUBSET Nat, NEW m \in S, \A q \in S : m <= q
  PROVE  First(S) = m
<1>1. First(S) \in S /\ First(S) \in Nat /\ \A q \in S : First(S) <= q
  BY FirstIsLeast
<1>2. First(S) <= m /\ m <= First(S) /\ m \in Nat
  BY <1>1
<1> QED BY <1>1, <1>2

(* A bit that is added where it was 0 changes no other. *)
LEMMA AddNoCarry ==
  ASSUME Geometry, NEW S, NEW p \in Nat, p \notin S
  PROVE  AddBit(S, p) = S \cup {p}
<1> DEFINE up == Upwards(p)
           zeros == up \ S
<1>1. p \in up /\ \A q \in up : q \in Nat /\ p <= q
  <2> B \in Nat \ {0}
    BY Parameters
  <2>1. word_id(p) \in Nat /\ word_id(p) * B <= p /\ p < word_id(p) * B + B
    BY Division DEF word_id
  <2>2. word_id(p) * B \in Nat
    BY <2>1
  <2> QED BY <2>1, <2>2 DEF Upwards
<1> HIDE DEF up
<1>2. p \in zeros /\ zeros \in SUBSET Nat /\ \A q \in zeros : p <= q
  BY <1>1
<1>3. First(zeros) = p
  <2> HIDE DEF zeros
  <2> QED BY <1>2, FirstWhenLeast
<1>4. AddBit(S, p) = (S \ (p..First(zeros))) \cup {First(zeros)}
  BY <1>2 DEF AddBit, up
<1> HIDE DEF zeros
<1>5. p..p = {p}
  OBVIOUS
<1> QED BY <1>2, <1>3, <1>4, <1>5

-----------------------------------------------------------------------------
(* Going up. *)

(* The nodes of a layer are the positions of the next. *)
LEMMA WordsAreNodes ==
  ASSUME Geometry, NEW k \in Levels
  PROVE  /\ NumWords(k) = Length(k + 1) /\ NumWords(k) \in Nat
         /\ \A p \in 0..(Length(k) - 1) : p \in Nat /\ word_id(p) \in 0..(NumWords(k) - 1)
<1> DEFINE L == Length(k)
           M == Length(k + 1)
           W == NumWords(k)
<1>1. B \in Nat \ {0} /\ k \in 0..Layers /\ k + 1 \in 0..Layers
  BY Parameters
<1>2. L \in Nat /\ M \in Nat
  BY <1>1, Lengths
<1>3. /\ \A p \in 0..(L - 1) : word_id(p) \in 0..(M - 1)
      /\ \A q \in 0..(M - 1) : q * B \in 0..(L - 1) /\ word_id(q * B) = q
  BY WordsOfLayer
<1> HIDE DEF L, M
<1>4. L + B - 1 \in Nat
  BY <1>1, <1>2
<1>5. W \in Nat /\ W * B <= L + B - 1 /\ L + B - 1 < W * B + B
  BY <1>1, <1>4, Division DEF NumWords, L
<1> HIDE DEF W
<1>6. \A q \in Nat : q < M <=> q * B < L
  <2>1. ASSUME NEW q \in Nat, q < M PROVE q * B < L
    <3>1. q \in 0..(M - 1)
      BY <1>2, <2>1
    <3> QED BY <1>2, <1>3, <3>1
  <2>2. ASSUME NEW q \in Nat, q * B < L PROVE q < M
    <3>1. q * B \in Nat /\ q * B <= q * B /\ q * B < q * B + B
      BY <1>1
    <3>2. q * B \in 0..(L - 1)
      BY <1>2, <2>2, <3>1
    <3>3. word_id(q * B) = q
      BY <1>1, <3>1, Division DEF word_id
    <3> QED BY <1>2, <1>3, <3>2, <3>3
  <2> QED BY <2>1, <2>2
<1>7. \A q \in Nat : q < W <=> q * B < L
  <2>1. ASSUME NEW q \in Nat, q < W PROVE q * B < L
    <3>1. (q + 1) * B <= W * B /\ (q + 1) * B = q * B + B
      BY <1>1, <1>5, <2>1, Z3
    <3>2. q * B \in Nat /\ W * B \in Nat
      BY <1>1, <1>5, Products
    <3> QED BY <1>1, <1>2, <1>5, <3>1, <3>2
  <2>2. ASSUME NEW q \in Nat, ~ q < W PROVE ~ q * B < L
    <3>1. W * B <= q * B
      BY <1>1, <1>5, <2>2, Products
    <3>2. q * B \in Nat /\ W * B \in Nat
      BY <1>1, <1>5, Products
    <3> QED BY <1>1, <1>2, <1>5, <3>1, <3>2
  <2> QED BY <2>1, <2>2
<1>8. W = M
  <2>1. \A q \in Nat : q < W <=> q < M
    BY <1>6, <1>7
  <2>2. (W < W <=> W < M) /\ (M < W <=> M < M)
    BY <1>2, <1>5, <2>1, Zenon
  <2> QED BY <1>2, <1>5, <2>2
<1> QED BY <1>2, <1>3, <1>8 DEF L, M, W

(* Up the tree the order of positions is kept, and who met stays together. *)
LEMMA UpKeepsOrder ==
  ASSUME Geometry, NEW p \in Nat, NEW q \in Nat
  PROVE  /\ p <= q => word_id(p) <= word_id(q)
         /\ word_id(p) < word_id(q) => p < q
         /\ word_id(p) \in Nat
<1>1. B \in Nat \ {0}
  BY Parameters
<1> DEFINE x == word_id(p)
           y == word_id(q)
<1>2. /\ x \in Nat /\ x * B <= p /\ p < x * B + B
      /\ y \in Nat /\ y * B <= q /\ q < y * B + B
  BY <1>1, Division DEF word_id
<1> HIDE DEF x, y
<1>3. x * B \in Nat /\ y * B \in Nat
  BY <1>1, <1>2, Products
<1>4. y < x => q < p
  <2> SUFFICES ASSUME y < x PROVE q < p
    OBVIOUS
  <2>1. (y + 1) * B <= x * B /\ (y + 1) * B = y * B + B
    BY <1>1, <1>2, Z3
  <2> QED BY <1>1, <1>2, <1>3, <2>1
<1>5. x < y => p < q
  <2> SUFFICES ASSUME x < y PROVE p < q
    OBVIOUS
  <2>1. (x + 1) * B <= y * B /\ (x + 1) * B = x * B + B
    BY <1>1, <1>2, Z3
  <2> QED BY <1>1, <1>2, <1>3, <2>1
<1> QED BY <1>2, <1>4, <1>5 DEF x, y

LEMMA TogetherAbove ==
  ASSUME Geometry, NEW i \in Indices, NEW j \in Indices, word_id(i) = word_id(j)
  PROVE  \A k \in Levels : Pos(k + 1, i) = Pos(k + 1, j)
<1> DEFINE apart == {k \in Levels : Pos(k + 1, i) # Pos(k + 1, j)}
<1>1. SUFFICES ASSUME apart # {} PROVE FALSE
  OBVIOUS
<1>2. apart \in SUBSET Nat /\ Levels = 0..Top /\ Top \in Nat
  BY Parameters
<1>3. PICK k \in apart : \A m \in apart : k <= m
  BY <1>1, <1>2, FirstIsLeast
<1>4. \A m \in Levels : /\ word_id(Pos(m, i)) = Pos(m + 1, i)
                        /\ word_id(Pos(m, j)) = Pos(m + 1, j)
  BY PositionsInLayer
<1>5. Pos(0, i) = i /\ Pos(0, j) = j
  BY PositionsInLayer
<1>6. CASE k = 0
  BY <1>2, <1>3, <1>4, <1>5, <1>6
<1>7. CASE k # 0
  <2>1. k - 1 \in Levels /\ ~ k <= k - 1 /\ k - 1 + 1 = k /\ k \in Levels
    BY <1>2, <1>3, <1>7
  <2>2. k - 1 \notin apart
    BY <1>3, <2>1
  <2>3. Pos(k, i) = Pos(k, j)
    BY <2>1, <2>2
  <2>4. Pos(k + 1, i) = Pos(k + 1, j)
    BY <1>4, <2>1, <2>3
  <2> QED BY <1>3, <2>4
<1> QED BY <1>6, <1>7

(* Two functions on the layers that agree at one end and pass that on from *)
(* layer to layer are the same.                                            *)
LEMMA UpFromLeaves ==
  ASSUME Geometry, NEW f, NEW g, f[0] = g[0],
         \A k \in Levels : k # 0 /\ f[k - 1] = g[k - 1] => f[k] = g[k]
  PROVE  \A k \in Levels : f[k] = g[k]
<1> DEFINE apart == {k \in Levels : f[k] # g[k]}
<1>1. SUFFICES ASSUME apart # {} PROVE FALSE
  OBVIOUS
<1>2. apart \in SUBSET Nat /\ Levels = 0..Top /\ Top \in Nat
  BY Parameters
<1>3. PICK k \in apart : \A m \in apart : k <= m
  BY <1>1, <1>2, FirstIsLeast
<1>4. k - 1 \in Levels /\ ~ k <= k - 1 /\ k # 0
  BY <1>2, <1>3
<1>5. f[k - 1] = g[k - 1]
  BY <1>3, <1>4
<1> QED BY <1>3, <1>4, <1>5

LEMMA DownFromTop ==
  ASSUME Geometry, NEW f, NEW g, f[Top] = g[Top],
         \A k \in Levels : k # Top /\ f[k + 1] = g[k + 1] => f[k] = g[k]
  PROVE  \A k \in Levels : f[k] = g[k]
<1> DEFINE apart == {m \in Levels : f[Top - m] # g[Top - m]}
<1>1. Levels = 0..Top /\ Top \in Nat /\ apart \in SUBSET Nat
  BY Parameters
<1>2. apart = {}
  <2> SUFFICES ASSUME apart # {} PROVE FALSE
    OBVIOUS
  <2>1. PICK m \in apart : \A j \in apart : m <= j
    BY <1>1, FirstIsLeast
  <2>2. m # 0 /\ m - 1 \in Levels /\ ~ m <= m - 1 /\ Top - m \in Levels /\ Top - m # Top
    BY <1>1, <2>1
  <2>3. Top - (m - 1) = Top - m + 1
    BY <1>1, <2>1
  <2>4. f[Top - m + 1] = g[Top - m + 1]
    BY <2>1, <2>2, <2>3
  <2> QED BY <2>1, <2>2, <2>4
<1>3. ASSUME NEW k \in Levels PROVE f[k] = g[k]
  <2>1. Top - k \in Levels /\ Top - (Top - k) = k
    BY <1>1
  <2> QED BY <1>2, <2>1
<1> QED BY <1>3

(* Every position of a layer has an index below it. *)
LEMMA SomeBelow ==
  ASSUME Geometry, NEW k \in 0..Layers, NEW p \in 0..(Length(k) - 1)
  PROVE  \E i \in Indices : Pos(k, i) = p
<1> DEFINE m == B ^ k
           i == p * m
<1>1. m \in Nat \ {0} /\ n \in Nat \ {0} /\ Indices = 0..(n - 1)
  BY Parameters
<1>2. p \in Nat /\ p * m < n
  BY Lengths
<1> HIDE DEF m
<1>3. i \in Nat
  BY <1>1, <1>2
<1>4. i \in Indices
  BY <1>1, <1>2, <1>3
<1>5. p * m <= i /\ i < p * m + m
  BY <1>1, <1>3
<1> HIDE DEF i
<1>6. i \div m = p
  BY <1>1, <1>2, <1>3, <1>5, Division
<1> QED BY <1>4, <1>6 DEF Pos, m

=============================================================================
