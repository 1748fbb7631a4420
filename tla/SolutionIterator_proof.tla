----------------------- MODULE SolutionIterator_proof -----------------------
(***************************************************************************)
(* The bitset iterator implements SolutionPool, for any number of input    *)
(* descriptors and any logics: counting upwards, the jump over candidates  *)
(* with excluded descriptors and the squeezing of their bits neither lose  *)
(* nor repeat a solution.                                                  *)
(*                                                                         *)
(* Induction is the well-foundedness of < on Nat: a nonempty set of        *)
(* numbers has a least one.                                                *)
(***************************************************************************)
EXTENDS SolutionIterator, FiniteSetTheorems, WellFoundedInduction, TLAPS

-----------------------------------------------------------------------------
(* Numbers.                                                                *)

LEMMA LeastNumber ==
  ASSUME NEW S, S \subseteq Nat, S # {}
  PROVE  \E n \in S : \A m \in S : n <= m
<1> DEFINE R == OpToRel(<, Nat)
<1>1. IsWellFoundedOn(R, Nat)
  BY NatLessThanWellFounded
<1>2. \A x, y \in Nat : <<x, y>> \in R <=> x < y
  BY DEF OpToRel
<1> HIDE DEF R
<1>3. PICK n \in S : \A m \in S : <<m, n>> \notin R
  BY <1>1, WFMin
<1>4. ASSUME NEW m \in S PROVE n <= m
  <2>1. m \in Nat /\ n \in Nat
    OBVIOUS
  <2>2. ~(m < n)
    BY <1>2, <1>3, <2>1
  <2> QED BY <2>1, <2>2
<1> QED BY <1>4

(* Induction up to b, over a set of numbers.                               *)
LEMMA UpTo ==
  ASSUME NEW b \in Nat, NEW S, 0 \in S, \A i \in 0..b : i # b /\ i \in S => i + 1 \in S
  PROVE  0..b \subseteq S
<1> DEFINE T == (0..b) \ S
<1> SUFFICES ASSUME T # {} PROVE FALSE
  OBVIOUS
<1>1. T \subseteq Nat
  OBVIOUS
<1>2. PICK t \in T : \A u \in T : t <= u
  <2> HIDE DEF T
  <2> QED BY <1>1, LeastNumber
<1>3. t \in 1..b /\ t - 1 \in 0..b /\ t - 1 # b
  OBVIOUS
<1>4. t - 1 \notin T
  BY <1>2, <1>3
<1>5. t - 1 + 1 \in S /\ t - 1 + 1 = t
  BY <1>3, <1>4
<1> QED BY <1>5

LEMMA GreatestNumber ==
  ASSUME NEW S, NEW b \in Nat, S \subseteq 0..b, S # {}
  PROVE  \E n \in S : \A m \in S : m <= n
<1> DEFINE T == {b - s : s \in S}
<1>1. \A s \in S : b - s \in Nat
  OBVIOUS
<1>2. T \subseteq Nat /\ T # {}
  BY <1>1
<1>3. PICK t \in T : \A u \in T : t <= u
  <2> HIDE DEF T
  <2> QED BY <1>2, LeastNumber
<1>4. PICK n \in S : t = b - n
  OBVIOUS
<1>5. ASSUME NEW m \in S PROVE m <= n
  <2>1. t <= b - m
    BY <1>3
  <2>2. m \in 0..b /\ n \in 0..b
    OBVIOUS
  <2> QED BY <1>4, <2>1, <2>2
<1> QED BY <1>5

-----------------------------------------------------------------------------
(* Below is a strict total order of the bitsets.                           *)

LEMMA BelowIrreflexive == \A a : ~Below(a, a)
BY DEF Below

LEMMA BelowTransitive ==
  ASSUME NEW a, NEW b, NEW c, a \subseteq Nat, b \subseteq Nat, c \subseteq Nat,
         Below(a, b), Below(b, c)
  PROVE  Below(a, c)
<1>1. PICK i \in b \ a : \A h \in a \union b : h > i => h \in a /\ h \in b
  BY DEF Below
<1>2. PICK j \in c \ b : \A h \in b \union c : h > j => h \in b /\ h \in c
  BY DEF Below
<1>3. i \in Nat /\ j \in Nat /\ i # j
  OBVIOUS
<1>4. CASE i < j
  <2>1. j \in c \ a
    BY <1>1, <1>2, <1>3, <1>4
  <2>2. \A h \in a \union c : h > j => h \in a /\ h \in c
    BY <1>1, <1>2, <1>3, <1>4
  <2> QED BY <2>1, <2>2 DEF Below
<1>5. CASE j < i
  <2>1. i \in c \ a
    BY <1>1, <1>2, <1>3, <1>5
  <2>2. \A h \in a \union c : h > i => h \in a /\ h \in c
    BY <1>1, <1>2, <1>3, <1>5
  <2> QED BY <2>1, <2>2 DEF Below
<1> QED BY <1>3, <1>4, <1>5

LEMMA BelowTotal ==
  ASSUME NEW m \in Nat, NEW a \in SUBSET (0..m), NEW b \in SUBSET (0..m), a # b
  PROVE  Below(a, b) \/ Below(b, a)
<1> DEFINE D == (a \ b) \union (b \ a)
<1>1. D \subseteq 0..m /\ D # {}
  OBVIOUS
<1>2. PICK j \in D : \A i \in D : i <= j
  <2> HIDE DEF D
  <2> QED BY <1>1, GreatestNumber
<1>3. \A h \in a \union b : h > j => h \in a /\ h \in b
  <2> SUFFICES ASSUME NEW h \in a \union b, h > j, h \in D PROVE FALSE
    OBVIOUS
  <2>1. h <= j /\ h \in Nat /\ j \in Nat
    BY <1>1, <1>2
  <2> QED BY <2>1
<1> QED BY <1>2, <1>3 DEF Below

(* The sets of bitsets below a bitset grow with it.                        *)
LEMMA Weights ==
  ASSUME NEW m \in Nat
  PROVE  LET w(x) == Cardinality({y \in SUBSET (0..m) : Below(y, x)})
         IN  /\ \A x \in SUBSET (0..m) : w(x) \in 0..Cardinality(SUBSET (0..m))
             /\ Cardinality(SUBSET (0..m)) \in Nat
             /\ \A x, y \in SUBSET (0..m) : Below(x, y) => w(x) < w(y)
<1> DEFINE B == SUBSET (0..m)
           L(x) == {y \in B : Below(y, x)}
<1>1. IsFiniteSet(B) /\ Cardinality(B) \in Nat
  <2>1. IsFiniteSet(0..m)
    BY FS_Interval
  <2>2. IsFiniteSet(B)
    BY <2>1, FS_SUBSET
  <2> QED BY <2>2, FS_CardinalityType
<1>2. \A x \in B : IsFiniteSet(L(x)) /\ Cardinality(L(x)) \in 0..Cardinality(B)
  <2> SUFFICES ASSUME NEW x \in B PROVE IsFiniteSet(L(x)) /\ Cardinality(L(x)) \in 0..Cardinality(B)
    OBVIOUS
  <2>1. L(x) \in SUBSET B
    OBVIOUS
  <2> HIDE DEF B, L
  <2>2. IsFiniteSet(L(x)) /\ Cardinality(L(x)) <= Cardinality(B)
    BY <1>1, <2>1, FS_Subset
  <2>3. Cardinality(L(x)) \in Nat
    BY <2>2, FS_CardinalityType
  <2> QED BY <1>1, <2>2, <2>3
<1>3. ASSUME NEW x \in B, NEW y \in B, Below(x, y) PROVE Cardinality(L(x)) < Cardinality(L(y))
  <2>1. L(x) \subseteq L(y)
    <3> SUFFICES ASSUME NEW z \in L(x) PROVE z \in L(y)
      OBVIOUS
    <3>1. z \subseteq Nat /\ x \subseteq Nat /\ y \subseteq Nat /\ Below(z, x)
      OBVIOUS
    <3> QED BY <1>3, <3>1, BelowTransitive
  <2>2. x \in L(y) /\ x \notin L(x)
    BY <1>3, BelowIrreflexive
  <2>3. L(x) \in SUBSET L(y) /\ L(x) # L(y)
    BY <2>1, <2>2
  <2>4. IsFiniteSet(L(y)) /\ Cardinality(L(x)) \in Nat /\ Cardinality(L(y)) \in Nat
    <3> HIDE DEF L
    <3> QED BY <1>1, <1>2
  <2> HIDE DEF B, L
  <2>5. Cardinality(L(x)) <= Cardinality(L(y)) /\ Cardinality(L(x)) # Cardinality(L(y))
    BY <2>3, <2>4, FS_Subset
  <2> QED BY <2>4, <2>5
<1> QED BY <1>1, <1>2, <1>3

LEMMA LeastBitset ==
  ASSUME NEW m \in Nat, NEW T, T \subseteq SUBSET (0..m), T # {}
  PROVE  \E x \in T : \A y \in T : y = x \/ Below(x, y)
<1> DEFINE w(x) == Cardinality({y \in SUBSET (0..m) : Below(y, x)})
           W == {w(x) : x \in T}
<1>1. \A x \in T : w(x) \in Nat
  <2>1. /\ Cardinality(SUBSET (0..m)) \in Nat
        /\ \A x \in SUBSET (0..m) : w(x) \in 0..Cardinality(SUBSET (0..m))
    BY Weights
  <2> HIDE DEF w
  <2> QED BY <2>1
<1>2. \A x, y \in T : Below(x, y) => w(x) < w(y)
  BY Weights
<1> HIDE DEF w
<1>3. W \subseteq Nat /\ W # {}
  BY <1>1
<1>4. PICK n \in W : \A i \in W : n <= i
  <2> HIDE DEF W
  <2> QED BY <1>3, LeastNumber
<1>5. PICK x \in T : n = w(x)
  OBVIOUS
<1>6. ASSUME NEW y \in T PROVE y = x \/ Below(x, y)
  <2>1. w(x) <= w(y)
    BY <1>4, <1>5
  <2>2. ~Below(y, x)
    BY <1>1, <1>2, <2>1
  <2> QED BY <2>2, BelowTotal
<1> QED BY <1>6

LEMMA GreatestBitset ==
  ASSUME NEW m \in Nat, NEW T, T \subseteq SUBSET (0..m), T # {}
  PROVE  \E x \in T : \A y \in T : y = x \/ Below(y, x)
<1> DEFINE w(x) == Cardinality({y \in SUBSET (0..m) : Below(y, x)})
           W == {w(x) : x \in T}
           top == Cardinality(SUBSET (0..m))
<1>1. top \in Nat /\ \A x \in T : w(x) \in 0..top
  BY Weights
<1>2. \A x, y \in T : Below(x, y) => w(x) < w(y)
  BY Weights
<1> HIDE DEF w, top
<1>3. W \subseteq 0..top /\ W # {}
  BY <1>1
<1>4. PICK n \in W : \A i \in W : i <= n
  <2> HIDE DEF W
  <2> QED BY <1>1, <1>3, GreatestNumber
<1>5. PICK x \in T : n = w(x)
  OBVIOUS
<1>6. ASSUME NEW y \in T PROVE y = x \/ Below(y, x)
  <2>1. w(y) <= w(x)
    BY <1>4, <1>5
  <2>2. ~Below(x, y)
    BY <1>1, <1>2, <2>1
  <2> QED BY <2>2, BelowTotal
<1> QED BY <1>6

-----------------------------------------------------------------------------
(* The arithmetic of the bitset.                                           *)

(* The bits from k to z cleared but for z.                                 *)
Carried(b, k, z) == (b \ (k..z)) \union {z}

(* AddBit carries to the first clear bit z from k on.                      *)
LEMMA AddBitCarries ==
  ASSUME NEW n \in Nat, NEW b \in SUBSET (0..(n - 1)), NEW k \in 0..n
  PROVE  \E z \in k..n : /\ z \notin b
                         /\ \A j \in k..(z - 1) : j \in b
                         /\ AddBit(b, k) = Carried(b, k, z)
<1> DEFINE C == {i \in k..n : i \notin b}
           Z(i) == i \notin b /\ \A j \in k..(i - 1) : j \in b
<1>1. C \subseteq Nat /\ C # {}
  <2>1. n \in C
    OBVIOUS
  <2> QED BY <2>1
<1>2. PICK z \in C : \A i \in C : z <= i
  <2> HIDE DEF C
  <2> QED BY <1>1, LeastNumber
<1>3. z \in k..n /\ Z(z)
  <2>1. ASSUME NEW j \in k..(z - 1) PROVE j \in b
    <3>1. j \notin C
      BY <1>2
    <3> QED BY <3>1
  <2> QED BY <2>1
<1>4. z \in k..(k + Cardinality(b))
  <2>1. IsFiniteSet(0..(n - 1)) /\ b \in SUBSET (0..(n - 1))
    BY FS_Interval
  <2>2. IsFiniteSet(b)
    BY <2>1, FS_Subset
  <2>3. k..(z - 1) \in SUBSET b
    BY <1>3
  <2>4. Cardinality(k..(z - 1)) <= Cardinality(b)
    BY <2>2, <2>3, FS_Subset
  <2>5. Cardinality(k..(z - 1)) = z - k
    <3>1. k \in Int /\ z - 1 \in Int /\ k <= z
      BY <1>3
    <3>2. Cardinality(k..(z - 1)) = IF k > z - 1 THEN 0 ELSE z - 1 - k + 1
      BY <3>1, FS_Interval
    <3> QED BY <3>1, <3>2
  <2>6. Cardinality(b) \in Nat
    BY <2>2, FS_CardinalityType
  <2> QED BY <1>3, <2>4, <2>5, <2>6
<1>5. \A i \in k..(k + Cardinality(b)) : Z(i) => i = z
  <2> SUFFICES ASSUME NEW i \in k..(k + Cardinality(b)), Z(i) PROVE i = z
    OBVIOUS
  <2>1. i \in Int /\ z \in Int /\ k <= i /\ k <= z
    BY <1>3
  <2>2. ~(i < z) /\ ~(z < i)
    BY <1>3, <2>1
  <2> QED BY <2>1, <2>2
<1>6. z = CHOOSE i \in k..(k + Cardinality(b)) : Z(i)
  <2> HIDE DEF Z
  <2> QED BY <1>3, <1>4, <1>5
<1>7. AddBit(b, k) = Carried(b, k, z)
  BY <1>6 DEF AddBit, Carried
<1> QED BY <1>3, <1>7

(* The bitset reached from b by clearing the bits below k and adding 2^k.  *)
Jump(b, k) == AddBit(ClearBelow(b, k), k)

(* Nothing but candidates that hold k lies between b and the bitset the    *)
(* jump reaches, and without bits to clear (k = 0) nothing at all.         *)
LEMMA JumpIsNext ==
  ASSUME NEW n \in Nat, NEW b \in SUBSET (0..(n - 1)), NEW k \in 0..n,
         NEW y \in SUBSET (0..(n - 1)), k = 0 \/ (k \in b /\ k \notin y)
  PROVE  /\ Jump(b, k) \in SUBSET (k..n)
         /\ k \in b => k \notin Jump(b, k)
         /\ n \in Jump(b, k) => Jump(b, k) = {n}
         /\ Jump(b, k) # {}
         /\ Below(b, y) <=> y = Jump(b, k) \/ Below(Jump(b, k), y)
<1> DEFINE t == Jump(b, k)
<1>0. t = AddBit(ClearBelow(b, k), k)
  BY DEF Jump
<1> HIDE DEF t
<1>1. PICK z \in k..n : /\ z \notin ClearBelow(b, k)
                        /\ \A j \in k..(z - 1) : j \in ClearBelow(b, k)
                        /\ t = Carried(ClearBelow(b, k), k, z)
  <2> DEFINE c == ClearBelow(b, k)
  <2>1. c \in SUBSET (0..(n - 1))
    BY DEF ClearBelow
  <2> HIDE DEF c
  <2>2. \E z \in k..n : /\ z \notin c
                        /\ \A j \in k..(z - 1) : j \in c
                        /\ AddBit(c, k) = Carried(c, k, z)
    BY <2>1, AddBitCarries
  <2> QED BY <1>0, <2>2 DEF c
<1>2. z \notin b /\ \A j \in k..(z - 1) : j \in b
  BY <1>1 DEF ClearBelow
<1>3. t = {i \in b : i > z} \union {z}
  <2>1. \A i \in b : i \in ClearBelow(b, k) \ (k..z) <=> i > z
    BY DEF ClearBelow
  <2>2. ClearBelow(b, k) \subseteq b
    BY DEF ClearBelow
  <2>3. ClearBelow(b, k) \ (k..z) = {i \in b : i > z}
    BY <2>1, <2>2
  <2> QED BY <1>1, <2>3 DEF Carried
<1>4. t \in SUBSET (k..n) /\ (k \in b => k \notin t) /\ (n \in t => t = {n}) /\ t # {}
  <2>1. \A i \in b : i \in Nat /\ i < n
    OBVIOUS
  <2>2. t \in SUBSET (k..n)
    <3> SUFFICES ASSUME NEW i \in t PROVE i \in k..n
      OBVIOUS
    <3>1. i = z \/ (i \in b /\ i > z)
      BY <1>3
    <3>2. i \in Nat /\ i <= n /\ k \in Nat /\ k <= i
      <4>1. k \in Nat /\ z \in Nat /\ k <= z /\ z <= n
        OBVIOUS
      <4>2. CASE i = z
        BY <4>1, <4>2
      <4>3. CASE i \in b /\ i > z
        <5>1. i \in Nat /\ i < n
          BY <2>1, <4>3
        <5> QED BY <4>1, <4>3, <5>1
      <4> QED BY <3>1, <4>2, <4>3
    <3> QED BY <3>2
  <2>3. k \in b => k \notin t
    BY <1>2, <1>3
  <2>4. ASSUME n \in t PROVE t = {n}
    <3>1. z = n
      BY <1>3, <2>1, <2>4
    <3>2. \A i \in b : ~(i > z)
      <4> SUFFICES ASSUME NEW i \in b, i > z PROVE FALSE
        OBVIOUS
      <4>1. i \in Nat /\ i < n
        BY <2>1
      <4> QED BY <3>1, <4>1
    <3> QED BY <1>3, <3>1, <3>2
  <2> QED BY <1>3, <2>2, <2>3, <2>4
<1>5. Below(b, t)
  <2>1. z \in t \ b
    BY <1>2, <1>3
  <2>2. \A i \in b \union t : i > z => i \in b /\ i \in t
    BY <1>3
  <2> QED BY <2>1, <2>2 DEF Below
<1>6. ASSUME y = t \/ Below(t, y) PROVE Below(b, y)
  <2>1. CASE y = t
    BY <1>5, <2>1
  <2>2. CASE Below(t, y)
    <3>1. b \subseteq Nat /\ t \subseteq Nat /\ y \subseteq Nat
      BY <1>4
    <3> QED BY <1>5, <2>2, <3>1, BelowTransitive
  <2> QED BY <1>6, <2>1, <2>2
<1>7. ASSUME Below(b, y) PROVE y = t \/ Below(t, y)
  <2>1. PICK j \in y \ b : \A i \in b \union y : i > j => i \in b /\ i \in y
    BY <1>7 DEF Below
  <2>2. j >= z
    <3>1. ~(j < k)
      BY <2>1
    <3>2. j \notin k..(z - 1)
      BY <1>2, <2>1
    <3> QED BY <3>1, <3>2
  <2>3. CASE j = z
    <3>1. t \subseteq y
      BY <1>3, <2>1, <2>3
    <3>2. ~Below(y, t)
      BY <3>1 DEF Below
    <3>3. y \in SUBSET (0..n) /\ t \in SUBSET (0..n)
      BY <1>4
    <3> QED BY <3>2, <3>3, BelowTotal
  <2>4. CASE j > z
    <3>1. j \in y \ t
      BY <1>3, <2>1, <2>4
    <3>2. \A i \in t \union y : i > j => i \in t /\ i \in y
      BY <1>3, <2>1, <2>4
    <3> QED BY <3>1, <3>2 DEF Below
  <2> QED BY <1>1, <2>1, <2>2, <2>3, <2>4
<1> QED BY <1>4, <1>6, <1>7 DEF t

-----------------------------------------------------------------------------
(* Bitsets and the candidates they stand for.                              *)

Increasing(ds) == \A i, j \in 1..Len(ds) : i < j => ds[i] < ds[j]

Bitsets(ds) == SUBSET (0..(Len(ds) - 1))

(* The bitset of a candidate.                                              *)
Bits(c, ds) == {i \in 0..(Len(ds) - 1) : ds[i + 1] \in c}

LEMMA Elements ==
  ASSUME NEW ds \in Seq(Nat), Increasing(ds)
  PROVE  /\ Len(ds) \in Nat
         /\ \A i \in 0..(Len(ds) - 1) : ds[i + 1] \in Nat /\ ds[i + 1] \in Members(ds)
         /\ \A d \in Members(ds) : d \in Nat /\ \E i \in 0..(Len(ds) - 1) : d = ds[i + 1]
         /\ \A i, j \in 0..(Len(ds) - 1) : ds[i + 1] = ds[j + 1] => i = j
         /\ \A i, j \in 0..(Len(ds) - 1) : i < j <=> ds[i + 1] < ds[j + 1]
<1>1. Len(ds) \in Nat /\ DOMAIN ds = 1..Len(ds)
  OBVIOUS
<1>2. \A i \in 0..(Len(ds) - 1) : i + 1 \in 1..Len(ds)
  BY <1>1
<1>3. \A i \in 0..(Len(ds) - 1) : ds[i + 1] \in Nat /\ ds[i + 1] \in Members(ds)
  BY <1>1, <1>2 DEF Members
<1>4. \A i, j \in 0..(Len(ds) - 1) : i < j => ds[i + 1] < ds[j + 1]
  BY <1>1, <1>2 DEF Increasing
<1>5. \A i, j \in 0..(Len(ds) - 1) : ~(i < j) => i = j \/ j < i
  BY <1>1
<1>6. \A d \in Members(ds) : d \in Nat /\ \E i \in 0..(Len(ds) - 1) : d = ds[i + 1]
  <2> SUFFICES ASSUME NEW p \in 1..Len(ds) PROVE ds[p] \in Nat /\ \E i \in 0..(Len(ds) - 1) : ds[p] = ds[i + 1]
    BY <1>1 DEF Members
  <2>1. p - 1 \in 0..(Len(ds) - 1) /\ (p - 1) + 1 = p
    BY <1>1
  <2> QED BY <1>1, <2>1
<1>7. \A i, j \in 0..(Len(ds) - 1) : ds[i + 1] = ds[j + 1] => i = j
  BY <1>3, <1>4, <1>5
<1>8. ASSUME NEW i \in 0..(Len(ds) - 1), NEW j \in 0..(Len(ds) - 1), ds[i + 1] < ds[j + 1]
      PROVE  i < j
  <2>1. ds[i + 1] \in Nat /\ ds[j + 1] \in Nat
    BY <1>3
  <2>2. i # j /\ ~(ds[j + 1] < ds[i + 1])
    BY <1>8, <2>1
  <2>3. ~(j < i)
    BY <1>4, <2>2
  <2> QED BY <1>5, <2>2, <2>3
<1> QED BY <1>1, <1>3, <1>4, <1>6, <1>7, <1>8

(* Candidates and bitsets stand for each other, and the bit behind the     *)
(* last descriptor for no descriptor at all.                               *)
LEMMA Correspondence ==
  ASSUME NEW ds \in Seq(Nat), Increasing(ds)
  PROVE  /\ \A b \in Bitsets(ds) : /\ Current(b, ds) = {ds[i + 1] : i \in b}
                                   /\ Current(b, ds) \in SUBSET Members(ds)
                                   /\ Bits(Current(b, ds), ds) = b
         /\ \A c \in SUBSET Members(ds) : Bits(c, ds) \in Bitsets(ds) /\ Current(Bits(c, ds), ds) = c
         /\ Current({Len(ds)}, ds) = {}
         /\ \A b \in Bitsets(ds), c \in Bitsets(ds) : Current(b, ds) = Current(c, ds) => b = c
         /\ \A b \in Bitsets(ds), i \in 0..(Len(ds) - 1) : ds[i + 1] \in Current(b, ds) <=> i \in b
<1>1. Len(ds) \in Nat
  OBVIOUS
<1>2. ASSUME NEW b \in Bitsets(ds)
      PROVE  Current(b, ds) = {ds[i + 1] : i \in b} /\ Current(b, ds) \in SUBSET Members(ds)
  <2>1. \A i \in b : i \in 0..(Len(ds) - 1) /\ i < Len(ds)
    BY <1>1 DEF Bitsets
  <2>2. {i \in b : i < Len(ds)} = b
    BY <2>1
  <2>3. Current(b, ds) = {ds[i + 1] : i \in b}
    BY <2>2 DEF Current
  <2> QED BY <2>1, <2>3, Elements
<1>3. ASSUME NEW b \in Bitsets(ds), NEW i \in 0..(Len(ds) - 1)
      PROVE  ds[i + 1] \in Current(b, ds) <=> i \in b
  <2>1. b \subseteq 0..(Len(ds) - 1)
    BY DEF Bitsets
  <2>2. ds[i + 1] \in Current(b, ds) <=> \E j \in b : ds[i + 1] = ds[j + 1]
    BY <1>2
  <2>3. \A j \in b : ds[i + 1] = ds[j + 1] => i = j
    BY <2>1, Elements
  <2> QED BY <2>2, <2>3
<1>4. ASSUME NEW b \in Bitsets(ds) PROVE Bits(Current(b, ds), ds) = b
  <2>1. b \subseteq 0..(Len(ds) - 1)
    BY DEF Bitsets
  <2> QED BY <1>3, <2>1 DEF Bits
<1>5. ASSUME NEW c \in SUBSET Members(ds)
      PROVE  Bits(c, ds) \in Bitsets(ds) /\ Current(Bits(c, ds), ds) = c
  <2>1. Bits(c, ds) \in Bitsets(ds)
    BY DEF Bits, Bitsets
  <2>2. \A d \in c : \E i \in Bits(c, ds) : d = ds[i + 1]
    BY Elements DEF Bits
  <2>3. \A i \in Bits(c, ds) : ds[i + 1] \in c
    BY DEF Bits
  <2> QED BY <1>2, <2>1, <2>2, <2>3
<1>6. Current({Len(ds)}, ds) = {}
  BY <1>1 DEF Current
<1> QED BY <1>2, <1>3, <1>4, <1>5, <1>6

LEMMA CurrentWithin ==
  ASSUME NEW ds \in Seq(Nat), Increasing(ds), NEW b \in Bitsets(ds)
  PROVE  Current(b, ds) \subseteq Members(ds)
BY Correspondence

(* The order of the bitsets is that of the candidates they stand for.      *)
LEMMA SameOrder ==
  ASSUME NEW ds \in Seq(Nat), Increasing(ds), NEW a \in Bitsets(ds), NEW b \in Bitsets(ds)
  PROVE  Below(a, b) <=> Below(Current(a, ds), Current(b, ds))
<1> DEFINE I == 0..(Len(ds) - 1)
           A == Current(a, ds)
           B == Current(b, ds)
<1>1. a \subseteq I /\ b \subseteq I
  BY DEF Bitsets
<1>2. \A i \in I : (ds[i + 1] \in A <=> i \in a) /\ (ds[i + 1] \in B <=> i \in b)
  BY Correspondence
<1>3. A \subseteq Members(ds) /\ B \subseteq Members(ds)
  BY Correspondence
<1>4. \A d \in A \union B : \E i \in I : d = ds[i + 1]
  BY <1>3, Elements
<1>5. \A i, j \in I : i < j <=> ds[i + 1] < ds[j + 1]
  BY Elements
<1>6. \A i, j \in I : (i > j <=> j < i) /\ (ds[i + 1] > ds[j + 1] <=> ds[j + 1] < ds[i + 1])
  BY Elements
<1> HIDE DEF A, B, I
<1>7. ASSUME Below(a, b) PROVE Below(A, B)
  <2>1. PICK j \in b \ a : \A i \in a \union b : i > j => i \in a /\ i \in b
    BY <1>7 DEF Below
  <2>2. ds[j + 1] \in B \ A
    BY <1>1, <1>2, <2>1
  <2>3. ASSUME NEW d \in A \union B, d > ds[j + 1] PROVE d \in A /\ d \in B
    <3>1. PICK i \in I : d = ds[i + 1]
      BY <1>4
    <3>2. i \in a \union b /\ i > j
      BY <1>1, <1>2, <1>5, <1>6, <2>1, <2>3, <3>1
    <3> QED BY <1>2, <2>1, <3>1, <3>2
  <2> QED BY <2>2, <2>3 DEF Below
<1>8. ASSUME Below(A, B) PROVE Below(a, b)
  <2>1. PICK d \in B \ A : \A e \in A \union B : e > d => e \in A /\ e \in B
    BY <1>8 DEF Below
  <2>2. PICK j \in I : d = ds[j + 1]
    BY <1>4, <2>1
  <2>3. j \in b \ a
    BY <1>2, <2>1, <2>2
  <2>4. ASSUME NEW i \in a \union b, i > j PROVE i \in a /\ i \in b
    <3>1. i \in I
      BY <1>1
    <3>2. ds[i + 1] \in A \union B /\ ds[i + 1] > d
      BY <1>1, <1>2, <1>5, <1>6, <2>2, <2>4, <3>1
    <3> QED BY <1>2, <2>1, <3>1, <3>2
  <2> QED BY <2>3, <2>4 DEF Below
<1> QED BY <1>7, <1>8 DEF A, B

-----------------------------------------------------------------------------
(* Counting upwards.                                                       *)

(* The bitsets the counter goes through, and the value it stops at at the  *)
(* latest.                                                                 *)
Counts(ds) == Bitsets(ds) \union {{Len(ds)}}

Stops(l, x, ds) == Current(x, ds) = {} \/ IsSatisfiedBy(l, Current(x, ds))

AtOrAbove(x, y) == y = x \/ Below(x, y)

LEMMA CountsTop ==
  ASSUME NEW ds, Len(ds) \in Nat
  PROVE  /\ Counts(ds) \subseteq SUBSET (0..Len(ds))
         /\ \A x \in Counts(ds) : x \subseteq Nat
         /\ {Len(ds)} \in Counts(ds)
         /\ \A x \in Counts(ds) : AtOrAbove(x, {Len(ds)})
         /\ \A x \in Bitsets(ds) : x \in Counts(ds) /\ ~Below({Len(ds)}, x) /\ x # {Len(ds)}
<1>1. Counts(ds) \subseteq SUBSET (0..Len(ds)) /\ {Len(ds)} \in Counts(ds)
  BY DEF Counts, Bitsets
<1>2. ASSUME NEW x \in Bitsets(ds)
      PROVE  x \in Counts(ds) /\ Below(x, {Len(ds)}) /\ ~Below({Len(ds)}, x) /\ x # {Len(ds)}
  <2>1. \A i \in x : i \in Nat /\ i < Len(ds)
    BY DEF Bitsets
  <2>2. x \in Counts(ds)
    BY DEF Counts
  <2>3. Below(x, {Len(ds)})
    <3>1. Len(ds) \in {Len(ds)} \ x
      BY <2>1
    <3>2. \A i \in x \union {Len(ds)} : ~(i > Len(ds))
      BY <2>1
    <3> QED BY <3>1, <3>2 DEF Below
  <2>4. ~Below({Len(ds)}, x)
    BY <2>1 DEF Below
  <2> QED BY <2>1, <2>2, <2>3, <2>4
<1>3. \A x \in Counts(ds) : AtOrAbove(x, {Len(ds)})
  BY <1>2 DEF Counts, AtOrAbove
<1>4. \A x \in Counts(ds) : x \subseteq Nat
  <2>1. \A x \in SUBSET (0..Len(ds)) : x \subseteq Nat
    OBVIOUS
  <2> QED BY <1>1, <2>1
<1> QED BY <1>1, <1>2, <1>3, <1>4

LEMMA AtOrAboveIsOrder ==
  ASSUME NEW ds, Len(ds) \in Nat
  PROVE  /\ \A x, y \in Counts(ds) : AtOrAbove(x, y) /\ AtOrAbove(y, x) => x = y
         /\ \A x, y, z \in Counts(ds) : AtOrAbove(x, y) /\ AtOrAbove(y, z) => AtOrAbove(x, z)
         /\ \A x, y \in Counts(ds) : AtOrAbove(x, y) \/ Below(y, x)
<1>1. \A x \in Counts(ds) : x \subseteq Nat /\ x \in SUBSET (0..Len(ds))
  BY CountsTop
<1>2. \A x, y, z \in Counts(ds) : Below(x, y) /\ Below(y, z) => Below(x, z)
  BY <1>1, BelowTransitive
<1>3. \A x, y \in Counts(ds) : ~(Below(x, y) /\ Below(y, x))
  BY <1>2, BelowIrreflexive
<1>4. \A x, y \in Counts(ds) : x # y => Below(x, y) \/ Below(y, x)
  BY <1>1, BelowTotal
<1> QED BY <1>2, <1>3, <1>4 DEF AtOrAbove

(* One increment reaches the next bitset.                                  *)
LEMMA Increment ==
  ASSUME NEW ds, Len(ds) \in Nat, NEW x \in Bitsets(ds)
  PROVE  /\ AddBit(x, 0) \in Counts(ds)
         /\ \A y \in Counts(ds) : Below(x, y) <=> AtOrAbove(AddBit(x, 0), y)
<1> DEFINE t == AddBit(x, 0)
           n == Len(ds)
<1>1. x \in SUBSET (0..(n - 1)) /\ 0 \in 0..n /\ n \in Nat
  BY DEF Bitsets
<1>2. Jump(x, 0) = t
  <2>1. \A i \in x : i >= 0
    BY <1>1
  <2>2. ClearBelow(x, 0) = x
    BY <2>1 DEF ClearBelow
  <2> QED BY <2>2 DEF Jump
<1> HIDE DEF t, n
<1>3. t \in SUBSET (0..n) /\ (n \in t => t = {n})
  <2>1. {} \in SUBSET (0..(n - 1))
    OBVIOUS
  <2> QED BY <1>1, <1>2, <2>1, JumpIsNext
<1>4. t \in Counts(ds)
  <2>1. n \notin t => t \in SUBSET (0..(n - 1))
    BY <1>1, <1>3
  <2> QED BY <1>3, <2>1 DEF Counts, Bitsets, n
<1>5. \A y \in Bitsets(ds) : Below(x, y) <=> AtOrAbove(t, y)
  <2> SUFFICES ASSUME NEW y \in SUBSET (0..(n - 1)) PROVE Below(x, y) <=> AtOrAbove(t, y)
    BY DEF Bitsets, n
  <2> QED BY <1>1, <1>2, JumpIsNext DEF AtOrAbove
<1>6. Below(x, {n}) /\ AtOrAbove(t, {n})
  BY <1>4, CountsTop DEF AtOrAbove, n
<1>7. \A y \in Counts(ds) : Below(x, y) <=> AtOrAbove(t, y)
  BY <1>5, <1>6 DEF Counts, n
<1> QED BY <1>4, <1>7 DEF t

(* The stops of the counter at or above x, and the first of them.          *)
StopsFrom(l, x, ds) == {y \in Counts(ds) : Stops(l, y, ds) /\ AtOrAbove(x, y)}
FirstOf(T) == CHOOSE y \in T : \A z \in T : AtOrAbove(y, z)

LEMMA FirstStop ==
  ASSUME NEW l, NEW ds, Len(ds) \in Nat, NEW x \in Counts(ds)
  PROVE  /\ FirstOf(StopsFrom(l, x, ds)) \in StopsFrom(l, x, ds)
         /\ \A z \in StopsFrom(l, x, ds) : AtOrAbove(FirstOf(StopsFrom(l, x, ds)), z)
<1> DEFINE T == StopsFrom(l, x, ds)
<1>1. Current({Len(ds)}, ds) = {}
  BY DEF Current
<1>2. {Len(ds)} \in T
  BY <1>1, CountsTop DEF StopsFrom, Stops
<1>3. T \subseteq SUBSET (0..Len(ds)) /\ T # {}
  BY <1>2, CountsTop DEF StopsFrom
<1> HIDE DEF T
<1>4. \E y \in T : \A z \in T : AtOrAbove(y, z)
  BY <1>3, LeastBitset DEF AtOrAbove
<1>5. FirstOf(T) \in T /\ \A z \in T : AtOrAbove(FirstOf(T), z)
  BY <1>4 DEF FirstOf
<1> QED BY <1>5 DEF T

(* A bitset that does not stop leaves the search to the next one.          *)
LEMMA FirstStopUnfolds ==
  ASSUME NEW l, NEW ds, Len(ds) \in Nat, NEW x \in Counts(ds)
  PROVE  /\ Stops(l, x, ds) => FirstOf(StopsFrom(l, x, ds)) = x
         /\ ~Stops(l, x, ds) => /\ x \in Bitsets(ds)
                                /\ FirstOf(StopsFrom(l, x, ds)) = FirstOf(StopsFrom(l, AddBit(x, 0), ds))
<1> DEFINE r == FirstOf(StopsFrom(l, x, ds))
<1>1. r \in StopsFrom(l, x, ds) /\ \A z \in StopsFrom(l, x, ds) : AtOrAbove(r, z)
  BY FirstStop
<1> HIDE DEF r
<1>2. ASSUME Stops(l, x, ds) PROVE r = x
  <2>1. x \in StopsFrom(l, x, ds)
    BY <1>2 DEF StopsFrom, AtOrAbove
  <2>2. AtOrAbove(r, x) /\ AtOrAbove(x, r) /\ r \in Counts(ds)
    BY <1>1, <2>1 DEF StopsFrom
  <2> QED BY <2>2, AtOrAboveIsOrder
<1>3. ASSUME ~Stops(l, x, ds)
      PROVE  x \in Bitsets(ds) /\ StopsFrom(l, x, ds) = StopsFrom(l, AddBit(x, 0), ds)
  <2>1. x \in Bitsets(ds)
    <3>1. Current({Len(ds)}, ds) = {}
      BY DEF Current
    <3> QED BY <1>3, <3>1 DEF Counts, Stops
  <2>2. \A y \in Counts(ds) : Below(x, y) <=> AtOrAbove(AddBit(x, 0), y)
    BY <2>1, Increment
  <2>3. \A y \in Counts(ds) : Stops(l, y, ds) => (AtOrAbove(x, y) <=> AtOrAbove(AddBit(x, 0), y))
    BY <1>3, <2>2 DEF AtOrAbove
  <2> QED BY <2>1, <2>3 DEF StopsFrom
<1> QED BY <1>2, <1>3 DEF r

(* IncrementUntilValid returns the first stop at or above the bitset.      *)
LEMMA IncrementFinds ==
  ASSUME NEW l, NEW ds, Len(ds) \in Nat, NEW b \in Counts(ds)
  PROVE  IncrementUntilValid(l, b, ds) = FirstOf(StopsFrom(l, b, ds))
<1> DEFINE C == Counts(ds)
           g == [x \in C |-> FirstOf(StopsFrom(l, x, ds))]
           Q(h) == h = [x \in C |-> IF Stops(l, x, ds) THEN x ELSE h[AddBit(x, 0)]]
           f == CHOOSE h : Q(h)
<1>1. IncrementUntilValid(l, b, ds) = f[b]
  BY DEF IncrementUntilValid, Stops, Counts, Bitsets
<1>2. \A x \in C : ~Stops(l, x, ds) => x \in Bitsets(ds) /\ AddBit(x, 0) \in C /\ Below(x, AddBit(x, 0))
  BY FirstStopUnfolds, Increment DEF AtOrAbove
<1>3. \A x \in C : g[x] = IF Stops(l, x, ds) THEN x ELSE g[AddBit(x, 0)]
  BY <1>2, FirstStopUnfolds
<1>4. Q(g)
  BY <1>3
<1>5. Q(f)
  <2> HIDE DEF Q, g
  <2> QED BY <1>4
<1>6. \A x \in C : f[x] = IF Stops(l, x, ds) THEN x ELSE f[AddBit(x, 0)]
  <2> HIDE DEF f, C
  <2> QED BY <1>5
<1> HIDE DEF f, g
<1>7. \A x \in C : f[x] = g[x]
  <2> DEFINE T == {x \in C : f[x] # g[x]}
  <2> SUFFICES ASSUME T # {} PROVE FALSE
    OBVIOUS
  <2>1. T \subseteq SUBSET (0..Len(ds))
    BY CountsTop
  <2>2. PICK x \in T : \A y \in T : y = x \/ Below(y, x)
    <3> HIDE DEF T
    <3> QED BY <2>1, GreatestBitset
  <2>3. x \in C /\ f[x] # g[x] /\ ~Stops(l, x, ds)
    BY <1>3, <1>6
  <2>4. AddBit(x, 0) \in T /\ Below(x, AddBit(x, 0))
    BY <1>2, <1>3, <1>6, <2>3
  <2>5. \A y \in C : y \subseteq Nat
    BY CountsTop
  <2> QED BY <2>2, <2>3, <2>4, <2>5, BelowTransitive, BelowIrreflexive
<1> QED BY <1>1, <1>7 DEF g

-----------------------------------------------------------------------------
(* Taking descriptors away.                                                *)

KeepStep(ds, E, h, i) == IF ds[i] \in E THEN h[i - 1] ELSE Append(h[i - 1], ds[i])

(* The loop that copies the descriptors that stay.                         *)
LEMMA KeepUnfolds ==
  ASSUME NEW ds, Len(ds) \in Nat, NEW E
  PROVE  \E h : /\ Keep(ds, E) = h[Len(ds)]
                /\ h[0] = <<>>
                /\ \A i \in 1..Len(ds) : h[i] = KeepStep(ds, E, h, i)
<1> DEFINE n == Len(ds)
           Upto(h, i) == /\ h[0] = <<>>
                         /\ \A j \in 1..i : h[j] = KeepStep(ds, E, h, j)
           S == {i \in 0..n : \E h : Upto(h, i)}
           Q(h) == h = [i \in 0..n |-> IF i = 0 THEN <<>> ELSE KeepStep(ds, E, h, i)]
           f == CHOOSE h : Q(h)
<1>1. Keep(ds, E) = f[n]
  BY DEF Keep, KeepStep
<1>2. 0 \in S
  <2>1. Upto([i \in {0} |-> <<>>], 0)
    OBVIOUS
  <2>2. 0 \in 0..n
    OBVIOUS
  <2> HIDE DEF Upto
  <2> QED BY <2>1, <2>2
<1>3. ASSUME NEW i \in 0..n, i # n, i \in S PROVE i + 1 \in S
  <2>1. PICK h : Upto(h, i)
    BY <1>3
  <2> DEFINE g == [j \in 0..(i + 1) |-> IF j = i + 1 THEN KeepStep(ds, E, h, j) ELSE h[j]]
  <2>2. \A j \in 1..(i + 1) : g[j] = KeepStep(ds, E, g, j)
    <3> SUFFICES ASSUME NEW j \in 1..(i + 1) PROVE g[j] = KeepStep(ds, E, g, j)
      OBVIOUS
    <3>1. j - 1 \in 0..(i + 1) /\ j - 1 # i + 1 /\ j \in 0..(i + 1)
      OBVIOUS
    <3>2. g[j - 1] = h[j - 1]
      BY <3>1
    <3>3. g[j] = KeepStep(ds, E, h, j)
      <4>1. CASE j = i + 1
        BY <3>1, <4>1
      <4>2. CASE j # i + 1
        BY <2>1, <3>1, <4>2
      <4> QED BY <4>1, <4>2
    <3> QED BY <3>2, <3>3 DEF KeepStep
  <2>3. g[0] = <<>>
    BY <2>1
  <2>4. Upto(g, i + 1)
    BY <2>2, <2>3
  <2>5. i + 1 \in 0..n
    BY <1>3
  <2> HIDE DEF Upto, g
  <2> QED BY <2>4, <2>5
<1>4. 0..n \subseteq S
  <2> HIDE DEF S
  <2> QED BY <1>2, <1>3, UpTo
<1>5. PICK h : Upto(h, n)
  BY <1>4
<1> DEFINE g == [i \in 0..n |-> h[i]]
<1>6. Q(g)
  <2> SUFFICES ASSUME NEW i \in 0..n, i # 0 PROVE h[i] = KeepStep(ds, E, g, i)
    BY <1>5
  <2>1. i \in 1..n /\ i - 1 \in 0..n
    OBVIOUS
  <2> QED BY <1>5, <2>1 DEF KeepStep
<1>7. Q(f)
  <2> HIDE DEF Q, g
  <2> QED BY <1>6
<1>8. f[0] = <<>> /\ \A i \in 1..n : f[i] = KeepStep(ds, E, f, i)
  <2> HIDE DEF f
  <2> QED BY <1>7
<1> HIDE DEF f
<1> QED BY <1>1, <1>8

LEMMA Appended ==
  ASSUME NEW s \in Seq(Nat), NEW d \in Nat
  PROVE  /\ Append(s, d) \in Seq(Nat)
         /\ Len(Append(s, d)) = Len(s) + 1
         /\ Append(s, d)[Len(s) + 1] = d
         /\ \A p \in 1..Len(s) : Append(s, d)[p] = s[p]
OBVIOUS

(* The indices below i of the descriptors to take away.                    *)
Excluded(ds, E, i) == {j \in 0..(i - 1) : ds[j + 1] \in E}

(* What s is after i descriptors, when none is taken away from index k on. *)
Kept(ds, E, k, s, i) ==
  /\ s \in Seq(Nat)
  /\ Len(s) = i - Cardinality(Excluded(ds, E, i))
  /\ \A p \in 1..Len(s) : s[p] \notin E /\ \E q \in 1..i : s[p] = ds[q]
  /\ \A q \in 1..i : ds[q] \notin E => \E p \in 1..Len(s) : s[p] = ds[q]
  /\ Increasing(s)
  /\ \A j \in k..(i - 1) : s[j - Cardinality(Excluded(ds, E, Len(ds))) + 1] = ds[j + 1]

LEMMA ExcludedCount ==
  ASSUME NEW ds, Len(ds) \in Nat, NEW E, NEW k \in 0..Len(ds),
         Excluded(ds, E, Len(ds)) \subseteq 0..(k - 1)
  PROVE  /\ \A i \in 0..Len(ds) : /\ IsFiniteSet(Excluded(ds, E, i))
                                  /\ Cardinality(Excluded(ds, E, i)) \in 0..i
         /\ \A i \in k..Len(ds) : Excluded(ds, E, i) = Excluded(ds, E, Len(ds))
         /\ Cardinality(Excluded(ds, E, Len(ds))) \in 0..k
<1>1. ASSUME NEW i \in 0..Len(ds)
      PROVE  IsFiniteSet(Excluded(ds, E, i)) /\ Cardinality(Excluded(ds, E, i)) \in 0..i
  <2>1. Excluded(ds, E, i) \in SUBSET (0..(i - 1))
    BY DEF Excluded
  <2>2. 0 \in Int /\ i - 1 \in Int
    OBVIOUS
  <2>3. /\ IsFiniteSet(0..(i - 1))
        /\ Cardinality(0..(i - 1)) = IF 0 > i - 1 THEN 0 ELSE i - 1 - 0 + 1
    BY <2>2, FS_Interval
  <2>4. IsFiniteSet(0..(i - 1)) /\ Cardinality(0..(i - 1)) = i
    BY <2>3
  <2>5. IsFiniteSet(Excluded(ds, E, i)) /\ Cardinality(Excluded(ds, E, i)) <= i
    BY <2>1, <2>4, FS_Subset
  <2>6. Cardinality(Excluded(ds, E, i)) \in Nat
    BY <2>5, FS_CardinalityType
  <2> QED BY <2>5, <2>6
<1>2. \A i \in k..Len(ds) : Excluded(ds, E, i) = Excluded(ds, E, Len(ds))
  <2> SUFFICES ASSUME NEW i \in k..Len(ds), NEW j
               PROVE  j \in Excluded(ds, E, i) <=> j \in Excluded(ds, E, Len(ds))
    OBVIOUS
  <2>1. j \in Excluded(ds, E, Len(ds)) => j \in 0..(i - 1)
    OBVIOUS
  <2> QED BY <2>1 DEF Excluded
<1>3. k \in k..Len(ds)
  OBVIOUS
<1> QED BY <1>1, <1>2, <1>3

LEMMA KeptSkips ==
  ASSUME NEW ds \in Seq(Nat), NEW E, NEW k \in 0..Len(ds),
         Excluded(ds, E, Len(ds)) \subseteq 0..(k - 1),
         NEW i \in 0..(Len(ds) - 1), NEW s, Kept(ds, E, k, s, i), ds[i + 1] \in E
  PROVE  Kept(ds, E, k, s, i + 1)
<1>1. i \in Nat /\ Len(ds) \in Nat /\ i \in 0..Len(ds) /\ k \in Nat /\ (i + 1) - 1 = i
  OBVIOUS
<1>2. Excluded(ds, E, i + 1) = Excluded(ds, E, i) \union {i} /\ i \notin Excluded(ds, E, i)
  BY <1>1 DEF Excluded
<1>3. Cardinality(Excluded(ds, E, i + 1)) = Cardinality(Excluded(ds, E, i)) + 1
  BY <1>1, <1>2, ExcludedCount, FS_AddElement
<1>4. i < k
  <2>1. i \in 0..(k - 1)
    BY <1>1 DEF Excluded
  <2> QED BY <1>1, <2>1
<1>5. Len(s) = (i + 1) - Cardinality(Excluded(ds, E, i + 1))
  <2>1. Cardinality(Excluded(ds, E, i)) \in Nat
    BY <1>1, ExcludedCount
  <2> QED BY <1>1, <1>3, <2>1 DEF Kept
<1>6. \A q \in 1..(i + 1) : q \in 1..i \/ q = i + 1
  BY <1>1
<1>7. 1..i \subseteq 1..(i + 1) /\ k..((i + 1) - 1) = {}
  BY <1>1, <1>4
<1>8. \A p \in 1..Len(s) : s[p] \notin E /\ \E q \in 1..(i + 1) : s[p] = ds[q]
  BY <1>7 DEF Kept
<1>9. \A q \in 1..(i + 1) : ds[q] \notin E => \E p \in 1..Len(s) : s[p] = ds[q]
  BY <1>6 DEF Kept
<1>10. \A j \in k..((i + 1) - 1) : s[j - Cardinality(Excluded(ds, E, Len(ds))) + 1] = ds[j + 1]
  BY <1>7
<1>11. s \in Seq(Nat) /\ Increasing(s)
  BY DEF Kept
<1> QED BY <1>5, <1>8, <1>9, <1>10, <1>11 DEF Kept

LEMMA KeptAppends ==
  ASSUME NEW ds \in Seq(Nat), Increasing(ds), NEW E, NEW k \in 0..Len(ds),
         Excluded(ds, E, Len(ds)) \subseteq 0..(k - 1),
         NEW i \in 0..(Len(ds) - 1), NEW s, Kept(ds, E, k, s, i), ds[i + 1] \notin E,
         NEW t, t = Append(s, ds[i + 1])
  PROVE  Kept(ds, E, k, t, i + 1)
<1> DEFINE m == Cardinality(Excluded(ds, E, Len(ds)))
<1>1. /\ i \in Nat /\ Len(ds) \in Nat /\ i \in 0..Len(ds) /\ i + 1 \in 1..Len(ds)
      /\ k \in Nat /\ (i + 1) - 1 = i
  OBVIOUS
<1>2. ds[i + 1] \in Nat
  BY <1>1
<1>3. Excluded(ds, E, i + 1) = Excluded(ds, E, i)
  BY <1>1 DEF Excluded
<1>4. Cardinality(Excluded(ds, E, i)) \in 0..i /\ m \in 0..k
  BY <1>1, ExcludedCount
<1>5. s \in Seq(Nat) /\ Len(s) \in Nat /\ Len(s) = i - Cardinality(Excluded(ds, E, i))
  BY DEF Kept
<1>6. /\ t \in Seq(Nat) /\ Len(t) = Len(s) + 1 /\ t[Len(s) + 1] = ds[i + 1]
      /\ \A p \in 1..Len(s) : t[p] = s[p]
  BY <1>2, <1>5, Appended
<1>7. \A p \in 1..Len(t) : p \in 1..Len(s) \/ p = Len(s) + 1
  BY <1>5, <1>6
<1>8. \A p \in 1..Len(s) : p \in 1..Len(t)
  BY <1>5, <1>6
<1>9. Len(t) = (i + 1) - Cardinality(Excluded(ds, E, i + 1))
  BY <1>1, <1>3, <1>4, <1>5, <1>6
<1>10. 1..i \subseteq 1..(i + 1) /\ i + 1 \in 1..(i + 1)
  BY <1>1
<1>11. \A p \in 1..Len(s) : s[p] \notin E /\ \E q \in 1..i : s[p] = ds[q]
  BY DEF Kept
<1>12. \A p \in 1..Len(t) : t[p] \notin E /\ \E q \in 1..(i + 1) : t[p] = ds[q]
  BY <1>6, <1>7, <1>10, <1>11
<1>13. ASSUME NEW q \in 1..(i + 1), ds[q] \notin E PROVE \E p \in 1..Len(t) : t[p] = ds[q]
  <2>1. CASE q = i + 1
    <3>1. Len(s) + 1 \in 1..Len(t)
      BY <1>5, <1>6
    <3> QED BY <1>6, <2>1, <3>1
  <2>2. CASE q # i + 1
    <3>1. q \in 1..i
      BY <1>1, <2>2
    <3>2. PICK p \in 1..Len(s) : s[p] = ds[q]
      BY <1>13, <3>1 DEF Kept
    <3> QED BY <1>6, <1>8, <3>2
  <2> QED BY <2>1, <2>2
<1>14. Increasing(t)
  <2> SUFFICES ASSUME NEW p \in 1..Len(t), NEW q \in 1..Len(t), p < q PROVE t[p] < t[q]
    BY DEF Increasing
  <2>1. p \in 1..Len(s)
    BY <1>5, <1>6
  <2>2. CASE q \in 1..Len(s)
    <3>1. s[p] < s[q]
      BY <2>1, <2>2 DEF Kept, Increasing
    <3> QED BY <1>6, <2>1, <2>2, <3>1
  <2>3. CASE q = Len(s) + 1
    <3>1. PICK j \in 1..i : s[p] = ds[j]
      BY <1>11, <2>1
    <3>2. j \in 1..Len(ds) /\ j < i + 1
      BY <1>1
    <3>3. ds[j] < ds[i + 1]
      BY <1>1, <3>2 DEF Increasing
    <3> QED BY <1>6, <2>1, <2>3, <3>1, <3>3
  <2> QED BY <1>7, <2>2, <2>3
<1>15. ASSUME NEW j \in k..((i + 1) - 1) PROVE t[j - m + 1] = ds[j + 1]
  <2>1. j \in Nat /\ k <= j /\ j <= i
    BY <1>1
  <2>2. Cardinality(Excluded(ds, E, i)) = m
    <3>1. i \in k..Len(ds)
      BY <1>1, <2>1
    <3>2. Excluded(ds, E, i) = Excluded(ds, E, Len(ds))
      BY <1>1, <3>1, ExcludedCount
    <3> QED BY <3>2
  <2> HIDE DEF m
  <2>3. m \in Nat /\ m <= j /\ Len(s) = i - m
    BY <1>1, <1>4, <1>5, <2>1, <2>2
  <2>4. CASE j = i
    <3>1. j - m + 1 = Len(s) + 1
      BY <2>1, <2>3, <2>4
    <3> QED BY <1>6, <2>4, <3>1
  <2>5. CASE j # i
    <3>1. j - m + 1 \in 1..Len(s) /\ j \in k..(i - 1)
      BY <1>1, <2>1, <2>3, <2>5
    <3>2. t[j - m + 1] = s[j - m + 1]
      BY <1>6, <3>1
    <3>3. s[j - m + 1] = ds[j + 1]
      BY <3>1 DEF Kept, m
    <3> QED BY <3>2, <3>3
  <2> QED BY <2>4, <2>5
<1>16. t \in Seq(Nat)
  BY <1>6
<1> QED BY <1>9, <1>12, <1>13, <1>14, <1>15, <1>16 DEF Kept

(* The descriptors that stay are in their order, and those behind the last *)
(* excluded one move down by the number of excluded ones.                  *)
LEMMA KeepShifts ==
  ASSUME NEW ds \in Seq(Nat), Increasing(ds), NEW E, NEW k \in 0..Len(ds),
         Excluded(ds, E, Len(ds)) \subseteq 0..(k - 1)
  PROVE  LET m == Cardinality(Excluded(ds, E, Len(ds)))
             r == Keep(ds, E)
         IN  /\ m \in 0..k
             /\ r \in Seq(Nat)
             /\ Increasing(r)
             /\ Members(r) = Members(ds) \ E
             /\ Len(r) = Len(ds) - m
             /\ \A i \in k..(Len(ds) - 1) : r[i - m + 1] = ds[i + 1]
<1> DEFINE n == Len(ds)
<1>1. n \in Nat
  OBVIOUS
<1>2. PICK h : /\ Keep(ds, E) = h[n]
               /\ h[0] = <<>>
               /\ \A i \in 1..n : h[i] = KeepStep(ds, E, h, i)
  BY <1>1, KeepUnfolds
<1> DEFINE S == {i \in 0..n : Kept(ds, E, k, h[i], i)}
<1>3. 0 \in S
  <2>1. Excluded(ds, E, 0) = {}
    BY DEF Excluded
  <2>2. Cardinality(Excluded(ds, E, 0)) = 0
    BY <2>1, FS_EmptySet
  <2>3. /\ <<>> \in Seq(Nat) /\ Len(<<>>) = 0 /\ 1..0 = {} /\ k..(0 - 1) = {}
        /\ 0 - Cardinality(Excluded(ds, E, 0)) = 0
    BY <1>1, <2>2
  <2>4. Kept(ds, E, k, <<>>, 0)
    BY <2>3 DEF Kept, Increasing
  <2> QED BY <1>1, <1>2, <2>4
<1>4. ASSUME NEW i \in 0..n, i # n, i \in S PROVE i + 1 \in S
  <2>1. i + 1 \in 1..n /\ (i + 1) - 1 = i /\ i + 1 \in 0..n /\ i \in 0..(n - 1)
    BY <1>1, <1>4
  <2>2. h[i + 1] = IF ds[i + 1] \in E THEN h[i] ELSE Append(h[i], ds[i + 1])
    BY <1>2, <2>1 DEF KeepStep
  <2>3. Kept(ds, E, k, h[i], i)
    BY <1>4
  <2>4. Kept(ds, E, k, h[i + 1], i + 1)
    <3>1. CASE ds[i + 1] \in E
      BY <2>1, <2>2, <2>3, <3>1, KeptSkips
    <3>2. CASE ds[i + 1] \notin E
      BY <2>1, <2>2, <2>3, <3>2, KeptAppends
    <3> QED BY <3>1, <3>2
  <2> QED BY <2>1, <2>4
<1>5. Kept(ds, E, k, h[n], n)
  <2>1. 0..n \subseteq S
    <3> HIDE DEF S
    <3> QED BY <1>1, <1>3, <1>4, UpTo
  <2>2. n \in 0..n
    BY <1>1
  <2> QED BY <2>1, <2>2
<1>6. Members(h[n]) = Members(ds) \ E
  <2>1. DOMAIN h[n] = 1..Len(h[n]) /\ DOMAIN ds = 1..n
    BY <1>5 DEF Kept
  <2>2. \A p \in 1..Len(h[n]) : h[n][p] \notin E /\ \E q \in 1..n : h[n][p] = ds[q]
    BY <1>5 DEF Kept
  <2>3. \A q \in 1..n : ds[q] \notin E => \E p \in 1..Len(h[n]) : h[n][p] = ds[q]
    BY <1>5 DEF Kept
  <2> HIDE DEF n
  <2> QED BY <2>1, <2>2, <2>3 DEF Members
<1>7. Cardinality(Excluded(ds, E, n)) \in 0..k
  BY <1>1, ExcludedCount
<1> QED BY <1>2, <1>5, <1>6, <1>7 DEF Kept

-----------------------------------------------------------------------------
(* Where a call of Next starts to search: at the first bitset over the     *)
(* descriptors that stay whose candidate lies above the last answer.       *)

Start(b, idx) == IF idx = {} THEN AddBit(b, 0) ELSE ExcludeDescriptors(b, idx)

LEMMA KeepAll ==
  ASSUME NEW ds \in Seq(Nat), Increasing(ds), NEW E, NEW k \in 0..Len(ds), k = 0,
         Excluded(ds, E, Len(ds)) \subseteq 0..(k - 1)
  PROVE  Keep(ds, E) = ds
<1> DEFINE r == Keep(ds, E)
           m == Cardinality(Excluded(ds, E, Len(ds)))
<1>1. /\ m \in 0..k
      /\ r \in Seq(Nat)
      /\ Len(r) = Len(ds) - m
      /\ \A i \in k..(Len(ds) - 1) : r[i - m + 1] = ds[i + 1]
  BY KeepShifts
<1> HIDE DEF r, m
<1>2. m = 0 /\ Len(ds) \in Nat /\ Len(r) = Len(ds)
  BY <1>1
<1>3. ASSUME NEW p \in 1..Len(ds) PROVE r[p] = ds[p]
  <2>1. p - 1 \in k..(Len(ds) - 1) /\ (p - 1) - m + 1 = p /\ (p - 1) + 1 = p
    BY <1>2
  <2>2. r[(p - 1) - m + 1] = ds[(p - 1) + 1]
    BY <1>1, <2>1
  <2> QED BY <2>1, <2>2
<1>4. r = [p \in 1..Len(r) |-> r[p]] /\ ds = [p \in 1..Len(ds) |-> ds[p]]
  BY <1>1
<1>5. r = ds
  BY <1>2, <1>3, <1>4
<1> QED BY <1>5 DEF r

LEMMA StartWithout ==
  ASSUME NEW ds \in Seq(Nat), Increasing(ds), NEW b \in Bitsets(ds), NEW E,
         Excluded(ds, E, Len(ds)) = {}
  PROVE  /\ Keep(ds, E) = ds
         /\ AddBit(b, 0) \in Counts(ds)
         /\ \A x \in Bitsets(ds) : AtOrAbove(AddBit(b, 0), x) <=> Below(Current(b, ds), Current(x, ds))
<1>1. Len(ds) \in Nat /\ 0 \in 0..Len(ds)
  OBVIOUS
<1>2. Keep(ds, E) = ds
  BY <1>1, KeepAll
<1>3. AddBit(b, 0) \in Counts(ds) /\ \A x \in Counts(ds) : Below(b, x) <=> AtOrAbove(AddBit(b, 0), x)
  BY <1>1, Increment
<1>4. \A x \in Bitsets(ds) : AtOrAbove(AddBit(b, 0), x) <=> Below(Current(b, ds), Current(x, ds))
  BY <1>1, <1>3, CountsTop, SameOrder
<1> QED BY <1>2, <1>3, <1>4

LEMMA StartExcluding ==
  ASSUME NEW ds \in Seq(Nat), Increasing(ds), NEW b \in Bitsets(ds), NEW E \in SUBSET Current(b, ds),
         Excluded(ds, E, Len(ds)) # {}
  PROVE  LET s == ExcludeDescriptors(b, Excluded(ds, E, Len(ds)))
             r == Keep(ds, E)
         IN  /\ s \in Counts(r)
             /\ \A x \in Bitsets(r) : AtOrAbove(s, x) <=> Below(Current(b, ds), Current(x, r))
<1> DEFINE idx == Excluded(ds, E, Len(ds))
           n == Len(ds)
           m == Cardinality(idx)
           r == Keep(ds, E)
<1>1. n \in Nat /\ idx \subseteq 0..(n - 1) /\ idx \subseteq 0..n /\ idx # {}
  BY DEF Excluded
<1>2. PICK k \in idx : \A j \in idx : j <= k
  <2> HIDE DEF idx, n
  <2> QED BY <1>1, GreatestNumber
<1>3. k \in 0..(n - 1) /\ k \in Nat /\ ds[k + 1] \in E
  BY <1>1 DEF Excluded
<1>4. k = CHOOSE i \in idx : \A j \in idx : j <= i
  <2>1. ASSUME NEW i \in idx, \A j \in idx : j <= i PROVE i = k
    <3>1. k <= i /\ i <= k /\ i \in Nat
      BY <1>1, <1>2, <2>1
    <3> QED BY <1>3, <3>1
  <2> HIDE DEF idx
  <2> QED BY <1>2, <2>1
<1> DEFINE t == Jump(b, k)
           s == ShiftRight(t, m)
<1>5. ExcludeDescriptors(b, idx) = s
  BY <1>4 DEF ExcludeDescriptors, Jump
<1>6. b \in SUBSET (0..(n - 1)) /\ k \in b
  <2>1. ds[k + 1] \in Current(b, ds)
    BY <1>3
  <2> QED BY <1>3, <2>1, Correspondence DEF Bitsets
<1>7. /\ m \in 0..(k + 1)
      /\ r \in Seq(Nat)
      /\ Increasing(r)
      /\ Members(r) = Members(ds) \ E
      /\ Len(r) = n - m
      /\ \A i \in (k + 1)..(n - 1) : r[i - m + 1] = ds[i + 1]
  <2>1. k + 1 \in 0..n /\ idx \subseteq 0..((k + 1) - 1)
    BY <1>1, <1>2, <1>3
  <2> QED BY <2>1, KeepShifts
<1> HIDE DEF m, r, t, idx, n
<1>8. t \in SUBSET ((k + 1)..n) /\ (n \in t => t = {n}) /\ t # {}
  <2>1. {} \in SUBSET (0..(n - 1)) /\ k \in 0..n
    BY <1>1, <1>3
  <2>2. t \in SUBSET (k..n) /\ k \notin t /\ (n \in t => t = {n}) /\ t # {}
    BY <1>1, <1>6, <2>1, JumpIsNext DEF t
  <2>3. ASSUME NEW i \in t PROVE i \in (k + 1)..n
    <3>1. i \in k..n /\ i # k
      BY <2>2
    <3> QED BY <1>1, <1>3, <3>1
  <2> QED BY <2>2, <2>3
<1>9. s = {i - m : i \in t}
  <2>1. ASSUME NEW i \in t PROVE i >= m
    <3>1. i \in (k + 1)..n
      BY <1>8
    <3> QED BY <1>1, <1>3, <1>7, <3>1
  <2>2. ClearBelow(t, m) = t
    BY <2>1 DEF ClearBelow
  <2> QED BY <2>2 DEF ShiftRight
<1> HIDE DEF s
<1>10. ASSUME NEW x \in Bitsets(r)
       PROVE  \E y \in Bitsets(ds) : /\ Current(y, ds) = Current(x, r)
                                     /\ Below(Current(b, ds), Current(x, r)) <=> AtOrAbove(t, y)
  <2> DEFINE c == Current(x, r)
             y == Bits(c, ds)
  <2>1. c \in SUBSET (Members(ds) \ E)
    BY <1>7, Correspondence
  <2>2. y \in Bitsets(ds) /\ Current(y, ds) = c
    BY <2>1, Correspondence
  <2>3. k \notin y
    BY <1>3, <2>1 DEF Bits
  <2>4. Below(b, y) <=> AtOrAbove(t, y)
    <3>1. y \in SUBSET (0..(n - 1)) /\ k \in 0..n
      BY <1>1, <1>3, <2>2 DEF Bitsets, n
    <3> HIDE DEF y
    <3> QED BY <1>1, <1>6, <2>3, <3>1, JumpIsNext DEF t, AtOrAbove
  <2>5. Below(b, y) <=> Below(Current(b, ds), c)
    BY <2>2, SameOrder
  <2> HIDE DEF y
  <2> QED BY <2>2, <2>4, <2>5
<1>11. CASE n \in t
  <2>1. t = {n} /\ Len(r) \in Nat
    BY <1>1, <1>3, <1>7, <1>8, <1>11
  <2>2. s = {Len(r)}
    BY <1>7, <1>9, <2>1
  <2>3. s \in Counts(r)
    BY <2>1, <2>2, CountsTop
  <2>4. \A x \in Bitsets(r) : ~AtOrAbove(s, x)
    BY <2>1, <2>2, CountsTop DEF AtOrAbove
  <2>5. \A y \in Bitsets(ds) : ~AtOrAbove(t, y)
    BY <1>1, <2>1, CountsTop DEF AtOrAbove, n
  <2> QED BY <1>5, <1>10, <2>3, <2>4, <2>5 DEF r, idx
<1>12. CASE n \notin t
  <2>1. \A i \in t : i \in (k + 1)..(n - 1) /\ i \in 0..(n - 1)
    BY <1>1, <1>3, <1>8, <1>12
  <2>2. t \in Bitsets(ds)
    BY <2>1 DEF Bitsets, n
  <2>3. \A i \in t : i - m \in 0..(Len(r) - 1)
    <3> SUFFICES ASSUME NEW i \in t PROVE i - m \in 0..(Len(r) - 1)
      OBVIOUS
    <3>1. i \in (k + 1)..(n - 1)
      BY <2>1
    <3> QED BY <1>1, <1>3, <1>7, <3>1
  <2>4. s \in Bitsets(r)
    BY <1>9, <2>3 DEF Bitsets
  <2>5. Current(s, r) = Current(t, ds)
    <3>1. Current(s, r) = {r[j + 1] : j \in s}
      BY <1>7, <2>4, Correspondence
    <3>2. Current(t, ds) = {ds[i + 1] : i \in t}
      BY <2>2, Correspondence
    <3>3. {r[j + 1] : j \in s} = {r[i - m + 1] : i \in t}
      BY <1>9
    <3>4. \A i \in t : r[i - m + 1] = ds[i + 1]
      BY <1>7, <2>1
    <3> QED BY <3>1, <3>2, <3>3, <3>4
  <2>6. s \in Counts(r)
    BY <2>4 DEF Counts
  <2>7. ASSUME NEW x \in Bitsets(r) PROVE AtOrAbove(s, x) <=> Below(Current(b, ds), Current(x, r))
    <3>1. PICK y \in Bitsets(ds) : /\ Current(y, ds) = Current(x, r)
                                   /\ Below(Current(b, ds), Current(x, r)) <=> AtOrAbove(t, y)
      BY <1>10
    <3>2. y = t <=> x = s
      <4>1. y = t <=> Current(y, ds) = Current(t, ds)
        BY <2>2, Correspondence
      <4>2. x = s <=> Current(x, r) = Current(s, r)
        BY <1>7, <2>4, Correspondence
      <4> QED BY <2>5, <3>1, <4>1, <4>2
    <3>3. Below(t, y) <=> Below(s, x)
      <4>1. Below(t, y) <=> Below(Current(t, ds), Current(y, ds))
        BY <2>2, SameOrder
      <4>2. Below(s, x) <=> Below(Current(s, r), Current(x, r))
        BY <1>7, <2>4, SameOrder
      <4> QED BY <2>5, <3>1, <4>1, <4>2
    <3> QED BY <3>1, <3>2, <3>3 DEF AtOrAbove
  <2> QED BY <1>5, <2>6, <2>7 DEF r, idx
<1> QED BY <1>11, <1>12

LEMMA SearchStart ==
  ASSUME NEW ds \in Seq(Nat), Increasing(ds), NEW b \in Bitsets(ds), NEW E \in SUBSET Current(b, ds)
  PROVE  LET s == Start(b, Excluded(ds, E, Len(ds)))
             r == Keep(ds, E)
         IN  /\ s \in Counts(r)
             /\ \A x \in Bitsets(r) : AtOrAbove(s, x) <=> Below(Current(b, ds), Current(x, r))
<1>1. CASE Excluded(ds, E, Len(ds)) = {}
  BY <1>1, StartWithout DEF Start
<1>2. CASE Excluded(ds, E, Len(ds)) # {}
  BY <1>2, StartExcluding DEF Start
<1> QED BY <1>1, <1>2

-----------------------------------------------------------------------------
(* One call of Next.                                                       *)

(* The candidates over ds above cur that satisfy the logic.                *)
Ahead(l, ds, cur) == {c \in SUBSET Members(ds) : Below(cur, c) /\ IsSatisfiedBy(l, c)}

(* n stands for the least candidate over r that is ahead of cur, or is the *)
(* top of the counter when none is.                                        *)
IsAnswer(l, r, cur, n) ==
  /\ n = {Len(r)} \/ n \in Bitsets(r)
  /\ n = {Len(r)} => Current(n, r) = {} /\ Ahead(l, r, cur) = {}
  /\ n \in Bitsets(r) => /\ Current(n, r) \in Ahead(l, r, cur)
                         /\ Current(n, r) # {}
                         /\ \A c \in Ahead(l, r, cur) : AtOrAbove(Current(n, r), c)

(* What a call excluding E finds.                                          *)
LEMMA NextAnswer ==
  ASSUME NEW l, NEW ds \in Seq(Nat), Increasing(ds), NEW b \in Bitsets(ds),
         NEW E \in SUBSET Current(b, ds),
         NEW r, r = Keep(ds, E),
         NEW n, n = IncrementUntilValid(l, Start(b, Excluded(ds, E, Len(ds))), r)
  PROVE  IsAnswer(l, r, Current(b, ds), n)
<1> DEFINE s == Start(b, Excluded(ds, E, Len(ds)))
           cur == Current(b, ds)
<1>1. r \in Seq(Nat) /\ Increasing(r)
  <2>1. Len(ds) \in 0..Len(ds) /\ Excluded(ds, E, Len(ds)) \subseteq 0..(Len(ds) - 1)
    BY DEF Excluded
  <2> QED BY <2>1, KeepShifts
<1>2. Len(r) \in Nat
  BY <1>1
<1>3. s \in Counts(r) /\ \A x \in Bitsets(r) : AtOrAbove(s, x) <=> Below(cur, Current(x, r))
  BY SearchStart
<1> HIDE DEF s, cur
<1>4. n = FirstOf(StopsFrom(l, s, r))
  BY <1>2, <1>3, IncrementFinds DEF s
<1>5. n \in StopsFrom(l, s, r) /\ \A z \in StopsFrom(l, s, r) : AtOrAbove(n, z)
  BY <1>2, <1>3, <1>4, FirstStop
<1>6. n \in Counts(r) /\ Stops(l, n, r) /\ AtOrAbove(s, n)
  BY <1>5 DEF StopsFrom
<1>7. ASSUME NEW c \in Ahead(l, r, cur)
      PROVE  Bits(c, r) \in Bitsets(r) /\ Current(Bits(c, r), r) = c /\ AtOrAbove(n, Bits(c, r))
  <2>1. c \in SUBSET Members(r) /\ Below(cur, c) /\ IsSatisfiedBy(l, c)
    BY DEF Ahead
  <2>2. Bits(c, r) \in Bitsets(r) /\ Current(Bits(c, r), r) = c
    BY <1>1, <2>1, Correspondence
  <2>3. Bits(c, r) \in StopsFrom(l, s, r)
    BY <1>2, <1>3, <2>1, <2>2, CountsTop DEF StopsFrom, Stops
  <2> QED BY <1>5, <2>2, <2>3
<1>8. ASSUME n = {Len(r)} PROVE Current(n, r) = {} /\ Ahead(l, r, cur) = {}
  <2>1. Current(n, r) = {}
    BY <1>1, <1>8, Correspondence
  <2>2. \A x \in Bitsets(r) : ~AtOrAbove(n, x)
    BY <1>2, <1>8, CountsTop DEF AtOrAbove
  <2> QED BY <1>7, <2>1, <2>2
<1>9. ASSUME n \in Bitsets(r)
      PROVE  /\ Current(n, r) \in Ahead(l, r, cur)
             /\ Current(n, r) # {}
             /\ \A c \in Ahead(l, r, cur) : AtOrAbove(Current(n, r), c)
  <2>1. Below(cur, Current(n, r)) /\ Current(n, r) \in SUBSET Members(r)
    <3>1. Below(cur, Current(n, r))
      BY <1>3, <1>6, <1>9
    <3>2. Current(n, r) \in SUBSET Members(r)
      BY <1>1, <1>9, CurrentWithin
    <3> QED BY <3>1, <3>2
  <2>2. Current(n, r) # {}
    BY <2>1 DEF Below
  <2>3. Current(n, r) \in Ahead(l, r, cur)
    BY <1>6, <2>1, <2>2 DEF Ahead, Stops
  <2>4. ASSUME NEW c \in Ahead(l, r, cur) PROVE AtOrAbove(Current(n, r), c)
    BY <1>1, <1>7, <1>9, SameOrder DEF AtOrAbove
  <2> QED BY <2>2, <2>3, <2>4
<1> QED BY <1>6, <1>8, <1>9 DEF cur, Counts, IsAnswer

-----------------------------------------------------------------------------
(* The invariant: the answer is the candidate of the counter, which is     *)
(* past the last descriptor exactly when the iterator is done.             *)

Inv ==
  /\ logic \in Logics
  /\ descs \in Seq(Nat)
  /\ Increasing(descs)
  /\ Members(descs) \subseteq GetAllDescriptors(logic)
  /\ done \in BOOLEAN
  /\ out = Current(state, descs)
  /\ ~done => state \in Bitsets(descs)
  /\ done => state = {Len(descs)}

LEMMA PendingIs == Inv => Pending = IF done THEN {} ELSE Ahead(logic, descs, out)
<1> SUFFICES ASSUME Inv PROVE Pending = IF done THEN {} ELSE Ahead(logic, descs, out)
  OBVIOUS
<1>1. Len(descs) \in Nat
  BY DEF Inv
<1>2. Pending = {Current(b, descs) : b \in {x \in Bitsets(descs) :
                    Below(state, x) /\ IsSatisfiedBy(logic, Current(x, descs))}}
  BY DEF Pending, Bitsets
<1>3. CASE done
  <2>1. \A x \in Bitsets(descs) : ~Below(state, x)
    BY <1>1, <1>3, CountsTop DEF Inv
  <2> QED BY <1>2, <1>3, <2>1
<1>4. CASE ~done
  <2>1. \A x \in Bitsets(descs) : Below(state, x) <=> Below(out, Current(x, descs))
    BY <1>4, SameOrder DEF Inv
  <2>2. \A x \in Bitsets(descs) : Current(x, descs) \in SUBSET Members(descs)
    BY Correspondence DEF Inv
  <2>3. \A c \in SUBSET Members(descs) : Bits(c, descs) \in Bitsets(descs) /\ Current(Bits(c, descs), descs) = c
    BY Correspondence DEF Inv
  <2>4. Pending \subseteq Ahead(logic, descs, out)
    BY <1>2, <2>1, <2>2 DEF Ahead
  <2>5. ASSUME NEW c \in Ahead(logic, descs, out) PROVE c \in Pending
    <3>1. c \in SUBSET Members(descs) /\ Below(out, c) /\ IsSatisfiedBy(logic, c)
      BY DEF Ahead
    <3>2. /\ Bits(c, descs) \in Bitsets(descs)
          /\ Below(state, Bits(c, descs))
          /\ IsSatisfiedBy(logic, Current(Bits(c, descs), descs))
          /\ c = Current(Bits(c, descs), descs)
      BY <2>1, <2>3, <3>1
    <3> QED BY <1>2, <3>2
  <2> QED BY <1>4, <2>4, <2>5
<1> QED BY <1>3, <1>4

LEMMA InvInit == Init => Inv /\ Members(descs) = GetAllDescriptors(logic)
<1> SUFFICES ASSUME Init PROVE Inv /\ Members(descs) = GetAllDescriptors(logic)
  OBVIOUS
<1> DEFINE all == [i \in 1..N |-> i]
           E == (1..N) \ GetAllDescriptors(logic)
<1>1. logic \in Logics /\ descs = Keep(all, E) /\ state = {} /\ done = FALSE /\ out = {}
  BY DEF Init
<1>2. all \in Seq(Nat) /\ Len(all) = N /\ Increasing(all)
  BY IteratorAssumption DEF Increasing
<1>3. Members(all) = 1..N
  BY DEF Members
<1>4. GetAllDescriptors(logic) \subseteq 1..N
  BY <1>1, IteratorAssumption
<1> HIDE DEF all, E
<1>5. descs \in Seq(Nat) /\ Increasing(descs) /\ Members(descs) = Members(all) \ E
  <2>1. N \in 0..Len(all) /\ Excluded(all, E, Len(all)) \subseteq 0..(N - 1)
    BY <1>2, IteratorAssumption DEF Excluded
  <2> QED BY <1>1, <1>2, <2>1, KeepShifts
<1>6. Members(descs) = GetAllDescriptors(logic)
  BY <1>3, <1>4, <1>5 DEF E
<1>7. Current({}, descs) = {} /\ {} \in Bitsets(descs)
  BY DEF Current, Bitsets
<1> QED BY <1>1, <1>5, <1>6, <1>7 DEF Inv

(* What an Advance does, read through NextAnswer.                          *)
LEMMA AdvanceStep ==
  ASSUME Inv, NEW E \in SUBSET out, Advance(E)
  PROVE  /\ Inv' /\ ~done /\ logic' = logic
         /\ Members(descs') = Members(descs) \ E
         /\ done' => out' = {} /\ Ahead(logic, descs', out) = {}
         /\ ~done' => /\ out' \in Ahead(logic, descs', out)
                      /\ \A c \in Ahead(logic, descs', out) : AtOrAbove(out', c)
<1> DEFINE idx == Excluded(descs, E, Len(descs))
<1>1. /\ ~done /\ logic' = logic
      /\ descs' = Keep(descs, E)
      /\ state' = IncrementUntilValid(logic, Start(state, idx), descs')
      /\ out' = Current(state', descs')
      /\ done' = (out' = {})
  BY DEF Advance, Excluded, Start
<1>2. /\ descs \in Seq(Nat) /\ Increasing(descs) /\ state \in Bitsets(descs)
      /\ E \in SUBSET Current(state, descs) /\ out = Current(state, descs)
  BY <1>1 DEF Inv
<1>3. descs' \in Seq(Nat) /\ Increasing(descs') /\ Members(descs') = Members(descs) \ E
  <2>1. Len(descs) \in 0..Len(descs) /\ idx \subseteq 0..(Len(descs) - 1)
    BY <1>2 DEF Excluded
  <2> QED BY <1>1, <1>2, <2>1, KeepShifts
<1>4. IsAnswer(logic, descs', out, state')
  BY <1>1, <1>2, NextAnswer
<1>5. Inv'
  BY <1>1, <1>3, <1>4 DEF Inv, IsAnswer
<1> QED BY <1>1, <1>3, <1>4, <1>5 DEF IsAnswer

LEMMA InvStep == Inv /\ [Next]_vars => Inv'
<1> SUFFICES ASSUME Inv, [Next]_vars PROVE Inv'
  OBVIOUS
<1>1. ASSUME NEW E \in SUBSET out, Advance(E) PROVE Inv'
  BY <1>1, AdvanceStep
<1>2. CASE UNCHANGED vars
  BY <1>2 DEF Inv, vars
<1> QED BY <1>1, <1>2 DEF Next, AdvanceDone

LEMMA InvAlways == Spec => []Inv
BY InvInit, InvStep, PTL DEF Spec

(* The iterator's variables keep their types: in particular the counter    *)
(* never grows past the bit behind the last descriptor in play, and every  *)
(* answer is made of descriptors in play.                                  *)
THEOREM IteratorTypeCorrect == Spec => []TypeOK
<1>1. Inv => TypeOK
  <2> SUFFICES ASSUME Inv PROVE TypeOK
    OBVIOUS
  <2>1. Len(descs) \in Nat /\ descs \in Seq(Nat)
    BY DEF Inv
  <2>2. descs \in Seq(1..N)
    <3>1. \A i \in 1..Len(descs) : descs[i] \in 1..N
      <4>1. Members(descs) \subseteq 1..N
        BY IteratorAssumption DEF Inv
      <4> QED BY <2>1, <4>1 DEF Members
    <3>2. descs \in [1..Len(descs) -> Nat]
      BY <2>1
    <3>3. descs = [i \in 1..Len(descs) |-> descs[i]]
      BY <3>2
    <3>4. [i \in 1..Len(descs) |-> descs[i]] \in Seq(1..N)
      BY <2>1, <3>1
    <3> QED BY <3>3, <3>4
  <2>3. state \subseteq 0..Len(descs)
    BY <2>1, CountsTop DEF Inv, Counts
  <2>4. out \subseteq Members(descs)
    BY Correspondence DEF Inv
  <2> QED BY <2>2, <2>3, <2>4 DEF Inv, TypeOK
<1> QED BY <1>1, InvAlways, PTL

(* No solution left to return is made of descriptors before the last one   *)
(* of the answer only.                                                     *)
THEOREM EarlierFirst == Spec => []EarlierDescriptorsFirst
<1>1. Inv => EarlierDescriptorsFirst
  <2> SUFFICES ASSUME Inv, NEW s \in Pending, out # {} PROVE \E d \in s : \A e \in out : e <= d
    BY DEF EarlierDescriptorsFirst
  <2>1. s \in SUBSET Members(descs) /\ Below(out, s) /\ out \in SUBSET Members(descs)
    <3>1. ~done /\ s \in Ahead(logic, descs, out)
      BY PendingIs
    <3>2. state \in Bitsets(descs) /\ out = Current(state, descs)
      BY <3>1 DEF Inv
    <3>3. out \in SUBSET Members(descs)
      BY <3>2, Correspondence DEF Inv
    <3> QED BY <3>1, <3>3 DEF Ahead
  <2>2. PICK j \in s \ out : \A i \in out \union s : i > j => i \in out /\ i \in s
    BY <2>1 DEF Below
  <2>3. Members(descs) \subseteq 0..N /\ N \in Nat
    BY IteratorAssumption DEF Inv
  <2>4. s \subseteq 0..N /\ out \subseteq 0..N
    BY <2>1, <2>3
  <2>5. PICK d \in s : \A e \in s : e <= d
    BY <2>2, <2>3, <2>4, GreatestNumber
  <2>6. ASSUME NEW e \in out PROVE e <= d
    <3> SUFFICES ASSUME ~(e <= d) PROVE FALSE
      OBVIOUS
    <3>1. e \in Nat /\ d \in Nat /\ j \in Nat /\ j <= d
      BY <2>2, <2>3, <2>4, <2>5
    <3>2. e > j /\ e \notin s
      BY <2>5, <3>1
    <3> QED BY <2>2, <3>2
  <2> QED BY <2>6
<1> QED BY <1>1, InvAlways, PTL

-----------------------------------------------------------------------------
(* The iterator implements the pool of solutions.                          *)

LEMMA SameLogic ==
  /\ \A l : Pool!GetAllDescriptors(l) = GetAllDescriptors(l)
  /\ \A l, c : Pool!IsSatisfiedBy(l, c) = IsSatisfiedBy(l, c)
<1>1. \A l : Pool!GetAllDescriptors(l) = GetAllDescriptors(l)
  BY DEF Pool!GetAllDescriptors, GetAllDescriptors
<1>2. \A l, c : Pool!IsSatisfiedBy(l, c) = IsSatisfiedBy(l, c)
  BY DEF Pool!IsSatisfiedBy, IsSatisfiedBy, Pool!IsLenApplicable, IsLenApplicable, Pool!Cardinality, Cardinality
<1> QED BY <1>1, <1>2

(* At first every nonempty solution is ahead.                              *)
LEMMA PoolStarts == Init => Pool!PoolInit
<1> SUFFICES ASSUME Init PROVE Pool!PoolInit
  OBVIOUS
<1>1. logic \in Logics /\ out = {} /\ done = FALSE
  BY DEF Init
<1>2. Inv /\ Members(descs) = GetAllDescriptors(logic)
  BY InvInit
<1>3. Pending = Ahead(logic, descs, {})
  BY <1>1, <1>2, PendingIs
<1>4. \A c \in SUBSET GetAllDescriptors(logic) : Below({}, c) <=> c # {}
  <2> SUFFICES ASSUME NEW c \in SUBSET GetAllDescriptors(logic) PROVE Below({}, c) <=> c # {}
    OBVIOUS
  <2>1. c \in SUBSET (0..N) /\ {} \in SUBSET (0..N) /\ N \in Nat
    BY <1>1, IteratorAssumption
  <2>2. ~Below(c, {}) /\ ~Below({}, {})
    BY DEF Below
  <2> QED BY <2>1, <2>2, BelowTotal
<1>5. Pending = Pool!Solutions(logic)
  BY <1>2, <1>3, <1>4, SameLogic DEF Ahead, Pool!Solutions
<1> QED BY <1>1, <1>5 DEF Pool!PoolInit

(* A call of Next takes the answer out of the pool, with everything that   *)
(* holds an excluded descriptor, or leaves it empty.                       *)
LEMMA PoolAdvances ==
  ASSUME Inv, NEW E \in SUBSET out, Advance(E)
  PROVE  Pool!Return(E) \/ Pool!Exhaust(E)
<1>1. /\ Inv' /\ ~done /\ logic' = logic
      /\ Members(descs') = Members(descs) \ E
      /\ done' => out' = {} /\ Ahead(logic, descs', out) = {}
      /\ ~done' => /\ out' \in Ahead(logic, descs', out)
                   /\ \A c \in Ahead(logic, descs', out) : AtOrAbove(out', c)
  BY AdvanceStep
<1>2. Pending = Ahead(logic, descs, out)
  BY <1>1, PendingIs
<1>3. Pool!Without(Pending, E) = Ahead(logic, descs', out)
  BY <1>1, <1>2 DEF Pool!Without, Ahead
<1>4. Inv' => Pending' = IF done' THEN {} ELSE Ahead(logic', descs', out')
  <2>1. (Inv => Pending = IF done THEN {} ELSE Ahead(logic, descs, out))'
    BY PendingIs, PTL
  <2> QED BY <2>1 DEF Ahead
<1>5. CASE done'
  BY <1>1, <1>3, <1>4, <1>5 DEF Pool!Exhaust
<1>6. CASE ~done'
  <2>1. Pending' = Ahead(logic, descs', out')
    BY <1>1, <1>4, <1>6
  <2>2. out \subseteq Nat /\ \A c \in Ahead(logic, descs', out) : c \subseteq Nat
    <3>1. Members(descs) \subseteq Nat
      BY Elements DEF Inv
    <3>2. out \subseteq Members(descs)
      BY <1>1, CurrentWithin DEF Inv
    <3> QED BY <1>1, <3>1, <3>2 DEF Ahead
  <2>3. out' \subseteq Nat /\ Below(out, out') /\ out' \in Ahead(logic, descs', out)
    BY <1>1, <1>6, <2>2 DEF Ahead
  <2>4. ASSUME NEW c, c \in Ahead(logic, descs', out') PROVE c \in Ahead(logic, descs', out) \ {out'}
    <3>1. c \in SUBSET Members(descs') /\ Below(out', c) /\ IsSatisfiedBy(logic, c)
      BY <2>4 DEF Ahead
    <3>2. c \subseteq Nat
      BY <1>1, <3>1, Elements DEF Inv
    <3>3. Below(out, c) /\ c # out'
      BY <2>2, <2>3, <3>1, <3>2, BelowTransitive, BelowIrreflexive
    <3> QED BY <3>1, <3>3 DEF Ahead
  <2>5. ASSUME NEW c \in Ahead(logic, descs', out) \ {out'} PROVE c \in Ahead(logic, descs', out')
    <3>1. AtOrAbove(out', c)
      BY <1>1, <1>6
    <3> QED BY <3>1 DEF Ahead, AtOrAbove
  <2>6. Ahead(logic, descs', out') = Ahead(logic, descs', out) \ {out'}
    BY <2>4, <2>5
  <2>7. done' = done
    BY <1>1, <1>6 DEF Inv
  <2> QED BY <1>1, <1>3, <1>6, <2>1, <2>3, <2>6, <2>7 DEF Pool!Return
<1> QED BY <1>5, <1>6

LEMMA PoolSteps == Inv /\ [Next]_vars => [Pool!PoolNext]_Pool!poolVars
<1> SUFFICES ASSUME Inv, [Next]_vars PROVE [Pool!PoolNext]_Pool!poolVars
  OBVIOUS
<1>1. ASSUME NEW E \in SUBSET out, Advance(E) PROVE Pool!PoolNext
  <2>1. Pool!Return(E) \/ Pool!Exhaust(E)
    BY <1>1, PoolAdvances
  <2>2. E \in SUBSET Pool!GetAllDescriptors(logic)
    <3>1. ~done
      BY <1>1 DEF Advance
    <3>2. out \subseteq Members(descs)
      BY <3>1, CurrentWithin DEF Inv
    <3> QED BY <3>2, SameLogic DEF Inv
  <2> QED BY <2>1, <2>2 DEF Pool!PoolNext
<1>2. CASE UNCHANGED vars
  BY <1>2 DEF vars, Pool!poolVars, Pending
<1> QED BY <1>1, <1>2 DEF Next, AdvanceDone

(* Whatever the caller excludes, each call returns a solution that holds   *)
(* no excluded descriptor and was not returned before, and nil only when   *)
(* none is left: neither the jump over the candidates with an excluded     *)
(* descriptor nor the squeezing of its bit skips or repeats a solution.    *)
THEOREM AllSolutionsEnumerated == Spec => EnumeratesAllSolutions
<1>1. Init => Pool!PoolInit
  BY PoolStarts
<1>2. Inv /\ [Next]_vars => [Pool!PoolNext]_Pool!poolVars
  BY PoolSteps
<1> QED BY <1>1, <1>2, InvAlways, PTL DEF Spec, EnumeratesAllSolutions, Pool!PoolSpec
=============================================================================
