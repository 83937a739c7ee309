------------------------------ MODULE Folding ------------------------------
(***************************************************************************)
(* What a fold over a sequence computes, for every operator and sequences  *)
(* of every length.  FoldLeft (SequencesExt) is a recursive function over  *)
(* the subsets of the domain; Fold is that function written out.           *)
(*                                                                         *)
(* The provers cannot instantiate a theorem whose parameter is an operator.*)
(* They need not: this module is instantiated once for every operator that *)
(* is folded with, and its theorems are cited for it by name.              *)
(***************************************************************************)
EXTENDS Naturals, Sequences, WellFoundedInduction, TLAPS

CONSTANT Op(_, _)

Largest(s) == CHOOSE x \in s : \A y \in s : x >= y

Unfolded(base, seq, iter) ==
    [s \in SUBSET DOMAIN seq |->
        IF s = {} THEN base ELSE Op(iter[s \ {Largest(s)}], seq[Largest(s)])]

Fold(base, seq) == (CHOOSE iter : iter = Unfolded(base, seq, iter))[DOMAIN seq]

----------------------------------------------------------------------------
(* Induction, for a set *)

\* A set that has 0 and with a number the next one has all natural numbers.
LEMMA NatSet ==
    ASSUME NEW T, 0 \in T, \A n \in Nat : n \in T => n + 1 \in T
    PROVE  Nat \subseteq T
<1> SUFFICES ASSUME NEW m \in Nat, m \notin T PROVE FALSE
  OBVIOUS
<1> DEFINE M == {n \in Nat : n \notin T}
<1>1. PICK x \in M : \A y \in M : ~(<<y, x>> \in OpToRel(<, Nat))
  BY WFMin, NatLessThanWellFounded
<1>2. x # 0 /\ x - 1 \in Nat /\ x = (x - 1) + 1
  <2>1. x \in Nat /\ x \notin T /\ x # 0
    OBVIOUS
  <2> QED BY <2>1
<1>3. x - 1 \in M
  BY <1>2
<1>4. <<x - 1, x>> \in OpToRel(<, Nat)
  BY <1>1, <1>2, Z3 DEF OpToRel
<1> QED
  BY <1>1, <1>3, <1>4

\* A nonempty set of numbers up to n has a largest one.
LEMMA LargestOf ==
    ASSUME NEW n \in Nat, NEW s \in SUBSET (1..n), s # {}
    PROVE  Largest(s) \in s /\ \A y \in s : Largest(s) >= y
<1> DEFINE P == {m \in Nat : \A t \in SUBSET (1..m) : t # {} => \E x \in t : \A y \in t : x >= y}
<1>1. 0 \in P
  <2>1. ASSUME NEW t \in SUBSET (1..0) PROVE t = {}
    <3>1. ASSUME NEW y \in t PROVE FALSE
      OBVIOUS
    <3> QED BY <3>1
  <2> QED BY <2>1
<1>2. ASSUME NEW m \in Nat, m \in P PROVE m + 1 \in P
  <2> SUFFICES ASSUME NEW t \in SUBSET (1..(m + 1)), t # {} PROVE \E x \in t : \A y \in t : x >= y
    OBVIOUS
  <2>1. CASE m + 1 \in t
    BY <2>1
  <2>2. CASE m + 1 \notin t
    <3>1. t \in SUBSET (1..m)
      BY <2>2
    <3> QED BY <3>1, <1>2
  <2> QED BY <2>1, <2>2
<1> HIDE DEF P
<1>3. n \in P
  BY <1>1, <1>2, NatSet
<1>4. \E x \in s : \A y \in s : x >= y
  BY <1>3 DEF P
<1> QED BY <1>4 DEF Largest

\* The same of numbers from 0, and of the smallest.
LEMMA HasLargest ==
    ASSUME NEW n \in Nat, NEW s \in SUBSET (0..n), s # {}
    PROVE  \E x \in s : \A y \in s : x >= y
<1>1. CASE s \ {0} = {}
  <2>1. PICK x \in s : x = 0
    BY <1>1
  <2>2. \A y \in s : y = 0
    BY <1>1
  <2> QED BY <2>1, <2>2
<1>2. CASE s \ {0} # {}
  <2> DEFINE t == s \ {0}
  <2>1. t \in SUBSET (1..n) /\ t # {}
    BY <1>2
  <2>2. \A y \in s : y = 0 \/ y \in t
    OBVIOUS
  <2>3. t \subseteq s
    OBVIOUS
  <2> HIDE DEF t
  <2>4. PICK x \in t : \A y \in t : x >= y
    BY <2>1, LargestOf
  <2>5. x \in s /\ x \in 1..n
    BY <2>1, <2>3
  <2> QED BY <2>2, <2>4, <2>5
<1> QED BY <1>1, <1>2

LEMMA HasSmallest ==
    ASSUME NEW n \in Nat, NEW s \in SUBSET (0..n), s # {}
    PROVE  \E x \in s : \A y \in s : x <= y
<1> DEFINE t == {n - e : e \in s}
<1>1. t \in SUBSET (0..n) /\ t # {}
  <2>1. ASSUME NEW e \in s PROVE n - e \in 0..n
    OBVIOUS
  <2> QED BY <2>1
<1> HIDE DEF t
<1>2. PICK d \in t : \A y \in t : d >= y
  BY <1>1, HasLargest
<1>3. PICK x \in s : d = n - x
  BY DEF t
<1>4. \A y \in s : n - y \in t
  BY DEF t
<1>5. ASSUME NEW y \in s PROVE x <= y
  BY <1>2, <1>3, <1>4
<1> QED BY <1>5

----------------------------------------------------------------------------
(* The recursive function *)

\* g is the function of a fold of n steps.
Steps(base, seq, n, g) ==
    /\ g[{}] = base
    /\ \A s \in SUBSET (1..n) : s # {} => g[s] = Op(g[s \ {Largest(s)}], seq[Largest(s)])

\* There is but one, and a longer one begins with it.
LEMMA Unique ==
    ASSUME NEW base, NEW seq, NEW n \in Nat, NEW g, NEW h, NEW k \in Nat, n <= k,
           Steps(base, seq, n, g), Steps(base, seq, k, h)
    PROVE  \A s \in SUBSET (1..n) : g[s] = h[s]
<1> DEFINE P == {m \in Nat : m <= n => \A s \in SUBSET (1..m) : g[s] = h[s]}
<1>1. 0 \in P
  <2>1. SUBSET (1..0) = {{}}
    OBVIOUS
  <2> QED BY <2>1 DEF Steps
<1>2. ASSUME NEW m \in Nat, m \in P PROVE m + 1 \in P
  <2> SUFFICES ASSUME m + 1 <= n, NEW s \in SUBSET (1..(m + 1)) PROVE g[s] = h[s]
    <3>1. m + 1 \in Nat
      OBVIOUS
    <3> QED BY <3>1
  <2>1. CASE s = {}
    BY <2>1 DEF Steps
  <2>2. CASE s # {}
    <3> DEFINE x == Largest(s)
    <3>1. x \in s /\ \A y \in s : x >= y
      <4>1. m + 1 \in Nat
        OBVIOUS
      <4> QED BY <2>2, <4>1, LargestOf
    <3> HIDE DEF x
    <3>2. s \ {x} \in SUBSET (1..m)
      <4>1. ASSUME NEW y \in s \ {x} PROVE y \in 1..m
        BY <3>1
      <4> QED BY <4>1
    <3>3. g[s \ {x}] = h[s \ {x}]
      <4>1. m <= n
        OBVIOUS
      <4> QED BY <3>2, <4>1, <1>2
    <3>4. s \in SUBSET (1..n) /\ s \in SUBSET (1..k)
      OBVIOUS
    <3> QED BY <2>2, <3>3, <3>4 DEF Steps, x
  <2> QED BY <2>1, <2>2
<1> HIDE DEF P
<1>3. n \in P
  BY <1>1, <1>2, NatSet
<1> QED BY <1>3 DEF P

\* There is one.
LEMMA Exists ==
    ASSUME NEW base, NEW seq, NEW n \in Nat
    PROVE  \E g : g = [s \in SUBSET (1..n) |-> g[s]] /\ Steps(base, seq, n, g)
<1> DEFINE P == {m \in Nat : \E g : g = [s \in SUBSET (1..m) |-> g[s]] /\ Steps(base, seq, m, g)}
<1>1. 0 \in P
  <2> DEFINE g == [s \in SUBSET (1..0) |-> base]
  <2>1. SUBSET (1..0) = {{}}
    OBVIOUS
  <2>2. g[{}] = base
    BY <2>1
  <2>3. Steps(base, seq, 0, g)
    BY <2>1, <2>2 DEF Steps
  <2>4. g = [s \in SUBSET (1..0) |-> g[s]]
    OBVIOUS
  <2> HIDE DEF g
  <2> QED BY <2>3, <2>4
<1>2. ASSUME NEW m \in Nat, m \in P PROVE m + 1 \in P
  <2>1. PICK g : g = [s \in SUBSET (1..m) |-> g[s]] /\ Steps(base, seq, m, g)
    BY <1>2
  <2> DEFINE h == [s \in SUBSET (1..(m + 1)) |->
                     IF m + 1 \in s THEN Op(g[s \ {m + 1}], seq[m + 1]) ELSE g[s]]
  <2>2. h[{}] = base
    BY <2>1 DEF Steps
  <2>3. ASSUME NEW s \in SUBSET (1..(m + 1)), s # {}
        PROVE  h[s] = Op(h[s \ {Largest(s)}], seq[Largest(s)])
    <3>1. Largest(s) \in s /\ \A y \in s : Largest(s) >= y
      <4>1. m + 1 \in Nat
        OBVIOUS
      <4> QED BY <2>3, <4>1, LargestOf
    <3>2. CASE m + 1 \in s
      <4>1. Largest(s) = m + 1
        <5>1. Largest(s) >= m + 1 /\ Largest(s) \in 1..(m + 1)
          BY <3>1, <3>2
        <5> QED BY <5>1
      <4>2. h[s \ {m + 1}] = g[s \ {m + 1}]
        OBVIOUS
      <4>3. h[s] = Op(g[s \ {m + 1}], seq[m + 1])
        BY <3>2
      <4> QED BY <4>1, <4>2, <4>3
    <3>3. CASE m + 1 \notin s
      <4>1. s \in SUBSET (1..m) /\ s \ {Largest(s)} \in SUBSET (1..m)
        <5>1. ASSUME NEW y \in s PROVE y \in 1..m
          BY <3>3
        <5> QED BY <5>1
      <4>2. h[s] = g[s] /\ h[s \ {Largest(s)}] = g[s \ {Largest(s)}]
        BY <3>3
      <4>3. g[s] = Op(g[s \ {Largest(s)}], seq[Largest(s)])
        BY <4>1, <2>1, <2>3 DEF Steps
      <4> QED BY <4>2, <4>3
    <3> QED BY <3>2, <3>3
  <2>4. h = [s \in SUBSET (1..(m + 1)) |-> h[s]]
    OBVIOUS
  <2> HIDE DEF h
  <2>5. Steps(base, seq, m + 1, h)
    BY <2>2, <2>3 DEF Steps
  <2> QED BY <2>4, <2>5
<1> HIDE DEF P
<1>3. n \in P
  BY <1>1, <1>2, NatSet
<1> QED BY <1>3 DEF P

\* Fold takes the function the CHOOSE of FoldLeft describes.
LEMMA FoldSteps ==
    ASSUME NEW base, NEW seq, NEW n \in Nat, DOMAIN seq = 1..n
    PROVE  \E g : Steps(base, seq, n, g) /\ Fold(base, seq) = g[1..n]
<1> DEFINE it == CHOOSE iter : iter = Unfolded(base, seq, iter)
<1>1. PICK g : g = [s \in SUBSET (1..n) |-> g[s]] /\ Steps(base, seq, n, g)
  BY Exists
<1>2. g = Unfolded(base, seq, g)
  <2>1. ASSUME NEW s \in SUBSET (1..n)
        PROVE  g[s] = IF s = {} THEN base ELSE Op(g[s \ {Largest(s)}], seq[Largest(s)])
    BY <1>1 DEF Steps
  <2> QED BY <2>1, <1>1 DEF Unfolded
<1>3. it = Unfolded(base, seq, it)
  BY <1>2
<1> HIDE DEF it
<1>4. Steps(base, seq, n, it)
  <2>1. ASSUME NEW s \in SUBSET (1..n)
        PROVE  it[s] = IF s = {} THEN base ELSE Op(it[s \ {Largest(s)}], seq[Largest(s)])
    BY <1>3 DEF Unfolded
  <2> QED BY <2>1 DEF Steps
<1>5. Fold(base, seq) = it[1..n]
  BY DEF Fold, it
<1> QED BY <1>4, <1>5

----------------------------------------------------------------------------
(* The theorems that are cited *)

\* The fold of nothing is the base.
LEMMA FoldEmpty ==
    ASSUME NEW base, NEW seq, DOMAIN seq = {} PROVE Fold(base, seq) = base
<1>1. DOMAIN seq = 1..0
  OBVIOUS
<1>2. PICK g : Steps(base, seq, 0, g) /\ Fold(base, seq) = g[1..0]
  BY <1>1, FoldSteps
<1>3. 1..0 = {}
  OBVIOUS
<1> QED BY <1>2, <1>3 DEF Steps

\* A fold depends on the elements alone.
LEMMA FoldAlike ==
    ASSUME NEW base, NEW n \in Nat, NEW seq, DOMAIN seq = 1..n, NEW other, DOMAIN other = 1..n,
           \A i \in 1..n : seq[i] = other[i]
    PROVE  Fold(base, seq) = Fold(base, other)
<1>1. PICK g : Steps(base, seq, n, g) /\ Fold(base, seq) = g[1..n]
  BY FoldSteps
<1>2. PICK h : Steps(base, other, n, h) /\ Fold(base, other) = h[1..n]
  BY FoldSteps
<1>3. Steps(base, seq, n, h)
  <2>1. ASSUME NEW s \in SUBSET (1..n), s # {} PROVE h[s] = Op(h[s \ {Largest(s)}], seq[Largest(s)])
    <3>1. Largest(s) \in s
      BY <2>1, LargestOf
    <3>2. seq[Largest(s)] = other[Largest(s)]
      BY <3>1
    <3> QED BY <2>1, <3>2, <1>2 DEF Steps
  <2> QED BY <2>1, <1>2 DEF Steps
<1>4. \A s \in SUBSET (1..n) : h[s] = g[s]
  BY <1>1, <1>3, Unique, n <= n
<1> QED BY <1>1, <1>2, <1>4

\* One element more is one step more.
LEMMA FoldSnoc ==
    ASSUME NEW base, NEW seq, NEW n \in Nat, DOMAIN seq = 1..n,
           NEW longer, DOMAIN longer = 1..(n + 1), \A i \in 1..n : longer[i] = seq[i]
    PROVE  Fold(base, longer) = Op(Fold(base, seq), longer[n + 1])
<1>1. PICK g : Steps(base, seq, n, g) /\ Fold(base, seq) = g[1..n]
  BY FoldSteps
<1>2. PICK h : Steps(base, longer, n + 1, h) /\ Fold(base, longer) = h[1..(n + 1)]
  BY FoldSteps
<1>3. Steps(base, seq, n, h)
  <2>1. ASSUME NEW s \in SUBSET (1..n), s # {} PROVE h[s] = Op(h[s \ {Largest(s)}], seq[Largest(s)])
    <3>1. Largest(s) \in s
      BY <2>1, LargestOf
    <3>2. s \in SUBSET (1..(n + 1))
      OBVIOUS
    <3>3. longer[Largest(s)] = seq[Largest(s)]
      BY <3>1
    <3> QED BY <2>1, <3>2, <3>3, <1>2 DEF Steps
  <2> QED BY <2>1, <1>2 DEF Steps
<1>4. h[1..n] = g[1..n]
  <2>1. \A s \in SUBSET (1..n) : h[s] = g[s]
    BY <1>1, <1>3, Unique, n <= n
  <2> QED BY <2>1
<1>a. 1..(n + 1) \in SUBSET (1..(n + 1)) /\ 1..(n + 1) # {}
  <2>1. n + 1 \in 1..(n + 1)
    OBVIOUS
  <2> QED BY <2>1
<1>5. Largest(1..(n + 1)) = n + 1
  <2>1. Largest(1..(n + 1)) \in 1..(n + 1) /\ \A y \in 1..(n + 1) : Largest(1..(n + 1)) >= y
    BY <1>a, LargestOf, n + 1 \in Nat
  <2> QED BY <2>1
<1>6. (1..(n + 1)) \ {n + 1} = 1..n
  OBVIOUS
<1>7. h[1..(n + 1)] = Op(h[1..n], longer[n + 1])
  BY <1>2, <1>5, <1>6, <1>a DEF Steps
<1> QED BY <1>1, <1>2, <1>4, <1>7

\* The same of Append.
LEMMA FoldAppend ==
    ASSUME NEW S, NEW base, NEW seq \in Seq(S), NEW e \in S
    PROVE  Fold(base, Append(seq, e)) = Op(Fold(base, seq), e)
<1> DEFINE n == Len(seq)
           longer == Append(seq, e)
<1>1. n \in Nat /\ DOMAIN seq = 1..n /\ DOMAIN longer = 1..(n + 1)
  OBVIOUS
<1>2. \A i \in 1..n : longer[i] = seq[i]
  OBVIOUS
<1>3. longer[n + 1] = e
  OBVIOUS
<1> HIDE DEF n, longer
<1>4. Fold(base, longer) = Op(Fold(base, seq), longer[n + 1])
  BY <1>1, <1>2, FoldSnoc
<1> QED BY <1>3, <1>4 DEF longer

\* The fold of a beginning of a sequence goes on with the element that follows it.
LEMMA FoldPrefix ==
    ASSUME NEW base, NEW seq, NEW n \in Nat, DOMAIN seq = 1..n, NEW k \in 0..(n - 1)
    PROVE  Fold(base, [i \in 1..(k + 1) |-> seq[i]])
             = Op(Fold(base, [i \in 1..k |-> seq[i]]), seq[k + 1])
<1> DEFINE short == [i \in 1..k |-> seq[i]]
           long == [i \in 1..(k + 1) |-> seq[i]]
<1>1. k \in Nat /\ DOMAIN short = 1..k /\ DOMAIN long = 1..(k + 1)
  OBVIOUS
<1>2. \A i \in 1..k : long[i] = short[i]
  OBVIOUS
<1>3. long[k + 1] = seq[k + 1]
  OBVIOUS
<1> HIDE DEF short, long
<1>4. Fold(base, long) = Op(Fold(base, short), long[k + 1])
  BY <1>1, <1>2, FoldSnoc
<1> QED BY <1>3, <1>4 DEF short, long

\* A fold goes through a sequence of sets when its base is in the first and each
\* step leads from one to the next.
LEMMA FoldStepwise ==
    ASSUME NEW base, NEW seq, NEW n \in Nat, DOMAIN seq = 1..n, NEW T, base \in T[0],
           \A k \in 0..(n - 1) : \A t \in T[k] : Op(t, seq[k + 1]) \in T[k + 1]
    PROVE  Fold(base, seq) \in T[n]
<1> DEFINE Upto(k) == [i \in 1..k |-> seq[i]]
           P == {k \in Nat : k <= n => Fold(base, Upto(k)) \in T[k]}
<1>1. 0 \in P
  <2>1. DOMAIN Upto(0) = {}
    OBVIOUS
  <2> HIDE DEF Upto
  <2>2. Fold(base, Upto(0)) = base
    BY <2>1, FoldEmpty
  <2> QED BY <2>2
<1>2. ASSUME NEW k \in Nat, k \in P PROVE k + 1 \in P
  <2> SUFFICES ASSUME k + 1 <= n PROVE Fold(base, Upto(k + 1)) \in T[k + 1]
    OBVIOUS
  <2>1. k \in 0..(n - 1) /\ k <= n
    OBVIOUS
  <2>2. Fold(base, Upto(k + 1)) = Op(Fold(base, Upto(k)), seq[k + 1])
    BY <2>1, FoldPrefix
  <2>3. Fold(base, Upto(k)) \in T[k]
    BY <2>1, <1>2
  <2> HIDE DEF Upto, P
  <2> QED BY <2>1, <2>2, <2>3
<1> HIDE DEF P
<1>3. n \in P
  BY <1>1, <1>2, NatSet
<1>4. Fold(base, Upto(n)) \in T[n]
  BY <1>3 DEF P
<1>5. DOMAIN Upto(n) = 1..n /\ \A i \in 1..n : Upto(n)[i] = seq[i]
  OBVIOUS
<1> HIDE DEF Upto
<1> QED BY <1>4, <1>5, FoldAlike

\* A set that has the base and is closed under the steps has every fold.
LEMMA FoldType ==
    ASSUME NEW T, NEW S, NEW base \in T, NEW seq, NEW n \in Nat, DOMAIN seq = 1..n,
           \A i \in 1..n : seq[i] \in S, \A t \in T, e \in S : Op(t, e) \in T
    PROVE  Fold(base, seq) \in T
<1> DEFINE Upto(k) == [i \in 1..k |-> seq[i]]
           P == {k \in Nat : k <= n => Fold(base, Upto(k)) \in T}
<1>1. 0 \in P
  <2>1. DOMAIN Upto(0) = {}
    OBVIOUS
  <2> HIDE DEF Upto
  <2>2. Fold(base, Upto(0)) = base
    BY <2>1, FoldEmpty
  <2> QED BY <2>2
<1>2. ASSUME NEW k \in Nat, k \in P PROVE k + 1 \in P
  <2> SUFFICES ASSUME k + 1 <= n PROVE Fold(base, Upto(k + 1)) \in T
    OBVIOUS
  <2>1. k \in 0..(n - 1) /\ k <= n /\ k + 1 \in 1..n
    OBVIOUS
  <2>2. Fold(base, Upto(k + 1)) = Op(Fold(base, Upto(k)), seq[k + 1])
    BY <2>1, FoldPrefix
  <2>3. Fold(base, Upto(k)) \in T
    BY <2>1, <1>2
  <2>4. seq[k + 1] \in S
    BY <2>1
  <2> HIDE DEF Upto, P
  <2> QED BY <2>2, <2>3, <2>4
<1> HIDE DEF P
<1>3. n \in P
  BY <1>1, <1>2, NatSet
<1>4. Fold(base, Upto(n)) \in T
  BY <1>3 DEF P
<1>5. DOMAIN Upto(n) = 1..n /\ \A i \in 1..n : Upto(n)[i] = seq[i]
  OBVIOUS
<1> HIDE DEF Upto
<1> QED BY <1>4, <1>5, FoldAlike

\* A sequence is folded by folding its first part and going on with its second.
LEMMA FoldConcat ==
    ASSUME NEW base, NEW first, NEW m \in Nat, DOMAIN first = 1..m,
           NEW second, NEW n \in Nat, DOMAIN second = 1..n,
           NEW whole, DOMAIN whole = 1..(m + n),
           \A i \in 1..m : whole[i] = first[i], \A i \in 1..n : whole[m + i] = second[i]
    PROVE  Fold(base, whole) = Fold(Fold(base, first), second)
<1> DEFINE Upto(k) == [i \in 1..k |-> second[i]]
           Whole(k) == [i \in 1..(m + k) |-> whole[i]]
           middle == Fold(base, first)
           P == {k \in Nat : k <= n => Fold(base, Whole(k)) = Fold(middle, Upto(k))}
<1>1. 0 \in P
  <2>1. DOMAIN Upto(0) = {}
    OBVIOUS
  <2>2. DOMAIN Whole(0) = 1..m /\ \A i \in 1..m : Whole(0)[i] = first[i]
    OBVIOUS
  <2> HIDE DEF Upto, Whole
  <2>3. Fold(middle, Upto(0)) = middle
    BY <2>1, FoldEmpty
  <2>4. Fold(base, Whole(0)) = middle
    BY <2>2, FoldAlike
  <2> QED BY <2>3, <2>4
<1>2. ASSUME NEW k \in Nat, k \in P PROVE k + 1 \in P
  <2> SUFFICES ASSUME k + 1 <= n PROVE Fold(base, Whole(k + 1)) = Fold(middle, Upto(k + 1))
    <3>1. k + 1 \in Nat
      OBVIOUS
    <3> HIDE DEF Upto, Whole, middle
    <3> QED BY <3>1
  <2>1. k \in 0..(n - 1) /\ k <= n /\ k + 1 \in 1..n
    OBVIOUS
  <2>2. /\ m + k \in Nat /\ DOMAIN Whole(k) = 1..(m + k) /\ DOMAIN Whole(k + 1) = 1..((m + k) + 1)
        /\ \A i \in 1..(m + k) : Whole(k + 1)[i] = Whole(k)[i]
    OBVIOUS
  <2>3. Whole(k + 1)[(m + k) + 1] = second[k + 1]
    <3>1. whole[m + (k + 1)] = second[k + 1]
      BY <2>1
    <3>2. m + (k + 1) = (m + k) + 1 /\ (m + k) + 1 \in 1..(m + (k + 1))
      OBVIOUS
    <3> QED BY <3>1, <3>2
  <2>4. Fold(base, Whole(k)) = Fold(middle, Upto(k))
    BY <2>1, <1>2
  <2>5. Fold(middle, Upto(k + 1)) = Op(Fold(middle, Upto(k)), second[k + 1])
    BY <2>1, FoldPrefix
  <2> HIDE DEF Upto, P, Whole, middle
  <2>6. Fold(base, Whole(k + 1)) = Op(Fold(base, Whole(k)), Whole(k + 1)[(m + k) + 1])
    BY <2>2, FoldSnoc
  <2> QED BY <2>3, <2>4, <2>5, <2>6
<1> HIDE DEF P
<1>3. n \in P
  BY <1>1, <1>2, NatSet
<1>4. Fold(base, Whole(n)) = Fold(middle, Upto(n))
  BY <1>3 DEF P
<1>5. DOMAIN Upto(n) = 1..n /\ \A i \in 1..n : Upto(n)[i] = second[i]
  OBVIOUS
<1>6. m + n \in Nat /\ DOMAIN Whole(n) = 1..(m + n) /\ \A i \in 1..(m + n) : Whole(n)[i] = whole[i]
  OBVIOUS
<1> HIDE DEF Upto, Whole, middle
<1>7. Fold(middle, Upto(n)) = Fold(middle, second)
  BY <1>5, FoldAlike
<1>8. Fold(base, Whole(n)) = Fold(base, whole)
  BY <1>6, FoldAlike
<1> QED BY <1>4, <1>7, <1>8 DEF middle

=============================================================================
