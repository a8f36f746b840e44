----------------------------- MODULE SumProofs -----------------------------
(***************************************************************************)
(* What the folds of the model add up to.  FoldSeq and MapThenSumSet are   *)
(* recursive functions on the subsets of a finite set, which take an       *)
(* element of their choice off at every step.  The lemmas say that such a  *)
(* function exists, that there is only one and that the order does not     *)
(* matter.  Their induction is the well-foundedness of strict inclusion    *)
(* among finite sets, in the form in which the library states it for sets. *)
(***************************************************************************)
EXTENDS Integers, Sequences, SequencesExt, FiniteSetTheorems, TLAPS

Chosen(s) == CHOOSE x \in s : TRUE

(* g[s] is the sum of w over s, for every subset s of S. *)
Sums(g, S, w) ==
    /\ g \in [SUBSET S -> Int]
    /\ \A s \in SUBSET S :
          g[s] = IF s = {} THEN 0 ELSE w[Chosen(s)] + g[s \ {Chosen(s)}]

Whole(S, w) == \A x \in S : w[x] \in Int
Natural(S, w) == \A x \in S : w[x] \in Nat
Alike(S, w, v) == \A x \in S : v[x] = w[x]
Counted(R, k) == \A r \in R : r[k] \in Int

(* Induction over the subsets of a finite set. *)
LEMMA SubsetInduction ==
    ASSUME NEW S, IsFiniteSet(S), NEW T,
           \A s \in SUBSET S : (\A u \in SUBSET S : u \subseteq s /\ u # s => u \in T) => s \in T
    PROVE  \A s \in SUBSET S : s \in T
<1> DEFINE Bad == {s \in SUBSET S : s \notin T}
           R == StrictSubsetOrdering(S)
<1> SUFFICES ASSUME Bad # {} PROVE FALSE
  OBVIOUS
<1>1. IsWellFoundedOn(R, SUBSET S)
  <2>1. FiniteSubsetsOf(S) = SUBSET S
    BY FS_FiniteSubsetsOfFinite
  <2>2. IsWellFoundedOn(StrictSubsetOrdering(S), FiniteSubsetsOf(S))
    BY FS_StrictSubsetOrderingWellFounded
  <2> QED BY <2>1, <2>2
<1>2. PICK x \in Bad : \A y \in Bad : ~(<<y, x>> \in R)
  <2>1. Bad \subseteq SUBSET S
    OBVIOUS
  <2> HIDE DEF Bad, R
  <2> QED BY <1>1, <2>1, WFMin
<1>3. \A u \in SUBSET S : u \subseteq x /\ u # x => u \in T
  BY <1>2 DEF StrictSubsetOrdering
<1> QED BY <1>3

LEMMA ChosenIn ==
    ASSUME NEW s, s # {}
    PROVE  Chosen(s) \in s
  BY DEF Chosen

(* One more round of the recursion: exact one size further. *)
Round(g, S, w) ==
    [s \in SUBSET S |-> IF s = {} THEN 0 ELSE w[Chosen(s)] + g[s \ {Chosen(s)}]]

(* The recursion has a solution on the subsets of S. *)
LEMMA SumsExist ==
    ASSUME NEW S, IsFiniteSet(S), NEW w, \A x \in S : w[x] \in Int
    PROVE  \E g : Sums(g, S, w)
<1> DEFINE Value(g, s) == IF s = {} THEN 0 ELSE w[Chosen(s)] + g[s \ {Chosen(s)}]
           Upto(n, g) == /\ g \in [SUBSET S -> Int]
                         /\ \A s \in SUBSET S : Cardinality(s) <= n => g[s] = Value(g, s)
           Good == {u \in SUBSET S : \E g : Upto(Cardinality(u), g)}
<1>1. ASSUME NEW g \in [SUBSET S -> Int]
      PROVE  /\ Round(g, S, w) \in [SUBSET S -> Int]
             /\ \A s \in SUBSET S : Round(g, S, w)[s] = Value(g, s)
  <2>1. ASSUME NEW s \in SUBSET S PROVE Value(g, s) \in Int
    <3>1. s # {} => w[Chosen(s)] \in Int /\ g[s \ {Chosen(s)}] \in Int
      BY ChosenIn
    <3> QED BY <3>1
  <2> QED BY <2>1 DEF Round
<1>2. \A s \in SUBSET S : IsFiniteSet(s) /\ Cardinality(s) \in Nat /\ Cardinality(s) <= Cardinality(S)
  BY FS_Subset, FS_CardinalityType
<1>3. \A s \in SUBSET S : Cardinality(s) = 0 <=> s = {}
  BY <1>2, FS_EmptySet
<1>4. \A s \in SUBSET S : s # {} => /\ s \ {Chosen(s)} \in SUBSET S
                                   /\ s \ {Chosen(s)} # s
                                   /\ Cardinality(s \ {Chosen(s)}) = Cardinality(s) - 1
  BY <1>2, ChosenIn, FS_RemoveElement
<1>5. ASSUME NEW n \in Int, NEW g, Upto(n - 1, g), n > 0 PROVE Upto(n, Round(g, S, w))
  <2> DEFINE h == Round(g, S, w)
  <2>1. h \in [SUBSET S -> Int] /\ \A s \in SUBSET S : h[s] = Value(g, s)
    BY <1>1, <1>5
  <2>2. ASSUME NEW s \in SUBSET S, Cardinality(s) <= n PROVE h[s] = Value(h, s)
    <3> HIDE DEF h
    <3>1. CASE s = {}
      BY <2>1, <3>1
    <3>2. CASE s # {}
      <4> DEFINE r == s \ {Chosen(s)}
      <4>1. r \in SUBSET S /\ Cardinality(r) <= n - 1
        BY <1>2, <1>4, <2>2, <3>2
      <4>2. g[r] = Value(g, r)
        BY <1>5, <4>1
      <4>3. h[r] = g[r]
        BY <2>1, <4>1, <4>2
      <4> QED BY <2>1, <3>2, <4>3
    <3> QED BY <3>1, <3>2
  <2> HIDE DEF h
  <2> QED BY <2>1, <2>2 DEF h
<1>6. ASSUME NEW s \in SUBSET S, \A u \in SUBSET S : u \subseteq s /\ u # s => u \in Good
      PROVE  s \in Good
  <2>1. CASE s = {}
    <3> DEFINE z == [u \in SUBSET S |-> 0]
    <3>1. z \in [SUBSET S -> Int] /\ \A u \in SUBSET S : Cardinality(u) <= 0 => z[u] = Value(z, u)
      BY <1>2, <1>3
    <3>2. Cardinality(s) = 0
      BY <1>3, <2>1
    <3> HIDE DEF z, Value
    <3> QED BY <3>1, <3>2
  <2>2. CASE s # {}
    <3> DEFINE r == s \ {Chosen(s)}
    <3>1. r \in Good /\ Cardinality(r) = Cardinality(s) - 1 /\ Cardinality(s) \in Nat
      BY <1>2, <1>4, <1>6, <2>2
    <3>2. PICK g : Upto(Cardinality(s) - 1, g)
      BY <3>1
    <3>3. Cardinality(s) > 0
      BY <1>2, <1>3, <2>2
    <3> HIDE DEF Upto
    <3>4. Upto(Cardinality(s), Round(g, S, w))
      BY <1>5, <3>1, <3>2, <3>3
    <3> QED BY <3>4
  <2> QED BY <2>1, <2>2
<1>7. S \in Good
  <2> HIDE DEF Good
  <2>1. \A s \in SUBSET S : s \in Good
    BY <1>6, SubsetInduction
  <2> QED BY <2>1
<1>8. PICK g : Upto(Cardinality(S), g)
  BY <1>7
<1>9. Sums(g, S, w)
  BY <1>2, <1>8 DEF Sums
<1> QED BY <1>9

(* There is one solution: what two of them say of a common set is the      *)
(* same, if the weights are.                                               *)
LEMMA SumsAgree ==
    ASSUME NEW S, IsFiniteSet(S), NEW g, NEW h, NEW A, NEW B, NEW w, NEW v, S \subseteq A, S \subseteq B,
           Sums(g, A, w), Sums(h, B, v), \A x \in S : w[x] = v[x]
    PROVE  \A s \in SUBSET S : g[s] = h[s]
<1> DEFINE T == {s \in SUBSET S : g[s] = h[s]}
<1>1. ASSUME NEW s \in SUBSET S, \A u \in SUBSET S : u \subseteq s /\ u # s => u \in T
      PROVE  s \in T
  <2>0. s \in SUBSET A /\ s \in SUBSET B
    OBVIOUS
  <2>1. CASE s = {}
    BY <2>0, <2>1 DEF Sums
  <2>2. CASE s # {}
    <3> DEFINE x == Chosen(s)
    <3>1. x \in s
      BY <2>2, ChosenIn
    <3>2. g[s \ {x}] = h[s \ {x}] /\ w[x] = v[x]
      BY <1>1, <3>1
    <3>3. g[s] = w[x] + g[s \ {x}]
      BY <2>0, <2>2 DEF Sums
    <3>4. h[s] = v[x] + h[s \ {x}]
      BY <2>0, <2>2 DEF Sums
    <3> QED BY <3>2, <3>3, <3>4
  <2> QED BY <2>1, <2>2
<1> HIDE DEF T
<1>2. \A s \in SUBSET S : s \in T
  BY <1>1, SubsetInduction
<1> QED BY <1>2 DEF T

(* Any element may be taken off first. *)
Takes(g, S, w) == \A s \in SUBSET S : \A x \in s : g[s] = w[x] + g[s \ {x}]

LEMMA SumsTake ==
    ASSUME NEW S, IsFiniteSet(S), NEW w, Whole(S, w), NEW g, Sums(g, S, w)
    PROVE  Takes(g, S, w)
<1> DEFINE T == {s \in SUBSET S : \A x \in s : g[s] = w[x] + g[s \ {x}]}
<1>1. ASSUME NEW s \in SUBSET S, \A u \in SUBSET S : u \subseteq s /\ u # s => u \in T
      PROVE  s \in T
  <2> SUFFICES ASSUME NEW x \in s PROVE g[s] = w[x] + g[s \ {x}]
    OBVIOUS
  <2> DEFINE y == Chosen(s)
  <2>1. y \in s
    BY ChosenIn
  <2>2. g[s] = w[y] + g[s \ {y}]
    BY DEF Sums
  <2> HIDE DEF y
  <2>3. CASE x # y
    <3>1. s \ {y} \in T /\ s \ {x} \in T
      BY <1>1, <2>1
    <3>2. g[s \ {y}] = w[x] + g[(s \ {y}) \ {x}]
      BY <2>3, <3>1
    <3>3. g[s \ {x}] = w[y] + g[(s \ {x}) \ {y}]
      BY <2>1, <2>3, <3>1
    <3>4. (s \ {x}) \ {y} = (s \ {y}) \ {x}
      OBVIOUS
    <3> DEFINE rest == (s \ {y}) \ {x}
    <3>5. g[rest] \in Int /\ w[x] \in Int /\ w[y] \in Int
      BY <2>1 DEF Sums, Whole
    <3> HIDE DEF rest
    <3>6. g[s] = w[y] + (w[x] + g[rest]) /\ g[s \ {x}] = w[y] + g[rest]
      BY <2>2, <3>2, <3>3, <3>4 DEF rest
    <3> QED BY <3>5, <3>6
  <2> QED BY <2>2, <2>3
<1> HIDE DEF T
<1>2. \A s \in SUBSET S : s \in T
  BY <1>1, SubsetInduction
<1> QED BY <1>2 DEF T, Takes

-----------------------------------------------------------------------------
(* The sum of w over S. *)
SumOf(S, w) == (CHOOSE g : Sums(g, S, w))[S]

LEMMA SumOfIs ==
    ASSUME NEW S, IsFiniteSet(S), NEW w, \A x \in S : w[x] \in Int, NEW g, Sums(g, S, w)
    PROVE  SumOf(S, w) = g[S] /\ SumOf(S, w) \in Int
<1> DEFINE h == CHOOSE f : Sums(f, S, w)
<1>1. Sums(h, S, w)
  OBVIOUS
<1>2. SumOf(S, w) = h[S]
  BY DEF SumOf
<1> HIDE DEF h
<1>3. \A s \in SUBSET S : h[s] = g[s]
  BY <1>1, SumsAgree
<1>4. S \in SUBSET S /\ g \in [SUBSET S -> Int]
  BY DEF Sums
<1> QED BY <1>2, <1>3, <1>4

LEMMA SumOfEmpty ==
    ASSUME NEW w
    PROVE  SumOf({}, w) = 0
<1>1. IsFiniteSet({}) /\ \A x \in {} : w[x] \in Int
  BY FS_EmptySet
<1>2. PICK g : Sums(g, {}, w)
  BY <1>1, SumsExist
<1>3. g[{}] = 0
  BY <1>2 DEF Sums
<1> QED BY <1>1, <1>2, <1>3, SumOfIs

LEMMA SumOfInt ==
    ASSUME NEW S, IsFiniteSet(S), NEW w, \A x \in S : w[x] \in Int
    PROVE  SumOf(S, w) \in Int
  BY SumsExist, SumOfIs

AddsUp(S, x, w, v) == SumOf(S \cup {x}, w) = w[x] + SumOf(S, v)

LEMMA SumOfAdd ==
    ASSUME NEW S, IsFiniteSet(S), NEW x, x \notin S, NEW w, NEW v,
           Whole(S \cup {x}, w), Alike(S, w, v)
    PROVE  AddsUp(S, x, w, v)
<1> DEFINE A == S \cup {x}
<1>0. \A y \in A : w[y] \in Int /\ \A z \in S : v[z] = w[z] /\ v[z] \in Int
  BY DEF Whole, Alike
<1>1. IsFiniteSet(A)
  BY FS_AddElement
<1>2. PICK g : Sums(g, A, w)
  BY <1>0, <1>1, SumsExist
<1>3. PICK h : Sums(h, S, v)
  BY <1>0, SumsExist
<1>4. SumOf(A, w) = g[A]
  BY <1>0, <1>1, <1>2, SumOfIs
<1>5. SumOf(S, v) = h[S]
  BY <1>0, <1>3, SumOfIs
<1>6. g[A] = w[x] + g[A \ {x}]
  <2>1. A \in SUBSET A /\ x \in A /\ Whole(A, w)
    OBVIOUS
  <2> HIDE DEF A
  <2>2. Takes(g, A, w)
    BY <1>1, <1>2, <2>1, SumsTake
  <2> QED BY <2>1, <2>2 DEF Takes
<1>7. A \ {x} = S
  OBVIOUS
<1>8. g[S] = h[S]
  <2>1. S \subseteq A /\ S \subseteq S /\ S \in SUBSET S
    OBVIOUS
  <2> HIDE DEF A
  <2>2. \A s \in SUBSET S : g[s] = h[s]
    BY <1>0, <1>2, <1>3, <2>1, SumsAgree
  <2> QED BY <2>1, <2>2
<1> QED BY <1>4, <1>5, <1>6, <1>7, <1>8 DEF AddsUp

LEMMA SumOfSame ==
    ASSUME NEW S, IsFiniteSet(S), NEW w, NEW v, \A x \in S : w[x] \in Int /\ v[x] = w[x]
    PROVE  SumOf(S, w) = SumOf(S, v)
<1>1. PICK g : Sums(g, S, w)
  BY SumsExist
<1>2. PICK h : Sums(h, S, v)
  BY SumsExist
<1>3. \A s \in SUBSET S : g[s] = h[s]
  BY <1>1, <1>2, SumsAgree
<1>4. g[S] = h[S]
  BY <1>3
<1> QED BY <1>1, <1>2, <1>4, SumOfIs

-----------------------------------------------------------------------------
(* Field k of the elements of q. *)
Weights(q, k) == [i \in DOMAIN q |-> q[i][k]]

(* A function that follows the recursion gives the sum, whichever way      *)
(* round it adds.                                                          *)
LEMMA RecursionIsSum ==
    ASSUME NEW S, IsFiniteSet(S), NEW w, \A x \in S : w[x] \in Int, NEW h,
           \A s \in SUBSET S :
              /\ s = {} => h[s] = 0
              /\ s # {} => \/ h[s] = w[Chosen(s)] + h[s \ {Chosen(s)}]
                          \/ h[s] = h[s \ {Chosen(s)}] + w[Chosen(s)]
    PROVE  h[S] = SumOf(S, w)
<1>1. PICK g : Sums(g, S, w)
  BY SumsExist
<1> DEFINE T == {s \in SUBSET S : h[s] = g[s]}
<1>2. ASSUME NEW s \in SUBSET S, \A u \in SUBSET S : u \subseteq s /\ u # s => u \in T
      PROVE  s \in T
  <2>1. CASE s = {}
    BY <1>1, <2>1 DEF Sums
  <2>2. CASE s # {}
    <3> DEFINE x == Chosen(s)
               r == s \ {x}
    <3>1. x \in s /\ w[x] \in Int
      BY <2>2, ChosenIn
    <3>2. h[r] = g[r] /\ g[r] \in Int
      BY <1>1, <1>2, <3>1 DEF Sums
    <3>3. g[s] = w[x] + g[r]
      BY <1>1, <2>2 DEF Sums
    <3>4. h[s] = w[x] + h[r] \/ h[s] = h[r] + w[x]
      BY <2>2
    <3> HIDE DEF x, r
    <3> QED BY <3>1, <3>2, <3>3, <3>4
  <2> QED BY <2>1, <2>2
<1> HIDE DEF T
<1>3. \A s \in SUBSET S : s \in T
  BY <1>2, SubsetInduction
<1>4. h[S] = g[S]
  BY <1>3 DEF T
<1> QED BY <1>1, <1>4, SumOfIs

(* The folds of the model: over the elements of a sequence, and over the   *)
(* domain D of a function.                                                 *)
FieldTotal(q, k) == FoldSeq(LAMBDA f, sum : sum + f[k], 0, q)
TotalByPlace(q, k, D) == MapThenSumSet(LAMBDA x : q[x][k], D)

LEMMA FoldIsSum ==
    ASSUME NEW q, NEW k, IsFiniteSet(DOMAIN q), \A i \in DOMAIN q : q[i][k] \in Int
    PROVE  FieldTotal(q, k) = SumOf(DOMAIN q, Weights(q, k))
<1> DEFINE D == DOMAIN q
           w == Weights(q, k)
           Solves(h) == h = [s \in SUBSET D |-> IF s = {} THEN 0
                               ELSE h[s \ {CHOOSE x \in s : TRUE}] + q[CHOOSE x \in s : TRUE][k]]
           iter == CHOOSE h : Solves(h)
<1>1. FieldTotal(q, k) = iter[D]
  BY DEF FieldTotal, FoldSeq, FoldFunction, FoldFunctionOnSet, MapThenFoldSet
<1>2. \A x \in D : w[x] \in Int /\ w[x] = q[x][k]
  BY DEF Weights
<1>3. PICK g : Sums(g, D, w)
  BY <1>2, SumsExist
<1>4. Solves(g)
  <2>1. ASSUME NEW s \in SUBSET D
        PROVE  g[s] = IF s = {} THEN 0
                      ELSE g[s \ {CHOOSE x \in s : TRUE}] + q[CHOOSE x \in s : TRUE][k]
    <3>1. CASE s = {}
      BY <1>3, <3>1 DEF Sums
    <3>2. CASE s # {}
      <4> DEFINE x == Chosen(s)
      <4>1. x \in s /\ w[x] \in Int /\ w[x] = q[x][k]
        BY <1>2, <3>2, ChosenIn
      <4>2. g[s] = w[x] + g[s \ {x}] /\ g[s \ {x}] \in Int
        BY <1>3, <3>2 DEF Sums
      <4>3. x = CHOOSE y \in s : TRUE
        BY DEF Chosen
      <4> HIDE DEF x
      <4>4. g[s] = g[s \ {x}] + q[x][k]
        BY <4>1, <4>2
      <4> QED BY <3>2, <4>3, <4>4
    <3> QED BY <3>1, <3>2
  <2>2. g \in [SUBSET D -> Int]
    BY <1>3 DEF Sums
  <2> QED BY <2>1, <2>2
<1>5. Solves(iter)
  <2> HIDE DEF Solves
  <2> QED BY <1>4
<1> HIDE DEF iter, w
<1>6. iter[D] = SumOf(D, w)
  <2>1. ASSUME NEW s \in SUBSET D
        PROVE  /\ s = {} => iter[s] = 0
               /\ s # {} => iter[s] = iter[s \ {Chosen(s)}] + w[Chosen(s)]
    <3>1. iter[s] = IF s = {} THEN 0 ELSE iter[s \ {Chosen(s)}] + q[Chosen(s)][k]
      BY <1>5 DEF Chosen
    <3>2. s # {} => Chosen(s) \in D
      BY ChosenIn
    <3> QED BY <1>2, <3>1, <3>2
  <2> HIDE DEF D
  <2> QED BY <1>2, <2>1, RecursionIsSum DEF D
<1> QED BY <1>1, <1>6 DEF w

LEMMA MapIsSum ==
    ASSUME NEW q, NEW k, NEW D, DOMAIN q = D, IsFiniteSet(D), \A i \in D : q[i][k] \in Int
    PROVE  TotalByPlace(q, k, D) = SumOf(D, Weights(q, k))
<1> DEFINE w == Weights(q, k)
           Solves(h) == h = [s \in SUBSET D |-> IF s = {} THEN 0
                               ELSE q[CHOOSE x \in s : TRUE][k] + h[s \ {CHOOSE x \in s : TRUE}]]
           iter == CHOOSE h : Solves(h)
<1>1. TotalByPlace(q, k, D) = iter[D]
  BY DEF TotalByPlace, MapThenSumSet, MapThenFoldSet
<1>2. \A x \in D : w[x] \in Int /\ w[x] = q[x][k]
  BY DEF Weights
<1>3. PICK g : Sums(g, D, w)
  BY <1>2, SumsExist
<1>4. Solves(g)
  <2>1. ASSUME NEW s \in SUBSET D
        PROVE  g[s] = IF s = {} THEN 0
                      ELSE q[CHOOSE x \in s : TRUE][k] + g[s \ {CHOOSE x \in s : TRUE}]
    <3>1. s # {} => Chosen(s) \in D
      BY ChosenIn
    <3>2. g[s] = IF s = {} THEN 0 ELSE w[Chosen(s)] + g[s \ {Chosen(s)}]
      BY <1>3 DEF Sums
    <3> HIDE DEF w
    <3>3. g[s] = IF s = {} THEN 0 ELSE q[Chosen(s)][k] + g[s \ {Chosen(s)}]
      BY <1>2, <3>1, <3>2
    <3> QED BY <3>3 DEF Chosen
  <2>2. g \in [SUBSET D -> Int]
    BY <1>3 DEF Sums
  <2> QED BY <2>1, <2>2
<1>5. Solves(iter)
  <2> HIDE DEF Solves
  <2> QED BY <1>4
<1> HIDE DEF iter, w
<1>6. iter[D] = SumOf(D, w)
  <2>1. ASSUME NEW s \in SUBSET D
        PROVE  /\ s = {} => iter[s] = 0
               /\ s # {} => iter[s] = w[Chosen(s)] + iter[s \ {Chosen(s)}]
    <3>1. iter[s] = IF s = {} THEN 0 ELSE q[Chosen(s)][k] + iter[s \ {Chosen(s)}]
      BY <1>5 DEF Chosen
    <3>2. s # {} => Chosen(s) \in D
      BY ChosenIn
    <3> QED BY <1>2, <3>1, <3>2
  <2> QED BY <1>2, <2>1, RecursionIsSum
<1> QED BY <1>1, <1>6 DEF w

-----------------------------------------------------------------------------
(* How the total of a sequence grows. *)
LEMMA TotalIs ==
    ASSUME NEW R, NEW k, Counted(R, k), NEW q \in Seq(R)
    PROVE  /\ FieldTotal(q, k) = SumOf(DOMAIN q, Weights(q, k)) /\ FieldTotal(q, k) \in Int
           /\ IsFiniteSet(DOMAIN q) /\ \A i \in DOMAIN q : Weights(q, k)[i] \in Int
<1>1. DOMAIN q = 1 .. Len(q) /\ Len(q) \in Nat /\ \A i \in DOMAIN q : q[i][k] \in Int
  BY DEF Counted
<1>2. IsFiniteSet(DOMAIN q)
  <2>1. IsFiniteSet(1 .. Len(q))
    BY <1>1, FS_Interval
  <2> QED BY <1>1, <2>1
<1>3. \A i \in DOMAIN q : Weights(q, k)[i] \in Int
  BY <1>1 DEF Weights
<1> QED BY <1>1, <1>2, <1>3, FoldIsSum, SumOfInt

LEMMA TotalEmpty ==
    ASSUME NEW k
    PROVE  FieldTotal(<<>>, k) = 0
<1>1. DOMAIN <<>> = {} /\ IsFiniteSet({})
  BY FS_EmptySet
<1>2. FieldTotal(<<>>, k) = SumOf(DOMAIN <<>>, Weights(<<>>, k))
  BY <1>1, FoldIsSum
<1> QED BY <1>1, <1>2, SumOfEmpty

LEMMA TotalAppend ==
    ASSUME NEW R, NEW k, Counted(R, k), NEW q \in Seq(R), NEW r \in R
    PROVE  FieldTotal(Append(q, r), k) = FieldTotal(q, k) + r[k]
<1> DEFINE p == Append(q, r)
           n == Len(q) + 1
<1>1. /\ p \in Seq(R) /\ DOMAIN q = 1 .. Len(q) /\ Len(q) \in Nat
      /\ DOMAIN p = DOMAIN q \cup {n} /\ n \notin DOMAIN q
      /\ p[n] = r /\ \A i \in DOMAIN q : p[i] = q[i]
  OBVIOUS
<1> HIDE DEF p, n
<1>2. /\ FieldTotal(p, k) = SumOf(DOMAIN p, Weights(p, k)) /\ \A i \in DOMAIN p : Weights(p, k)[i] \in Int
  BY <1>1, TotalIs
<1>3. /\ FieldTotal(q, k) = SumOf(DOMAIN q, Weights(q, k)) /\ FieldTotal(q, k) \in Int /\ IsFiniteSet(DOMAIN q)
  BY TotalIs
<1>4. \A i \in DOMAIN q : Weights(q, k)[i] = Weights(p, k)[i]
  BY <1>1 DEF Weights
<1>5. Weights(p, k)[n] = r[k] /\ r[k] \in Int
  BY <1>1 DEF Weights, Counted
<1>6. SumOf(DOMAIN q \cup {n}, Weights(p, k)) = Weights(p, k)[n] + SumOf(DOMAIN q, Weights(q, k))
  <2>1. Whole(DOMAIN q \cup {n}, Weights(p, k)) /\ Alike(DOMAIN q, Weights(p, k), Weights(q, k))
    BY <1>1, <1>2, <1>4 DEF Whole, Alike
  <2>2. AddsUp(DOMAIN q, n, Weights(p, k), Weights(q, k))
    BY <1>1, <1>3, <2>1, SumOfAdd
  <2> QED BY <2>2 DEF AddsUp
<1> QED BY <1>1, <1>2, <1>3, <1>5, <1>6 DEF p

-----------------------------------------------------------------------------
(* Of natural numbers, none is above the sum. *)
LEMMA SumOfNat ==
    ASSUME NEW S, IsFiniteSet(S), NEW w, Natural(S, w)
    PROVE  /\ SumOf(S, w) \in Nat
           /\ \A x \in S : w[x] <= SumOf(S, w)
<1>0. \A x \in S : w[x] \in Int /\ w[x] \in Nat
  BY DEF Natural
<1>1. PICK g : Sums(g, S, w)
  BY <1>0, SumsExist
<1>2. \A s \in SUBSET S : \A x \in s : g[s] = w[x] + g[s \ {x}]
  <2>1. Whole(S, w)
    BY <1>0 DEF Whole
  <2>2. Takes(g, S, w)
    BY <1>1, <2>1, SumsTake
  <2> QED BY <2>2 DEF Takes
<1> DEFINE T == {s \in SUBSET S : g[s] \in Nat}
<1>3. ASSUME NEW s \in SUBSET S, \A u \in SUBSET S : u \subseteq s /\ u # s => u \in T
      PROVE  s \in T
  <2>1. CASE s = {}
    BY <1>1, <2>1 DEF Sums
  <2>2. CASE s # {}
    <3>1. PICK x \in s : TRUE
      BY <2>2
    <3>2. g[s \ {x}] \in Nat /\ w[x] \in Nat /\ g[s] = w[x] + g[s \ {x}]
      BY <1>0, <1>2, <1>3, <3>1
    <3> QED BY <3>2
  <2> QED BY <2>1, <2>2
<1> HIDE DEF T
<1>4. \A s \in SUBSET S : s \in T
  BY <1>3, SubsetInduction
<1>5. \A s \in SUBSET S : g[s] \in Nat
  BY <1>4 DEF T
<1>6. SumOf(S, w) = g[S]
  BY <1>0, <1>1, SumOfIs
<1>7. ASSUME NEW x \in S PROVE w[x] <= g[S]
  <2>1. S \in SUBSET S /\ S \ {x} \in SUBSET S
    OBVIOUS
  <2>2. g[S] = w[x] + g[S \ {x}] /\ g[S \ {x}] \in Nat /\ w[x] \in Nat
    BY <1>0, <1>2, <1>5, <2>1
  <2> QED BY <2>2
<1> QED BY <1>5, <1>6, <1>7

(* A larger set of natural numbers has no smaller sum. *)
LEMMA SumOfMore ==
    ASSUME NEW S, IsFiniteSet(S), NEW w, Natural(S, w), NEW R \in SUBSET S
    PROVE  SumOf(R, w) <= SumOf(S, w)
<1> DEFINE T == {u \in SUBSET S : \A v \in SUBSET u : SumOf(v, w) <= SumOf(u, w)}
<1>0. \A u \in SUBSET S : IsFiniteSet(u) /\ Natural(u, w) /\ Whole(u, w) /\ SumOf(u, w) \in Nat
  <2> TAKE u \in SUBSET S
  <2>1. IsFiniteSet(u) /\ Natural(u, w)
    BY FS_Subset DEF Natural
  <2>2. Whole(u, w)
    BY <2>1 DEF Natural, Whole
  <2> QED BY <2>1, <2>2, SumOfNat
<1>1. ASSUME NEW s \in SUBSET S, \A u \in SUBSET S : u \subseteq s /\ u # s => u \in T
      PROVE  s \in T
  <2> SUFFICES ASSUME NEW v \in SUBSET s PROVE SumOf(v, w) <= SumOf(s, w)
    OBVIOUS
  <2>1. CASE v = s
    BY <1>0, <2>1
  <2>2. CASE v # s
    <3>1. PICK x \in s : x \notin v
      BY <2>2
    <3> DEFINE r == s \ {x}
    <3>2. r \in SUBSET S /\ r # s /\ v \in SUBSET r /\ r \cup {x} = s /\ x \notin r
      BY <3>1
    <3>3. SumOf(v, w) <= SumOf(r, w)
      BY <1>1, <3>2
    <3> HIDE DEF r
    <3>4. AddsUp(r, x, w, w)
      BY <1>0, <3>2, SumOfAdd DEF Alike
    <3>5. SumOf(s, w) = w[x] + SumOf(r, w)
      BY <3>2, <3>4 DEF AddsUp
    <3>6. w[x] \in Nat /\ SumOf(r, w) \in Nat /\ SumOf(v, w) \in Nat
      BY <1>0, <3>2 DEF Natural
    <3> QED BY <3>3, <3>5, <3>6
  <2> QED BY <2>1, <2>2
<1> HIDE DEF T
<1>2. S \in T
  <2>1. \A s \in SUBSET S : s \in T
    BY <1>1, SubsetInduction
  <2> QED BY <2>1
<1> QED BY <1>2 DEF T

(* Entries that are zero do not count. *)
LEMMA SumOfSupport ==
    ASSUME NEW S, IsFiniteSet(S), NEW w, Whole(S, w), NEW R \in SUBSET S,
           \A x \in S \ R : w[x] = 0
    PROVE  SumOf(R, w) = SumOf(S, w)
<1> DEFINE T == {u \in SUBSET S : R \subseteq u => SumOf(R, w) = SumOf(u, w)}
<1>0. \A u \in SUBSET S : IsFiniteSet(u) /\ Whole(u, w) /\ SumOf(u, w) \in Int
  <2> TAKE u \in SUBSET S
  <2>1. IsFiniteSet(u) /\ Whole(u, w)
    BY FS_Subset DEF Whole
  <2> QED BY <2>1, SumOfInt DEF Whole
<1>1. ASSUME NEW s \in SUBSET S, \A u \in SUBSET S : u \subseteq s /\ u # s => u \in T
      PROVE  s \in T
  <2> SUFFICES ASSUME R \subseteq s, R # s PROVE SumOf(R, w) = SumOf(s, w)
    OBVIOUS
  <2>1. PICK x \in s : x \notin R
    OBVIOUS
  <2> DEFINE r == s \ {x}
  <2>2. r \in SUBSET S /\ r \subseteq s /\ r # s /\ R \subseteq r /\ r \cup {x} = s /\ x \notin r
    BY <2>1
  <2>3. SumOf(R, w) = SumOf(r, w)
    BY <1>1, <2>2
  <2> HIDE DEF r
  <2>4. AddsUp(r, x, w, w)
    BY <1>0, <2>2, SumOfAdd DEF Alike
  <2>5. SumOf(s, w) = w[x] + SumOf(r, w)
    BY <2>2, <2>4 DEF AddsUp
  <2>6. w[x] = 0 /\ SumOf(r, w) \in Int
    BY <1>0, <2>1, <2>2
  <2> QED BY <2>3, <2>5, <2>6
<1> HIDE DEF T
<1>2. S \in T
  <2>1. \A s \in SUBSET S : s \in T
    BY <1>1, SubsetInduction
  <2> QED BY <2>1
<1> QED BY <1>2 DEF T

LEMMA SumOfZero ==
    ASSUME NEW S, IsFiniteSet(S), NEW w, \A x \in S : w[x] = 0
    PROVE  SumOf(S, w) = 0
<1>1. Whole(S, w) /\ {} \in SUBSET S
  BY DEF Whole
<1> QED BY <1>1, SumOfSupport, SumOfEmpty

(* One entry changes, and the sum by as much. *)
OneMoved(S, x, w, v, d) == v[x] = w[x] + d /\ \A y \in S \ {x} : v[y] = w[y]
MovesBy(S, w, v, d)  == SumOf(S, v) = SumOf(S, w) + d

LEMMA SumOfMoved ==
    ASSUME NEW S, IsFiniteSet(S), NEW w, NEW v, Whole(S, w), NEW x \in S, NEW d \in Int,
           OneMoved(S, x, w, v, d)
    PROVE  MovesBy(S, w, v, d)
<1> DEFINE r == S \ {x}
<1>1. IsFiniteSet(r) /\ x \notin r /\ r \cup {x} = S
  BY FS_RemoveElement
<1>2. w[x] \in Int /\ v[x] = w[x] + d /\ v[x] \in Int /\ Whole(r, w) /\ Alike(r, v, w) /\ Alike(r, w, w)
  BY DEF Whole, Alike, OneMoved
<1>3. Whole(S, v)
  BY <1>2 DEF Whole, Alike
<1> HIDE DEF r
<1>4. AddsUp(r, x, v, w) /\ AddsUp(r, x, w, w)
  BY <1>1, <1>2, <1>3, SumOfAdd
<1>5. SumOf(S, v) = v[x] + SumOf(r, w) /\ SumOf(S, w) = w[x] + SumOf(r, w)
  BY <1>1, <1>4 DEF AddsUp
<1>6. SumOf(r, w) \in Int
  BY <1>1, <1>2, SumOfInt DEF Whole
<1> QED BY <1>2, <1>5, <1>6 DEF MovesBy

(* The fold over some of the entries of a function. *)
TotalOver(f, D) == MapThenSumSet(LAMBDA k : f[k], D)

LEMMA MapSumIs ==
    ASSUME NEW f, NEW D, IsFiniteSet(D), Whole(D, f)
    PROVE  TotalOver(f, D) = SumOf(D, f) /\ SumOf(D, f) \in Int
<1> DEFINE Solves(h) == h = [s \in SUBSET D |-> IF s = {} THEN 0
                               ELSE f[CHOOSE x \in s : TRUE] + h[s \ {CHOOSE x \in s : TRUE}]]
           iter == CHOOSE h : Solves(h)
<1>1. TotalOver(f, D) = iter[D]
  BY DEF TotalOver, MapThenSumSet, MapThenFoldSet
<1>2. \A x \in D : f[x] \in Int
  BY DEF Whole
<1>3. PICK g : Sums(g, D, f)
  BY <1>2, SumsExist
<1>4. Solves(g)
  <2>1. ASSUME NEW s \in SUBSET D
        PROVE  g[s] = IF s = {} THEN 0 ELSE f[CHOOSE x \in s : TRUE] + g[s \ {CHOOSE x \in s : TRUE}]
    BY <1>3 DEF Sums, Chosen
  <2>2. g \in [SUBSET D -> Int]
    BY <1>3 DEF Sums
  <2> QED BY <2>1, <2>2
<1>5. Solves(iter)
  <2> HIDE DEF Solves
  <2> QED BY <1>4
<1> HIDE DEF iter
<1>6. iter[D] = SumOf(D, f)
  <2>1. ASSUME NEW s \in SUBSET D
        PROVE  /\ s = {} => iter[s] = 0
               /\ s # {} => iter[s] = f[Chosen(s)] + iter[s \ {Chosen(s)}]
    BY <1>5 DEF Chosen
  <2> QED BY <1>2, <2>1, RecursionIsSum
<1> QED BY <1>1, <1>2, <1>6, SumOfInt

-----------------------------------------------------------------------------
(* A finite set of numbers has a largest and a smallest. *)
LEMMA MaxIs ==
    ASSUME NEW S, IsFiniteSet(S), S # {}, S \subseteq Int
    PROVE  Max(S) \in S /\ Max(S) \in Int /\ \A y \in S : y <= Max(S)
<1> DEFINE T == {u \in SUBSET S : u # {} => \E x \in u : \A y \in u : x >= y}
<1>1. ASSUME NEW s \in SUBSET S, \A u \in SUBSET S : u \subseteq s /\ u # s => u \in T
      PROVE  s \in T
  <2> SUFFICES ASSUME s # {} PROVE \E x \in s : \A y \in s : x >= y
    OBVIOUS
  <2>1. PICK z \in s : TRUE
    OBVIOUS
  <2>2. CASE s \ {z} = {}
    BY <2>2
  <2>3. CASE s \ {z} # {}
    <3> DEFINE r == s \ {z}
    <3>1. r \in SUBSET S /\ r \subseteq s /\ r # s /\ r # {} /\ s = r \cup {z}
      BY <2>3
    <3> HIDE DEF r
    <3>2. r \in T
      BY <1>1, <3>1
    <3>3. PICK x \in r : \A y \in r : x >= y
      BY <3>1, <3>2
    <3>4. CASE x >= z
      BY <3>1, <3>3, <3>4
    <3>5. CASE z >= x
      BY <3>1, <3>3, <3>5
    <3>6. x \in Int /\ z \in Int
      BY <3>1
    <3> QED BY <3>4, <3>5, <3>6
  <2> QED BY <2>2, <2>3
<1> HIDE DEF T
<1>2. S \in T
  <2>1. \A s \in SUBSET S : s \in T
    BY <1>1, SubsetInduction
  <2> QED BY <2>1
<1>3. \E x \in S : \A y \in S : x >= y
  BY <1>2 DEF T
<1> QED BY <1>3 DEF Max

LEMMA MinIs ==
    ASSUME NEW S, IsFiniteSet(S), S # {}, S \subseteq Int
    PROVE  Min(S) \in S /\ Min(S) \in Int /\ \A y \in S : Min(S) <= y
<1> DEFINE T == {u \in SUBSET S : u # {} => \E x \in u : \A y \in u : x =< y}
<1>1. ASSUME NEW s \in SUBSET S, \A u \in SUBSET S : u \subseteq s /\ u # s => u \in T
      PROVE  s \in T
  <2> SUFFICES ASSUME s # {} PROVE \E x \in s : \A y \in s : x =< y
    OBVIOUS
  <2>1. PICK z \in s : TRUE
    OBVIOUS
  <2>2. CASE s \ {z} = {}
    BY <2>2
  <2>3. CASE s \ {z} # {}
    <3> DEFINE r == s \ {z}
    <3>1. r \in SUBSET S /\ r \subseteq s /\ r # s /\ r # {} /\ s = r \cup {z}
      BY <2>3
    <3> HIDE DEF r
    <3>2. r \in T
      BY <1>1, <3>1
    <3>3. PICK x \in r : \A y \in r : x =< y
      BY <3>1, <3>2
    <3>4. CASE x =< z
      BY <3>1, <3>3, <3>4
    <3>5. CASE z =< x
      BY <3>1, <3>3, <3>5
    <3>6. x \in Int /\ z \in Int
      BY <3>1
    <3> QED BY <3>4, <3>5, <3>6
  <2> QED BY <2>2, <2>3
<1> HIDE DEF T
<1>2. S \in T
  <2>1. \A s \in SUBSET S : s \in T
    BY <1>1, SubsetInduction
  <2> QED BY <2>1
<1>3. \E x \in S : \A y \in S : x =< y
  BY <1>2 DEF T
<1> QED BY <1>3 DEF Min

(* Induction over the naturals. *)
LEMMA NaturalsIn ==
    ASSUME NEW T, 0 \in T, \A n \in Nat : n \in T => n + 1 \in T
    PROVE  \A n \in Nat : n \in T
<1> SUFFICES ASSUME NEW n \in Nat, n \notin T PROVE FALSE
  OBVIOUS
<1> DEFINE Bad == {k \in 0 .. n : k \notin T}
<1>1. Bad \subseteq 0 .. n /\ Bad # {} /\ Bad \subseteq Int
  OBVIOUS
<1>2. \A k \in Bad : k \in 0 .. n /\ k \notin T
  OBVIOUS
<1>3. \A k \in 0 .. n : k \notin T => k \in Bad
  OBVIOUS
<1> HIDE DEF Bad
<1>4. IsFiniteSet(Bad)
  <2>1. IsFiniteSet(0 .. n)
    BY FS_Interval
  <2> QED BY <1>1, <2>1, FS_Subset
<1> DEFINE m == Min(Bad)
<1>5. m \in Bad /\ \A k \in Bad : m <= k
  BY <1>1, <1>4, MinIs
<1> HIDE DEF m
<1>6. m \in 0 .. n /\ m \notin T
  BY <1>2, <1>5
<1>7. m # 0 /\ m - 1 \in Nat /\ m - 1 \in 0 .. n /\ (m - 1) + 1 = m
  BY <1>6
<1>8. m - 1 \notin T
  BY <1>6, <1>7
<1>9. m - 1 \in Bad
  BY <1>3, <1>7, <1>8
<1> QED BY <1>5, <1>6, <1>9

(* The sum of two functions. *)
Joined(S, w, v, u) == \A x \in S : u[x] = w[x] + v[x]
JoinsTo(S, w, v, u) == SumOf(S, u) = SumOf(S, w) + SumOf(S, v)

LEMMA SumOfJoined ==
    ASSUME NEW S, IsFiniteSet(S), NEW w, NEW v, NEW u, Whole(S, w), Whole(S, v), Joined(S, w, v, u)
    PROVE  JoinsTo(S, w, v, u)
<1> DEFINE T == {s \in SUBSET S : JoinsTo(s, w, v, u)}
<1>0. ASSUME NEW s \in SUBSET S
      PROVE  /\ IsFiniteSet(s) /\ Whole(s, w) /\ Whole(s, v) /\ Whole(s, u)
             /\ SumOf(s, w) \in Int /\ SumOf(s, v) \in Int /\ SumOf(s, u) \in Int
  <2>1. IsFiniteSet(s)
    BY FS_Subset
  <2>2. Whole(s, w) /\ Whole(s, v) /\ Whole(s, u)
    BY DEF Whole, Joined
  <2> QED BY <2>1, <2>2, SumOfInt DEF Whole
<1>1. ASSUME NEW s \in SUBSET S, \A r \in SUBSET S : r \subseteq s /\ r # s => r \in T
      PROVE  s \in T
  <2>1. CASE s = {}
    BY <2>1, SumOfEmpty DEF JoinsTo
  <2>2. CASE s # {}
    <3>1. PICK x \in s : TRUE
      BY <2>2
    <3> DEFINE r == s \ {x}
    <3>2. r \in SUBSET S /\ r \subseteq s /\ r # s /\ r \cup {x} = s /\ x \notin r /\ x \in S
      BY <3>1
    <3> HIDE DEF r
    <3>3. JoinsTo(r, w, v, u)
      BY <1>1, <3>2
    <3>4. AddsUp(r, x, w, w) /\ AddsUp(r, x, v, v) /\ AddsUp(r, x, u, u)
      <4>1. ASSUME NEW z, Whole(s, z) PROVE AddsUp(r, x, z, z)
        BY <1>0, <3>2, <4>1, SumOfAdd DEF Alike
      <4> QED BY <1>0, <4>1
    <3>5. /\ SumOf(s, w) = w[x] + SumOf(r, w) /\ SumOf(s, v) = v[x] + SumOf(r, v)
          /\ SumOf(s, u) = u[x] + SumOf(r, u)
      BY <3>2, <3>4 DEF AddsUp
    <3>6. SumOf(r, u) = SumOf(r, w) + SumOf(r, v)
      BY <3>3 DEF JoinsTo
    <3>7. u[x] = w[x] + v[x] /\ w[x] \in Int /\ v[x] \in Int
      BY <3>2 DEF Joined, Whole
    <3>8. SumOf(r, w) \in Int /\ SumOf(r, v) \in Int
      BY <1>0, <3>2
    <3>9. SumOf(s, u) = SumOf(s, w) + SumOf(s, v)
      BY <3>5, <3>6, <3>7, <3>8
    <3> QED BY <3>9 DEF JoinsTo
  <2> QED BY <2>1, <2>2
<1> HIDE DEF T
<1>2. S \in T
  <2>1. \A s \in SUBSET S : s \in T
    BY <1>1, SubsetInduction
  <2> QED BY <2>1
<1> QED BY <1>2 DEF T
=============================================================================
