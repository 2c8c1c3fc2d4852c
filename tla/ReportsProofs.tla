------------------------------ MODULE ReportsProofs ------------------------------
(***************************************************************************)
(* Theorems about the bills and comparisons of Reports: no row of a bill and *)
(* no child is in two entries, the summary takes the difference apart        *)
(* exactly, an uploaded bill pays what its file states, the reports and the  *)
(* statistics of one moment agree, and an import leaves what its file says.  *)
(* First facts on sums over finite sets, then what the operators of the      *)
(* model compute, then the invariant that carries them through the steps.    *)
(***************************************************************************)
EXTENDS ReportsTerms, FiniteSetTheorems, SequenceTheorems, WellFoundedInduction, TLAPS
----------------------------------------
(* Finite sets. *)

\* A set of numbers has a smallest one.
LEMMA Smallest ==
  ASSUME NEW T, T \subseteq Nat, T # {} PROVE \E m \in T : \A n \in T : m <= n
<1>1. IsWellFoundedOn(OpToRel(<, Nat), Nat) BY NatLessThanWellFounded
<1>2. PICK R : R = OpToRel(<, Nat) OBVIOUS
<1>3. PICK x \in T : \A y \in T : ~ (<<y, x>> \in R) BY <1>1, <1>2, WFMin
<1>4. R = {ss \in Nat \X Nat : ss[1] < ss[2]} BY <1>2 DEF OpToRel
<1>5. ASSUME NEW y \in T PROVE x <= y
  <2>1. <<y, x>> \notin R /\ <<y, x>> \in Nat \X Nat BY <1>3
  <2>2. ASSUME y < x PROVE FALSE
   <3> DEFINE ss == <<y, x>>
   <3>1. ss \in Nat \X Nat /\ ss[1] < ss[2] BY <2>2
   <3> QED BY <3>1, <2>1, <1>4
  <2> QED BY <2>2
<1> QED BY <1>5

\* A set of finite sets has one that is in it without any of its elements.
LEMMA Fewest ==
  ASSUME NEW S, IsFiniteSet(S), NEW B, B \subseteq SUBSET S, B # {} PROVE \E T \in B : \A x \in T : T \ {x} \notin B
<1> DEFINE N == {Cardinality(T) : T \in B}
<1>1. \A T \in B : IsFiniteSet(T) /\ Cardinality(T) \in Nat BY FS_Subset, FS_CardinalityType
<1>2. N \subseteq Nat /\ N # {} BY <1>1
<1>3. PICK m \in N : \A n \in N : m <= n BY <1>2, Smallest
<1>4. PICK T \in B : m = Cardinality(T) BY <1>3
<1>5. ASSUME NEW x \in T, T \ {x} \in B PROVE FALSE
  <2>1. Cardinality(T \ {x}) = Cardinality(T) - 1 BY <1>1, FS_RemoveElement
  <2>2. Cardinality(T \ {x}) \in N BY <1>5
  <2>3. Cardinality(T) <= Cardinality(T \ {x}) /\ Cardinality(T) \in Nat BY <1>1, <1>3, <1>4, <2>2
  <2> QED BY <2>1, <2>3
<1> QED BY <1>5

\* The smallest and the largest of a set, where the model takes them.
LEMMA MinFact ==
  ASSUME NEW T, T \subseteq Nat, T # {} PROVE Min(T) \in T /\ \A n \in T : Min(T) <= n
<1>1. PICK m \in T : \A n \in T : m <= n BY Smallest
<1> QED BY <1>1 DEF Min

\* A finite set of numbers has a largest one.
LEMMA Largest ==
  ASSUME NEW T, T \subseteq Int, IsFiniteSet(T), T # {} PROVE \E m \in T : \A n \in T : n <= m
<1> DEFINE B == {S \in SUBSET T : S # {} /\ ~\E m \in S : \A n \in S : n <= m}
<1> SUFFICES ASSUME B # {} PROVE FALSE OBVIOUS
<1>1. PICK S \in B : \A x \in S : S \ {x} \notin B BY Fewest
<1>2. PICK x \in S : TRUE BY <1>1
<1>3. CASE S = {x} BY <1>1, <1>3
<1>4. CASE S # {x}
  <2>1. PICK m \in S \ {x} : \A n \in S \ {x} : n <= m BY <1>1, <1>2, <1>4
  <2>2. CASE x <= m BY <1>1, <2>1, <2>2
  <2>3. CASE m < x BY <1>1, <2>1, <1>2
  <2> QED BY <1>1, <1>2, <2>1, <2>2, <2>3
<1> QED BY <1>3, <1>4

\* The largest of a set, where the model takes it.
LEMMA MaxFact ==
  ASSUME NEW T, T \subseteq Int, IsFiniteSet(T), T # {} PROVE Max(T) \in T /\ \A n \in T : n <= Max(T)
<1>1. PICK m \in T : \A n \in T : n <= m BY Largest
<1>2. \E x \in T : \A y \in T : x >= y BY <1>1
<1> QED BY <1>2 DEF Max

\* The image of a finite set is finite.
LEMMA FiniteImage ==
  ASSUME NEW S, IsFiniteSet(S), NEW e, NEW K, Image(e, S, K) PROVE IsFiniteSet(K)
<1> DEFINE g == [x \in S |-> e[x]]
<1>1. g \in Surjection(S, K) BY DEF Surjection, Image
<1> QED BY <1>1, FS_Surjection
----------------------------------------
(* Sums over finite sets: SumFunctionOnSet, and SumFunction over the domain. *)

\* Each finite set has such a g: of a smallest one without, an element can be left to the last.
LEMMA SumsExist == ASSUME NEW f, NEW S, Summands(f, S) PROVE \E g : AddsUp(g, f, S)
<1> DEFINE B == {U \in SUBSET S : ~\E g : AddsUp(g, f, U)}
<1> SUFFICES ASSUME B # {} PROVE FALSE OBVIOUS
<1>1. PICK U \in B : \A x \in U : U \ {x} \notin B BY Fewest DEF Summands
<1>2. CASE U = {}
  <2> DEFINE g == [T \in SUBSET {} |-> 0]
  <2>1. AddsUp(g, f, {}) BY DEF AddsUp
  <2> QED BY <1>1, <1>2, <2>1
<1>3. CASE U # {}
  <2>1. PICK y \in U : TRUE BY <1>3
  <2> DEFINE W == U \ {y}
  <2>2. PICK h : AddsUp(h, f, W) BY <1>1, <2>1
  <2> DEFINE g == [T \in SUBSET U |-> IF y \in T THEN f[y] + h[T \ {y}] ELSE h[T]]
  <2>3. \A T \in SUBSET U : T \ {y} \in SUBSET W /\ (y \notin T => T \in SUBSET W /\ T \ {y} = T) OBVIOUS
  <2>4. f[y] \in Int /\ \A x \in U : f[x] \in Int BY <1>1, <2>1 DEF Summands
  <2>5. g \in [SUBSET U -> Int] /\ g[{}] = 0 BY <2>2, <2>3, <2>4 DEF AddsUp
  <2>6. ASSUME NEW T \in SUBSET U, NEW x \in T PROVE g[T] = f[x] + g[T \ {x}]
   <3>1. T \ {x} \in SUBSET U OBVIOUS
   <3>2. CASE x = y
    <4>1. g[T] = f[y] + h[T \ {y}] /\ g[T \ {y}] = h[T \ {y}] BY <3>2
    <4> QED BY <3>2, <4>1
   <3>3. CASE x # y /\ y \notin T
    <4>1. g[T] = h[T] /\ g[T \ {x}] = h[T \ {x}] /\ T \in SUBSET W BY <2>3, <3>3
    <4> QED BY <2>2, <4>1 DEF AddsUp
   <3>4. CASE x # y /\ y \in T
    <4> DEFINE R == T \ {y}
    <4>1. g[T] = f[y] + h[R] /\ g[T \ {x}] = f[y] + h[(T \ {x}) \ {y}] BY <3>1, <3>4
    <4>2. (T \ {x}) \ {y} = R \ {x} /\ R \in SUBSET W /\ x \in R /\ R \ {x} \in SUBSET W BY <2>3, <3>4
    <4>3. h[R] = f[x] + h[R \ {x}] /\ h[R \ {x}] \in Int /\ f[x] \in Int BY <2>2, <2>4, <4>2 DEF AddsUp
    <4>4. PICK a \in Int, b \in Int, c \in Int : a = f[x] /\ b = f[y] /\ c = h[R \ {x}] BY <2>4, <4>3
    <4>5. g[T] = b + (a + c) /\ g[T \ {x}] = b + c BY <4>1, <4>2, <4>3, <4>4
    <4> HIDE DEF R, g
    <4> QED BY <4>4, <4>5
   <3> QED BY <3>2, <3>3, <3>4
  <2> HIDE DEF g
  <2>7. AddsUp(g, f, U) BY <2>5, <2>6 DEF AddsUp
  <2> QED BY <1>1, <2>7
<1> QED BY <1>2, <1>3

\* The sum is what it gives.
LEMMA SumIs ==
  ASSUME NEW f, NEW S, IsFiniteSet(S), NEW g, AddsUp(g, f, S) PROVE SumFunctionOnSet(f, S) = g[S]
<1>1. \A s \in SUBSET S : s # {} => AnyOf(s) \in s BY DEF AnyOf
<1>2. Folds(g, f, S) BY <1>1 DEF AddsUp, Folds
<1>3. PICK h : Folds(h, f, S) /\ SumFunctionOnSet(f, S) = h[S]
  BY <1>2 DEF SumFunctionOnSet, FoldFunctionOnSet, MapThenFoldSet, Folds, AnyOf
<1>4. \A s \in SUBSET S : h[s] = IF s = {} THEN 0 ELSE f[AnyOf(s)] + h[s \ {AnyOf(s)}]
  <2> DEFINE H == [s \in SUBSET S |-> IF s = {} THEN 0 ELSE f[AnyOf(s)] + h[s \ {AnyOf(s)}]]
  <2>1. h = H BY <1>3 DEF Folds
  <2>2. \A s \in SUBSET S : H[s] = IF s = {} THEN 0 ELSE f[AnyOf(s)] + h[s \ {AnyOf(s)}] OBVIOUS
  <2> QED BY <2>1, <2>2
<1> DEFINE B == {s \in SUBSET S : h[s] # g[s]}
<1>5. ASSUME B # {} PROVE FALSE
  <2>1. PICK s \in B : \A x \in s : s \ {x} \notin B BY <1>5, Fewest
  <2>2. s # {} BY <1>4, <2>1 DEF AddsUp
  <2>3. h[s \ {AnyOf(s)}] = g[s \ {AnyOf(s)}] BY <1>1, <2>1, <2>2
  <2>4. g[s] = f[AnyOf(s)] + g[s \ {AnyOf(s)}] BY <1>1, <2>1, <2>2 DEF AddsUp
  <2> QED BY <1>4, <2>1, <2>2, <2>3, <2>4
<1> QED BY <1>3, <1>5

\* A sum is a number, and any element can be taken first.
LEMMA SumFacts ==
  ASSUME NEW f, NEW S, Summands(f, S)
  PROVE  /\ SumFunctionOnSet(f, S) \in Int
         /\ S = {} => SumFunctionOnSet(f, S) = 0
         /\ \A T \in SUBSET S : Summands(f, T)
         /\ \A x \in S : SumFunctionOnSet(f, S) = f[x] + SumFunctionOnSet(f, S \ {x})
<1>1. PICK g : AddsUp(g, f, S) BY SumsExist
<1>2. SumFunctionOnSet(f, S) = g[S] BY <1>1, SumIs DEF Summands
<1>3. \A T \in SUBSET S : Summands(f, T) BY FS_Subset DEF Summands
<1>4. ASSUME NEW x \in S PROVE SumFunctionOnSet(f, S \ {x}) = g[S \ {x}]
  <2> DEFINE
    W == S \ {x}
    h == [T \in SUBSET W |-> g[T]]
  <2>1. \A T \in SUBSET W : T \in SUBSET S /\ \A y \in T : T \ {y} \in SUBSET W OBVIOUS
  <2>2. AddsUp(h, f, W) BY <1>1, <2>1 DEF AddsUp
  <2>3. h[W] = g[W] /\ IsFiniteSet(W) BY <1>3 DEF Summands
  <2> HIDE DEF h
  <2> QED BY <2>2, <2>3, SumIs
<1>5. g[S] \in Int /\ g[{}] = 0 /\ \A x \in S : g[S] = f[x] + g[S \ {x}] BY <1>1 DEF AddsUp
<1> HIDE DEF AddsUp
<1>6. ASSUME NEW x \in S PROVE SumFunctionOnSet(f, S) = f[x] + SumFunctionOnSet(f, S \ {x}) BY <1>2, <1>4, <1>5
<1> QED BY <1>2, <1>3, <1>5, <1>6

\* It depends on nothing but the summands.
LEMMA SumSame ==
  ASSUME NEW f, NEW h, NEW S, Summands(f, S), \A x \in S : h[x] = f[x]
  PROVE  SumFunctionOnSet(h, S) = SumFunctionOnSet(f, S)
<1>1. PICK g : AddsUp(g, f, S) BY SumsExist
<1>2. AddsUp(g, h, S) BY <1>1 DEF AddsUp
<1> QED BY <1>1, <1>2, SumIs DEF Summands

\* The sum over one element is its value.
LEMMA SumSingle ==
  ASSUME NEW f, NEW x, f[x] \in Int PROVE Summands(f, {x}) /\ SumFunctionOnSet(f, {x}) = f[x]
<1>1. Summands(f, {x}) BY FS_Singleton DEF Summands
<1>2. {x} \ {x} = {} /\ Summands(f, {}) BY FS_EmptySet DEF Summands
<1> QED BY <1>1, <1>2, SumFacts

\* Of two sets without a common element.
LEMMA SumUnion ==
  ASSUME NEW f, NEW A, NEW B, Summands(f, A), Summands(f, B), A \cap B = {}
  PROVE  /\ Summands(f, A \cup B)
         /\ SumFunctionOnSet(f, A \cup B) = SumFunctionOnSet(f, A) + SumFunctionOnSet(f, B)
<1>1. \A T \in SUBSET A : Summands(f, T) /\ Summands(f, T \cup B) BY FS_Subset, FS_Union DEF Summands
<1>2. Summands(f, A \cup B) BY <1>1
<1> DEFINE Bad == {T \in SUBSET A : SumFunctionOnSet(f, T \cup B) # SumFunctionOnSet(f, T) + SumFunctionOnSet(f, B)}
<1>3. ASSUME Bad # {} PROVE FALSE
  <2>1. PICK T \in Bad : \A x \in T : T \ {x} \notin Bad BY <1>3, Fewest DEF Summands
  <2>2. CASE T = {}
   <3>1. SumFunctionOnSet(f, T) = 0 /\ T \cup B = B /\ SumFunctionOnSet(f, B) \in Int BY <1>1, <2>2, SumFacts
   <3>2. PICK c \in Int : c = SumFunctionOnSet(f, B) BY <3>1
   <3>3. SumFunctionOnSet(f, T \cup B) = c /\ SumFunctionOnSet(f, T) + SumFunctionOnSet(f, B) = 0 + c BY <3>1, <3>2
   <3> QED BY <2>1, <3>2, <3>3
  <2>3. ASSUME NEW x \in T PROVE FALSE
   <3>1. SumFunctionOnSet(f, (T \ {x}) \cup B) = SumFunctionOnSet(f, T \ {x}) + SumFunctionOnSet(f, B) BY <2>1
   <3>2. (T \cup B) \ {x} = (T \ {x}) \cup B BY <2>1
   <3>3. SumFunctionOnSet(f, T \cup B) = f[x] + SumFunctionOnSet(f, (T \ {x}) \cup B)
    <4>1. Summands(f, T \cup B) /\ x \in T \cup B BY <1>1, <2>1
    <4>2. SumFunctionOnSet(f, T \cup B) = f[x] + SumFunctionOnSet(f, (T \cup B) \ {x}) BY <4>1, SumFacts
    <4> QED BY <3>2, <4>2
   <3>4. SumFunctionOnSet(f, T) = f[x] + SumFunctionOnSet(f, T \ {x}) BY <1>1, <2>3, SumFacts
   <3>5. PICK a \in Int, b \in Int, c \in Int :
     a = f[x] /\ b = SumFunctionOnSet(f, T \ {x}) /\ c = SumFunctionOnSet(f, B) BY <2>1, <1>1, SumFacts DEF Summands
   <3>6. SumFunctionOnSet(f, T \cup B) = a + (b + c) /\ SumFunctionOnSet(f, T) + SumFunctionOnSet(f, B) = (a + b) + c
     BY <3>1, <3>3, <3>4, <3>5
   <3> QED BY <2>1, <3>5, <3>6
  <2> QED BY <2>1, <2>2, <2>3
<1> QED BY <1>2, <1>3

\* What is zero does not count.
LEMMA SumZero ==
  ASSUME NEW f, NEW S, IsFiniteSet(S), \A x \in S : f[x] = 0 PROVE Summands(f, S) /\ SumFunctionOnSet(f, S) = 0
<1>1. \A T \in SUBSET S : Summands(f, T) BY FS_Subset DEF Summands
<1> DEFINE Bad == {T \in SUBSET S : SumFunctionOnSet(f, T) # 0}
<1>2. ASSUME Bad # {} PROVE FALSE
  <2>1. PICK T \in Bad : \A x \in T : T \ {x} \notin Bad BY <1>2, Fewest
  <2>2. T # {} BY <1>1, <2>1, SumFacts
  <2>3. PICK x \in T : TRUE BY <2>2
  <2>4. SumFunctionOnSet(f, T) = f[x] + SumFunctionOnSet(f, T \ {x}) /\ f[x] = 0 BY <1>1, <2>1, <2>3, SumFacts
  <2>5. SumFunctionOnSet(f, T \ {x}) = 0 BY <2>1, <2>3
  <2> QED BY <2>1, <2>4, <2>5
<1> QED BY <1>1, <1>2

\* Elements of no value may be left out of a sum.
LEMMA SumDrop ==
  ASSUME NEW f, NEW S, Summands(f, S), NEW A \in SUBSET S, \A x \in S \ A : f[x] = 0
  PROVE  Summands(f, A) /\ SumFunctionOnSet(f, S) = SumFunctionOnSet(f, A)
<1> DEFINE Z == S \ A
<1>1. Summands(f, A) /\ Summands(f, Z) /\ A \cap Z = {} /\ A \cup Z = S BY SumFacts
<1>2. SumFunctionOnSet(f, Z) = 0 BY <1>1, SumZero DEF Summands
<1> HIDE DEF Z
<1>3. SumFunctionOnSet(f, A \cup Z) = SumFunctionOnSet(f, A) + SumFunctionOnSet(f, Z) BY <1>1, SumUnion
<1>4. PICK c \in Int : c = SumFunctionOnSet(f, A) BY <1>1, SumFacts
<1>5. SumFunctionOnSet(f, S) = c + 0 BY <1>1, <1>2, <1>3, <1>4
<1> QED BY <1>1, <1>4, <1>5

\* The sum of differences is the difference of the sums.
LEMMA SumMinus ==
  ASSUME NEW f, NEW a, NEW b, NEW S, Summands(a, S), Summands(b, S), \A x \in S : f[x] = a[x] - b[x]
  PROVE  Summands(f, S) /\ SumFunctionOnSet(f, S) = SumFunctionOnSet(a, S) - SumFunctionOnSet(b, S)
<1>0. \A x \in S : a[x] \in Int /\ b[x] \in Int /\ f[x] \in Int BY DEF Summands
<1>1. \A T \in SUBSET S : Summands(f, T) /\ Summands(a, T) /\ Summands(b, T) BY <1>0, SumFacts DEF Summands
<1> DEFINE Bad == {T \in SUBSET S : SumFunctionOnSet(f, T) # SumFunctionOnSet(a, T) - SumFunctionOnSet(b, T)}
<1>2. ASSUME Bad # {} PROVE FALSE
  <2>1. PICK T \in Bad : \A x \in T : T \ {x} \notin Bad BY <1>2, Fewest DEF Summands
  <2>2. T # {}
   <3>1. ASSUME T = {} PROVE FALSE
    <4>1. SumFunctionOnSet(f, T) = 0 /\ SumFunctionOnSet(a, T) = 0 /\ SumFunctionOnSet(b, T) = 0
      BY <1>1, <2>1, <3>1, SumFacts
    <4> QED BY <2>1, <4>1
   <3> QED BY <3>1
  <2>3. PICK x \in T : TRUE BY <2>2
  <2> DEFINE W == T \ {x}
  <2>4. W \in SUBSET S /\ SumFunctionOnSet(f, W) = SumFunctionOnSet(a, W) - SumFunctionOnSet(b, W) BY <2>1, <2>3
  <2>5. /\ SumFunctionOnSet(f, T) = f[x] + SumFunctionOnSet(f, W)
        /\ SumFunctionOnSet(a, T) = a[x] + SumFunctionOnSet(a, W)
        /\ SumFunctionOnSet(b, T) = b[x] + SumFunctionOnSet(b, W)
   <3>1. Summands(f, T) /\ Summands(a, T) /\ Summands(b, T) BY <1>1, <2>1
   <3>2. SumFunctionOnSet(f, T) = f[x] + SumFunctionOnSet(f, W) BY <2>3, <3>1, SumFacts
   <3>3. SumFunctionOnSet(a, T) = a[x] + SumFunctionOnSet(a, W) BY <2>3, <3>1, SumFacts
   <3>4. SumFunctionOnSet(b, T) = b[x] + SumFunctionOnSet(b, W) BY <2>3, <3>1, SumFacts
   <3> QED BY <3>2, <3>3, <3>4
  <2> HIDE DEF W
  <2>6. PICK m \in Int, n \in Int, i \in Int, j \in Int :
    m = SumFunctionOnSet(a, W) /\ n = SumFunctionOnSet(b, W) /\ i = a[x] /\ j = b[x]
    BY <1>0, <2>1, <2>3, <1>1, <2>4, SumFacts
  <2>7. /\ SumFunctionOnSet(f, T) = (i - j) + (m - n)
        /\ SumFunctionOnSet(a, T) - SumFunctionOnSet(b, T) = (i + m) - (j + n) BY <2>1, <2>3, <2>4, <2>5, <2>6
  <2> QED BY <2>1, <2>6, <2>7
<1> QED BY <1>1, <1>2

\* The sum of the sums of the elements of each class.
LEMMA SumFibres ==
  ASSUME NEW f, NEW S, Summands(f, S), NEW K, NEW e, NEW F, Fibred(f, S, e, K, F)
  PROVE  Summands(F, K) /\ SumFunctionOnSet(F, K) = SumFunctionOnSet(f, S)
<1> DEFINE
  In(L) == {x \in S : e[x] \in L}
  Class(k) == {x \in S : e[x] = k}
<1>1. \A T \in SUBSET S : Summands(f, T) /\ SumFunctionOnSet(f, T) \in Int BY SumFacts
<1>2. \A k \in K : Class(k) \in SUBSET S /\ F[k] = SumFunctionOnSet(f, Class(k)) /\ F[k] \in Int BY <1>1 DEF Fibred
<1>3. \A L \in SUBSET K : Summands(F, L) BY <1>2, FS_Subset DEF Summands, Fibred
<1> DEFINE Bad == {L \in SUBSET K : SumFunctionOnSet(F, L) # SumFunctionOnSet(f, In(L))}
<1>4. ASSUME Bad # {} PROVE FALSE
  <2>1. PICK L \in Bad : \A k \in L : L \ {k} \notin Bad BY <1>4, Fewest DEF Fibred
  <2>2. L # {}
   <3>1. ASSUME L = {} PROVE FALSE
    <4>1. SumFunctionOnSet(F, L) = 0 /\ In(L) = {} /\ SumFunctionOnSet(f, {}) = 0 BY <1>1, <1>3, <2>1, <3>1, SumFacts
    <4> QED BY <2>1, <4>1
   <3> QED BY <3>1
  <2>3. PICK k \in L : TRUE BY <2>2
  <2>4. L \ {k} \in SUBSET K /\ SumFunctionOnSet(F, L \ {k}) = SumFunctionOnSet(f, In(L \ {k})) BY <2>1, <2>3
  <2>5. SumFunctionOnSet(F, L) = F[k] + SumFunctionOnSet(F, L \ {k}) BY <1>3, <2>1, <2>3, SumFacts
  <2>6. Class(k) \cap In(L \ {k}) = {} /\ Class(k) \cup In(L \ {k}) = In(L) BY <2>3
  <2>7. Summands(f, Class(k)) /\ Summands(f, In(L \ {k})) BY <1>1
  <2> HIDE DEF In, Class
  <2>8. SumFunctionOnSet(f, In(L)) = SumFunctionOnSet(f, Class(k)) + SumFunctionOnSet(f, In(L \ {k}))
    BY <2>6, <2>7, SumUnion
  <2> QED BY <1>2, <2>1, <2>3, <2>4, <2>5, <2>8
<1>5. In(K) = S BY DEF Fibred
<1> QED BY <1>3, <1>4, <1>5

\* Their sum is the same.
LEMMA SumRenamed ==
  ASSUME NEW f, NEW S, Summands(f, S), NEW e, NEW F, Renamed(f, S, e, F), NEW K, Image(e, S, K)
  PROVE  Summands(F, K) /\ SumFunctionOnSet(F, K) = SumFunctionOnSet(f, S)
<1>1. IsFiniteSet(K) BY FiniteImage DEF Summands
<1>2. ASSUME NEW k \in K PROVE F[k] = SumFunctionOnSet(f, {x \in S : e[x] = k})
  <2>1. PICK x \in S : k = e[x] BY DEF Image
  <2>2. {y \in S : e[y] = k} = {x} /\ f[x] \in Int /\ F[k] = f[x] BY <2>1 DEF Summands, Renamed
  <2> QED BY <2>2, SumSingle
<1>3. \A x \in S : e[x] \in K BY DEF Image
<1>4. Fibred(f, S, e, K, F) BY <1>1, <1>2, <1>3 DEF Fibred
<1> QED BY <1>4, SumFibres

\* Both of two sums.
LEMMA SumPlus ==
  ASSUME NEW f, NEW a, NEW b, NEW S, Summands(a, S), Summands(b, S), \A x \in S : f[x] = a[x] + b[x]
  PROVE  Summands(f, S) /\ SumFunctionOnSet(f, S) = SumFunctionOnSet(a, S) + SumFunctionOnSet(b, S)
<1> DEFINE
  z == [x \in S |-> 0]
  n == [x \in S |-> z[x] - b[x]]
<1>1. Summands(z, S) /\ SumFunctionOnSet(z, S) = 0 BY SumZero DEF Summands
<1>2. \A x \in S : n[x] = z[x] - b[x] OBVIOUS
<1>3. \A x \in S : f[x] = a[x] - n[x]
  <2>1. \A x \in S : n[x] = 0 - b[x] /\ a[x] \in Int /\ b[x] \in Int BY DEF Summands
  <2> HIDE DEF n
  <2> QED BY <2>1
<1> HIDE DEF z, n
<1>4. Summands(n, S) /\ SumFunctionOnSet(n, S) = SumFunctionOnSet(z, S) - SumFunctionOnSet(b, S)
  BY <1>1, <1>2, SumMinus
<1>5. Summands(f, S) /\ SumFunctionOnSet(f, S) = SumFunctionOnSet(a, S) - SumFunctionOnSet(n, S)
  BY <1>3, <1>4, SumMinus
<1>6. SumFunctionOnSet(a, S) \in Int /\ SumFunctionOnSet(b, S) \in Int BY SumFacts
<1> QED BY <1>1, <1>4, <1>5, <1>6

\* A sum of terms within one cent each.
LEMMA SumWithin ==
  ASSUME NEW f, NEW S, Summands(f, S), NEW A \in SUBSET S, \A x \in A : f[x] <= 1 /\ -1 <= f[x],
         \A x \in S \ A : f[x] = 0
  PROVE  /\ SumFunctionOnSet(f, S) <= Cardinality(A) /\ -Cardinality(A) <= SumFunctionOnSet(f, S)
         /\ Cardinality(A) \in Nat
<1> DEFINE
  Within(T) == SumFunctionOnSet(f, T) <= Cardinality(T) /\ -Cardinality(T) <= SumFunctionOnSet(f, T)
  B == {T \in SUBSET A : ~Within(T)}
<1>1. Summands(f, A) /\ SumFunctionOnSet(f, S) = SumFunctionOnSet(f, A) BY SumDrop
<1>2. \A T \in SUBSET A : Summands(f, T) /\ IsFiniteSet(T) /\ Cardinality(T) \in Nat
  BY <1>1, FS_Subset, FS_CardinalityType DEF Summands
<1>3. ASSUME B # {} PROVE FALSE
  <2>1. PICK T \in B : \A x \in T : T \ {x} \notin B
   <3>1. B \subseteq SUBSET A /\ IsFiniteSet(A) BY <1>2
   <3> HIDE DEF B
   <3> QED BY <1>3, <3>1, Fewest
  <2>2. T \in SUBSET A /\ ~Within(T) OBVIOUS
  <2>3. CASE T = {}
   <3>1. SumFunctionOnSet(f, T) = 0 /\ Cardinality(T) = 0 BY <1>2, <2>2, <2>3, SumFacts, FS_EmptySet
   <3> QED BY <2>2, <3>1
  <2>4. CASE T # {}
   <3>1. PICK x \in T : TRUE BY <2>4
   <3> DEFINE U == T \ {x}
   <3>2. U \in SUBSET A /\ Within(U) BY <2>1, <2>2, <3>1
   <3>3. Cardinality(U) = Cardinality(T) - 1 BY <1>2, <2>2, <3>1, FS_RemoveElement
   <3>4. SumFunctionOnSet(f, T) = f[x] + SumFunctionOnSet(f, U) BY <1>2, <2>2, <3>1, SumFacts
   <3>5. f[x] \in Int /\ SumFunctionOnSet(f, U) \in Int /\ Cardinality(T) \in Nat /\ f[x] <= 1 /\ -1 <= f[x]
     BY <1>2, <2>2, <3>1, <3>2, SumFacts DEF Summands
   <3> HIDE DEF U, B
   <3>6. Within(T) BY <3>2, <3>3, <3>4, <3>5
   <3> QED BY <2>2, <3>6
  <2> QED BY <2>3, <2>4
<1>4. Within(A) BY <1>3
<1> QED BY <1>1, <1>2, <1>4

\* As many as are named.
LEMMA NamedCount ==
  ASSUME NEW S, IsFiniteSet(S), NEW e, NEW K, Image(e, S, K), \A x, y \in S : e[x] = e[y] => x = y
  PROVE  IsFiniteSet(K) /\ Cardinality(K) = Cardinality(S)
<1> DEFINE g == [x \in S |-> e[x]]
<1>1. g \in Bijection(S, K)
  <2>1. g \in [S -> K] /\ \A x, y \in S : g[x] = g[y] => x = y BY DEF Image
  <2>2. \A k \in K : \E x \in S : g[x] = k BY DEF Image
  <2> HIDE DEF g
  <2> QED BY <2>1, <2>2 DEF Bijection, Injection, Surjection, IsInjective
<1> QED BY <1>1, FS_Bijection DEF ExistsBijection
----------------------------------------
(* Sums over pairs. *)

\* The pairs of one first part.
LEMMA PairsOfFirst ==
  ASSUME NEW P, NEW M, NEW D, NEW g, NEW F, Paired(P, M, D, g, F), NEW m \in M
  PROVE  LET Pm == {m} \X D[m]
         IN  /\ Pm \subseteq P /\ Pm = {n \in P : n[1] = m}
             /\ Summands(g, Pm) /\ SumFunctionOnSet(g, Pm) = F[m]
<1> DEFINE
  Pm == {m} \X D[m]
  h == [i \in D[m] |-> g[<<m, i>>]]
  e == [i \in D[m] |-> <<m, i>>]
<1>1. Summands(h, D[m]) BY DEF Paired, Summands
<1>2. Renamed(h, D[m], e, g) BY DEF Renamed
<1>3. Image(e, D[m], Pm)
  <2>1. \A n \in Pm : \E i \in D[m] : n = <<m, i>> OBVIOUS
  <2>2. \A i \in D[m] : e[i] = <<m, i>> /\ <<m, i>> \in Pm OBVIOUS
  <2> HIDE DEF Pm, e
  <2>3. Pm = {e[i] : i \in D[m]} BY <2>1, <2>2
  <2> QED BY <2>3 DEF Image
<1>4. F[m] = SumFunctionOnSet(h, D[m]) BY DEF Paired
<1>5. Pm \subseteq P /\ Pm = {n \in P : n[1] = m} BY DEF Paired
<1> HIDE DEF h, e, Pm
<1>6. Summands(g, Pm) /\ SumFunctionOnSet(g, Pm) = SumFunctionOnSet(h, D[m]) BY <1>1, <1>2, <1>3, SumRenamed
<1> QED BY <1>4, <1>5, <1>6 DEF Pm

\* The sum over the pairs, first part by first part.
LEMMA SumPairs ==
  ASSUME NEW P, NEW M, NEW D, NEW g, NEW F, Paired(P, M, D, g, F)
  PROVE  Summands(g, P) /\ Summands(F, M) /\ SumFunctionOnSet(F, M) = SumFunctionOnSet(g, P)
<1> DEFINE
  e == [n \in P |-> n[1]]
  E == [m \in M |-> {m} \X D[m]]
  K == {{m} \X D[m] : m \in M}
<1>1. \A m \in M : /\ {m} \X D[m] \subseteq P /\ {m} \X D[m] = {n \in P : n[1] = m}
                   /\ Summands(g, {m} \X D[m]) /\ SumFunctionOnSet(g, {m} \X D[m]) = F[m] BY PairsOfFirst
<1>2. P = UNION K /\ IsFiniteSet(M) BY DEF Paired
<1>3. Image(E, M, K) BY DEF Image
<1>4. \A S \in K : Summands(g, S) BY <1>1
<1> HIDE DEF E, K
<1>5. IsFiniteSet(K) BY <1>2, <1>3, FiniteImage
<1>6. Summands(g, P) BY <1>4, <1>5, FS_UNION, <1>2 DEF Summands
<1>7. \A n \in P : e[n] \in M /\ e[n] = n[1] BY DEF Paired
<1> HIDE DEF e
<1>8. \A m \in M : {n \in P : e[n] = m} = {n \in P : n[1] = m} BY <1>7
<1>9. \A m \in M : F[m] = SumFunctionOnSet(g, {n \in P : e[n] = m}) BY <1>1, <1>8
<1>10. Fibred(g, P, e, M, F) BY <1>2, <1>7, <1>9 DEF Fibred
<1> QED BY <1>6, <1>10, SumFibres

\* A sum of sums may be taken in either order.
LEMMA SumSwap ==
  ASSUME NEW N, NEW K, NEW A, NEW R, NEW C, Crossed(N, K, A, R, C)
  PROVE  Summands(R, N) /\ Summands(C, K) /\ SumFunctionOnSet(R, N) = SumFunctionOnSet(C, K)
<1> DEFINE
  P == N \X K
  Q == K \X N
  D == [n \in N |-> K]
  B == [k \in K |-> N]
  g == [p \in P |-> A[p]]
  h == [p \in Q |-> A[<<p[2], p[1]>>]]
  e == [p \in P |-> <<p[2], p[1]>>]
<1>1. Paired(P, N, D, g, R)
  <2>1. P = UNION {{n} \X D[n] : n \in N} OBVIOUS
  <2>2. \A n \in N : D[n] = K /\ \A k \in K : g[<<n, k>>] = A[<<n, k>>] OBVIOUS
  <2>3. \A n \in N : [k \in D[n] |-> g[<<n, k>>]] = [k \in K |-> A[<<n, k>>]] BY <2>2
  <2> HIDE DEF P, Q, D, B, g, h, e
  <2>4. \A n \in N : IsFiniteSet(D[n]) /\ \A k \in D[n] : g[<<n, k>>] \in Int BY <2>2 DEF Crossed
  <2>5. \A n \in N : R[n] = SumFunctionOnSet([k \in D[n] |-> g[<<n, k>>]], D[n]) BY <2>2, <2>3 DEF Crossed
  <2> QED BY <2>1, <2>4, <2>5 DEF Paired, Crossed
<1>2. Paired(Q, K, B, h, C)
  <2>1. Q = UNION {{k} \X B[k] : k \in K} OBVIOUS
  <2>2. \A k \in K : B[k] = N /\ \A n \in N : h[<<k, n>>] = A[<<n, k>>] OBVIOUS
  <2>3. \A k \in K : [n \in B[k] |-> h[<<k, n>>]] = [n \in N |-> A[<<n, k>>]] BY <2>2
  <2> HIDE DEF P, Q, D, B, g, h, e
  <2>4. \A k \in K : IsFiniteSet(B[k]) /\ \A n \in B[k] : h[<<k, n>>] \in Int
   <3>1. IsFiniteSet(N) BY DEF Crossed
   <3>2. ASSUME NEW k \in K, NEW n \in N PROVE h[<<k, n>>] \in Int BY <2>2 DEF Crossed
   <3> QED BY <2>2, <3>1, <3>2
  <2>5. \A k \in K : C[k] = SumFunctionOnSet([n \in B[k] |-> h[<<k, n>>]], B[k]) BY <2>2, <2>3 DEF Crossed
  <2> QED BY <2>1, <2>4, <2>5 DEF Paired, Crossed
<1>3. Renamed(g, P, e, h) /\ Image(e, P, Q)
  <2>1. \A p \in P : e[p] \in Q /\ h[e[p]] = g[p] OBVIOUS
  <2>2. \A x, y \in P : e[x] = e[y] => x = y OBVIOUS
  <2>3. \A w \in Q : \E p \in P : w = e[p]
   <3> SUFFICES ASSUME NEW k \in K, NEW n \in N PROVE \E p \in P : <<k, n>> = e[p] OBVIOUS
   <3>1. <<n, k>> \in P /\ e[<<n, k>>] = <<k, n>> OBVIOUS
   <3> QED BY <3>1
  <2> HIDE DEF e, P, Q, g, h
  <2> QED BY <2>1, <2>2, <2>3 DEF Renamed, Image
<1> HIDE DEF P, Q, D, B, g, h, e
<1>4. Summands(g, P) /\ Summands(R, N) /\ SumFunctionOnSet(R, N) = SumFunctionOnSet(g, P) BY <1>1, SumPairs
<1>5. Summands(C, K) /\ SumFunctionOnSet(C, K) = SumFunctionOnSet(h, Q) BY <1>2, SumPairs
<1>6. SumFunctionOnSet(h, Q) = SumFunctionOnSet(g, P) BY <1>3, <1>4, SumRenamed
<1> QED BY <1>4, <1>5, <1>6
----------------------------------------
(* The groups of a bill's rows. *)

\* A row is in its group, and its group is that of each row in it.
LEMMA Groups ==
  ASSUME NEW v, NEW i \in DOMAIN v.rows
  PROVE  /\ i \in GroupOf(v, i) /\ GroupOf(v, i) \subseteq DOMAIN v.rows
         /\ \A j \in GroupOf(v, i) : GroupOf(v, j) = GroupOf(v, i)
<1>1. CASE ~Resolved(v, v.rows[i].number) BY <1>1 DEF GroupOf
<1>2. CASE Resolved(v, v.rows[i].number) BY <1>2 DEF GroupOf
<1> QED BY <1>1, <1>2

\* The fields of an entry.
LEMMA GroupCompared ==
  ASSUME NEW v, NEW group
  PROVE  LET x == CompareGroup(v, group)
             comp == FiguresOf(v, group)
         IN  /\ x.status = comp.status /\ x.bill = comp.bill /\ x.correction = comp.correction
             /\ x.calc = comp.calc /\ x.properties = comp.properties
             /\ x.month = v.month /\ x.rows = group
<1> DEFINE
  row == MergeBillChildren(v.rows, group)
  child == IF Resolved(v, row.number) THEN v.childOf[row.number] ELSE NoRow
  comp == FiguresOf(v, group)
  settled == Settlement(v, child, comp.status)
  x == CompareGroup(v, group)
<1>1. x = [status |-> comp.status, bill |-> comp.bill, correction |-> comp.correction, calc |-> comp.calc,
  properties |-> comp.properties, month |-> v.month, rows |-> group, child |-> child,
  number |-> row.number, settled |-> settled] BY DEF CompareGroup, FiguresOf
<1> HIDE DEF row, child, comp, settled, x
<1>2. /\ x.status = comp.status /\ x.bill = comp.bill /\ x.correction = comp.correction
      /\ x.calc = comp.calc /\ x.properties = comp.properties
      /\ x.month = v.month /\ x.rows = group BY <1>1
<1> QED BY <1>2 DEF x, comp

\* The child of an entry is that of each of its rows.
LEMMA GroupsChild ==
  ASSUME NEW v, DOMAIN v.rows \subseteq Nat, NEW i \in DOMAIN v.rows
  PROVE  LET x == CompareGroup(v, GroupOf(v, i))
         IN  x.rows = GroupOf(v, i) /\ \A j \in GroupOf(v, i) : x.child = ChildOf(v, j)
<1> DEFINE
  G == GroupOf(v, i)
  f == FiledUnder(v, G)
  x == CompareGroup(v, G)
<1>1. G # {} /\ G \subseteq DOMAIN v.rows BY Groups
<1>2. f \in G BY <1>1, MinFact DEF FiledUnder
<1>3. x.rows = G /\ x.child = ChildOf(v, f) BY DEF MergeBillChildren, FiledUnder, CompareGroup, ChildOf
<1>4. \A j \in G : ChildOf(v, j) = ChildOf(v, i) BY DEF GroupOf, ChildOf
<1> QED BY <1>2, <1>3, <1>4

\* A comparison has every row once, and no child twice.
LEMMA ComparesOnce ==
  ASSUME NEW v, DOMAIN v.rows \subseteq Nat PROVE Once(ComparePeriod(v))
<1>1. ComparePeriod(v).entries = Billed(v) \cup Absent(v) /\ ComparePeriod(v).rows = DOMAIN v.rows
  BY DEF ComparePeriod, Billed, Absent
<1>2. ASSUME NEW x \in Billed(v)
  PROVE  \E i \in DOMAIN v.rows : /\ x = CompareGroup(v, GroupOf(v, i)) /\ x.rows = GroupOf(v, i)
                                  /\ \A j \in x.rows : x.child = ChildOf(v, j) BY GroupsChild DEF Billed
<1>3. ASSUME NEW x \in Absent(v)
  PROVE  x.rows = {} /\ x = CalcOnly(v, x.child) /\ \A y \in Billed(v) : x.child # y.child
  <2>1. PICK c \in v.active \ {y.child : y \in Billed(v)} : x = CalcOnly(v, c) BY <1>3 DEF Absent
  <2>2. x.child = c /\ x.rows = {} BY <2>1 DEF CalcOnly
  <2> QED BY <2>1, <2>2
<1>4. ASSUME NEW i \in DOMAIN v.rows PROVE \E x \in Billed(v) : i \in x.rows BY Groups, GroupsChild DEF Billed
<1>5. \A x \in Billed(v) : x.rows \subseteq DOMAIN v.rows BY <1>2, Groups
<1>6. UNION {x.rows : x \in Billed(v) \cup Absent(v)} = DOMAIN v.rows BY <1>3, <1>4, <1>5
<1>7. ASSUME NEW x \in Billed(v), NEW y \in Billed(v), x # y
  PROVE  x.rows \cap y.rows = {} /\ (x.child = y.child => x.child = NoRow)
  <2>1. PICK i \in DOMAIN v.rows : /\ x = CompareGroup(v, GroupOf(v, i)) /\ x.rows = GroupOf(v, i)
                                   /\ \A j \in x.rows : x.child = ChildOf(v, j) BY <1>2
  <2>2. PICK k \in DOMAIN v.rows : /\ y = CompareGroup(v, GroupOf(v, k)) /\ y.rows = GroupOf(v, k)
                                   /\ \A j \in y.rows : y.child = ChildOf(v, j) BY <1>2
  <2>3. GroupOf(v, i) # GroupOf(v, k) BY <1>7, <2>1, <2>2
  <2>4. \A j \in GroupOf(v, i) \cap GroupOf(v, k) : FALSE BY <2>3, Groups
  <2>5. ASSUME x.child = y.child, x.child # NoRow PROVE FALSE
   <3>1. ChildOf(v, i) = x.child /\ ChildOf(v, k) = x.child BY <2>1, <2>2, <2>5, Groups
   <3>2. k \in GroupOf(v, i) BY <2>5, <3>1 DEF GroupOf, ChildOf
   <3> QED BY <2>3, <3>2, Groups
  <2> QED BY <2>1, <2>2, <2>4, <2>5
<1>8. ASSUME NEW x \in Billed(v) \cup Absent(v), NEW y \in Billed(v) \cup Absent(v), x # y
  PROVE  x.rows \cap y.rows = {} /\ (x.child = y.child => x.child = NoRow)
  <2>1. CASE x \in Absent(v) BY <1>3, <1>8, <2>1
  <2>2. CASE y \in Absent(v) BY <1>3, <1>8, <2>2
  <2> QED BY <1>7, <1>8, <2>1, <2>2
<1> QED BY <1>1, <1>6, <1>8 DEF Once
----------------------------------------
(* What a child is billed and what it earns. *)

\* The total of a set of payments, which both of its types make up.
LEMMA Totals ==
  ASSUME NEW S, Payments(S)
  PROVE  /\ Summands([p \in S |-> p.amount], S)
         /\ Total(S) = SumFunctionOnSet([p \in S |-> p.amount], S) /\ Total(S) \in Int
         /\ \A T \in SUBSET S : Payments(T)
<1>1. Summands([p \in S |-> p.amount], S) BY DEF Payments, Summands
<1>2. Total(S) = SumFunctionOnSet([p \in S |-> p.amount], S) BY DEF Total, SumFunction
<1>3. \A T \in SUBSET S : Payments(T) BY FS_Subset DEF Payments
<1> QED BY <1>1, <1>2, <1>3, SumFacts

\* The amounts of a bill, by property, come to the total of its payments.
LEMMA BillAmountsFacts ==
  ASSUME NEW S, Payments(S) PROVE Finite(BillAmounts(S)) /\ SumFunction(BillAmounts(S)) = Total(S)
<1> DEFINE
  F == BillAmounts(S)
  f == [p \in S |-> p.amount]
  e == [p \in S |-> p.kv]
  K == {p.kv : p \in S}
<1>1. DOMAIN F = K /\ \A kv \in K : F[kv] = Total({p \in S : p.kv = kv}) BY DEF BillAmounts
<1>2. IsFiniteSet(K)
  <2>1. Image(e, S, K) BY DEF Image
  <2> QED BY <2>1, FiniteImage DEF Payments
<1>3. ASSUME NEW kv \in K PROVE F[kv] = SumFunctionOnSet(f, {p \in S : e[p] = kv})
  <2> DEFINE
    T == {p \in S : p.kv = kv}
    h == [p \in T |-> p.amount]
  <2>1. Payments(T) /\ T \in SUBSET S /\ T = {p \in S : e[p] = kv} BY Totals
  <2>2. Total(T) = SumFunctionOnSet(h, T) /\ Summands(h, T) BY <2>1, Totals
  <2>3. \A p \in T : f[p] = h[p] BY <2>1
  <2> HIDE DEF T, h, f, e
  <2>4. SumFunctionOnSet(f, T) = SumFunctionOnSet(h, T) BY <2>2, <2>3, SumSame
  <2> QED BY <1>1, <2>1, <2>2, <2>4 DEF T
<1>4. \A p \in S : e[p] \in K OBVIOUS
<1>5. Summands(f, S) /\ Total(S) = SumFunctionOnSet(f, S) BY Totals
<1> HIDE DEF f, e, K, F
<1>6. Fibred(f, S, e, K, F) BY <1>2, <1>3, <1>4 DEF Fibred
<1>7. Summands(F, K) /\ SumFunctionOnSet(F, K) = SumFunctionOnSet(f, S) BY <1>5, <1>6, SumFibres
<1> QED BY <1>1, <1>5, <1>7 DEF Finite, SumFunction, F

\* The period that is found is one of them.
LEMMA DatedFound ==
  ASSUME NEW periods, Dated(periods), NEW m, FindPeriodForDate(periods, m) # NoRow
  PROVE  \E i \in DOMAIN periods : FindPeriodForDate(periods, m) = periods[i]
<1> DEFINE
  hits == {i \in DOMAIN periods : ActiveOn(periods[i], m)}
  latest == {i \in hits : \A j \in hits : periods[j].from <= periods[i].from}
  from == [i \in hits |-> periods[i].from]
  starts == {from[i] : i \in hits}
<1>1. FindPeriodForDate(periods, m) = IF hits = {} THEN NoRow ELSE periods[Min(latest)] BY DEF FindPeriodForDate
<1>2. hits # {} /\ IsFiniteSet(hits) /\ latest \subseteq Nat /\ latest \subseteq DOMAIN periods
  BY <1>1, FS_Subset DEF Dated
<1>3. starts \subseteq Int /\ starts # {} /\ IsFiniteSet(starts)
  <2>1. Image(from, hits, starts) BY DEF Image
  <2> QED BY <1>2, <2>1, FiniteImage DEF Dated
<1>4. PICK n \in starts : \A k \in starts : k <= n BY <1>3, Largest
<1>5. latest # {}
  <2>1. PICK i \in hits : n = from[i] BY <1>4
  <2>2. \A j \in hits : from[j] \in starts OBVIOUS
  <2> QED BY <1>4, <2>1, <2>2
<1> HIDE DEF hits, latest
<1>6. Min(latest) \in latest BY <1>2, <1>5, MinFact
<1> QED BY <1>1, <1>2, <1>6

\* The period in force is one of the configuration's.
LEMMA PeriodFound ==
  ASSUME NEW periods, Fundings(periods), NEW m, FindPeriodForDate(periods, m) # NoRow
  PROVE  \E i \in DOMAIN periods : FindPeriodForDate(periods, m) = periods[i] BY DatedFound DEF Fundings, Dated

\* What a contract earns by key and value.
LEMMA CalcAmountsFacts ==
  ASSUME NEW periods, Fundings(periods), NEW m, NEW age, NEW props
  PROVE  Finite(CalcAmounts(age, props, FindPeriodForDate(periods, m)))
<1> DEFINE
  period == FindPeriodForDate(periods, m)
  matched == MatchFundingProperties(age, props, period)
  F == CalcAmounts(age, props, period)
<1>1. IsFiniteSet(matched) /\ \A rate \in matched : rate.pay \in Int
  <2>1. CASE period = NoRow
   <3>1. matched = {} BY <2>1 DEF MatchFundingProperties
   <3> QED BY <3>1, FS_EmptySet
  <2>2. CASE period # NoRow
   <3>1. PICK k \in DOMAIN periods : period = periods[k] BY <2>2, PeriodFound
   <3> DEFINE
     rates == period.rates
     all == {rates[i] : i \in DOMAIN rates}
   <3>2. IsFiniteSet(DOMAIN rates) /\ \A i \in DOMAIN rates : rates[i].pay \in Int BY <3>1 DEF Fundings, RatesOf
   <3>3. IsFiniteSet(all) BY <3>2, FiniteImage DEF Image
   <3>4. matched \subseteq all BY <2>2 DEF MatchFundingProperties
   <3> QED BY <3>2, <3>3, <3>4, FS_Subset
  <2> QED BY <2>1, <2>2
<1> HIDE DEF matched, period
<1> DEFINE
  e == [rate \in matched |-> rate.kv]
  K == {rate.kv : rate \in matched}
<1>2. DOMAIN F = K /\ \A kv \in K : F[kv] = TotalPay({rate \in matched : rate.kv = kv}) BY DEF CalcAmounts, matched
<1>3. IsFiniteSet(K)
  <2>1. Image(e, matched, K) BY DEF Image
  <2> QED BY <1>1, <2>1, FiniteImage
<1>4. ASSUME NEW T \in SUBSET matched PROVE TotalPay(T) \in Int
  <2> DEFINE h == [rate \in T |-> rate.pay]
  <2>1. Summands(h, T) BY <1>1, FS_Subset DEF Summands
  <2>2. TotalPay(T) = SumFunctionOnSet(h, T) BY DEF TotalPay, SumFunction
  <2> QED BY <2>1, <2>2, SumFacts
<1>5. \A kv \in K : F[kv] \in Int BY <1>2, <1>4
<1> HIDE DEF F, K
<1>6. Finite(F) BY <1>2, <1>3, <1>5 DEF Finite, Summands
<1> QED BY <1>6 DEF F, period
----------------------------------------
(* An entry's difference, and its pieces. *)

\* One side's amounts, with zero for what only the other side has.
LEMMA Widened ==
  ASSUME NEW a, Finite(a), NEW K, IsFiniteSet(K), DOMAIN a \subseteq K
  PROVE  LET f == [kv \in K |-> At(a, kv)]
         IN  Summands(f, K) /\ SumFunctionOnSet(f, K) = SumFunction(a)
<1> DEFINE
  f == [kv \in K |-> At(a, kv)]
  D == DOMAIN a
<1>1. Summands(a, D) /\ SumFunction(a) = SumFunctionOnSet(a, D) BY DEF Finite, SumFunction
<1>2. \A kv \in K : f[kv] = IF kv \in D THEN a[kv] ELSE 0 BY DEF At
<1>3. Summands(f, K) BY <1>1, <1>2 DEF Summands
<1> HIDE DEF f, D
<1>4. D \in SUBSET K /\ \A kv \in K \ D : f[kv] = 0 BY <1>2 DEF D
<1>5. SumFunctionOnSet(f, K) = SumFunctionOnSet(f, D) BY <1>3, <1>4, SumDrop
<1>6. SumFunctionOnSet(f, D) = SumFunctionOnSet(a, D) BY <1>1, <1>2, <1>4, SumSame
<1> QED BY <1>1, <1>3, <1>5, <1>6 DEF f

\* The differences by key and value come to the difference of the sums.
LEMMA PropertiesDiffer ==
  ASSUME NEW a, Finite(a), NEW b, Finite(b)
  PROVE  Differences(ComparisonProperties(a, b), SumFunction(a) - SumFunction(b))
<1> DEFINE
  K == DOMAIN a \cup DOMAIN b
  A == [kv \in K |-> At(a, kv)]
  B == [kv \in K |-> At(b, kv)]
  P == ComparisonProperties(a, b)
  f == [kv \in K |-> P[kv].difference]
<1>1. IsFiniteSet(K) BY FS_Union DEF Finite, Summands
<1>2. DOMAIN P = K /\ \A kv \in K : f[kv] = A[kv] - B[kv] BY DEF ComparisonProperties
<1>3. Summands(A, K) /\ SumFunctionOnSet(A, K) = SumFunction(a) BY <1>1, Widened
<1>4. Summands(B, K) /\ SumFunctionOnSet(B, K) = SumFunction(b) BY <1>1, Widened
<1>5. f = [kv \in DOMAIN P |-> P[kv].difference] /\ DOMAIN f = K BY <1>2
<1> HIDE DEF A, B, f, K, P
<1>6. Summands(f, K) /\ SumFunctionOnSet(f, K) = SumFunction(a) - SumFunction(b) BY <1>2, <1>3, <1>4, SumMinus
<1>7. Finite(f) /\ SumFunction(f) = SumFunction(a) - SumFunction(b) BY <1>5, <1>6 DEF Finite, SumFunction
<1> QED BY <1>5, <1>7 DEF Differences, P

\* The sum of finitely many amounts is a number.
LEMMA FiniteSum == ASSUME NEW f, Finite(f) PROVE SumFunction(f) \in Int BY SumFacts DEF Finite, SumFunction

\* The comparison of one child, whatever contract, age and rates it finds.
LEMMA ComparesChild ==
  ASSUME NEW S, Payments(S), NEW contract, NEW age, NEW m, NEW periods, Fundings(periods)
  PROVE  Sides(ComputeChildComparison(S, contract, age, m, periods))
<1> DEFINE
  regular == OfType(S, "regular")
  billed == BillAmounts(regular)
  period == FindPeriodForDate(periods, m)
  calculated == CalcAmounts(age, contract.props, period)
  x == ComputeChildComparison(S, contract, age, m, periods)
<1>1. Payments(regular) BY Totals DEF OfType
<1>2. Finite(billed) /\ SumFunction(billed) \in Int BY <1>1, BillAmountsFacts, FiniteSum
<1>3. Finite(calculated) /\ SumFunction(calculated) \in Int BY CalcAmountsFacts, FiniteSum
<1>4. x.bill = SumFunction(billed) BY DEF ComputeChildComparison
<1>5. CASE contract = NoRow \/ period = NoRow \/ age = NoRow
  <2>1. x.status \in {"bill_only", "no_funding_config"} /\ x.calc = NoRow BY <1>5 DEF ComputeChildComparison
  <2> QED BY <1>2, <1>4, <2>1 DEF Sides
<1>6. CASE ~(contract = NoRow \/ period = NoRow \/ age = NoRow)
  BY <1>2, <1>3, <1>4, PropertiesDiffer DEF ComputeChildComparison, Sides
<1> QED BY <1>5, <1>6

\* An entry that is one piece.
LEMMA WholeIsCut ==
  ASSUME NEW x, NEW p, p.entry = x, p.category \in Categories, p.amount \in Int, p.amount = Net(x), Pieces(x) = {p}
  PROVE  Cut(x)
<1> DEFINE f == [y \in {p} |-> y.amount]
<1>1. f[p] = p.amount OBVIOUS
<1> HIDE DEF f
<1>2. Summands(f, {p}) /\ SumFunctionOnSet(f, {p}) = p.amount BY <1>1, SumSingle
<1> QED BY <1>2 DEF Cut, f

\* Every entry is taken apart into pieces without a rest.
LEMMA EntryIsCut == ASSUME NEW x, Sides(x) PROVE Cut(x) /\ Net(x) \in Int
<1>0. NoRow \notin Int BY ReportSentinels
<1>1. Net(x) \in Int BY <1>0 DEF Net, Sides
<1>2. CASE x.status \in {"bill_only", "calc_only", "not_billed"}
  <2> DEFINE
    amount == IF x.status = "bill_only" THEN x.bill ELSE IF x.status = "calc_only" THEN -x.calc ELSE x.bill - x.calc
    p == [entry |-> x, kv |-> NoRow, category |-> x.status, type |-> x.status, amount |-> amount]
  <2>1. Pieces(x) = {p} BY <1>2 DEF Pieces
  <2>2. p.entry = x /\ p.category \in Categories /\ p.amount = amount BY <1>2 DEF Categories
  <2>3. amount = Net(x) BY <1>0, <1>2 DEF Net, Sides
  <2> HIDE DEF p, amount
  <2> QED BY <1>1, <2>1, <2>2, <2>3, WholeIsCut
<1>3. CASE x.status = "no_funding_config"
  <2>1. Pieces(x) = {} /\ Net(x) = 0 BY <1>3 DEF Pieces, Net
  <2>2. Summands([p \in {} |-> p.amount], {}) BY FS_EmptySet DEF Summands
  <2> QED BY <2>1, <2>2, SumFacts DEF Cut, Net
<1>4. CASE x.status \in {"match", "difference"}
  <2> DEFINE
    P == x.properties
    K == DOMAIN P
    Piece(kv) == [entry |-> x, kv |-> kv, type |-> P[kv].mismatch,
                  category |-> IF P[kv].mismatch = "none" THEN "rate_difference" ELSE "property_mismatch",
                  amount |-> P[kv].difference]
    e == [kv \in K |-> Piece(kv)]
    f == [kv \in K |-> P[kv].difference]
    F == [p \in Pieces(x) |-> p.amount]
  <2>1. Pieces(x) = {Piece(kv) : kv \in K} BY <1>4 DEF Pieces
  <2>2. Summands(f, K) /\ SumFunctionOnSet(f, K) = x.bill - x.calc BY <1>4 DEF Sides, Differences, Finite, SumFunction
  <2>3. Image(e, K, Pieces(x)) BY <2>1 DEF Image
  <2>4. Renamed(f, K, e, F) BY <2>1 DEF Renamed
  <2>5. \A p \in Pieces(x) : p.entry = x /\ p.category \in Categories BY <2>1 DEF Categories
  <2>6. Net(x) = x.bill - x.calc BY <1>0, <1>4 DEF Sides, Net
  <2> HIDE DEF e, f, F, K
  <2>7. Summands(F, Pieces(x)) /\ SumFunctionOnSet(F, Pieces(x)) = SumFunctionOnSet(f, K)
    BY <2>2, <2>3, <2>4, SumRenamed
  <2> QED BY <1>1, <2>2, <2>5, <2>6, <2>7 DEF Cut, F
<1> QED BY <1>1, <1>2, <1>3, <1>4 DEF Sides
----------------------------------------
(* The totals of a comparison. *)

\* The payments of several rows.
LEMMA MergedPayments ==
  ASSUME NEW rows, BillsRows(rows), NEW group \in SUBSET DOMAIN rows
  PROVE  Payments(UNION {rows[i].payments : i \in group})
<1> DEFINE
  e == [i \in group |-> rows[i].payments]
  K == {rows[i].payments : i \in group}
<1>1. IsFiniteSet(group) /\ \A i \in group : Payments(rows[i].payments) BY FS_Subset DEF BillsRows
<1>2. IsFiniteSet(K)
  <2>1. Image(e, group, K) BY DEF Image
  <2> QED BY <1>1, <2>1, FiniteImage
<1>3. \A S \in K : IsFiniteSet(S) /\ \A p \in S : p.amount \in Int BY <1>1 DEF Payments
<1> HIDE DEF K
<1>4. IsFiniteSet(UNION K) BY <1>2, <1>3, FS_UNION
<1>5. Payments(UNION K) BY <1>3, <1>4 DEF Payments
<1> QED BY <1>5 DEF K

\* An entry of a group of the bill's rows.
LEMMA BilledSides ==
  ASSUME NEW v, Readable(v), NEW i \in DOMAIN v.rows
  PROVE  LET x == CompareGroup(v, GroupOf(v, i)) IN Sides(x) /\ x.month = v.month /\ x.status # "calc_only"
<1> DEFINE
  G == GroupOf(v, i)
  row == MergeBillChildren(v.rows, G)
  comp == FiguresOf(v, G)
  x == CompareGroup(v, G)
<1>1. Payments(row.payments) BY Groups, MergedPayments DEF MergeBillChildren, Readable
<1>2. Sides(comp) /\ comp.status # "calc_only"
  <2>1. Fundings(v.funding) BY DEF Readable
  <2>2. PICK contract, age : comp = ComputeChildComparison(row.payments, contract, age, v.month, v.funding)
    BY DEF FiguresOf
  <2> HIDE DEF row, comp
  <2>3. Sides(comp) BY <1>1, <2>1, <2>2, ComparesChild
  <2>4. comp.status # "calc_only" BY <2>2 DEF ComputeChildComparison
  <2> QED BY <2>3, <2>4
<1>3. /\ x.status = comp.status /\ x.bill = comp.bill /\ x.calc = comp.calc /\ x.properties = comp.properties
      /\ x.month = v.month BY GroupCompared
<1> HIDE DEF comp, x
<1>4. Sides(x) BY <1>2, <1>3 DEF Sides
<1> QED BY <1>2, <1>3, <1>4 DEF x

\* An entry of a child that the bill leaves out.
LEMMA AbsentSides ==
  ASSUME NEW v, Readable(v), NEW c PROVE Sides(CalcOnly(v, c)) /\ CalcOnly(v, c).month = v.month
<1> DEFINE
  contract == PickActive(v.preloaded[c], v.month)
  calculated == CalcAmounts(FundingAgeOnDate(Born[c], v.month), contract.props,
                            FindPeriodForDate(v.funding, v.month))
  x == CalcOnly(v, c)
<1>1. SumFunction(calculated) \in Int BY CalcAmountsFacts, FiniteSum DEF Readable
<1>2. x.status = "calc_only" /\ x.bill = 0 /\ x.calc = SumFunction(calculated) /\ x.month = v.month BY DEF CalcOnly
<1> QED BY <1>1, <1>2 DEF Sides

\* The entries of a comparison, of either kind.
LEMMA EntriesSides ==
  ASSUME NEW v, Readable(v)
  PROVE  LET c == ComparePeriod(v) IN IsFiniteSet(c.entries) /\ \A x \in c.entries : Sides(x) /\ x.month = c.month
<1> DEFINE
  I == DOMAIN v.rows
  e == [i \in I |-> CompareGroup(v, GroupOf(v, i))]
  A == {c \in v.active \ {x.child : x \in Billed(v)} :
           ~AllInBill(v, c) /\ PickActive(v.preloaded[c], v.month) # NoRow}
  a == [c \in A |-> CalcOnly(v, c)]
<1>1. ComparePeriod(v).entries = Billed(v) \cup Absent(v) /\ ComparePeriod(v).month = v.month
  BY DEF ComparePeriod, Billed, Absent
<1>2. Image(e, I, Billed(v)) /\ Image(a, A, Absent(v)) BY DEF Image, Billed, Absent
<1>3. IsFiniteSet(I) /\ IsFiniteSet(A) BY ReportAssumption, FS_Subset DEF Readable, BillsRows
<1> HIDE DEF e, a, A
<1>4. IsFiniteSet(Billed(v)) /\ IsFiniteSet(Absent(v)) BY <1>2, <1>3, FiniteImage
<1>5. IsFiniteSet(Billed(v) \cup Absent(v)) BY <1>4, FS_Union
<1>6. \A x \in Billed(v) : Sides(x) /\ x.month = v.month BY BilledSides DEF Billed
<1>7. \A x \in Absent(v) : Sides(x) /\ x.month = v.month BY AbsentSides DEF Absent
<1> QED BY <1>1, <1>5, <1>6, <1>7

\* The difference of the totals is that of the entries.
LEMMA ComparisonBalanced == ASSUME NEW v, Readable(v) PROVE Balanced(ComparePeriod(v))
<1> DEFINE
  c == ComparePeriod(v)
  E == c.entries
  C == Counted(E)
  P == {x \in C : x.calc # NoRow}
  bill == [x \in C |-> x.bill]
  calc == [x \in P |-> x.calc]
  wide == [x \in C |-> IF x.calc = NoRow THEN 0 ELSE x.calc]
  net == [x \in E |-> Net(x)]
<1>1. IsFiniteSet(E) /\ \A x \in E : Sides(x) /\ x.month = c.month BY EntriesSides
<1>2. C \in SUBSET E /\ IsFiniteSet(C) /\ P \in SUBSET C /\ IsFiniteSet(P) BY <1>1, FS_Subset DEF Counted
<1>3. \A x \in E : x.bill \in Int /\ (x.calc = NoRow \/ x.calc \in Int) /\ Net(x) \in Int
  BY <1>1, EntryIsCut DEF Sides
<1>4. Summands(bill, C) /\ Summands(calc, P) /\ Summands(wide, C) /\ Summands(net, E) BY <1>1, <1>2, <1>3 DEF Summands
<1>5. c.bill = SumFunctionOnSet(bill, C) /\ c.calc = SumFunctionOnSet(calc, P) BY DEF ComparePeriod, SumFunction
<1>6. /\ \A x \in E \ C : net[x] = 0
      /\ \A x \in C : net[x] = bill[x] - wide[x]
      /\ \A x \in C \ P : wide[x] = 0
      /\ \A x \in P : wide[x] = calc[x] BY <1>2 DEF Counted, Net
<1> HIDE DEF bill, calc, wide, net, C, P, E
<1>7. SumFunctionOnSet(net, E) = SumFunctionOnSet(net, C) /\ Summands(net, C) BY <1>2, <1>4, <1>6, SumDrop
<1>8. SumFunctionOnSet(net, C) = SumFunctionOnSet(bill, C) - SumFunctionOnSet(wide, C) BY <1>4, <1>6, SumMinus
<1>9. SumFunctionOnSet(wide, C) = SumFunctionOnSet(wide, P) BY <1>2, <1>4, <1>6, SumDrop
<1>10. SumFunctionOnSet(wide, P) = SumFunctionOnSet(calc, P) BY <1>4, <1>6, SumSame
<1>11. SumFunctionOnSet(bill, C) \in Int /\ SumFunctionOnSet(calc, P) \in Int BY <1>4, SumFacts
<1> QED BY <1>1, <1>5, <1>7, <1>8, <1>9, <1>10, <1>11 DEF Balanced, net, E
----------------------------------------
(* Payments of several rows. *)

\* Their union comes to the sum of their totals.
LEMMA UnionTotal ==
  ASSUME NEW I, NEW S, Disjoint(S, I), NEW F, \A i \in I : F[i] = Total(S[i]), NEW U, U = UNION {S[i] : i \in I}
  PROVE  Payments(U) /\ Summands(F, I) /\ Total(U) = SumFunctionOnSet(F, I)
<1> DEFINE
  f == [p \in U |-> p.amount]
  of == [p \in U |-> CHOOSE i \in I : p \in S[i]]
  K == {S[i] : i \in I}
  e == [i \in I |-> S[i]]
<1>1. \A i \in I : Payments(S[i]) BY DEF Disjoint
<1>2. Payments(U)
  <2>1. Image(e, I, K) /\ IsFiniteSet(I) BY DEF Image, Disjoint
  <2>2. \A T \in K : IsFiniteSet(T) /\ \A p \in T : p.amount \in Int BY <1>1 DEF Payments
  <2>3. U = UNION K OBVIOUS
  <2> HIDE DEF K, e
  <2>4. IsFiniteSet(K) BY <2>1, FiniteImage
  <2>5. IsFiniteSet(UNION K) BY <2>2, <2>4, FS_UNION
  <2> QED BY <2>2, <2>3, <2>5 DEF Payments
<1>3. Summands(f, U) /\ Total(U) = SumFunctionOnSet(f, U) BY <1>2, Totals
<1>4. \A p \in U : of[p] \in I /\ p \in S[of[p]]
  <2> SUFFICES ASSUME NEW p \in U PROVE of[p] \in I /\ p \in S[of[p]] OBVIOUS
  <2>1. \E i \in I : p \in S[i] OBVIOUS
  <2> QED BY <2>1
<1>5. \A i \in I : S[i] \subseteq U OBVIOUS
<1> HIDE DEF of
<1>6. \A i \in I : {p \in U : of[p] = i} = S[i] BY <1>4, <1>5 DEF Disjoint
<1>7. ASSUME NEW i \in I PROVE F[i] = SumFunctionOnSet(f, {p \in U : of[p] = i})
  <2> DEFINE h == [p \in S[i] |-> p.amount]
  <2>1. Summands(h, S[i]) /\ SumFunctionOnSet(h, S[i]) = Total(S[i]) BY <1>1, Totals
  <2>2. \A p \in S[i] : f[p] = h[p] BY <1>5
  <2> HIDE DEF h, f
  <2>3. SumFunctionOnSet(f, S[i]) = SumFunctionOnSet(h, S[i]) BY <2>1, <2>2, SumSame
  <2> QED BY <1>6, <2>1, <2>3
<1> HIDE DEF f
<1>8. Fibred(f, U, of, I, F) BY <1>4, <1>7 DEF Fibred, Disjoint
<1> QED BY <1>2, <1>3, <1>8, SumFibres

\* The payments of one type in several rows.
LEMMA OfTypeTotal ==
  ASSUME NEW rows, Apart(rows), NEW I \in SUBSET DOMAIN rows, NEW type,
         NEW F, \A i \in I : F[i] = Total(OfType(rows[i].payments, type))
  PROVE  LET U == OfType(PaymentsOf(rows, I), type)
         IN  Payments(U) /\ Summands(F, I) /\ Total(U) = SumFunctionOnSet(F, I)
<1> DEFINE
  S == [i \in I |-> OfType(rows[i].payments, type)]
  U == OfType(PaymentsOf(rows, I), type)
<1>1. IsFiniteSet(I) /\ \A i \in I : Payments(rows[i].payments) BY FS_Subset DEF Apart, BillsRows
<1>2. \A i \in I : Payments(S[i]) /\ S[i] = OfType(rows[i].payments, type) BY <1>1, Totals DEF OfType
<1>3. U = UNION {S[i] : i \in I} BY DEF OfType, PaymentsOf
<1>4. Disjoint(S, I) BY <1>2, <1>1 DEF Apart, OfType, Disjoint
<1>5. \A i \in I : F[i] = Total(S[i]) BY <1>2
<1> HIDE DEF S, U
<1>6. Payments(U) /\ Summands(F, I) /\ Total(U) = SumFunctionOnSet(F, I) BY <1>3, <1>4, <1>5, UnionTotal
<1> QED BY <1>6 DEF U

\* All entries have what all rows have.
LEMMA EntriesCarry ==
  ASSUME NEW v, Readable(v), NEW paid, NEW worth, Carried(v, paid, worth)
  PROVE  LET E == ComparePeriod(v).entries
         IN  Summands(worth, E) /\ SumFunctionOnSet(worth, E) = SumFunctionOnSet(paid, DOMAIN v.rows)
<1> DEFINE
  E == ComparePeriod(v).entries
  D == DOMAIN v.rows
  of == [i \in D |-> CompareGroup(v, GroupOf(v, i))]
<1>1. E = Billed(v) \cup Absent(v) BY DEF ComparePeriod, Billed, Absent
<1>2. IsFiniteSet(E) BY EntriesSides
<1>3. \A i \in D : of[i] \in Billed(v) BY DEF Billed
<1>4. ASSUME NEW x \in Billed(v) PROVE {i \in D : of[i] = x} = x.rows /\ x.rows \in SUBSET D
  <2>1. PICK k \in D : x = CompareGroup(v, GroupOf(v, k)) BY DEF Billed
  <2>2. x.rows = GroupOf(v, k) BY <2>1, GroupCompared
  <2>3. \A i \in D : of[i] = x => i \in x.rows
   <3> SUFFICES ASSUME NEW i \in D, of[i] = x PROVE i \in x.rows OBVIOUS
   <3>1. x.rows = GroupOf(v, i) BY GroupCompared
   <3> QED BY <3>1, Groups
  <2>4. \A i \in x.rows : i \in D /\ of[i] = x
   <3> SUFFICES ASSUME NEW i \in x.rows PROVE i \in D /\ of[i] = x OBVIOUS
   <3>1. i \in D /\ GroupOf(v, i) = GroupOf(v, k) BY <2>2, Groups
   <3> QED BY <2>1, <3>1
  <2> HIDE DEF of, D
  <2> QED BY <2>3, <2>4
<1> HIDE DEF of, D, E
<1>5. \A x \in Billed(v) : worth[x] = SumFunctionOnSet(paid, {i \in D : of[i] = x}) /\ worth[x] \in Int
  <2> SUFFICES ASSUME NEW x \in Billed(v)
    PROVE  worth[x] = SumFunctionOnSet(paid, {i \in D : of[i] = x}) /\ worth[x] \in Int OBVIOUS
  <2>1. Summands(paid, x.rows) BY <1>4, SumFacts DEF Carried, D
  <2>2. SumFunctionOnSet(paid, x.rows) \in Int BY <2>1, SumFacts
  <2> QED BY <1>4, <2>2 DEF Carried
<1>6. Summands(worth, E)
  <2>1. \A x \in Absent(v) : worth[x] \in Int BY DEF Carried
  <2> QED BY <1>1, <1>2, <1>5, <2>1 DEF Summands
<1>7. Billed(v) \in SUBSET E /\ IsFiniteSet(Billed(v)) /\ \A x \in E \ Billed(v) : worth[x] = 0
  BY <1>1, <1>2, FS_Subset DEF Carried
<1>8. SumFunctionOnSet(worth, E) = SumFunctionOnSet(worth, Billed(v)) BY <1>6, <1>7, SumDrop
<1>9. Fibred(paid, D, of, Billed(v), worth) BY <1>3, <1>5, <1>7 DEF Fibred
<1>10. SumFunctionOnSet(worth, Billed(v)) = SumFunctionOnSet(paid, D) BY <1>9, SumFibres DEF Carried, D
<1> QED BY <1>6, <1>8, <1>10 DEF E, D
----------------------------------------
(* The summary. *)

\* What the entries of several months contribute is the difference of their totals.
LEMMA EntriesSum ==
  ASSUME NEW cs, Separate(cs)
  PROVE  LET E == EntriesOf(cs)
             net == [x \in E |-> Net(x)]
         IN  /\ Summands(net, E) /\ \A x \in E : Cut(x)
             /\ SumFunctionOnSet(net, E)
                  = SumFunction([c \in cs |-> c.bill]) - SumFunction([c \in cs |-> c.calc])
<1> DEFINE
  E == EntriesOf(cs)
  net == [x \in E |-> Net(x)]
  of == [x \in E |-> CHOOSE c \in cs : c.month = x.month]
  bill == [c \in cs |-> c.bill]
  calc == [c \in cs |-> c.calc]
  F == [c \in cs |-> c.bill - c.calc]
<1>1. \A c \in cs : IsFiniteSet(c.entries) /\ \A x \in c.entries : Sides(x) /\ x.month = c.month
  BY DEF Separate, Balanced
<1>2. IsFiniteSet(E)
  <2> DEFINE
    e == [c \in cs |-> c.entries]
    K == {c.entries : c \in cs}
  <2>1. Image(e, cs, K) BY DEF Image
  <2>2. IsFiniteSet(K) BY <2>1, FiniteImage DEF Separate
  <2>3. \A T \in K : IsFiniteSet(T) BY <1>1
  <2> HIDE DEF K
  <2>4. IsFiniteSet(UNION K) BY <2>2, <2>3, FS_UNION
  <2> QED BY <2>4 DEF K, EntriesOf
<1>3. \A x \in E : Sides(x) /\ Cut(x) /\ Net(x) \in Int BY <1>1, EntryIsCut DEF EntriesOf
<1>4. Summands(net, E) BY <1>2, <1>3 DEF Summands
<1>5. \A c \in cs : \A x \in c.entries : of[x] = c
  <2> SUFFICES ASSUME NEW c \in cs, NEW x \in c.entries PROVE of[x] = c OBVIOUS
  <2>1. x \in E /\ x.month = c.month BY <1>1 DEF EntriesOf
  <2>2. \A d \in cs : d.month = x.month => d = c BY <2>1 DEF Separate
  <2> QED BY <2>1, <2>2
<1>6. \A x \in E : \E c \in cs : x \in c.entries BY DEF EntriesOf
<1>7. (\A c \in cs : c.entries \subseteq E) /\ \A x \in E : of[x] \in cs
  <2>1. \A c \in cs : c.entries \subseteq E BY DEF EntriesOf
  <2> HIDE DEF E, of
  <2> QED BY <1>5, <1>6, <2>1
<1>8. ASSUME NEW c \in cs PROVE F[c] = SumFunctionOnSet(net, {x \in E : of[x] = c})
  <2> DEFINE h == [x \in c.entries |-> Net(x)]
  <2>1. c.bill - c.calc = SumFunctionOnSet(h, c.entries) BY DEF Separate, Balanced
  <2>2. c.entries \subseteq E /\ \A x \in c.entries : h[x] = net[x] BY DEF EntriesOf
  <2>3. Summands(net, c.entries) BY <1>4, <2>2, SumFacts
  <2> HIDE DEF h, net, of, E
  <2>4. SumFunctionOnSet(h, c.entries) = SumFunctionOnSet(net, c.entries) BY <2>2, <2>3, SumSame
  <2>5. {x \in E : of[x] = c} = c.entries BY <1>5, <1>6, <1>7
  <2> QED BY <2>1, <2>4, <2>5
<1>9. Summands(bill, cs) /\ Summands(calc, cs) /\ \A c \in cs : F[c] = bill[c] - calc[c]
  BY DEF Separate, Balanced, Summands
<1>10. SumFunction(bill) = SumFunctionOnSet(bill, cs) /\ SumFunction(calc) = SumFunctionOnSet(calc, cs)
  BY DEF SumFunction
<1> HIDE DEF net, of, bill, calc, F, E
<1>11. Fibred(net, E, of, cs, F) BY <1>7, <1>8 DEF Fibred, Separate
<1>12. SumFunctionOnSet(F, cs) = SumFunctionOnSet(net, E) BY <1>4, <1>11, SumFibres
<1>13. SumFunctionOnSet(F, cs) = SumFunctionOnSet(bill, cs) - SumFunctionOnSet(calc, cs) BY <1>9, SumMinus
<1> QED BY <1>3, <1>4, <1>10, <1>12, <1>13 DEF net, bill, calc, E

\* And so is what their pieces come to.
LEMMA PiecesSum ==
  ASSUME NEW cs, Separate(cs)
  PROVE  LET P == PiecesOf(cs)
             f == [p \in P |-> p.amount]
         IN  /\ Summands(f, P) /\ \A p \in P : p.category \in Categories
             /\ SumFunctionOnSet(f, P) = SumFunction([c \in cs |-> c.bill]) - SumFunction([c \in cs |-> c.calc])
<1> DEFINE
  E == EntriesOf(cs)
  P == PiecesOf(cs)
  net == [x \in E |-> Net(x)]
  f == [p \in P |-> p.amount]
  of == [p \in P |-> p.entry]
<1>1. Summands(net, E) /\ \A x \in E : Cut(x) BY EntriesSum
<1>2. IsFiniteSet(P)
  <2> DEFINE
    e == [x \in E |-> Pieces(x)]
    K == {Pieces(x) : x \in E}
  <2>1. Image(e, E, K) BY DEF Image
  <2>2. IsFiniteSet(K) BY <1>1, <2>1, FiniteImage DEF Summands
  <2>3. \A T \in K : IsFiniteSet(T) BY <1>1 DEF Cut, Summands
  <2> HIDE DEF K
  <2>4. IsFiniteSet(UNION K) BY <2>2, <2>3, FS_UNION
  <2> QED BY <2>4 DEF K, PiecesOf
<1>3. \A x \in E : \A p \in Pieces(x) : p.amount \in Int /\ p.entry = x /\ p.category \in Categories
  BY <1>1 DEF Cut, Summands
<1>4. Summands(f, P) BY <1>2, <1>3 DEF Summands, PiecesOf
<1>5. \A p \in P : of[p] \in E /\ p.category \in Categories BY <1>3 DEF PiecesOf
<1>6. \A x \in E : {p \in P : of[p] = x} = Pieces(x) BY <1>3 DEF PiecesOf
<1>7. ASSUME NEW x \in E PROVE net[x] = SumFunctionOnSet(f, {p \in P : of[p] = x})
  <2> DEFINE h == [p \in Pieces(x) |-> p.amount]
  <2>1. Net(x) = SumFunctionOnSet(h, Pieces(x)) BY <1>1 DEF Cut
  <2>2. Pieces(x) \subseteq P /\ \A p \in Pieces(x) : h[p] = f[p] BY DEF PiecesOf
  <2>3. Summands(f, Pieces(x)) /\ net[x] = Net(x) BY <1>4, <2>2, SumFacts
  <2> HIDE DEF h, f, of, P, net
  <2>4. SumFunctionOnSet(h, Pieces(x)) = SumFunctionOnSet(f, Pieces(x)) BY <2>2, <2>3, SumSame
  <2> QED BY <1>6, <2>1, <2>3, <2>4
<1>8. SumFunctionOnSet(net, E) = SumFunction([c \in cs |-> c.bill]) - SumFunction([c \in cs |-> c.calc]) BY EntriesSum
<1> HIDE DEF f, of, net, E, P
<1>9. Fibred(f, P, of, E, net) BY <1>1, <1>5, <1>7 DEF Fibred, Summands
<1>10. SumFunctionOnSet(net, E) = SumFunctionOnSet(f, P) BY <1>4, <1>9, SumFibres
<1> QED BY <1>4, <1>5, <1>8, <1>10 DEF f, P

\* There are five categories.
LEMMA CategoriesFinite == IsFiniteSet(Categories)
<1>1. IsFiniteSet({"rate_difference"}) /\ IsFiniteSet({"property_mismatch"}) /\ IsFiniteSet({"not_billed"})
      /\ IsFiniteSet({"bill_only"}) /\ IsFiniteSet({"calc_only"}) BY FS_Singleton
<1>2. IsFiniteSet({"rate_difference"} \cup {"property_mismatch"} \cup {"not_billed"} \cup {"bill_only"} \cup {"calc_only"})
  BY <1>1, FS_Union
<1>3. Categories = {"rate_difference"} \cup {"property_mismatch"} \cup {"not_billed"} \cup {"bill_only"} \cup {"calc_only"}
  BY DEF Categories
<1> QED BY <1>2, <1>3

\* The worth of some of the pieces.
LEMMA WorthFacts ==
  ASSUME NEW P, NEW f, f = [p \in P |-> p.amount], Summands(f, P), NEW S \in SUBSET P
  PROVE  Worth(S) = SumFunctionOnSet(f, S) /\ Worth(S) \in Int /\ Summands(f, S)
<1> DEFINE h == [p \in S |-> p.amount]
<1>1. Worth(S) = SumFunctionOnSet(h, S) BY DEF Worth, SumFunction
<1>2. \A p \in S : h[p] = f[p] OBVIOUS
<1>3. Summands(f, S) /\ SumFunctionOnSet(f, S) \in Int BY SumFacts
<1> HIDE DEF h
<1>4. SumFunctionOnSet(h, S) = SumFunctionOnSet(f, S) BY <1>2, <1>3, SumSame
<1> QED BY <1>1, <1>3, <1>4

\* Pieces added up class by class come to their worth.
LEMMA ByClass ==
  ASSUME NEW P, NEW f, f = [p \in P |-> p.amount], Summands(f, P), NEW S \in SUBSET P, NEW of, NEW K, NEW F,
         Classed(S, of, K, F) PROVE Summands(F, K) /\ SumFunctionOnSet(F, K) = Worth(S)
<1>1. Summands(f, S) /\ Worth(S) = SumFunctionOnSet(f, S) BY WorthFacts
<1>2. ASSUME NEW k \in K PROVE F[k] = SumFunctionOnSet(f, {p \in S : of[p] = k})
  <2> DEFINE T == {p \in S : of[p] = k}
  <2>1. T \in SUBSET P OBVIOUS
  <2> HIDE DEF T
  <2>2. Worth(T) = SumFunctionOnSet(f, T) BY <2>1, WorthFacts
  <2> QED BY <2>2 DEF T, Classed
<1>3. Fibred(f, S, of, K, F) BY <1>2 DEF Fibred, Classed
<1> QED BY <1>1, <1>3, SumFibres

\* What a summary says of the comparisons.
LEMMA SummaryIs ==
  ASSUME NEW comparisons
  PROVE  LET cs == ToSet(comparisons)
             s == BuildComparisonSummary(comparisons)
         IN  /\ s.billed = SumFunction([c \in cs |-> c.bill]) /\ s.calculated = SumFunction([c \in cs |-> c.calc])
             /\ s.category = [cat \in Categories |-> CategoryWorth(cs, cat)]
             /\ s.issues = {i \in {Issued(cs, IssueOf(p)) : p \in Flagged(cs)} : i.total # 0}
  BY DEF BuildComparisonSummary, PiecesOf, EntriesOf, Flagged, Worth, CategoryWorth, Issued, SettledOf

\* The summary takes the difference apart, by category and by issue.
LEMMA SummaryExact == ASSUME NEW comparisons, Separate(ToSet(comparisons)) PROVE Exact(comparisons)
<1> DEFINE
  cs == ToSet(comparisons)
  s == BuildComparisonSummary(comparisons)
  P == PiecesOf(cs)
  f == [p \in P |-> p.amount]
  D == s.billed - s.calculated
<1>1. Summands(f, P) /\ (\A p \in P : p.category \in Categories) /\ SumFunctionOnSet(f, P) = D
  <2>1. D = SumFunction([c \in cs |-> c.bill]) - SumFunction([c \in cs |-> c.calc]) BY SummaryIs
  <2>2. /\ Summands(f, P) /\ \A p \in P : p.category \in Categories
        /\ SumFunctionOnSet(f, P) = SumFunction([c \in cs |-> c.bill]) - SumFunction([c \in cs |-> c.calc])
    BY PiecesSum
  <2> HIDE DEF D, f, P, cs
  <2> QED BY <2>1, <2>2
<1>2. Worth(P) = D /\ D \in Int BY <1>1, WorthFacts
<1>3. SumFunction(s.category) = D
  <2> DEFINE
    of == [p \in P |-> p.category]
    F == [cat \in Categories |-> CategoryWorth(cs, cat)]
  <2>1. s.category = F /\ DOMAIN F = Categories BY SummaryIs
  <2>2. \A p \in P : of[p] \in Categories BY <1>1
  <2>3. \A cat \in Categories : F[cat] = Worth({p \in P : of[p] = cat}) BY DEF CategoryWorth
  <2> HIDE DEF of, F, P, f
  <2>4. Classed(P, of, Categories, F) BY <2>2, <2>3, CategoriesFinite DEF Classed
  <2>5. SumFunctionOnSet(F, Categories) = Worth(P) BY <1>1, <2>4, ByClass DEF f
  <2> QED BY <1>2, <2>1, <2>5 DEF SumFunction
<1> DEFINE
  R == {p \in P : p.category = "rate_difference"}
  O == {p \in P : p.category # "rate_difference"}
  G == Flagged(cs)
<1>4. Worth(R) + Worth(G) = D /\ Worth(R) \in Int /\ Worth(G) \in Int
  <2>1. R \in SUBSET P /\ O \in SUBSET P /\ R \cap O = {} /\ R \cup O = P /\ G \in SUBSET O /\ G \in SUBSET P
    BY DEF Flagged
  <2>2. \A p \in O \ G : f[p] = 0 BY DEF Flagged
  <2> HIDE DEF R, O, G, P, f
  <2>3. Summands(f, R) /\ Summands(f, O) BY <1>1, <2>1, SumFacts
  <2>4. SumFunctionOnSet(f, R \cup O) = SumFunctionOnSet(f, R) + SumFunctionOnSet(f, O) BY <2>1, <2>3, SumUnion
  <2>5. SumFunctionOnSet(f, O) = SumFunctionOnSet(f, G) BY <2>1, <2>2, <2>3, SumDrop
  <2>6. Worth(R) = SumFunctionOnSet(f, R) /\ Worth(R) \in Int BY <1>1, <2>1, WorthFacts DEF f
  <2>7. Worth(G) = SumFunctionOnSet(f, G) /\ Worth(G) \in Int BY <1>1, <2>1, WorthFacts DEF f
  <2> QED BY <1>1, <2>1, <2>4, <2>5, <2>6, <2>7
<1>5. s.category["rate_difference"] = Worth(R)
  <2>1. s.category["rate_difference"] = CategoryWorth(cs, "rate_difference") BY SummaryIs DEF Categories
  <2> QED BY <2>1 DEF CategoryWorth
<1>6. SumFunction([i \in s.issues |-> i.total]) = Worth(G)
  <2> DEFINE
    of == [p \in G |-> IssueOf(p)]
    K == {IssueOf(p) : p \in G}
    F == [k \in K |-> Worth({p \in G : of[p] = k})]
    N == {k \in K : F[k] # 0}
    e == [k \in N |-> Issued(cs, k)]
    t == [i \in s.issues |-> i.total]
  <2>1. G \in SUBSET P BY DEF Flagged
  <2>2. IsFiniteSet(K)
   <3>1. Image(of, G, K) BY DEF Image
   <3>2. IsFiniteSet(G) BY <1>1, <2>1, FS_Subset DEF Summands
   <3> QED BY <3>1, <3>2, FiniteImage
  <2>3. (\A p \in G : of[p] \in K) /\ \A k \in K : F[k] = Worth({p \in G : of[p] = k}) OBVIOUS
  <2>4. \A k \in K : F[k] = Issued(cs, k).total /\ Issued(cs, k).issue = k BY DEF Issued
  <2>5. Image(e, N, s.issues)
   <3>0. s.issues = {i \in {Issued(cs, IssueOf(p)) : p \in G} : i.total # 0} BY SummaryIs
   <3>1. s.issues = {i \in {Issued(cs, k) : k \in K} : i.total # 0} BY <3>0
   <3>2. s.issues = {Issued(cs, k) : k \in N}
    <4> HIDE DEF K, F, s
    <4> QED BY <2>4, <3>1
   <3>3. \A k \in N : e[k] = Issued(cs, k) OBVIOUS
   <3> HIDE DEF N, e, s
   <3> QED BY <3>2, <3>3 DEF Image
  <2>6. Renamed(F, N, e, t)
   <3>1. \A k \in N : k \in K /\ e[k] = Issued(cs, k) /\ e[k] \in s.issues /\ t[e[k]] = Issued(cs, k).total
     BY <2>5 DEF Image
   <3> HIDE DEF K, F, N, e, t
   <3> QED BY <2>4, <3>1 DEF Renamed
  <2>7. N \in SUBSET K /\ (\A k \in K \ N : F[k] = 0) /\ SumFunction(t) = SumFunctionOnSet(t, s.issues)
    BY DEF SumFunction
  <2> HIDE DEF of, K, F, N, e, t, G, P, s
  <2>8. Summands(F, K) /\ SumFunctionOnSet(F, K) = Worth(G)
   <3>1. Classed(G, of, K, F) BY <2>2, <2>3 DEF Classed
   <3> HIDE DEF f
   <3> QED BY <1>1, <2>1, <3>1, ByClass DEF f
  <2>9. Summands(F, N) /\ SumFunctionOnSet(F, K) = SumFunctionOnSet(F, N) BY <2>7, <2>8, SumDrop
  <2>10. SumFunctionOnSet(t, s.issues) = SumFunctionOnSet(F, N) BY <2>5, <2>6, <2>9, SumRenamed
  <2> QED BY <2>7, <2>8, <2>9, <2>10 DEF t
<1> HIDE DEF s
<1>7. SumFunction([i \in s.issues |-> i.total]) + s.category["rate_difference"] = D BY <1>2, <1>4, <1>5, <1>6
<1> QED BY <1>3, <1>7 DEF Exact, s
----------------------------------------
(* The lines of a file. *)

\* The entries of a line, one per property.
LEMMA AmountsItemized == ASSUME NEW line \in SheetLines PROVE Itemized(Amounts(line))
<1> DEFINE
  a == line.amounts
  Entry(kv, always, amount) == [kv |-> kv, always |-> always, amount |-> amount]
  x1 == Entry(KV("care_type", line.scope), TRUE, a.base)
  x2 == Entry(KV("abzug", 1), FALSE, a.abzug)
  x3 == Entry(KV("ndh", 1), line.ndh, a.ndh)
  x4 == Entry(KV("qm/mss", 1), line.qmmss, a.qm + a.mss)
  x5 == Entry(KV("integration", IntegrationValue(line)), line.integration \in {"A", "B"}, a.integration)
  x6 == Entry(KV("but", 1), FALSE, a.but)
  x7 == Entry(KV("parent", 1), TRUE, -a.care)
  x8 == Entry(Meals, TRUE, -a.meals)
  All == {x1, x2, x3, x4, x5, x6, x7, x8}
<1>1. a.base \in Int /\ a.abzug \in Int /\ a.ndh \in Int /\ a.qm + a.mss \in Int /\ a.integration \in Int
      /\ a.but \in Int /\ -a.care \in Int /\ -a.meals \in Int BY DEF SheetLines, Columns
<1>2. Amounts(line) = {x \in All : x.always \/ x.amount # 0} BY DEF Amounts
<1>3. \A x \in All : x.amount \in Int BY <1>1
<1>4. IsFiniteSet(All)
  <2>1. \A x : IsFiniteSet({x}) BY FS_Singleton
  <2> HIDE DEF x1, x2, x3, x4, x5, x6, x7, x8
  <2>2. IsFiniteSet({x1} \cup {x2} \cup {x3} \cup {x4} \cup {x5} \cup {x6} \cup {x7} \cup {x8}) BY <2>1, FS_Union
  <2>3. All = {x1} \cup {x2} \cup {x3} \cup {x4} \cup {x5} \cup {x6} \cup {x7} \cup {x8} OBVIOUS
  <2> QED BY <2>2, <2>3
<1>5. \A x, y \in All : x.kv = y.kv => x = y
  <2>1. /\ x1.kv.key = "care_type" /\ x2.kv.key = "abzug" /\ x3.kv.key = "ndh" /\ x4.kv.key = "qm/mss"
        /\ x5.kv.key = "integration" /\ x6.kv.key = "but" /\ x7.kv.key = "parent" /\ x8.kv.key = "parent"
        /\ x7.kv.value = 1 /\ x8.kv.value = 2 BY DEF KV, Meals
  <2> HIDE DEF x1, x2, x3, x4, x5, x6, x7, x8
  <2> QED BY <2>1
<1>6. x8 \in All /\ x8.kv = Meals /\ x8.always OBVIOUS
<1> HIDE DEF All, x8
<1> QED BY <1>2, <1>3, <1>4, <1>5, <1>6, FS_Subset DEF Itemized, Payments

\* With the rest of its sum the entries come to the sum.
LEMMA RowReconciles ==
  ASSUME NEW line \in SheetLines
  PROVE  /\ Payments(ReconcileRow(line)) /\ Total(ReconcileRow(line)) = line.sum
         /\ \A x, y \in ReconcileRow(line) : x.kv = y.kv => x = y
<1> DEFINE
  E == Amounts(line)
  R == Residual(line)
  m == [x \in E |-> IF x.kv = Meals THEN [x EXCEPT !.amount = @ + R] ELSE x]
  K == ReconcileRow(line)
  f == [x \in E |-> x.amount]
  g == [x \in E |-> m[x].amount]
  F == [x \in K |-> x.amount]
<1>0. line.sum \in Int BY DEF SheetLines
<1>1. Itemized(E) BY AmountsItemized
<1>2. Summands(f, E) /\ Total(E) = SumFunctionOnSet(f, E) /\ Total(E) \in Int BY <1>1, Totals DEF Itemized
<1>3. R \in Int /\ R = line.sum - Total(E) BY <1>0, <1>2 DEF Residual
<1>4. PICK z \in E : z.kv = Meals BY <1>1 DEF Itemized
<1>5. /\ \A x \in E : x = [kv |-> x.kv, always |-> x.always, amount |-> x.amount]
      /\ \A x \in E : x.amount \in Int BY <1>1 DEF Amounts, Itemized, Payments
<1>6. \A x \in E : m[x].kv = x.kv /\ g[x] = (IF x = z THEN x.amount + R ELSE x.amount)
  <2> SUFFICES ASSUME NEW x \in E
    PROVE  m[x].kv = x.kv /\ m[x].amount = (IF x = z THEN x.amount + R ELSE x.amount) OBVIOUS
  <2>1. x.kv = Meals <=> x = z BY <1>1, <1>4 DEF Itemized
  <2> HIDE DEF E, R
  <2>2. [x EXCEPT !.amount = @ + R] = [kv |-> x.kv, always |-> x.always, amount |-> x.amount + R] BY <1>5
  <2> QED BY <2>1, <2>2
<1>7. K = {m[x] : x \in E} BY DEF ReconcileRow
<1>8. Summands(g, E) BY <1>2, <1>3, <1>5, <1>6 DEF Summands
<1> HIDE DEF E, R, m, K, f, g, F
<1>9. SumFunctionOnSet(g, E) = line.sum
  <2> DEFINE W == E \ {z}
  <2>1. SumFunctionOnSet(g, E) = g[z] + SumFunctionOnSet(g, W) BY <1>4, <1>8, SumFacts
  <2>2. SumFunctionOnSet(f, E) = f[z] + SumFunctionOnSet(f, W) BY <1>2, <1>4, SumFacts
  <2>3. SumFunctionOnSet(g, W) = SumFunctionOnSet(f, W) /\ SumFunctionOnSet(f, W) \in Int
   <3>1. W \in SUBSET E OBVIOUS
   <3>2. Summands(f, W) /\ \A x \in W : g[x] = f[x] BY <1>2, <1>6, <3>1, SumFacts DEF f
   <3> HIDE DEF W
   <3> QED BY <3>2, SumSame, SumFacts
  <2>4. g[z] = z.amount + R /\ f[z] = z.amount /\ z.amount \in Int BY <1>4, <1>5, <1>6 DEF f
  <2> HIDE DEF W
  <2>5. PICK n \in Int, w \in Int, r \in Int, s \in Int :
    n = z.amount /\ w = SumFunctionOnSet(f, W) /\ r = R /\ s = line.sum BY <1>0, <1>3, <2>3, <2>4
  <2>6. SumFunctionOnSet(g, E) = (n + r) + w /\ r = s - (n + w) BY <1>2, <1>3, <2>1, <2>2, <2>3, <2>4, <2>5
  <2> QED BY <2>5, <2>6
<1>10. Image(m, E, K) BY <1>7 DEF Image
<1>11. \A x, y \in K : x.kv = y.kv => x = y BY <1>1, <1>6, <1>7 DEF Itemized
<1>12. Renamed(g, E, m, F) BY <1>7, <1>1, <1>6 DEF F, g, Itemized, Renamed
<1>13. Summands(F, K) /\ SumFunctionOnSet(F, K) = line.sum BY <1>8, <1>9, <1>10, <1>12, SumRenamed
<1>14. Payments(K) BY <1>13 DEF Payments, Summands, F
<1> QED BY <1>11, <1>13, <1>14, Totals DEF F, K

\* The payments of a line come to its sum.
LEMMA LinePayments ==
  ASSUME NEW lines, Lines(lines), NEW i \in DOMAIN lines
  PROVE  LET S == ConvertChild(lines, i)
         IN  /\ Payments(S) /\ Total(S) = lines[i].sum
             /\ \A p \in S : p.line = i /\ p.month = lines[i].month /\ p.type = TypeOf(lines[i])
<1> DEFINE
  line == lines[i]
  E == ReconcileRow(line)
  S == ConvertChild(lines, i)
  e == [x \in E |-> [line |-> i, kv |-> x.kv, amount |-> x.amount, month |-> line.month, type |-> TypeOf(line)]]
  f == [x \in E |-> x.amount]
  F == [p \in S |-> p.amount]
<1>1. /\ Payments(E) /\ Total(E) = line.sum
      /\ \A x, y \in E : x.kv = y.kv => x = y BY RowReconciles DEF Lines
<1>2. Summands(f, E) /\ SumFunctionOnSet(f, E) = line.sum BY <1>1, Totals
<1>3. S = {e[x] : x \in E} BY DEF ConvertChild, TypeOf
<1>4. \A x \in E : e[x].kv = x.kv /\ e[x].amount = x.amount OBVIOUS
<1>5. \A p \in S : p.line = i /\ p.month = line.month /\ p.type = TypeOf(line) BY <1>3
<1> HIDE DEF e, E, S, f, F
<1>6. Image(e, E, S) BY <1>3 DEF Image
<1>7. Renamed(f, E, e, F) BY <1>3, <1>4, <1>1 DEF f, F, Renamed
<1>8. Summands(F, S) /\ SumFunctionOnSet(F, S) = line.sum BY <1>2, <1>6, <1>7, SumRenamed
<1>9. Payments(S) BY <1>8 DEF Payments, Summands, F
<1> QED BY <1>5, <1>8, <1>9, Totals DEF F, S

\* Those of several lines come to the sums of all.
LEMMA LinesPayments ==
  ASSUME NEW lines, Lines(lines), NEW I \in SUBSET DOMAIN lines
  PROVE  LET S == UNION {ConvertChild(lines, i) : i \in I}
             sum == [i \in DOMAIN lines |-> lines[i].sum]
         IN  Payments(S) /\ Summands(sum, I) /\ Total(S) = SumFunctionOnSet(sum, I)
<1> DEFINE
  U == {ConvertChild(lines, i) : i \in I}
  S == UNION U
  sum == [i \in DOMAIN lines |-> lines[i].sum]
  f == [p \in S |-> p.amount]
  of == [p \in S |-> p.line]
<1>1. \A i \in I : Payments(ConvertChild(lines, i)) /\ Total(ConvertChild(lines, i)) = lines[i].sum
                   /\ \A p \in ConvertChild(lines, i) : p.line = i BY LinePayments
<1>2. IsFiniteSet(I) BY FS_Subset DEF Lines
<1>3. Payments(S)
  <2> DEFINE e == [i \in I |-> ConvertChild(lines, i)]
  <2>1. Image(e, I, U) BY DEF Image
  <2>2. IsFiniteSet(U) BY <1>2, <2>1, FiniteImage
  <2>3. \A T \in U : IsFiniteSet(T) /\ \A p \in T : p.amount \in Int BY <1>1 DEF Payments
  <2> HIDE DEF U
  <2>4. IsFiniteSet(UNION U) BY <2>2, <2>3, FS_UNION
  <2> QED BY <2>3, <2>4 DEF Payments
<1>4. Summands(f, S) /\ Total(S) = SumFunctionOnSet(f, S) BY <1>3, Totals
<1>5. \A p \in S : of[p] \in I BY <1>1
<1>6. \A i \in I : {p \in S : of[p] = i} = ConvertChild(lines, i)
  <2>1. \A i \in I : ConvertChild(lines, i) \subseteq S OBVIOUS
  <2>2. \A p \in S : \E i \in I : p \in ConvertChild(lines, i) OBVIOUS
  <2>3. \A p \in S : of[p] = p.line OBVIOUS
  <2> HIDE DEF S, of
  <2> QED BY <1>1, <2>1, <2>2, <2>3
<1>7. ASSUME NEW i \in I PROVE sum[i] = SumFunctionOnSet(f, {p \in S : of[p] = i})
  <2> DEFINE
    T == ConvertChild(lines, i)
    h == [p \in T |-> p.amount]
  <2>1. Payments(T) /\ Total(T) = lines[i].sum /\ T \in SUBSET S BY <1>1
  <2>2. Summands(h, T) /\ SumFunctionOnSet(h, T) = lines[i].sum BY <2>1, Totals
  <2>3. \A p \in T : f[p] = h[p] BY <2>1
  <2>4. sum[i] = lines[i].sum OBVIOUS
  <2> HIDE DEF h, f, S, of, sum
  <2>5. SumFunctionOnSet(f, T) = SumFunctionOnSet(h, T) BY <2>2, <2>3, SumSame
  <2> HIDE DEF T
  <2> QED BY <1>6, <2>2, <2>4, <2>5 DEF T
<1> HIDE DEF f, of, sum, S
<1>8. Fibred(f, S, of, I, sum) BY <1>2, <1>5, <1>7 DEF Fibred
<1>9. Summands(sum, I) /\ SumFunctionOnSet(sum, I) = SumFunctionOnSet(f, S) BY <1>4, <1>8, SumFibres
<1> QED BY <1>3, <1>4, <1>9 DEF S, sum

\* The table of a workbook.
LEMMA TableIsLines ==
  ASSUME NEW book \in Books, Vouchers(book) # {} PROVE Lines(TableLines(book)) /\ DOMAIN TableLines(book) # {}
<1> DEFINE
  s == book.lines
  n == Len(s)
  V == Vouchers(book)
  a == TableStart(book)
  b == TableEnd(book)
  T == TableLines(book)
<1>1. s \in Seq(SheetLines) /\ n \in Nat /\ DOMAIN s = 1..n BY LenProperties DEF Books
<1>2. V \subseteq 1..n /\ \A i \in V : s[i] \in SheetLines /\ s[i].voucher \in Numbers
  BY <1>1, ElementOfSeq DEF Vouchers
<1>3. a \in V BY <1>2, MinFact DEF TableStart
<1>4. b \in {i \in a..n + 1 : i \notin V}
  <2> DEFINE G == {i \in a..n + 1 : i \notin V}
  <2>1. n + 1 \in G BY <1>1, <1>2, <1>3
  <2>2. G \subseteq Nat BY <1>2, <1>3
  <2>3. b = Min(G) BY DEF TableEnd
  <2> HIDE DEF G
  <2>4. b \in G BY <2>1, <2>2, <2>3, MinFact
  <2> QED BY <2>4 DEF G
<1> HIDE DEF a, b, s, n, V
<1>5. a \in 1..n /\ b \in a..n + 1 /\ b # a BY <1>2, <1>3, <1>4
<1>6. \A i \in a..b - 1 : i \in V
  <2>1. b = Min({i \in a..n + 1 : i \notin V}) BY DEF TableEnd, a, b, s, n, V
  <2> DEFINE G == {i \in a..n + 1 : i \notin V}
  <2>2. G \subseteq Nat /\ G # {} BY <1>1, <1>4, <1>5
  <2>5. \A k \in G : b <= k
   <3> HIDE DEF G
   <3> QED BY <2>1, <2>2, MinFact DEF G
  <2>6. ASSUME NEW i \in a..b - 1, i \notin V PROVE FALSE
   <3>1. i \in G BY <1>1, <1>5, <2>6
   <3>2. b <= i BY <2>5, <3>1
   <3> QED BY <1>1, <1>5, <3>2
  <2> QED BY <2>6
<1>7. T = SubSeq(s, a, b - 1) /\ T = [i \in 1..(b - a) |-> s[i + a - 1]]
  <2>1. T = SubSeq(s, a, b - 1) BY DEF TableLines, a, b, s
  <2>2. SubSeq(s, a, b - 1) = [i \in 1..(b - 1) - a + 1 |-> s[i + a - 1]] BY <1>1, <1>5, SubSeqProperties
  <2>3. (b - 1) - a + 1 = b - a BY <1>1, <1>5
  <2> QED BY <2>1, <2>2, <2>3
<1>8. DOMAIN T = 1..(b - a) /\ b - a \in Nat /\ b - a # 0 BY <1>1, <1>5, <1>7
<1>9. \A i \in DOMAIN T : T[i] \in SheetLines /\ T[i].voucher \in Numbers BY <1>1, <1>5, <1>2, <1>6, <1>7, <1>8
<1>10. IsFiniteSet(DOMAIN T) BY <1>8, FS_Interval
<1> HIDE DEF T
<1>11. Lines(T) BY <1>8, <1>9, <1>10 DEF Lines
<1>12. 1 \in DOMAIN T BY <1>8
<1> QED BY <1>11, <1>12 DEF T
----------------------------------------
(* The tables that an import leaves. *)

\* A configuration has the numbers that the reports need.
LEMMA ConfigurationFundings == ASSUME NEW rows, Configuration(rows) PROVE Fundings(rows)
<1>1. ASSUME NEW i \in DOMAIN rows
  PROVE  /\ rows[i].from \in Int /\ rows[i].hours \in Int /\ RatesOf(rows[i])
         /\ DOMAIN rows[i].rates \subseteq Nat /\ IsFiniteSet(DOMAIN rows[i].rates)
  <2>1. rows[i].from \in Int /\ rows[i].hours \in Int /\ RateTable(rows[i].rates) BY DEF Configuration, PeriodTable
  <2> QED BY <2>1 DEF RateTable, RatesOf, RateRows
<1> QED BY <1>1 DEF Configuration, Fundings

\* A file is a configuration of its periods.
LEMMA PeriodsOfFile ==
  ASSUME NEW file \in Seq(PeriodRows) PROVE DOMAIN file = 1..Len(file) /\ Len(file) \in Nat /\ Configuration(file)
<1>1. DOMAIN file = 1..Len(file) /\ Len(file) \in Nat /\ \A n \in DOMAIN file : file[n] \in PeriodRows
  BY LenProperties, ElementOfSeq
<1>2. ASSUME NEW period \in PeriodRows PROVE PeriodTable(period)
  <2>1. period.from \in Int /\ period.to \in Int /\ period.hours \in Int /\ period.rates \in Seq(RateRows)
    BY DEF PeriodRows
  <2> DEFINE rates == period.rates
  <2>2. DOMAIN rates = 1..Len(rates) /\ Len(rates) \in Nat /\ \A i \in DOMAIN rates : rates[i] \in RateRows
    BY <2>1, LenProperties, ElementOfSeq
  <2>6. DOMAIN rates \subseteq Nat \ {0} BY <2>2
  <2>3. IsFiniteSet(DOMAIN rates) BY <2>2, FS_Interval
  <2>4. rates = [i \in DOMAIN rates |-> rates[i]] BY <2>1
  <2>5. period = [from |-> period.from, to |-> period.to, hours |-> period.hours, required |-> period.required,
    rates |-> period.rates] BY DEF PeriodRows
  <2> QED BY <2>1, <2>2, <2>3, <2>4, <2>5, <2>6 DEF PeriodTable, RateTable
<1>3. IsFiniteSet(DOMAIN file) /\ DOMAIN file \subseteq Nat BY <1>1, FS_Interval
<1>4. file = [n \in DOMAIN file |-> file[n]] OBVIOUS
<1> QED BY <1>1, <1>2, <1>3, <1>4 DEF Configuration

\* No id is above the last one.
LEMMA LastIdFacts ==
  ASSUME NEW rows, DOMAIN rows \subseteq Nat, IsFiniteSet(DOMAIN rows)
  PROVE  LastId(rows) \in Nat /\ \A i \in DOMAIN rows : i <= LastId(rows)
<1> DEFINE T == {0} \cup DOMAIN rows
<1>1. T \subseteq Int /\ T \subseteq Nat /\ T # {} OBVIOUS
<1>0. IsFiniteSet(T) BY FS_Singleton, FS_Union
<1> HIDE DEF T
<1>2. Max(T) \in T /\ \A n \in T : n <= Max(T) BY <1>0, <1>1, MaxFact
<1> QED BY <1>1, <1>2 DEF LastId, T

\* The rates that a file leaves of those stored before.
LEMMA DiffTyped ==
  ASSUME NEW stored, RateTable(stored), NEW file, RateTable(file) PROVE RateTable(DiffProperties(stored, file).rates)
<1> DEFINE
  index == IndexBy(PropertyMatchKey, stored)
  Found(j) == PropertyMatchKey(file[j]) \in DOMAIN index
  Row(j) == index[PropertyMatchKey(file[j])]
  changing == {j \in DOMAIN file : Found(j) /\ RateChanged(stored[Row(j)], file[j])}
  Updates(i) == {j \in changing : Row(j) = i}
  created == {j \in DOMAIN file : ~Found(j)}
  last == LastId(stored)
  kept == DOMAIN stored \ Unseen(stored, file)
  new == {last + j : j \in created}
  X == DiffProperties(stored, file).rates
<1>1. X = [i \in kept \cup new |-> IF i \notin DOMAIN stored THEN file[i - last]
                                   ELSE IF Updates(i) = {} THEN stored[i] ELSE file[Max(Updates(i))]]
  BY DEF DiffProperties
<1>2. last \in Nat BY LastIdFacts DEF RateTable
<1>3. IsFiniteSet(kept) /\ kept \subseteq Nat \ {0} /\ kept \subseteq DOMAIN stored BY FS_Subset DEF RateTable
<1>4. IsFiniteSet(created) /\ created \subseteq DOMAIN file BY FS_Subset DEF RateTable
<1>5. IsFiniteSet(new) /\ new \subseteq Nat \ {0}
  <2> DEFINE e == [j \in created |-> last + j]
  <2>1. Image(e, created, new) BY DEF Image
  <2>2. created \subseteq Nat \ {0} BY <1>4 DEF RateTable
  <2> HIDE DEF created, last
  <2>3. new \subseteq Nat \ {0}
   <3>1. \A j \in created : last + j \in Nat \ {0} BY <1>2, <2>2
   <3> QED BY <3>1
  <2> QED BY <1>4, <2>1, <2>3, FiniteImage
<1>6. \A i \in new : i - last \in DOMAIN file
  <2>1. created \subseteq Nat BY <1>4 DEF RateTable
  <2> HIDE DEF created, last
  <2> QED BY <1>2, <1>4, <2>1
<1>7. \A i : Updates(i) # {} => Max(Updates(i)) \in DOMAIN file
  <2> SUFFICES ASSUME NEW i, Updates(i) # {} PROVE Max(Updates(i)) \in DOMAIN file OBVIOUS
  <2> DEFINE T == Updates(i)
  <2>1. T \subseteq DOMAIN file OBVIOUS
  <2>0. T # {} OBVIOUS
  <2> HIDE DEF T
  <2>2. T \subseteq Int /\ IsFiniteSet(T) BY <2>1, FS_Subset DEF RateTable
  <2>3. Max(T) \in T BY <2>0, <2>2, MaxFact
  <2> QED BY <2>1, <2>3 DEF T
<1> HIDE DEF index, Found, Row, changing, Updates, created, last, kept, new, X
<1>8. \A i \in DOMAIN X : X[i] \in {stored[k] : k \in DOMAIN stored} \cup {file[k] : k \in DOMAIN file}
  <2> SUFFICES ASSUME NEW i \in DOMAIN X
    PROVE  X[i] \in {stored[k] : k \in DOMAIN stored} \cup {file[k] : k \in DOMAIN file} OBVIOUS
  <2>1. i \in kept \cup new BY <1>1
  <2>2. CASE i \notin DOMAIN stored BY <1>1, <1>3, <1>6, <2>1, <2>2
  <2>3. CASE i \in DOMAIN stored /\ Updates(i) = {} BY <1>1, <2>1, <2>3
  <2>4. CASE i \in DOMAIN stored /\ Updates(i) # {} BY <1>1, <1>7, <2>1, <2>4
  <2> QED BY <2>2, <2>3, <2>4
<1>9. \A i \in DOMAIN X : X[i] \in RateRows BY <1>8 DEF RateTable
<1>10. DOMAIN X = kept \cup new BY <1>1
<1>11. IsFiniteSet(kept \cup new) BY <1>3, <1>5, FS_Union
<1>12. X = [i \in DOMAIN X |-> X[i]] BY <1>1
<1>13. RateTable(X) BY <1>3, <1>5, <1>9, <1>10, <1>11, <1>12 DEF RateTable
<1> QED BY <1>13 DEF X

\* A period that is given other rates.
LEMMA RatesReplaced ==
  ASSUME NEW period, PeriodTable(period), NEW T
  PROVE  /\ [period EXCEPT !.rates = T] = WithRates(period, T)
         /\ \A S : [[period EXCEPT !.rates = S] EXCEPT !.rates = T] = WithRates(period, T)
         /\ period = WithRates(period, period.rates)
<1>1. period = WithRates(period, period.rates) BY DEF PeriodTable, WithRates
<1>2. ASSUME NEW p, NEW a, NEW b, NEW c, NEW d, NEW e, NEW S,
         p = [from |-> a, to |-> b, hours |-> c, required |-> d, rates |-> e]
  PROVE  [p EXCEPT !.rates = S] = [from |-> a, to |-> b, hours |-> c, required |-> d, rates |-> S] BY <1>2
<1>3. \A S : [period EXCEPT !.rates = S] = WithRates(period, S) BY <1>1, <1>2 DEF WithRates
<1>4. \A S : [WithRates(period, S) EXCEPT !.rates = T] = WithRates(period, T) BY <1>2 DEF WithRates
<1> QED BY <1>1, <1>3, <1>4

\* A period that has no rates yet.
LEMMA NoRates == RateTable(<<>>) /\ RatesApart(<<>>)
<1>1. DOMAIN <<>> = {} /\ <<>> = [i \in DOMAIN <<>> |-> <<>>[i]] OBVIOUS
<1> QED BY <1>1, FS_EmptySet DEF RateTable, RatesApart

\* One period of the file.
LEMMA ApplyTyped ==
  ASSUME NEW stored, NEW done, Configuration(done.rows), NEW period, PeriodTable(period)
  PROVE  Configuration(ApplyPeriod(stored, done, period).rows)
<1> DEFINE
  rows == done.rows
  X == ApplyPeriod(stored, done, period)
<1>0. DOMAIN rows \subseteq Nat /\ IsFiniteSet(DOMAIN rows) /\ \A i \in DOMAIN rows : PeriodTable(rows[i])
  BY DEF Configuration
<1>1. ASSUME NEW T, RateTable(T)
  PROVE  PeriodTable([period EXCEPT !.rates = T]) /\ \A S : PeriodTable([[period EXCEPT !.rates = S] EXCEPT !.rates = T])
  <2>1. PeriodTable(WithRates(period, T)) BY <1>1 DEF PeriodTable, WithRates
  <2>2. [period EXCEPT !.rates = T] = WithRates(period, T)
    /\ \A S : [[period EXCEPT !.rates = S] EXCEPT !.rates = T] = WithRates(period, T) BY RatesReplaced
  <2> QED BY <2>1, <2>2
<1>2. CASE X = done BY <1>2
<1>3. ASSUME NEW i, X = UpdatePeriodIfChanged(rows, i, period) PROVE Configuration(X.rows)
  <2> DEFINE
    T == DiffProperties(rows[i].rates, period.rates).rates
    w == [[period EXCEPT !.rates = rows[i].rates] EXCEPT !.rates = T]
  <2>1. X.rows = [rows EXCEPT ![i] = w] BY <1>3 DEF UpdatePeriodIfChanged
  <2>2. i \in DOMAIN rows => RateTable(T) BY <1>0, DiffTyped DEF PeriodTable
  <2>3. i \in DOMAIN rows => PeriodTable(w) BY <1>1, <2>2
  <2> HIDE DEF w, rows, X
  <2>4. DOMAIN X.rows = DOMAIN rows /\ \A k \in DOMAIN rows : PeriodTable(X.rows[k]) BY <1>0, <2>1, <2>3
  <2>5. X.rows = [k \in DOMAIN X.rows |-> X.rows[k]] BY <2>1
  <2> QED BY <1>0, <2>4, <2>5 DEF Configuration
<1>4. ASSUME X = CreatePeriod(rows, period) PROVE Configuration(X.rows)
  <2> DEFINE
    T == DiffProperties(<<>>, period.rates).rates
    new == LastId(rows) + 1
    w == [period EXCEPT !.rates = T]
  <2>1. X.rows = [k \in DOMAIN rows \cup {new} |-> IF k = new THEN w ELSE rows[k]] BY <1>4 DEF CreatePeriod
  <2>2. RateTable(<<>>) BY NoRates
  <2>3. RateTable(T) BY <2>2, DiffTyped DEF PeriodTable
  <2>4. PeriodTable(w) BY <1>1, <2>3
  <2>5. new \in Nat /\ IsFiniteSet(DOMAIN rows \cup {new}) BY <1>0, LastIdFacts, FS_AddElement
  <2> HIDE DEF w, rows, X, new
  <2>6. DOMAIN X.rows = DOMAIN rows \cup {new} /\ \A k \in DOMAIN X.rows : PeriodTable(X.rows[k]) BY <1>0, <2>1, <2>4
  <2>7. X.rows = [k \in DOMAIN X.rows |-> X.rows[k]] BY <2>1
  <2> QED BY <1>0, <2>5, <2>6, <2>7 DEF Configuration
<1> QED BY <1>2, <1>3, <1>4 DEF ApplyPeriod

\* The file is applied period by period.
LEMMA ImportSteps ==
  ASSUME NEW stored, NEW file \in Seq(PeriodRows)
  PROVE  \E done : /\ ImportFile(stored, file) = done[Len(file)] /\ done[0] = [ok |-> TRUE, rows |-> stored]
                   /\ \A n \in 1..Len(file) : done[n] = ApplyPeriod(stored, done[n - 1], file[n])
<1> DEFINE L == Len(file)
<1>1. L \in Nat BY PeriodsOfFile
<1>2. \E done : Applied(done, stored, file, L)
  <2> DEFINE Bad == {n \in 0..L : ~\E done : Applied(done, stored, file, n)}
  <2> SUFFICES ASSUME Bad # {} PROVE FALSE BY <1>1
  <2>1. PICK n \in Bad : \A m \in Bad : n <= m
   <3>1. Bad \subseteq Nat BY <1>1
   <3> HIDE DEF Bad
   <3> QED BY <3>1, Smallest
  <2>2. CASE n = 0
   <3> DEFINE d == [k \in 0..0 |-> [ok |-> TRUE, rows |-> stored]]
   <3>1. Applied(d, stored, file, 0) BY DEF Applied
   <3> QED BY <2>1, <2>2, <3>1
  <2>3. CASE n # 0
   <3>1. n - 1 \in 0..L /\ n - 1 \notin Bad BY <1>1, <2>1, <2>3
   <3>2. PICK d : Applied(d, stored, file, n - 1) BY <3>1
   <3> DEFINE
     g == [k \in 0..n |-> IF k = n THEN ApplyPeriod(stored, d[n - 1], file[n]) ELSE d[k]]
     h == [k \in 0..n |-> IF k = 0 THEN [ok |-> TRUE, rows |-> stored] ELSE ApplyPeriod(stored, g[k - 1], file[k])]
   <3>3. \A k \in 0..n - 1 : d[k] = IF k = 0 THEN [ok |-> TRUE, rows |-> stored] ELSE ApplyPeriod(stored, d[k - 1], file[k])
    <4> DEFINE D == [k \in 0..n - 1 |-> IF k = 0 THEN [ok |-> TRUE, rows |-> stored] ELSE ApplyPeriod(stored, d[k - 1], file[k])]
    <4>1. d = D BY <3>2 DEF Applied
    <4>2. \A k \in 0..n - 1 : D[k] = IF k = 0 THEN [ok |-> TRUE, rows |-> stored] ELSE ApplyPeriod(stored, d[k - 1], file[k])
      OBVIOUS
    <4> QED BY <4>1, <4>2
   <3>4. \A k \in 0..n : g[k] = h[k]
    <4> SUFFICES ASSUME NEW k \in 0..n PROVE g[k] = h[k] OBVIOUS
    <4>1. n \in 0..L /\ n # 0 BY <2>1, <2>3
    <4>2. CASE k = 0
     <5>1. 0 \in 0..n - 1 /\ n # 0 BY <1>1, <4>1
     <5>2. d[0] = [ok |-> TRUE, rows |-> stored] BY <3>3, <5>1
     <5> QED BY <4>2, <5>1, <5>2
    <4>3. CASE k # 0
     <5>1. k - 1 \in 0..n - 1 /\ k - 1 \in 0..n /\ k - 1 # n BY <1>1, <4>1, <4>3
     <5>2. g[k - 1] = d[k - 1] BY <5>1
     <5>3. h[k] = ApplyPeriod(stored, d[k - 1], file[k]) BY <4>3, <5>2
     <5>4. CASE k = n BY <5>3, <5>4
     <5>5. CASE k # n BY <1>1, <4>1, <3>3, <4>3, <5>3
     <5> QED BY <5>4, <5>5
    <4> QED BY <4>2, <4>3
   <3>5. g = h BY <3>4
   <3> HIDE DEF g
   <3>6. Applied(g, stored, file, n) BY <3>5 DEF Applied
   <3> QED BY <2>1, <3>6
  <2> QED BY <2>2, <2>3
<1>3. PICK done : Applied(done, stored, file, L) /\ ImportFile(stored, file) = done[L] BY <1>2 DEF ImportFile, Applied
<1>4. \A n \in 0..L : done[n] = IF n = 0 THEN [ok |-> TRUE, rows |-> stored] ELSE ApplyPeriod(stored, done[n - 1], file[n])
  <2> DEFINE D == [k \in 0..L |-> IF k = 0 THEN [ok |-> TRUE, rows |-> stored] ELSE ApplyPeriod(stored, done[k - 1], file[k])]
  <2>1. done = D BY <1>3 DEF Applied
  <2>2. \A n \in 0..L : D[n] = IF n = 0 THEN [ok |-> TRUE, rows |-> stored] ELSE ApplyPeriod(stored, done[n - 1], file[n])
    OBVIOUS
  <2> QED BY <2>1, <2>2
<1>5. 0 \in 0..L /\ \A n \in 1..L : n \in 0..L /\ n # 0 BY <1>1
<1> QED BY <1>3, <1>4, <1>5

\* The whole file.
LEMMA ImportTyped ==
  ASSUME NEW stored, Configuration(stored), NEW file \in Seq(PeriodRows)
  PROVE  Configuration(ImportFile(stored, file).rows)
<1> DEFINE
  L == Len(file)
  Bad(done) == {n \in 0..L : ~Configuration(done[n].rows)}
<1>1. L \in Nat /\ DOMAIN file = 1..L /\ \A n \in 1..L : PeriodTable(file[n]) BY PeriodsOfFile DEF Configuration
<1>2. PICK done : /\ ImportFile(stored, file) = done[L] /\ done[0] = [ok |-> TRUE, rows |-> stored]
                  /\ \A n \in 1..L : done[n] = ApplyPeriod(stored, done[n - 1], file[n]) BY ImportSteps
<1> HIDE DEF L
<1>3. ASSUME Bad(done) # {} PROVE FALSE
  <2>1. PICK n \in Bad(done) : \A m \in Bad(done) : n <= m
   <3>1. Bad(done) \subseteq Nat BY <1>1
   <3> HIDE DEF Bad
   <3> QED BY <1>3, <3>1, Smallest
  <2>2. n # 0 BY <1>2, <2>1
  <2>3. n - 1 \in 0..L /\ n \in 1..L /\ n - 1 \notin Bad(done) BY <1>1, <2>1, <2>2
  <2>4. Configuration(done[n - 1].rows) BY <2>3
  <2>5. Configuration(done[n].rows) BY <1>1, <1>2, <2>3, <2>4, ApplyTyped
  <2> QED BY <2>1, <2>5
<1>4. L \in 0..L BY <1>1
<1> QED BY <1>2, <1>3, <1>4
----------------------------------------
(* What an import leaves: rates, periods, the file. *)

\* The largest of one.
LEMMA MaxOfOne == ASSUME NEW n \in Int PROVE Max({n}) = n
<1>1. IsFiniteSet({n}) BY FS_Singleton
<1>2. Max({n}) \in {n} BY <1>1, MaxFact
<1> QED BY <1>2

\* Of rates told apart by their key each is found by it.
LEMMA RatesFound ==
  ASSUME NEW stored, RateTable(stored), RatesApart(stored)
  PROVE  /\ DOMAIN IndexBy(PropertyMatchKey, stored) = {PropertyMatchKey(stored[i]) : i \in DOMAIN stored}
         /\ \A i \in DOMAIN stored : IndexBy(PropertyMatchKey, stored)[PropertyMatchKey(stored[i])] = i
<1> DEFINE
  index == IndexBy(PropertyMatchKey, stored)
  Of(k) == {j \in DOMAIN stored : PropertyMatchKey(stored[j]) = k}
<1>1. index = [k \in {PropertyMatchKey(stored[i]) : i \in DOMAIN stored} |-> Max(Of(k))] BY DEF IndexBy
<1>2. ASSUME NEW i \in DOMAIN stored PROVE index[PropertyMatchKey(stored[i])] = i
  <2>1. Of(PropertyMatchKey(stored[i])) = {i} BY DEF RatesApart
  <2>2. Max({i}) = i BY MaxOfOne DEF RateTable
  <2> HIDE DEF index, Of
  <2> QED BY <1>1, <2>1, <2>2
<1> QED BY <1>1, <1>2

\* Of periods told apart by their start each is found by it.
LEMMA StartsFound ==
  ASSUME NEW stored, Configuration(stored), StartsApart(stored), NEW index,
         index = IndexBy(LAMBDA row : row.from, stored)
  PROVE  /\ DOMAIN index = {stored[i].from : i \in DOMAIN stored}
         /\ \A i \in DOMAIN stored : index[stored[i].from] = i
<1> DEFINE Of(k) == {j \in DOMAIN stored : stored[j].from = k}
<1>1. index = [k \in {stored[i].from : i \in DOMAIN stored} |-> Max(Of(k))] BY DEF IndexBy
<1>2. ASSUME NEW i \in DOMAIN stored PROVE index[stored[i].from] = i
  <2>1. Of(stored[i].from) = {i} BY DEF StartsApart
  <2>2. Max({i}) = i BY MaxOfOne DEF Configuration
  <2> HIDE DEF Of
  <2> QED BY <1>1, <2>1, <2>2
<1> QED BY <1>1, <1>2

\* The stored rates that the file does not name are those it has no key of.
LEMMA UnseenAre ==
  ASSUME NEW stored, RateTable(stored), RatesApart(stored), NEW file
  PROVE  Unseen(stored, file)
           = {i \in DOMAIN stored : \A j \in DOMAIN file : PropertyMatchKey(file[j]) # PropertyMatchKey(stored[i])}
<1> DEFINE
  index == IndexBy(PropertyMatchKey, stored)
  seen == {PropertyMatchKey(rate) : rate \in ToSet(file)}
<1>1. /\ DOMAIN index = {PropertyMatchKey(stored[i]) : i \in DOMAIN stored}
      /\ \A i \in DOMAIN stored : index[PropertyMatchKey(stored[i])] = i BY RatesFound
<1>2. seen = {PropertyMatchKey(file[j]) : j \in DOMAIN file} BY DEF ToSet
<1>3. Unseen(stored, file) = {index[k] : k \in DOMAIN index \ seen} BY DEF Unseen
<1> HIDE DEF index, seen
<1> QED BY <1>1, <1>2, <1>3

\* Rates with one key that do not differ in what is written are the same.
LEMMA UnchangedRate ==
  ASSUME NEW a \in RateRows, NEW b \in RateRows, PropertyMatchKey(a) = PropertyMatchKey(b)
  PROVE  RateChanged(a, b) <=> a # b
<1>1. a.kv = b.kv /\ a.min = b.min /\ a.max = b.max BY DEF PropertyMatchKey
<1>2. [a EXCEPT !.pay = b.pay, !.req = b.req, !.all = b.all] = b BY <1>1 DEF RateRows
<1> QED BY <1>2 DEF RateChanged

\* Tables of the same rates, each once, are of one size.
LEMMA ApartCount ==
  ASSUME NEW a, NEW b, IsFiniteSet(DOMAIN a), IsFiniteSet(DOMAIN b), RatesApart(a), RatesApart(b), ToSet(a) = ToSet(b)
  PROVE  Cardinality(DOMAIN a) = Cardinality(DOMAIN b)
<1>1. Image(a, DOMAIN a, ToSet(a)) /\ Image(b, DOMAIN b, ToSet(a)) BY DEF Image, ToSet
<1>2. Cardinality(ToSet(a)) = Cardinality(DOMAIN a) BY <1>1, NamedCount DEF RatesApart
<1>3. Cardinality(ToSet(a)) = Cardinality(DOMAIN b) BY <1>1, NamedCount DEF RatesApart
<1> QED BY <1>2, <1>3

\* Afterwards the rates are those of the file, each once.
LEMMA DiffExact ==
  ASSUME NEW stored, RateTable(stored), RatesApart(stored), NEW file, RateTable(file), RatesApart(file)
  PROVE  LET rates == DiffProperties(stored, file).rates
         IN  /\ RatesApart(rates) /\ ToSet(rates) = ToSet(file)
             /\ Cardinality(DOMAIN rates) = Cardinality(DOMAIN file)
<1> DEFINE
  Key(rate) == PropertyMatchKey(rate)
  index == IndexBy(PropertyMatchKey, stored)
  Found(j) == PropertyMatchKey(file[j]) \in DOMAIN index
  Row(j) == index[PropertyMatchKey(file[j])]
  changing == {j \in DOMAIN file : Found(j) /\ RateChanged(stored[Row(j)], file[j])}
  Updates(i) == {j \in changing : Row(j) = i}
  created == {j \in DOMAIN file : ~Found(j)}
  last == LastId(stored)
  kept == DOMAIN stored \ Unseen(stored, file)
  X == DiffProperties(stored, file).rates
<1>1. X = [i \in kept \cup {last + j : j \in created} |->
  IF i \notin DOMAIN stored THEN file[i - last]
  ELSE IF Updates(i) = {} THEN stored[i] ELSE file[Max(Updates(i))]] BY DEF DiffProperties
<1>2. last \in Nat /\ \A i \in DOMAIN stored : i <= last BY LastIdFacts DEF RateTable
<1>3. /\ DOMAIN index = {Key(stored[i]) : i \in DOMAIN stored}
      /\ \A i \in DOMAIN stored : index[Key(stored[i])] = i BY RatesFound
<1>4. kept = {i \in DOMAIN stored : \E j \in DOMAIN file : Key(file[j]) = Key(stored[i])} BY UnseenAre
<1>5. /\ \A j \in DOMAIN file : j \in Nat \ {0} /\ file[j] \in RateRows
      /\ \A i \in DOMAIN stored : i \in Nat /\ stored[i] \in RateRows BY DEF RateTable
<1>6. /\ \A i, j \in DOMAIN stored : i # j => Key(stored[i]) # Key(stored[j])
      /\ \A i, j \in DOMAIN file : i # j => Key(file[i]) # Key(file[j]) BY DEF RatesApart
<1>7. \A j \in DOMAIN file : j \in created <=> ~\E i \in DOMAIN stored : Key(stored[i]) = Key(file[j]) BY <1>3
<1>0. DOMAIN X = kept \cup {last + j : j \in created} /\ created \subseteq DOMAIN file BY <1>1
<1>10. \A n \in {last + j : j \in created} : n \notin DOMAIN stored => X[n] = file[n - last]
  <2> DEFINE
    N == {last + j : j \in created}
    u(k) == IF Updates(k) = {} THEN stored[k] ELSE file[Max(Updates(k))]
    v(k) == file[k - last]
  <2>1. X = [k \in kept \cup N |-> IF k \notin DOMAIN stored THEN v(k) ELSE u(k)] BY <1>1
  <2> HIDE DEF N, u, v, X, kept
  <2>2. \A n \in N : n \notin DOMAIN stored => X[n] = v(n) BY <2>1
  <2> QED BY <2>2 DEF v, N
<1> HIDE DEF X, kept, created, last
<1>8. ASSUME NEW i \in kept, NEW j \in DOMAIN file, Key(file[j]) = Key(stored[i]) PROVE X[i] = file[j]
  <2>1. i \in DOMAIN stored /\ Row(j) = i /\ Found(j) BY <1>3, <1>4, <1>8
  <2>2. ASSUME NEW k \in changing, Row(k) = i PROVE k = j
   <3>1. k \in DOMAIN file /\ Found(k) OBVIOUS
   <3>2. PICK l \in DOMAIN stored : Key(file[k]) = Key(stored[l]) BY <1>3, <3>1
   <3>3. l = i BY <1>3, <2>2, <3>2
   <3> HIDE DEF changing
   <3> QED BY <1>6, <1>8, <3>1, <3>2, <3>3
  <2>3. RateChanged(stored[i], file[j]) <=> stored[i] # file[j] BY <1>5, <1>8, <2>1, UnchangedRate
  <2>4. j \in changing <=> stored[i] # file[j] BY <2>1, <2>3
  <2>5. X[i] = IF Updates(i) = {} THEN stored[i] ELSE file[Max(Updates(i))] BY <1>1, <2>1
  <2>6. CASE stored[i] = file[j]
   <3>1. Updates(i) = {} BY <2>2, <2>4, <2>6
   <3> QED BY <2>5, <2>6, <3>1
  <2>7. CASE stored[i] # file[j]
   <3>1. j \in Updates(i) BY <2>1, <2>4, <2>7
   <3>2. Updates(i) = {j} BY <2>2, <3>1
   <3>3. Max({j}) = j BY <1>5, MaxOfOne
   <3> HIDE DEF Updates
   <3> QED BY <2>5, <3>2, <3>3
  <2> QED BY <2>6, <2>7
<1> HIDE DEF index, changing, Updates, Key
<1>9. ASSUME NEW j \in created, NEW n, n = last + j PROVE n \in DOMAIN X /\ n \notin kept /\ X[n] = file[j]
  <2>1. j \in DOMAIN file BY <1>0
  <2>2. n - last = j /\ n \notin DOMAIN stored BY <1>2, <1>5, <1>9, <2>1
  <2>3. n \in {last + k : k \in created} BY <1>9
  <2>4. n \in DOMAIN X /\ n \notin kept BY <1>0, <1>4, <2>2, <2>3
  <2>5. X[n] = file[n - last] BY <1>10, <2>2, <2>3
  <2> QED BY <2>2, <2>4, <2>5
<1>11. ASSUME NEW i \in DOMAIN X
  PROVE  \E j \in DOMAIN file : X[i] = file[j] /\ (i \in kept => Key(file[j]) = Key(stored[i]))
                              /\ (i \notin kept => j \in created /\ i = last + j)
  <2>1. CASE i \in kept BY <1>4, <1>8, <2>1
  <2>2. CASE i \notin kept BY <1>9, <1>0, <2>2
  <2> QED BY <2>1, <2>2
<1>12. \A j \in DOMAIN file : \E i \in DOMAIN X : X[i] = file[j]
  <2> SUFFICES ASSUME NEW j \in DOMAIN file PROVE \E i \in DOMAIN X : X[i] = file[j] OBVIOUS
  <2>1. CASE j \in created BY <1>9, <2>1
  <2>2. CASE j \notin created
   <3>1. PICK i \in DOMAIN stored : Key(stored[i]) = Key(file[j]) BY <1>7, <2>2
   <3>2. i \in kept BY <1>4, <3>1
   <3> QED BY <1>8, <1>0, <3>1, <3>2
  <2> QED BY <2>1, <2>2
<1>13. \A i, k \in DOMAIN X : Key(X[i]) = Key(X[k]) => i = k
  <2> SUFFICES ASSUME NEW i \in DOMAIN X, NEW k \in DOMAIN X, Key(X[i]) = Key(X[k]) PROVE i = k OBVIOUS
  <2>1. PICK j \in DOMAIN file : X[i] = file[j] /\ (i \in kept => Key(file[j]) = Key(stored[i]))
                                 /\ (i \notin kept => j \in created /\ i = last + j) BY <1>11
  <2>2. PICK l \in DOMAIN file : X[k] = file[l] /\ (k \in kept => Key(file[l]) = Key(stored[k]))
                                 /\ (k \notin kept => l \in created /\ k = last + l) BY <1>11
  <2>3. j = l BY <1>6, <2>1, <2>2
  <2>4. kept \subseteq DOMAIN stored BY <1>4
  <2>5. CASE i \in kept /\ k \in kept BY <1>6, <2>1, <2>2, <2>3, <2>4, <2>5
  <2>6. CASE i \in kept /\ k \notin kept BY <1>7, <2>1, <2>2, <2>3, <2>4, <2>6
  <2>7. CASE i \notin kept /\ k \in kept BY <1>7, <2>1, <2>2, <2>3, <2>4, <2>7
  <2>8. CASE i \notin kept /\ k \notin kept BY <2>1, <2>2, <2>3, <2>8
  <2> QED BY <2>5, <2>6, <2>7, <2>8
<1>14. RatesApart(X) BY <1>13 DEF RatesApart, Key
<1>15. ToSet(X) = ToSet(file) BY <1>11, <1>12 DEF ToSet
<1>16. Cardinality(DOMAIN X) = Cardinality(DOMAIN file) BY <1>14, <1>15, ApartCount, DiffTyped DEF X, RateTable
<1> QED BY <1>14, <1>15, <1>16 DEF X

\* The rates of a period that has them already.
LEMMA DiffSame ==
  ASSUME NEW stored, RateTable(stored), RatesApart(stored), NEW file, RateTable(file), ToSet(stored) = ToSet(file)
  PROVE  DiffProperties(stored, file) = [ok |-> TRUE, rates |-> stored]
<1> DEFINE
  index == IndexBy(PropertyMatchKey, stored)
  Found(j) == PropertyMatchKey(file[j]) \in DOMAIN index
  Row(j) == index[PropertyMatchKey(file[j])]
  changing == {j \in DOMAIN file : Found(j) /\ RateChanged(stored[Row(j)], file[j])}
  Updates(i) == {j \in changing : Row(j) = i}
  created == {j \in DOMAIN file : ~Found(j)}
  last == LastId(stored)
<1>1. DiffProperties(stored, file) =
  [ok |-> /\ \A j \in created : CreatePropertyOK(file[j])
          /\ \A j \in changing : UpdatePropertyOK(file[j]),
   rates |-> [i \in (DOMAIN stored \ Unseen(stored, file)) \cup {last + j : j \in created} |->
                 IF i \notin DOMAIN stored THEN file[i - last]
                 ELSE IF Updates(i) = {} THEN stored[i] ELSE file[Max(Updates(i))]]] BY DEF DiffProperties
<1>2. /\ DOMAIN index = {PropertyMatchKey(stored[i]) : i \in DOMAIN stored}
      /\ \A i \in DOMAIN stored : index[PropertyMatchKey(stored[i])] = i BY RatesFound
<1>3. /\ \A j \in DOMAIN file : \E i \in DOMAIN stored : stored[i] = file[j]
      /\ \A i \in DOMAIN stored : \E j \in DOMAIN file : stored[i] = file[j] BY DEF ToSet
<1>4. \A j \in DOMAIN file : Found(j) /\ stored[Row(j)] = file[j] BY <1>2, <1>3
<1>5. \A j \in DOMAIN file : ~RateChanged(stored[Row(j)], file[j])
  <2>1. \A j \in DOMAIN file : file[j] \in RateRows BY DEF RateTable
  <2> HIDE DEF Row
  <2> QED BY <1>4, <2>1, UnchangedRate
<1>6. created = {} /\ changing = {} BY <1>4, <1>5
<1>7. Unseen(stored, file) = {} BY <1>3, UnseenAre
<1> HIDE DEF created, changing, last
<1>8. DiffProperties(stored, file) = [ok |-> TRUE, rates |-> [i \in DOMAIN stored |-> stored[i]]] BY <1>1, <1>6, <1>7
<1> QED BY <1>8 DEF RateTable

\* A period filled as another has what that states, and starts with it.
LEMMA FilledMeans ==
  ASSUME NEW row, PeriodTable(row), NEW period, PeriodTable(period)
  PROVE  /\ FilledAs(row, period) <=> /\ row = WithRates(period, row.rates) /\ ToSet(row.rates) = ToSet(period.rates)
                                      /\ Cardinality(DOMAIN row.rates) = Cardinality(DOMAIN period.rates)
         /\ FilledAs(row, period) => row.from = period.from
         /\ FilledAs(row, row)
<1>1. [row EXCEPT !.rates = period.rates] = WithRates(row, period.rates) /\ row = WithRates(row, row.rates)
  BY RatesReplaced
<1>2. period = WithRates(period, period.rates) BY RatesReplaced
<1>3. WithRates(row, period.rates) = period <=> row = WithRates(period, row.rates) BY <1>1, <1>2 DEF WithRates
<1>4. row = WithRates(period, row.rates) => row.from = period.from BY DEF WithRates
<1>5. [row EXCEPT !.rates = row.rates] = row BY <1>1, RatesReplaced
<1> QED BY <1>1, <1>3, <1>4, <1>5 DEF FilledAs

\* A row for the next period of the file.
LEMMA FollowsPut ==
  ASSUME NEW stored, NEW file \in Seq(PeriodRows), NEW n \in DOMAIN file, NEW rows, Follows(rows, stored, file, n - 1),
         NEW R, NEW i, NEW w, Puts(R, rows, i, w), FilledAs(w, file[n]), file[n].from \notin Starts(file, n - 1)
  PROVE  Follows(R, stored, file, n)
<1>1. n \in Nat \ {0} /\ \A k \in 1..n : k \in DOMAIN file /\ PeriodTable(file[k]) BY PeriodsOfFile DEF Configuration
<1>2. PeriodTable(w) /\ i \in DOMAIN R /\ w.from = file[n].from BY <1>1, FilledMeans DEF Puts, Configuration
<1>3. Starts(file, n) = Starts(file, n - 1) \cup {w.from} BY <1>1, <1>2 DEF Starts
<1>4. InOrder(R)
  <2>1. \A j, k \in DOMAIN R : j # k => R[j].from # R[k].from /\ ~RowsOverlap(R[j], R[k])
   <3> SUFFICES ASSUME NEW j \in DOMAIN R, NEW k \in DOMAIN R, j # k
     PROVE  R[j].from # R[k].from /\ ~RowsOverlap(R[j], R[k]) OBVIOUS
   <3>1. CASE j # i /\ k # i
    <4>1. R[j] = rows[j] /\ R[k] = rows[k] /\ j \in DOMAIN rows /\ k \in DOMAIN rows BY <3>1 DEF Puts
    <4> QED BY <4>1 DEF Follows, InOrder, StartsApart
   <3>2. CASE j = i
    <4>1. R[j] = w /\ R[k] = rows[k] /\ k \in DOMAIN rows \ {i} BY <3>2 DEF Puts
    <4> QED BY <4>1 DEF Puts, RowsOverlap
   <3>3. CASE k = i
    <4>1. R[k] = w /\ R[j] = rows[j] /\ j \in DOMAIN rows \ {i} BY <3>3 DEF Puts
    <4> QED BY <4>1 DEF Puts
   <3> QED BY <3>1, <3>2, <3>3
  <2>2. \A j \in DOMAIN R : RatesApart(R[j].rates) BY DEF Puts, Follows, InOrder
  <2> QED BY <2>1, <2>2 DEF InOrder, StartsApart
<1>5. ASSUME NEW j \in DOMAIN stored
  PROVE  R[j].from = stored[j].from /\ (stored[j].from \notin Starts(file, n) => R[j] = stored[j])
  <2>1. /\ rows[j].from = stored[j].from /\ j \in DOMAIN rows
        /\ stored[j].from \notin Starts(file, n - 1) => rows[j] = stored[j] BY DEF Follows
  <2>2. CASE j = i BY <1>3, <2>1, <2>2 DEF Puts
  <2>3. CASE j # i BY <1>3, <2>1, <2>3 DEF Puts
  <2> QED BY <2>2, <2>3
<1>6. \A j \in DOMAIN R \ DOMAIN stored : R[j].from \in Starts(file, n) BY <1>3 DEF Puts, Follows
<1>7. ASSUME NEW k \in 1..n PROVE \E j \in DOMAIN R : FilledAs(R[j], file[k])
  <2>1. CASE k = n BY <1>2, <2>1 DEF Puts
  <2>2. CASE k # n
   <3>1. k \in 1..(n - 1) /\ PeriodTable(file[k]) BY <1>1, <2>2
   <3>2. PICK j \in DOMAIN rows : FilledAs(rows[j], file[k]) BY <3>1 DEF Follows
   <3>3. PeriodTable(rows[j]) BY DEF Follows, Configuration
   <3>4. rows[j].from \in Starts(file, n - 1) BY <3>1, <3>2, <3>3, FilledMeans DEF Starts
   <3>5. j # i BY <1>2, <3>4 DEF Puts
   <3> QED BY <3>2, <3>5 DEF Puts
  <2> QED BY <2>1, <2>2
<1>8. Configuration(R) /\ DOMAIN stored \subseteq DOMAIN R BY DEF Puts, Follows
<1> QED BY <1>4, <1>5, <1>6, <1>7, <1>8 DEF Follows

\* The next period of the file is stored as the file has it.
LEMMA FollowsNext ==
  ASSUME NEW stored, NEW file, Orderly(stored, file), NEW n \in DOMAIN file,
         NEW done, done.ok, Follows(done.rows, stored, file, n - 1),
         NEW next, next = ApplyPeriod(stored, done, file[n]), next.ok PROVE Follows(next.rows, stored, file, n)
<1> DEFINE
  rows == done.rows
  p == file[n]
  R == next.rows
  index == IndexBy(LAMBDA row : row.from, stored)
<1>1. /\ DOMAIN index = {stored[i].from : i \in DOMAIN stored}
      /\ \A i \in DOMAIN stored : index[stored[i].from] = i BY StartsFound DEF Orderly, InOrder
<1>2. next = IF p.from \in DOMAIN index THEN UpdatePeriodIfChanged(rows, index[p.from], p) ELSE CreatePeriod(rows, p)
  BY DEF ApplyPeriod
<1> HIDE DEF index
<1>3. n \in Nat \ {0} /\ n \notin 1..(n - 1) /\ \A k \in 1..(n - 1) : k \in DOMAIN file BY PeriodsOfFile DEF Orderly
<1>4. PeriodTable(p) /\ RateTable(p.rates) /\ RatesApart(p.rates)
  BY PeriodsOfFile DEF Orderly, Configuration, PeriodTable
<1>5. p.from \notin Starts(file, n - 1) BY <1>3 DEF Starts, Orderly, StartsApart
<1>6. Configuration(rows) /\ InOrder(rows) /\ Configuration(R) BY <1>4, ApplyTyped DEF Follows
<1>7. ASSUME NEW w, NEW i, Puts(R, rows, i, w), FilledAs(w, p) PROVE Follows(R, stored, file, n)
  BY <1>5, <1>7, FollowsPut DEF Orderly
<1>8. CASE p.from \in DOMAIN index
  <2>1. PICK i \in DOMAIN stored : stored[i].from = p.from /\ index[p.from] = i BY <1>1, <1>8
  <2> DEFINE
    T == DiffProperties(rows[i].rates, p.rates).rates
    written == [p EXCEPT !.rates = rows[i].rates]
    w == [written EXCEPT !.rates = T]
  <2>2. i \in DOMAIN rows /\ rows[i].from = p.from /\ PeriodTable(rows[i]) /\ RatesApart(rows[i].rates)
    BY <1>6, <2>1 DEF Follows, Configuration, InOrder
  <2>3. R = [rows EXCEPT ![i] = w] /\ (written # rows[i] => ValidatePeriodNoOverlap(rows, written, {i}))
   <3>1. next = UpdatePeriodIfChanged(rows, i, p) BY <1>2, <1>8, <2>1
   <3>2. R = [rows EXCEPT ![i] = w] BY <3>1 DEF UpdatePeriodIfChanged
   <3>3. UpdatePeriodIfChanged(rows, i, p).ok => (written # rows[i] => ValidatePeriodNoOverlap(rows, written, {i}))
     BY DEF UpdatePeriodIfChanged
   <3> QED BY <3>1, <3>2, <3>3
  <2>4. RatesApart(T) /\ ToSet(T) = ToSet(p.rates) /\ Cardinality(DOMAIN T) = Cardinality(DOMAIN p.rates) /\ RateTable(T)
    BY <2>2, <1>4, DiffExact, DiffTyped DEF PeriodTable
  <2>5. w = WithRates(p, T) /\ written = WithRates(p, rows[i].rates)
   <3>1. \A S : [[p EXCEPT !.rates = S] EXCEPT !.rates = T] = WithRates(p, T) BY <1>4, RatesReplaced
   <3>2. \A S : [p EXCEPT !.rates = S] = WithRates(p, S) BY <1>4, RatesReplaced
   <3> QED BY <3>1, <3>2
  <2> HIDE DEF w, T, written, rows, R, p
  <2>6. \A k \in DOMAIN rows \ {i} : rows[k].from # w.from /\ ~RowsOverlap(rows[k], w)
   <3> SUFFICES ASSUME NEW k \in DOMAIN rows \ {i} PROVE rows[k].from # w.from /\ ~RowsOverlap(rows[k], w) OBVIOUS
   <3>1. rows[k].from # rows[i].from /\ ~RowsOverlap(rows[k], rows[i]) BY <1>6, <2>2 DEF InOrder, StartsApart
   <3>2. w.from = p.from /\ written.from = w.from /\ written.to = w.to BY <2>5 DEF WithRates
   <3>3. ~RowsOverlap(rows[k], written) BY <2>3, <3>1 DEF ValidatePeriodNoOverlap
   <3> QED BY <2>2, <3>1, <3>2, <3>3 DEF RowsOverlap
  <2>7. w.rates = T /\ w.from = p.from BY <2>5 DEF WithRates
  <2>8. Puts(R, rows, i, w) BY <1>6, <2>2, <2>3, <2>4, <2>6, <2>7 DEF Puts
  <2>9. FilledAs(w, p) BY <1>6, <2>8, <1>4, <2>4, <2>5, <2>7, FilledMeans DEF Puts, Configuration
  <2> QED BY <1>7, <2>8, <2>9 DEF R
<1>9. CASE p.from \notin DOMAIN index
  <2> DEFINE
    T == DiffProperties(<<>>, p.rates).rates
    i == LastId(rows) + 1
    w == [p EXCEPT !.rates = T]
  <2>1. /\ R = [k \in DOMAIN rows \cup {i} |-> IF k = i THEN w ELSE rows[k]]
        /\ ValidatePeriodNoOverlap(rows, p, {})
   <3>1. next = CreatePeriod(rows, p) BY <1>2, <1>9
   <3>2. R = [k \in DOMAIN rows \cup {i} |-> IF k = i THEN w ELSE rows[k]] BY <3>1 DEF CreatePeriod
   <3>3. CreatePeriod(rows, p).ok => ValidatePeriodNoOverlap(rows, p, {}) BY DEF CreatePeriod
   <3> QED BY <3>1, <3>2, <3>3
  <2>2. RatesApart(T) /\ ToSet(T) = ToSet(p.rates) /\ Cardinality(DOMAIN T) = Cardinality(DOMAIN p.rates) /\ RateTable(T)
    BY <1>4, NoRates, DiffExact, DiffTyped
  <2>3. w = WithRates(p, T) /\ p = WithRates(p, p.rates) BY <1>4, RatesReplaced
  <2>4. i \notin DOMAIN rows BY <1>6, LastIdFacts DEF Configuration
  <2> HIDE DEF w, T, rows, R, p, i
  <2>5. w.rates = T /\ w.from = p.from /\ w.to = p.to BY <2>3 DEF WithRates
  <2>6. \A k \in DOMAIN rows : rows[k].from # w.from /\ ~RowsOverlap(rows[k], w)
   <3> SUFFICES ASSUME NEW k \in DOMAIN rows PROVE rows[k].from # w.from /\ ~RowsOverlap(rows[k], w) OBVIOUS
   <3>1. ~RowsOverlap(rows[k], w) BY <2>1, <2>5 DEF ValidatePeriodNoOverlap, RowsOverlap
   <3>2. rows[k].from # p.from BY <1>1, <1>5, <1>9 DEF Follows, rows
   <3> QED BY <2>5, <3>1, <3>2
  <2>7. Puts(R, rows, i, w) BY <1>6, <2>1, <2>2, <2>4, <2>5, <2>6 DEF Puts
  <2>8. FilledAs(w, p) BY <1>6, <2>7, <1>4, <2>2, <2>3, <2>5, FilledMeans DEF Puts, Configuration
  <2> QED BY <1>7, <2>7, <2>8 DEF R
<1> QED BY <1>8, <1>9

\* The whole file: an import that is not refused.
LEMMA ImportFollows ==
  ASSUME NEW stored, NEW file, Orderly(stored, file), ImportFile(stored, file).ok
  PROVE  Follows(ImportFile(stored, file).rows, stored, file, Len(file))
<1> DEFINE
  L == Len(file)
  Bad(done) == {n \in 0..L : done[n].ok /\ ~Follows(done[n].rows, stored, file, n)}
<1>1. L \in Nat /\ DOMAIN file = 1..L BY PeriodsOfFile DEF Orderly
<1>2. PICK done : /\ ImportFile(stored, file) = done[L] /\ done[0] = [ok |-> TRUE, rows |-> stored]
                  /\ \A n \in 1..L : done[n] = ApplyPeriod(stored, done[n - 1], file[n]) BY ImportSteps DEF Orderly
<1> HIDE DEF L
<1>3. Follows(stored, stored, file, 0) BY DEF Follows, Orderly
<1>4. ASSUME Bad(done) # {} PROVE FALSE
  <2>1. PICK n \in Bad(done) : \A m \in Bad(done) : n <= m
   <3>1. Bad(done) \subseteq Nat BY <1>1
   <3> HIDE DEF Bad
   <3> QED BY <1>4, <3>1, Smallest
  <2>2. n # 0 BY <1>2, <1>3, <2>1
  <2>3. n - 1 \in 0..L /\ n \in 1..L /\ n - 1 \notin Bad(done) BY <1>1, <2>1, <2>2
  <2>4. done[n] = ApplyPeriod(stored, done[n - 1], file[n]) /\ done[n].ok BY <1>2, <2>1, <2>3
  <2>5. done[n - 1].ok BY <2>4 DEF ApplyPeriod
  <2>6. Follows(done[n - 1].rows, stored, file, n - 1) BY <2>3, <2>5
  <2>7. n \in DOMAIN file BY <1>1, <2>3
  <2>8. Follows(done[n].rows, stored, file, n) BY <2>4, <2>5, <2>6, <2>7, FollowsNext
  <2> QED BY <2>1, <2>8
<1>5. L \in 0..L /\ done[L].ok BY <1>1, <1>2
<1>6. Follows(done[L].rows, stored, file, L) BY <1>4, <1>5
<1> QED BY <1>2, <1>6 DEF L

\* To import a file again that is stored as it says.
LEMMA ImportAgain ==
  ASSUME NEW rows, NEW file, Orderly(rows, file),
         \A k \in DOMAIN file : \E i \in DOMAIN rows : FilledAs(rows[i], file[k])
  PROVE  ImportFile(rows, file) = [ok |-> TRUE, rows |-> rows]
<1> DEFINE
  L == Len(file)
  Same == [ok |-> TRUE, rows |-> rows]
  Bad(done) == {n \in 0..L : done[n] # Same}
  index == IndexBy(LAMBDA row : row.from, rows)
<1>1. L \in Nat /\ DOMAIN file = 1..L /\ \A n \in 1..L : PeriodTable(file[n])
  BY PeriodsOfFile DEF Orderly, Configuration
<1>2. PICK done : /\ ImportFile(rows, file) = done[L] /\ done[0] = Same
                  /\ \A n \in 1..L : done[n] = ApplyPeriod(rows, done[n - 1], file[n]) BY ImportSteps DEF Orderly
<1>3. /\ DOMAIN index = {rows[i].from : i \in DOMAIN rows}
      /\ \A i \in DOMAIN rows : index[rows[i].from] = i BY StartsFound DEF Orderly, InOrder
<1>4. ASSUME NEW n \in 1..L PROVE ApplyPeriod(rows, Same, file[n]) = Same
  <2> DEFINE p == file[n]
  <2>1. PICK i \in DOMAIN rows : FilledAs(rows[i], p) BY <1>1
  <2>2. PeriodTable(rows[i]) /\ PeriodTable(p) /\ RatesApart(rows[i].rates)
    BY <1>1 DEF Orderly, Configuration, InOrder
  <2>3. rows[i] = WithRates(p, rows[i].rates) /\ ToSet(rows[i].rates) = ToSet(p.rates) /\ rows[i].from = p.from
    BY <2>1, <2>2, FilledMeans
  <2>4. Same.ok /\ Same.rows = rows /\ p.from \in DOMAIN index /\ index[p.from] = i BY <1>3, <2>3
  <2>5. ApplyPeriod(rows, Same, p) = UpdatePeriodIfChanged(rows, i, p)
   <3> HIDE DEF Same, p, index
   <3>1. ApplyPeriod(rows, Same, p) = UpdatePeriodIfChanged(Same.rows, index[p.from], p)
     BY <2>4 DEF ApplyPeriod, index
   <3> QED BY <2>4, <3>1
  <2>6. DiffProperties(rows[i].rates, p.rates) = [ok |-> TRUE, rates |-> rows[i].rates]
    BY <2>2, <2>3, DiffSame DEF PeriodTable
  <2>7. [p EXCEPT !.rates = rows[i].rates] = rows[i] /\ [rows[i] EXCEPT !.rates = rows[i].rates] = rows[i]
   <3>1. \A S : [p EXCEPT !.rates = S] = WithRates(p, S) BY <2>2, RatesReplaced
   <3>2. [rows[i] EXCEPT !.rates = rows[i].rates] = rows[i] BY <2>2, FilledMeans DEF FilledAs
   <3> QED BY <2>3, <3>1, <3>2
  <2>8. [rows EXCEPT ![i] = rows[i]] = rows BY DEF Orderly, Configuration
  <2> DEFINE
    written == [p EXCEPT !.rates = rows[i].rates]
    diff == DiffProperties(rows[i].rates, p.rates)
  <2>9. UpdatePeriodIfChanged(rows, i, p)
    = [ok |-> (written # rows[i] => ValidatePeriodNoOverlap(rows, written, {i})) /\ diff.ok,
       rows |-> [rows EXCEPT ![i] = [written EXCEPT !.rates = diff.rates]]] BY DEF UpdatePeriodIfChanged
  <2>10. written = rows[i] /\ diff.ok = TRUE /\ diff.rates = rows[i].rates BY <2>6, <2>7
  <2> HIDE DEF written, diff, p
  <2>11. UpdatePeriodIfChanged(rows, i, p) = [ok |-> TRUE, rows |-> rows] BY <2>7, <2>8, <2>9, <2>10
  <2> QED BY <2>5, <2>11 DEF p
<1> HIDE DEF L, Same, index
<1>5. ASSUME Bad(done) # {} PROVE FALSE
  <2>1. PICK n \in Bad(done) : \A m \in Bad(done) : n <= m
   <3>1. Bad(done) \subseteq Nat BY <1>1
   <3> HIDE DEF Bad
   <3> QED BY <1>5, <3>1, Smallest
  <2>2. n # 0 BY <1>2, <2>1
  <2>3. n - 1 \in 0..L /\ n \in 1..L /\ n - 1 \notin Bad(done) BY <1>1, <2>1, <2>2
  <2>4. done[n] = ApplyPeriod(rows, done[n - 1], file[n]) /\ done[n - 1] = Same BY <1>2, <2>3
  <2>5. done[n] = Same BY <1>4, <2>3, <2>4
  <2> QED BY <2>1, <2>5
<1>6. L \in 0..L BY <1>1
<1> QED BY <1>2, <1>5, <1>6 DEF Same

\* What the import of a file leaves.
LEMMA ImportLeaves ==
  ASSUME NEW stored, NEW s, Orderly(stored, s), ImportFile(stored, s).ok
  PROVE  Left(s, stored, ImportFile(stored, s).rows)
<1> DEFINE
  rows == ImportFile(stored, s).rows
  file == ToSet(s)
  others == {row \in ToSet(stored) : \A period \in file : period.from # row.from}
  L == Len(s)
<1>1. DOMAIN s = 1..L /\ file = {s[k] : k \in 1..L} /\ Starts(s, L) = {period.from : period \in file}
  BY PeriodsOfFile DEF Orderly, ToSet, Starts
<1>2. Follows(rows, stored, s, L) BY ImportFollows
<1>3. \A k \in DOMAIN s : PeriodTable(s[k]) BY PeriodsOfFile DEF Orderly, Configuration
<1> HIDE DEF rows, file, L
<1>4. Configuration(rows) /\ InOrder(rows) BY <1>2 DEF Follows
<1>5. \A k \in DOMAIN s : \E i \in DOMAIN rows : FilledAs(rows[i], s[k]) BY <1>1, <1>2 DEF Follows
<1>6. \A period \in file : \E i \in DOMAIN rows : FilledAs(rows[i], period) /\ rows[i].from = period.from
  <2> SUFFICES ASSUME NEW period \in file PROVE \E i \in DOMAIN rows : FilledAs(rows[i], period) /\ rows[i].from = period.from
    OBVIOUS
  <2>1. PICK k \in DOMAIN s : period = s[k] BY <1>1
  <2>2. PICK i \in DOMAIN rows : FilledAs(rows[i], s[k]) BY <1>5
  <2>3. PeriodTable(rows[i]) /\ PeriodTable(s[k]) BY <1>3, <1>4 DEF Configuration
  <2> QED BY <2>1, <2>2, <2>3, FilledMeans
<1>7. \A row \in others : \E i \in DOMAIN stored : row = stored[i] /\ rows[i] = row /\ i \in DOMAIN rows
  BY <1>1, <1>2 DEF Follows, ToSet
<1>8. others \subseteq ToSet(rows) BY <1>7 DEF ToSet
<1>9. Cardinality(DOMAIN rows) = Cardinality(file \cup others)
  <2> DEFINE
    T == file \cup others
    e == [i \in DOMAIN rows |-> rows[i].from]
    f == [x \in T |-> x.from]
  <2>1. IsFiniteSet(DOMAIN rows) /\ IsFiniteSet(T)
   <3>1. Image(s, DOMAIN s, file) /\ Image(stored, DOMAIN stored, ToSet(stored)) BY DEF Image, ToSet, file
   <3>2. IsFiniteSet(DOMAIN s) /\ IsFiniteSet(DOMAIN stored) BY PeriodsOfFile DEF Orderly, Configuration
   <3>3. IsFiniteSet(file) /\ IsFiniteSet(ToSet(stored)) BY <3>1, <3>2, FiniteImage
   <3>4. IsFiniteSet(others) BY <3>3, FS_Subset
   <3> HIDE DEF others
   <3> QED BY <1>4, <3>3, <3>4, FS_Union DEF Configuration
  <2>2. \A i, j \in DOMAIN rows : e[i] = e[j] => i = j BY <1>4 DEF InOrder, StartsApart
  <2>3. \A x, y \in T : f[x] = f[y] => x = y
   <3> SUFFICES ASSUME NEW x \in T, NEW y \in T, x.from = y.from PROVE x = y OBVIOUS
   <3>1. \A u, v \in file : u.from = v.from => u = v BY <1>1 DEF Orderly, StartsApart
   <3>2. \A u, v \in ToSet(stored) : u.from = v.from => u = v BY DEF Orderly, InOrder, StartsApart, ToSet
   <3> QED BY <3>1, <3>2
  <2>4. {e[i] : i \in DOMAIN rows} = {f[x] : x \in T}
   <3>1. ASSUME NEW i \in DOMAIN rows PROVE \E x \in T : rows[i].from = x.from
    <4>1. CASE rows[i].from \in Starts(s, L) BY <1>1, <4>1
    <4>2. CASE rows[i].from \notin Starts(s, L) BY <1>2, <1>1 DEF Follows, ToSet
    <4> QED BY <4>1, <4>2
   <3>2. ASSUME NEW x \in T PROVE \E i \in DOMAIN rows : rows[i].from = x.from
    <4>1. CASE x \in file BY <1>6, <4>1
    <4>2. CASE x \in others BY <1>7, <4>2
    <4> QED BY <4>1, <4>2
   <3> HIDE DEF T
   <3> QED BY <3>1, <3>2
  <2> HIDE DEF T, e, f
  <2>5. Image(e, DOMAIN rows, {e[i] : i \in DOMAIN rows}) /\ Image(f, T, {e[i] : i \in DOMAIN rows}) BY <2>4 DEF Image
  <2> DEFINE K == {e[i] : i \in DOMAIN rows}
  <2> HIDE DEF K
  <2>6. Cardinality(K) = Cardinality(DOMAIN rows) BY <2>1, <2>2, <2>5, NamedCount DEF K
  <2>7. Cardinality(K) = Cardinality(T) BY <2>1, <2>3, <2>5, NamedCount DEF K
  <2> QED BY <2>6, <2>7 DEF T
<1>10. ChangesNothing(s, rows)
  <2>1. Orderly(rows, s) BY <1>4 DEF Orderly
  <2>2. ImportFile(rows, s) = [ok |-> TRUE, rows |-> rows] BY <1>5, <2>1, ImportAgain
  <2>3. \A i \in DOMAIN rows : FilledAs(rows[i], rows[i]) BY <1>4, FilledMeans DEF Configuration
  <2> QED BY <2>2, <2>3 DEF ChangesNothing
<1>11. \A period \in file : \E i \in DOMAIN rows : FilledAs(rows[i], period) BY <1>6
<1> QED BY <1>4, <1>8, <1>9, <1>10, <1>11 DEF Left, rows, file
----------------------------------------
(* What is stored of a file. *)

\* A voucher's row stands where its first line does, and has the payments of all its lines.
LEMMA RowsAre ==
  ASSUME NEW lines, Lines(lines)
  PROVE  LET rows == Rows(lines)
         IN  /\ DOMAIN rows \subseteq DOMAIN lines
             /\ \A i \in DOMAIN lines : FirstOf(lines, i) \in DOMAIN rows
                                        /\ lines[FirstOf(lines, i)].voucher = lines[i].voucher
             /\ \A i \in DOMAIN rows : /\ rows[i].number = lines[i].voucher /\ FirstOf(lines, i) = i
                                       /\ rows[i].payments
                                            = UNION {ConvertChild(lines, j) : j \in LinesOf(lines, lines[i].voucher)}
<1> DEFINE rows == Rows(lines)
<1>1. ASSUME NEW i \in DOMAIN lines
  PROVE  /\ FirstOf(lines, i) \in LinesOf(lines, lines[i].voucher)
         /\ \A j \in LinesOf(lines, lines[i].voucher) : FirstOf(lines, i) <= j
  <2> DEFINE T == LinesOf(lines, lines[i].voucher)
  <2>1. i \in T /\ T \subseteq Nat BY DEF LinesOf, Lines
  <2> HIDE DEF T
  <2>2. Min(T) \in T /\ \A j \in T : Min(T) <= j BY <2>1, MinFact
  <2> QED BY <2>2 DEF T, FirstOf
<1>2. /\ DOMAIN rows = {i \in DOMAIN lines : \A j \in LinesOf(lines, lines[i].voucher) : i <= j}
      /\ \A i \in DOMAIN rows : /\ rows[i].number = lines[i].voucher
                                /\ rows[i].payments
                                     = UNION {ConvertChild(lines, j) : j \in LinesOf(lines, lines[i].voucher)}
  BY DEF Rows, LinesOf
<1> HIDE DEF rows
<1>3. ASSUME NEW i \in DOMAIN rows PROVE FirstOf(lines, i) = i
  <2>1. i \in LinesOf(lines, lines[i].voucher) /\ i \in Nat BY <1>2 DEF LinesOf, Lines
  <2>2. FirstOf(lines, i) \in Nat /\ FirstOf(lines, i) \in LinesOf(lines, lines[i].voucher)
    BY <1>1, <1>2 DEF LinesOf, Lines
  <2>3. FirstOf(lines, i) <= i /\ i <= FirstOf(lines, i) BY <1>1, <1>2, <2>1, <2>2
  <2> QED BY <2>1, <2>2, <2>3
<1>4. ASSUME NEW i \in DOMAIN lines
  PROVE  FirstOf(lines, i) \in DOMAIN rows /\ lines[FirstOf(lines, i)].voucher = lines[i].voucher
  BY <1>1, <1>2 DEF LinesOf
<1> QED BY <1>2, <1>3, <1>4 DEF rows

\* The rows of a bill, and the lines their payments stand in.
LEMMA RowsPayments ==
  ASSUME NEW lines, Lines(lines)
  PROVE  /\ Apart(Rows(lines))
         /\ \A i \in DOMAIN Rows(lines) : \A p \in Rows(lines)[i].payments :
                p.line \in DOMAIN lines /\ FirstOf(lines, p.line) = i /\ p.type \in {"regular", "correction"}
<1> DEFINE rows == Rows(lines)
<1>1. ASSUME NEW i \in DOMAIN rows
  PROVE  /\ Payments(rows[i].payments)
         /\ \A p \in rows[i].payments : p.line \in DOMAIN lines /\ FirstOf(lines, p.line) = i
                                        /\ p.type \in {"regular", "correction"} /\ p.month \in Months \cup {NoRow}
  <2> DEFINE I == LinesOf(lines, lines[i].voucher)
  <2>1. I \in SUBSET DOMAIN lines /\ rows[i].payments = UNION {ConvertChild(lines, j) : j \in I}
    BY RowsAre DEF LinesOf
  <2>2. Payments(rows[i].payments)
   <3> HIDE DEF I
   <3>1. Payments(UNION {ConvertChild(lines, j) : j \in I}) BY <2>1, LinesPayments
   <3> QED BY <2>1, <3>1
  <2>3. \A j \in I : FirstOf(lines, j) = FirstOf(lines, i) BY DEF LinesOf, FirstOf
  <2>4. FirstOf(lines, i) = i BY RowsAre
  <2>5. \A j \in I : \A p \in ConvertChild(lines, j) : p.line = j /\ p.type \in {"regular", "correction"}
    BY <2>1, LinePayments DEF TypeOf
  <2>6. \A j \in I : \A p \in ConvertChild(lines, j) : p.month \in Months \cup {NoRow}
    BY <2>1, LinePayments DEF Lines, SheetLines
  <2> HIDE DEF I, rows
  <2> QED BY <2>1, <2>2, <2>3, <2>4, <2>5, <2>6
<1>2. DOMAIN rows \subseteq DOMAIN lines BY RowsAre
<1>3. DOMAIN rows \subseteq Nat /\ IsFiniteSet(DOMAIN rows) BY <1>2, FS_Subset DEF Lines
<1> HIDE DEF rows
<1>4. Apart(rows) BY <1>1, <1>3 DEF Apart, BillsRows
<1> QED BY <1>1, <1>4 DEF rows

\* A line for each row, and the other way round.
LEMMA RowsCount ==
  ASSUME NEW lines, Lines(lines)
  PROVE  Cardinality({line.voucher : line \in ToSet(lines)}) = Cardinality(DOMAIN Rows(lines))
<1> DEFINE
  rows == Rows(lines)
  V == {line.voucher : line \in ToSet(lines)}
  e == [i \in DOMAIN rows |-> lines[i].voucher]
<1>1. IsFiniteSet(DOMAIN rows) BY RowsPayments DEF Apart, BillsRows
<1>2. V = {lines[i].voucher : i \in DOMAIN lines} BY DEF ToSet
<1>3. /\ DOMAIN rows \subseteq DOMAIN lines
      /\ \A i \in DOMAIN lines : FirstOf(lines, i) \in DOMAIN rows
                                 /\ lines[FirstOf(lines, i)].voucher = lines[i].voucher
      /\ \A i \in DOMAIN rows : FirstOf(lines, i) = i BY RowsAre
<1> HIDE DEF rows, V
<1>4. e \in [DOMAIN rows -> V] BY <1>2, <1>3
<1>5. \A n \in V : \E i \in DOMAIN rows : e[i] = n
  <2> SUFFICES ASSUME NEW n \in V PROVE \E i \in DOMAIN rows : e[i] = n OBVIOUS
  <2>1. PICK i \in DOMAIN lines : n = lines[i].voucher BY <1>2
  <2>2. FirstOf(lines, i) \in DOMAIN rows /\ lines[FirstOf(lines, i)].voucher = n BY <1>3, <2>1
  <2> QED BY <2>2
<1>6. \A i, j \in DOMAIN rows : e[i] = e[j] => i = j
  <2> SUFFICES ASSUME NEW i \in DOMAIN rows, NEW j \in DOMAIN rows, e[i] = e[j] PROVE i = j OBVIOUS
  <2>1. FirstOf(lines, i) = FirstOf(lines, j) BY DEF FirstOf
  <2> QED BY <1>3, <2>1
<1> HIDE DEF e
<1>7. e \in Bijection(DOMAIN rows, V) BY <1>4, <1>5, <1>6 DEF Bijection, Injection, IsInjective, Surjection
<1>8. Cardinality(V) = Cardinality(DOMAIN rows) BY <1>1, <1>7, FS_Bijection DEF ExistsBijection
<1> QED BY <1>8 DEF rows, V

\* The payments of all rows come to the sums of all lines.
LEMMA RowsTotal ==
  ASSUME NEW lines, Lines(lines)
  PROVE  SumFunction([i \in DOMAIN Rows(lines) |-> Total(Rows(lines)[i].payments)])
           = SumFunction([i \in DOMAIN lines |-> lines[i].sum])
<1> DEFINE
  rows == Rows(lines)
  D == DOMAIN lines
  sum == [i \in D |-> lines[i].sum]
  of == [i \in D |-> FirstOf(lines, i)]
  F == [i \in DOMAIN rows |-> Total(rows[i].payments)]
<1>1. Summands(sum, D) /\ SumFunction(sum) = SumFunctionOnSet(sum, D) BY DEF Lines, SheetLines, SumFunction, Summands
<1>2. SumFunction(F) = SumFunctionOnSet(F, DOMAIN rows) BY DEF SumFunction
<1>3. IsFiniteSet(DOMAIN rows) /\ \A i \in D : of[i] \in DOMAIN rows BY RowsPayments, RowsAre DEF Apart, BillsRows
<1>4. ASSUME NEW i \in DOMAIN rows PROVE F[i] = SumFunctionOnSet(sum, {j \in D : of[j] = i})
  <2> DEFINE I == LinesOf(lines, lines[i].voucher)
  <2>1. I \in SUBSET D /\ rows[i].payments = UNION {ConvertChild(lines, j) : j \in I} BY RowsAre DEF LinesOf
  <2>2. Total(rows[i].payments) = SumFunctionOnSet(sum, I) BY <2>1, LinesPayments
  <2>3. \A j \in D : of[j] = i <=> j \in I BY RowsAre DEF LinesOf, FirstOf
  <2>4. {j \in D : of[j] = i} = I BY <2>1, <2>3
  <2> QED BY <2>2, <2>4
<1> HIDE DEF rows, D, sum, of, F
<1>5. Fibred(sum, D, of, DOMAIN rows, F) BY <1>3, <1>4 DEF Fibred
<1>6. SumFunctionOnSet(F, DOMAIN rows) = SumFunctionOnSet(sum, D) BY <1>1, <1>5, SumFibres
<1> QED BY <1>1, <1>2, <1>6 DEF rows, D, sum, F

\* Those of a voucher, a month and a type come to the sums of the lines that state them.
LEMMA PaidIsStated ==
  ASSUME NEW book, Lines(TableLines(book)), NEW n, n \in {TableLines(book)[i].voucher : i \in DOMAIN TableLines(book)},
         NEW m, NEW type \in {"regular", "correction"}
  PROVE  PaidFor(Convert(book), n, m, type) = StatedFor(book, n, m, type)
<1> DEFINE
  lines == TableLines(book)
  rows == Rows(lines)
  bill == Convert(book)
  I == {i \in DOMAIN lines : lines[i].voucher = n /\ lines[i].month = m /\ (lines[i].typ = "K" <=> type = "correction")}
  S == UNION {ConvertChild(lines, i) : i \in I}
  own == UNION {row.payments : row \in {row \in ToSet(bill.rows) : row.number = n}}
  sum == [i \in DOMAIN lines |-> lines[i].sum]
<1>1. bill.rows = rows BY DEF Convert
<1>2. own = UNION {ConvertChild(lines, j) : j \in LinesOf(lines, n)}
  <2>1. /\ DOMAIN rows \subseteq DOMAIN lines
        /\ \A i \in DOMAIN lines : FirstOf(lines, i) \in DOMAIN rows
                                   /\ lines[FirstOf(lines, i)].voucher = lines[i].voucher
        /\ \A i \in DOMAIN rows : /\ rows[i].number = lines[i].voucher
                                  /\ rows[i].payments
                                       = UNION {ConvertChild(lines, j) : j \in LinesOf(lines, lines[i].voucher)}
    BY RowsAre
  <2>2. PICK k \in DOMAIN lines : n = lines[k].voucher OBVIOUS
  <2> HIDE DEF lines, bill
  <2>3. own = UNION {rows[i].payments : i \in {i \in DOMAIN rows : rows[i].number = n}} BY <1>1 DEF ToSet
  <2> HIDE DEF rows, own
  <2>4. \A i \in DOMAIN rows : rows[i].number = n
    => rows[i].payments = UNION {ConvertChild(lines, j) : j \in LinesOf(lines, n)} BY <2>1
  <2>5. FirstOf(lines, k) \in DOMAIN rows /\ rows[FirstOf(lines, k)].number = n BY <2>1, <2>2
  <2> QED BY <2>3, <2>4, <2>5
<1>3. \A i \in DOMAIN lines : \A p \in ConvertChild(lines, i) : p.month = lines[i].month /\ p.type = TypeOf(lines[i])
  BY LinePayments
<1>4. {p \in own : p.month = m /\ p.type = type} = S
  <2>1. \A i \in DOMAIN lines : i \in I <=> i \in LinesOf(lines, n) /\ lines[i].month = m /\ TypeOf(lines[i]) = type
    BY DEF LinesOf, TypeOf
  <2>2. I \subseteq DOMAIN lines /\ LinesOf(lines, n) \subseteq DOMAIN lines BY DEF LinesOf
  <2> HIDE DEF I, lines, own
  <2> QED BY <1>2, <1>3, <2>1, <2>2
<1>5. I \in SUBSET DOMAIN lines OBVIOUS
<1>6. PaidFor(bill, n, m, type) = Total(S) BY <1>4 DEF PaidFor
<1>7. StatedFor(book, n, m, type) = SumFunctionOnSet(sum, I) BY DEF StatedFor
<1> HIDE DEF I, lines
<1>8. Total(S) = SumFunctionOnSet(sum, I) BY <1>5, LinesPayments DEF lines
<1> QED BY <1>6, <1>7, <1>8
----------------------------------------
(* What is compared of a bill that came of a file. *)

\* What several rows are paid.
LEMMA MergedTotal ==
  ASSUME NEW rows, Apart(rows), NEW I \in SUBSET DOMAIN rows
  PROVE  /\ Payments(PaymentsOf(rows, I)) /\ Summands(Paid(rows), I)
         /\ Total(PaymentsOf(rows, I)) = SumFunctionOnSet(Paid(rows), I)
<1> DEFINE
  S == [i \in I |-> rows[i].payments]
  F == Paid(rows)
  U == PaymentsOf(rows, I)
<1>1. U = UNION {S[i] : i \in I} BY DEF PaymentsOf
<1>2. IsFiniteSet(I) BY FS_Subset DEF Apart, BillsRows
<1>3. \A i \in I : F[i] = Total(S[i]) BY DEF Paid
<1>4. Disjoint(S, I) BY <1>2 DEF Disjoint, Apart, BillsRows
<1> HIDE DEF S, F, U
<1> QED BY <1>1, <1>3, <1>4, UnionTotal DEF F, U

\* The two types of a set of payments make up its total.
LEMMA TypesTotal ==
  ASSUME NEW S, Payments(S), \A p \in S : p.type \in {"regular", "correction"}
  PROVE  Total(OfType(S, "regular")) + Total(OfType(S, "correction")) = Total(S)
<1> DEFINE
  f == [p \in S |-> p.amount]
  A == OfType(S, "regular")
  B == OfType(S, "correction")
<1>1. Summands(f, S) /\ Total(S) = SumFunctionOnSet(f, S) BY Totals
<1>2. A \in SUBSET S /\ B \in SUBSET S /\ A \cap B = {} /\ A \cup B = S BY DEF OfType
<1>3. ASSUME NEW T \in SUBSET S PROVE Summands(f, T) /\ Total(T) = SumFunctionOnSet(f, T)
  <2> DEFINE h == [p \in T |-> p.amount]
  <2>1. Total(T) = SumFunctionOnSet(h, T) BY Totals
  <2>2. \A p \in T : h[p] = f[p] OBVIOUS
  <2>3. Summands(f, T) BY <1>1, SumFacts
  <2> HIDE DEF f, h
  <2> QED BY <2>1, <2>2, <2>3, SumSame
<1> HIDE DEF f, A, B
<1>4. SumFunctionOnSet(f, A \cup B) = SumFunctionOnSet(f, A) + SumFunctionOnSet(f, B) BY <1>2, <1>3, SumUnion
<1> QED BY <1>1, <1>2, <1>3, <1>4 DEF A, B

\* The entry of a group has the payments of its rows.
LEMMA EntryMoney ==
  ASSUME NEW v, NEW group
  PROVE  LET x == CompareGroup(v, group)
             S == PaymentsOf(v.rows, group)
         IN  /\ x.bill = SumFunction(BillAmounts(OfType(S, "regular")))
             /\ x.correction = Total(OfType(S, "correction"))
<1> DEFINE
  x == CompareGroup(v, group)
  S == PaymentsOf(v.rows, group)
  row == MergeBillChildren(v.rows, group)
  comp == FiguresOf(v, group)
<1>1. x.bill = comp.bill /\ x.correction = comp.correction BY GroupCompared
<1>2. PICK contract, age : comp = ComputeChildComparison(row.payments, contract, age, v.month, v.funding)
  BY DEF FiguresOf
<1>3. row.payments = S BY DEF MergeBillChildren, PaymentsOf
<1> HIDE DEF row, comp, x, S
<1>4. comp.bill = SumFunction(BillAmounts(OfType(row.payments, "regular")))
  /\ comp.correction = Total(OfType(row.payments, "correction")) BY <1>2 DEF ComputeChildComparison
<1> QED BY <1>1, <1>3, <1>4 DEF x, S

\* An entry has the money of its rows.
LEMMA EntryPaid ==
  ASSUME NEW v, Apart(v.rows), NEW group \in SUBSET DOMAIN v.rows,
         \A i \in group : \A p \in v.rows[i].payments : p.type \in {"regular", "correction"}
  PROVE  LET x == CompareGroup(v, group)
         IN  x.bill + x.correction = SumFunctionOnSet(Paid(v.rows), group)
<1> DEFINE
  S == PaymentsOf(v.rows, group)
  x == CompareGroup(v, group)
<1>1. Payments(S) /\ Total(S) = SumFunctionOnSet(Paid(v.rows), group) BY MergedTotal
<1>2. \A p \in S : p.type \in {"regular", "correction"} BY DEF PaymentsOf
<1>3. x.bill = SumFunction(BillAmounts(OfType(S, "regular"))) /\ x.correction = Total(OfType(S, "correction"))
  BY EntryMoney
<1> HIDE DEF S, x
<1>4. Payments(OfType(S, "regular")) BY <1>1, Totals DEF OfType
<1>5. SumFunction(BillAmounts(OfType(S, "regular"))) = Total(OfType(S, "regular")) BY <1>4, BillAmountsFacts
<1>6. x.bill + x.correction = Total(S) BY <1>1, <1>2, <1>3, <1>5, TypesTotal
<1> QED BY <1>1, <1>6 DEF x

\* All entries have the money of all rows.
LEMMA ComparedAsPaid ==
  ASSUME NEW v, Readable(v), NEW lines, Lines(lines), v.rows = Rows(lines)
  PROVE  SumFunction([x \in ComparePeriod(v).entries |-> x.bill + x.correction])
           = SumFunction([i \in DOMAIN v.rows |-> Total(v.rows[i].payments)])
<1> DEFINE
  E == ComparePeriod(v).entries
  D == DOMAIN v.rows
  paid == Paid(v.rows)
  worth == [x \in E |-> x.bill + x.correction]
<1>1. E = Billed(v) \cup Absent(v) BY DEF ComparePeriod, Billed, Absent
<1>2. /\ Apart(v.rows)
      /\ \A i \in D : \A p \in v.rows[i].payments : p.type \in {"regular", "correction"} BY RowsPayments
<1>3. Carried(v, paid, worth)
  <2>1. ASSUME NEW x \in Billed(v) PROVE worth[x] = SumFunctionOnSet(paid, x.rows)
   <3>1. PICK k \in D : x = CompareGroup(v, GroupOf(v, k)) BY DEF Billed
   <3>2. x.rows = GroupOf(v, k) /\ GroupOf(v, k) \in SUBSET D BY <3>1, Groups, GroupCompared
   <3>3. x.bill + x.correction = SumFunctionOnSet(Paid(v.rows), GroupOf(v, k)) BY <1>2, <3>1, <3>2, EntryPaid
   <3> QED BY <1>1, <3>2, <3>3
  <2>2. ASSUME NEW x \in Absent(v) PROVE worth[x] = 0 BY <1>1 DEF Absent, CalcOnly
  <2>3. Summands(paid, D) BY <1>2, MergedTotal
  <2> HIDE DEF worth, paid
  <2> QED BY <2>1, <2>2, <2>3 DEF Carried
<1>4. SumFunction(worth) = SumFunctionOnSet(worth, E)
  /\ SumFunction([i \in D |-> Total(v.rows[i].payments)]) = SumFunctionOnSet(paid, D) BY DEF SumFunction, Paid
<1> HIDE DEF worth, paid, E
<1>5. SumFunctionOnSet(worth, E) = SumFunctionOnSet(paid, D) BY <1>3, EntriesCarry DEF E
<1> QED BY <1>4, <1>5 DEF worth, E
----------------------------------------
(* The corrections, by bill and by the month they are about. *)

\* A comparison has the corrections of its bill.
LEMMA ComparedCorrections ==
  ASSUME NEW v, Readable(v), Apart(v.rows)
  PROVE  LET D == DOMAIN v.rows
         IN  /\ Summands(CorrectionsOf(v.rows), D)
             /\ ComparePeriod(v).correction = SumFunctionOnSet(CorrectionsOf(v.rows), D)
<1> DEFINE
  E == ComparePeriod(v).entries
  D == DOMAIN v.rows
  paid == CorrectionsOf(v.rows)
  worth == [x \in E |-> x.correction]
<1>1. E = Billed(v) \cup Absent(v) BY DEF ComparePeriod, Billed, Absent
<1>2. \A I \in SUBSET D : /\ Summands(paid, I)
                          /\ Total(OfType(PaymentsOf(v.rows, I), "correction"))
                               = SumFunctionOnSet(paid, I)
  <2> SUFFICES ASSUME NEW I \in SUBSET D
    PROVE  /\ Summands(paid, I)
           /\ Total(OfType(PaymentsOf(v.rows, I), "correction"))
                    = SumFunctionOnSet(paid, I) OBVIOUS
  <2>1. \A i \in I : paid[i] = Total(OfType(v.rows[i].payments, "correction")) BY DEF CorrectionsOf
  <2>2. Apart(v.rows) /\ I \in SUBSET DOMAIN v.rows OBVIOUS
  <2> HIDE DEF paid, D
  <2>3. Summands(paid, I) BY <2>1, <2>2, OfTypeTotal
  <2>4. Total(OfType(PaymentsOf(v.rows, I), "correction")) = SumFunctionOnSet(paid, I) BY <2>1, <2>2, OfTypeTotal
  <2> QED BY <2>3, <2>4
<1>3. Carried(v, paid, worth)
  <2>1. ASSUME NEW x \in Billed(v) PROVE worth[x] = SumFunctionOnSet(paid, x.rows)
   <3>1. PICK i \in D : x = CompareGroup(v, GroupOf(v, i)) BY DEF Billed
   <3>2. x.rows = GroupOf(v, i) /\ GroupOf(v, i) \in SUBSET D BY <3>1, Groups, GroupCompared
   <3>3. x.correction = Total(OfType(PaymentsOf(v.rows, GroupOf(v, i)), "correction")) BY <3>1, EntryMoney
   <3>4. worth[x] = x.correction BY <1>1
   <3> HIDE DEF worth, paid
   <3> QED BY <1>2, <3>2, <3>3, <3>4
  <2>2. ASSUME NEW x \in Absent(v) PROVE worth[x] = 0 BY <1>1 DEF Absent, CalcOnly
  <2>3. Summands(paid, D) BY <1>2
  <2> HIDE DEF worth, paid
  <2> QED BY <2>1, <2>2, <2>3 DEF Carried
<1>4. ComparePeriod(v).correction = SumFunctionOnSet(worth, E) BY DEF ComparePeriod, SumFunction
<1> HIDE DEF worth, paid, E
<1>5. SumFunctionOnSet(worth, E) = SumFunctionOnSet(paid, D) BY <1>3, EntriesCarry DEF E
<1> QED BY <1>2, <1>4, <1>5 DEF paid

\* The corrections of a row, by the month they are about.
LEMMA RowAttributed ==
  ASSUME NEW rows, Apart(rows), NEW i \in DOMAIN rows, NEW m \in Months,
         NEW F, \A about \in Months : F[about] = Total(OfType(AboutMonth(rows[i], m, about), "correction"))
  PROVE  Summands(F, Months) /\ Total(OfType(rows[i].payments, "correction")) = SumFunctionOnSet(F, Months)
<1> DEFINE
  S == [about \in Months |-> OfType(AboutMonth(rows[i], m, about), "correction")]
  U == OfType(rows[i].payments, "correction")
<1>1. \A p \in rows[i].payments : Attribution(p, m) \in Months BY DEF Apart, Attribution
<1>2. \A about \in Months : S[about] = {p \in U : Attribution(p, m) = about} BY DEF OfType, AboutMonth
<1>3. Payments(rows[i].payments) BY DEF Apart, BillsRows
<1>4. U \subseteq rows[i].payments BY DEF OfType
<1>5. IsFiniteSet(Months) BY RatesAssumption, FS_Interval DEF Months
<1> HIDE DEF U
<1>6. U = UNION {S[about] : about \in Months} BY <1>1, <1>2, <1>4
<1>7. \A about \in Months : Payments(S[about]) BY <1>2, <1>4, <1>3, Totals
<1>8. Disjoint(S, Months) BY <1>2, <1>5, <1>7 DEF Disjoint
<1>9. \A about \in Months : F[about] = Total(S[about]) OBVIOUS
<1> HIDE DEF S
<1>10. Summands(F, Months) /\ Total(U) = SumFunctionOnSet(F, Months) BY <1>6, <1>8, <1>9, UnionTotal
<1> QED BY <1>10 DEF U

\* There are finitely many months.
LEMMA MonthsFinite == IsFiniteSet(Months) BY RatesAssumption, FS_Interval DEF Months

\* The rows of the bills, as far as sums over them need it.
LEMMA BillsTabled ==
  ASSUME NEW t, Tabled(t), NEW m \in BilledMonths(t)
  PROVE  /\ m \in Months /\ Apart(t.bills[m].rows) /\ BillsRows(t.bills[m].rows)
         /\ Summands(CorrectionsOf(t.bills[m].rows), DOMAIN t.bills[m].rows)
<1> DEFINE
  rows == t.bills[m].rows
  F == CorrectionsOf(rows)
<1>1. m \in Months /\ Apart(rows) /\ BillsRows(rows) BY DEF Tabled, BilledMonths, Apart
<1>2. \A i \in DOMAIN rows : F[i] = Total(OfType(rows[i].payments, "correction")) BY DEF CorrectionsOf
<1> HIDE DEF F, rows
<1>3. Summands(F, DOMAIN rows) BY <1>1, <1>2, OfTypeTotal
<1> QED BY <1>1, <1>3 DEF F, rows

\* The corrections by the month they are about are those of the bills.
LEMMA AttributedSum ==
  ASSUME NEW t, Tabled(t)
  PROVE  SumFunctionOnSet(AttributedTotals(t, 1, LastMonth), Months)
           = SumFunctionOnSet(MonthCorrections(t), BilledMonths(t))
<1> DEFINE
  M == BilledMonths(t)
  D == [m \in M |-> DOMAIN t.bills[m].rows]
  P == UNION {{m} \X DOMAIN t.bills[m].rows : m \in M}
  g == [n \in P |-> Total(OfType(t.bills[n[1]].rows[n[2]].payments, "correction"))]
  F == MonthCorrections(t)
  A == [w \in P \X Months |->
           Total(OfType(AboutMonth(t.bills[w[1][1]].rows[w[1][2]], w[1][1], w[2]), "correction"))]
  C == AttributedTotals(t, 1, LastMonth)
<1>1. Paired(P, M, D, g, F)
  <2>1. P = UNION {{m} \X D[m] : m \in M} OBVIOUS
  <2>2. IsFiniteSet(M) BY MonthsFinite, FS_Subset DEF BilledMonths
  <2>3. ASSUME NEW m \in M
    PROVE  /\ IsFiniteSet(D[m]) /\ \A i \in D[m] : g[<<m, i>>] \in Int
           /\ F[m] = SumFunctionOnSet([i \in D[m] |-> g[<<m, i>>]], D[m])
   <3> DEFINE rows == t.bills[m].rows
   <3>1. Summands(CorrectionsOf(rows), DOMAIN rows) BY BillsTabled
   <3>2. D[m] = DOMAIN rows OBVIOUS
   <3>3. \A i \in DOMAIN rows : <<m, i>> \in P /\ g[<<m, i>>] = Total(OfType(rows[i].payments, "correction")) OBVIOUS
   <3>4. F[m] = SumFunctionOnSet(CorrectionsOf(rows), DOMAIN rows) BY DEF MonthCorrections
   <3> HIDE DEF rows, D, P, g, F
   <3>5. \A i \in DOMAIN rows : CorrectionsOf(rows)[i] = g[<<m, i>>] BY <3>3 DEF CorrectionsOf
   <3>6. CorrectionsOf(rows) = [i \in D[m] |-> g[<<m, i>>]] BY <3>2, <3>5 DEF CorrectionsOf
   <3> QED BY <3>1, <3>2, <3>4, <3>5, <3>6 DEF Summands
  <2> HIDE DEF P, M, D, g, F
  <2> QED BY <2>1, <2>2, <2>3 DEF Paired
<1>2. \A n \in P : /\ n[1] \in M /\ n[2] \in DOMAIN t.bills[n[1]].rows
                   /\ g[n] = Total(OfType(t.bills[n[1]].rows[n[2]].payments, "correction")) OBVIOUS
<1>3. \A n \in P : \A about \in Months :
  A[<<n, about>>] = Total(OfType(AboutMonth(t.bills[n[1]].rows[n[2]], n[1], about), "correction")) OBVIOUS
<1>4. \A about \in Months : C[about] = SumFunctionOnSet([n \in P |-> A[<<n, about>>]], P)
  <2> SUFFICES ASSUME NEW about \in Months PROVE C[about] = SumFunctionOnSet([n \in P |-> A[<<n, about>>]], P) OBVIOUS
  <2> DEFINE f == [n \in P |-> Total(OfType(AboutMonth(t.bills[n[1]].rows[n[2]], n[1], about), "correction"))]
  <2>1. C[about] = SumFunctionOnSet(f, P) BY DEF AttributedTotals, SumFunction, BilledMonths, Months
  <2>2. f = [n \in P |-> A[<<n, about>>]] OBVIOUS
  <2> QED BY <2>1, <2>2
<1> HIDE DEF P, M, D, g, F, A, C
<1>5. Summands(g, P) /\ SumFunctionOnSet(F, M) = SumFunctionOnSet(g, P) BY <1>1, SumPairs
<1>6. ASSUME NEW n \in P
  PROVE  /\ \A about \in Months : A[<<n, about>>] \in Int
         /\ g[n] = SumFunctionOnSet([about \in Months |-> A[<<n, about>>]], Months)
  <2> DEFINE
    rows == t.bills[n[1]].rows
    h == [about \in Months |-> A[<<n, about>>]]
  <2>1. n[1] \in Months /\ Apart(rows) /\ n[2] \in DOMAIN rows BY <1>2, BillsTabled DEF M
  <2>2. \A about \in Months : h[about] = Total(OfType(AboutMonth(rows[n[2]], n[1], about), "correction")) BY <1>3
  <2>3. g[n] = Total(OfType(rows[n[2]].payments, "correction")) BY <1>2
  <2>4. \A about \in Months : h[about] = A[<<n, about>>] OBVIOUS
  <2> HIDE DEF rows, h
  <2>5. Summands(h, Months) /\ g[n] = SumFunctionOnSet(h, Months) BY <2>1, <2>2, <2>3, RowAttributed
  <2> QED BY <2>4, <2>5 DEF Summands, h
<1>7. IsFiniteSet(P) /\ IsFiniteSet(Months) BY <1>5, MonthsFinite DEF Summands
<1>8. SumFunctionOnSet(g, P) = SumFunctionOnSet(C, Months)
  <2>1. Crossed(P, Months, A, g, C) BY <1>4, <1>6, <1>7 DEF Crossed
  <2> QED BY <2>1, SumSwap
<1> QED BY <1>5, <1>8 DEF F, M, C

\* The comparisons of all bills have the corrections of all bills.
LEMMA ComparisonsCorrections ==
  ASSUME NEW t, Tabled(t), NEW V, \A m \in BilledMonths(t) : Shot(V[m], t, m),
         NEW S, S = {ComparePeriod(V[m]) : m \in BilledMonths(t)}
  PROVE  SumFunction([x \in S |-> x.correction]) = SumFunctionOnSet(AttributedTotals(t, 1, LastMonth), Months)
<1> DEFINE
  M == BilledMonths(t)
  F == MonthCorrections(t)
  e == [m \in M |-> ComparePeriod(V[m])]
  h == [x \in S |-> x.correction]
<1>1. ASSUME NEW m \in M PROVE e[m].correction = F[m] /\ e[m].month = m /\ F[m] \in Int /\ e[m] \in S
  <2> DEFINE rows == t.bills[m].rows
  <2>1. Apart(rows) /\ BillsRows(rows) /\ Summands(CorrectionsOf(rows), DOMAIN rows) BY BillsTabled
  <2>2. V[m].rows = rows /\ V[m].month = m /\ V[m].funding = t.funding /\ V[m].active \subseteq Children BY DEF Shot
  <2>3. e[m] = ComparePeriod(V[m]) /\ F[m] = SumFunctionOnSet(CorrectionsOf(rows), DOMAIN rows)
    BY DEF MonthCorrections
  <2>4. e[m] \in S OBVIOUS
  <2> HIDE DEF rows, e, F
  <2>5. Readable(V[m]) BY <2>1, <2>2 DEF Readable, Tabled
  <2>6. ComparePeriod(V[m]).correction = SumFunctionOnSet(CorrectionsOf(rows), DOMAIN rows)
    BY <2>1, <2>2, <2>5, ComparedCorrections
  <2>7. ComparePeriod(V[m]).month = m BY <2>2 DEF ComparePeriod
  <2>8. SumFunctionOnSet(CorrectionsOf(rows), DOMAIN rows) \in Int BY <2>1, SumFacts
  <2> QED BY <2>3, <2>4, <2>6, <2>7, <2>8
<1>2. Image(e, M, S)
  <2>1. \A m \in M : e[m] = ComparePeriod(V[m]) OBVIOUS
  <2>2. S = {ComparePeriod(V[m]) : m \in M} OBVIOUS
  <2> HIDE DEF e, M
  <2>3. S = {e[m] : m \in M} BY <2>1, <2>2
  <2> QED BY <2>3 DEF Image
<1>3. IsFiniteSet(M) BY MonthsFinite, FS_Subset DEF BilledMonths
<1>4. \A x \in S : h[x] = x.correction OBVIOUS
<1>5. SumFunction(h) = SumFunctionOnSet(h, S) BY DEF SumFunction
<1> HIDE DEF M, e, h, F
<1>6. Summands(F, M) /\ Renamed(F, M, e, h) BY <1>1, <1>3, <1>4 DEF Summands, Renamed
<1>7. SumFunctionOnSet(h, S) = SumFunctionOnSet(F, M) BY <1>2, <1>6, SumRenamed
<1> QED BY <1>5, <1>7, AttributedSum DEF h, F, M
----------------------------------------
(* A child's history. *)

\* The fields of an entry of a history.
LEMMA HistoryFields ==
  ASSUME NEW t, NEW c, NEW m
  PROVE  LET x == HistoryOf(t, c, m)
             comp == ChildFigures(t, c, m)
         IN  /\ x.status = IF ContractAt(t, c, m) = NoRow THEN "no_contract" ELSE comp.status
             /\ x.bill = comp.bill /\ x.correction = comp.correction /\ x.calc = comp.calc
             /\ x.properties = comp.properties /\ x.month = m /\ x.rows = RowsOf(t, c, m) BY DEF HistoryOf

\* The months of a child's entries, and its entries by month.
LEMMA HistoryIs ==
  ASSUME NEW t, NEW c
  PROVE  /\ ListedMonths(t, c) \subseteq BilledMonths(t) /\ IsFiniteSet(ListedMonths(t, c))
         /\ \A m \in ListedMonths(t, c) : RowsOf(t, c, m) # {} /\ RowsOf(t, c, m) \subseteq DOMAIN t.bills[m].rows
         /\ Named(t, c) = UNION {{m} \X RowsOf(t, c, m) : m \in ListedMonths(t, c)}
         /\ ChildBillingHistory(t, c) = {HistoryOf(t, c, m) : m \in ListedMonths(t, c)}
<1> DEFINE L == ListedMonths(t, c)
<1>1. \A n \in Named(t, c) : n[1] \in BilledMonths(t) /\ n[2] \in RowsOf(t, c, n[1]) /\ n = <<n[1], n[2]>>
  BY DEF Named, BilledMonths
<1>2. \A m \in BilledMonths(t) : \A i \in RowsOf(t, c, m) : <<m, i>> \in Named(t, c) BY DEF Named, BilledMonths
<1>3. L \subseteq BilledMonths(t) /\ \A m \in L : RowsOf(t, c, m) # {} BY <1>1 DEF ListedMonths
<1>4. \A m \in BilledMonths(t) : \A i \in RowsOf(t, c, m) : m \in L
  <2> SUFFICES ASSUME NEW m \in BilledMonths(t), NEW i \in RowsOf(t, c, m) PROVE m \in L OBVIOUS
  <2>1. <<m, i>> \in Named(t, c) /\ <<m, i>>[1] = m BY <1>2
  <2> QED BY <2>1 DEF ListedMonths
<1>5. IsFiniteSet(L) BY <1>3, MonthsFinite, FS_Subset DEF BilledMonths
<1>6. \A m \in L : RowsOf(t, c, m) \subseteq DOMAIN t.bills[m].rows BY DEF RowsOf
<1>7. Named(t, c) = UNION {{m} \X RowsOf(t, c, m) : m \in L}
  <2> HIDE DEF L
  <2>1. \A n \in Named(t, c) : n[1] \in L BY <1>1, <1>4
  <2>2. \A m \in L : \A i \in RowsOf(t, c, m) : <<m, i>> \in Named(t, c) BY <1>2, <1>3
  <2>3. \A n \in Named(t, c) : n \in UNION {{m} \X RowsOf(t, c, m) : m \in L} BY <1>1, <2>1
  <2>4. \A n \in UNION {{m} \X RowsOf(t, c, m) : m \in L} : n \in Named(t, c) BY <2>2
  <2> QED BY <2>3, <2>4
<1>8. ChildBillingHistory(t, c) = {HistoryOf(t, c, m) : m \in L}
  <2> DEFINE
    E(group) ==
       LET contract == PickActive(ContractsOf(t, c), group.month)
           comp == ComputeChildComparison(MergeBillChildren(t.bills[group.month].rows, group.rows).payments,
                       contract, FundingAgeOnDate(Born[c], group.month), group.month, t.funding)
       IN  [status |-> IF contract = NoRow THEN "no_contract" ELSE comp.status, bill |-> comp.bill,
            correction |-> comp.correction, calc |-> comp.calc, properties |-> comp.properties,
            month |-> group.month, rows |-> group.rows]
    G(m) == [month |-> m, rows |-> RowsOf(t, c, m)]
  <2>1. ChildBillingHistory(t, c) = {E(group) : group \in GroupChildEntriesByBill(t, c)} BY DEF ChildBillingHistory
  <2>2. GroupChildEntriesByBill(t, c) = {G(m) : m \in L} BY DEF GroupChildEntriesByBill, ListedMonths
  <2>3. \A m \in L : E(G(m)) = HistoryOf(t, c, m)
    BY DEF HistoryOf, ChildFigures, ContractAt, MergeBillChildren, PaymentsOf
  <2> HIDE DEF E, G, L
  <2> QED BY <2>1, <2>2, <2>3
<1> QED BY <1>3, <1>5, <1>6, <1>7, <1>8

\* The figures of one child, with a contract and without.
LEMMA FiguresCases ==
  ASSUME NEW t, NEW c \in Children, NEW m \in Int
  PROVE  LET x == ChildFigures(t, c, m)
             S == PaymentsOf(t.bills[m].rows, RowsOf(t, c, m))
             contract == ContractAt(t, c, m)
             period == FindPeriodForDate(t.funding, m)
             calculated == CalcAmounts(FundingAgeOnDate(Born[c], m), contract.props, period)
         IN  /\ x.bill = SumFunction(BillAmounts(OfType(S, "regular")))
             /\ x.correction = Total(OfType(S, "correction"))
             /\ contract = NoRow => x.calc = NoRow
             /\ x.status \in {"bill_only", "no_funding_config", "match", "not_billed", "difference"}
             /\ contract # NoRow /\ period = NoRow => x.calc = NoRow
             /\ contract # NoRow /\ period # NoRow => x.calc = SumFunction(calculated)
<1> DEFINE
  S == PaymentsOf(t.bills[m].rows, RowsOf(t, c, m))
  contract == ContractAt(t, c, m)
  age == FundingAgeOnDate(Born[c], m)
<1>1. age # NoRow
  <2>1. age \in Int BY RatesAssumption DEF Years, FundingAgeOnDate
  <2> QED BY <2>1, ReportSentinels
<1> HIDE DEF S, contract, age
<1>2. ChildFigures(t, c, m) = ComputeChildComparison(S, contract, age, m, t.funding)
  BY DEF ChildFigures, S, contract, age
<1>3. LET x == ComputeChildComparison(S, contract, age, m, t.funding)
      period == FindPeriodForDate(t.funding, m)
      calculated == CalcAmounts(age, contract.props, period)
  IN  /\ x.bill = SumFunction(BillAmounts(OfType(S, "regular")))
      /\ x.correction = Total(OfType(S, "correction"))
      /\ contract = NoRow => x.calc = NoRow
      /\ x.status \in {"bill_only", "no_funding_config", "match", "not_billed", "difference"}
      /\ contract # NoRow /\ period = NoRow => x.calc = NoRow
      /\ contract # NoRow /\ period # NoRow => x.calc = SumFunction(calculated) BY <1>1 DEF ComputeChildComparison
<1> QED BY <1>2, <1>3 DEF S, contract, age

\* An entry is billed what its rows are paid.
LEMMA HistoryPaid ==
  ASSUME NEW t, Tabled(t), NEW c \in Children, NEW m \in ListedMonths(t, c)
  PROVE  /\ m \in Int /\ Apart(t.bills[m].rows) /\ RowsOf(t, c, m) \subseteq DOMAIN t.bills[m].rows
         /\ Summands(RegularOf(t, c, m), RowsOf(t, c, m))
         /\ HistoryOf(t, c, m).bill = SumFunctionOnSet(RegularOf(t, c, m), RowsOf(t, c, m))
<1> DEFINE
  rows == t.bills[m].rows
  I == RowsOf(t, c, m)
  F == RegularOf(t, c, m)
  U == OfType(PaymentsOf(rows, I), "regular")
<1>1. m \in BilledMonths(t) /\ I \in SUBSET DOMAIN rows BY HistoryIs
<1>2. Apart(rows) /\ m \in Int BY <1>1, BillsTabled DEF Months
<1>3. \A i \in I : F[i] = Total(OfType(rows[i].payments, "regular")) BY DEF RegularOf
<1>4. HistoryOf(t, c, m).bill = SumFunction(BillAmounts(U))
  <2>1. ChildFigures(t, c, m).bill
          = SumFunction(BillAmounts(OfType(PaymentsOf(t.bills[m].rows, RowsOf(t, c, m)), "regular")))
    BY <1>2, FiguresCases
  <2>2. HistoryOf(t, c, m).bill = ChildFigures(t, c, m).bill BY HistoryFields
  <2> QED BY <2>1, <2>2
<1> HIDE DEF F, I, rows
<1>5. Payments(U) /\ Summands(F, I) /\ Total(U) = SumFunctionOnSet(F, I) BY <1>1, <1>2, <1>3, OfTypeTotal
<1> HIDE DEF U
<1>6. SumFunction(BillAmounts(U)) = Total(U) BY <1>5, BillAmountsFacts
<1> QED BY <1>1, <1>2, <1>4, <1>5, <1>6 DEF F, I, rows

\* A sum over the history, month by month.
LEMMA HistorySum ==
  ASSUME NEW t, NEW c, NEW F, Summands(F, ListedMonths(t, c)),
         NEW h, \A m \in ListedMonths(t, c) : h[HistoryOf(t, c, m)] = F[m]
  PROVE  /\ Summands(h, ChildBillingHistory(t, c))
         /\ SumFunctionOnSet(h, ChildBillingHistory(t, c)) = SumFunctionOnSet(F, ListedMonths(t, c))
<1> DEFINE
  L == ListedMonths(t, c)
  e == [m \in L |-> HistoryOf(t, c, m)]
  H == ChildBillingHistory(t, c)
<1>1. \A m \in L : e[m] = HistoryOf(t, c, m) /\ e[m].month = m BY HistoryFields
<1>2. H = {HistoryOf(t, c, m) : m \in L} BY HistoryIs
<1> HIDE DEF e, L, H
<1>3. Image(e, L, H) BY <1>1, <1>2 DEF Image
<1>4. Renamed(F, L, e, h) BY <1>1 DEF Renamed, L
<1> QED BY <1>3, <1>4, SumRenamed DEF L, H

\* What the list of children says is billed is what the history says.
LEMMA BilledIsHistory ==
  ASSUME NEW t, Tabled(t), NEW c \in Children
  PROVE  ChildrenBillingSummary(t, c).billed = SumFunction([x \in ChildBillingHistory(t, c) |-> x.bill])
<1> DEFINE
  L == ListedMonths(t, c)
  P == Named(t, c)
  D == [m \in L |-> RowsOf(t, c, m)]
  g == [n \in P |-> Total(OfType(t.bills[n[1]].rows[n[2]].payments, "regular"))]
  F == [m \in L |-> HistoryOf(t, c, m).bill]
  H == ChildBillingHistory(t, c)
  h == [x \in H |-> x.bill]
<1>1. P = UNION {{m} \X RowsOf(t, c, m) : m \in L} /\ IsFiniteSet(L) /\ H = {HistoryOf(t, c, m) : m \in L}
  BY HistoryIs
<1>2. ASSUME NEW m \in L
  PROVE  /\ D[m] = RowsOf(t, c, m) /\ Summands(RegularOf(t, c, m), D[m])
         /\ F[m] = SumFunctionOnSet(RegularOf(t, c, m), D[m])
         /\ RegularOf(t, c, m) = [i \in D[m] |-> g[<<m, i>>]]
  <2>1. Summands(RegularOf(t, c, m), RowsOf(t, c, m))
    /\ HistoryOf(t, c, m).bill = SumFunctionOnSet(RegularOf(t, c, m), RowsOf(t, c, m)) BY HistoryPaid
  <2>2. \A i \in RowsOf(t, c, m) : <<m, i>> \in P
   <3> HIDE DEF P, L
   <3> QED BY <1>1
  <2>3. \A i \in RowsOf(t, c, m) : g[<<m, i>>] = Total(OfType(t.bills[m].rows[i].payments, "regular")) BY <2>2
  <2>4. D[m] = RowsOf(t, c, m) /\ F[m] = HistoryOf(t, c, m).bill OBVIOUS
  <2> HIDE DEF g, D, F, L
  <2>5. RegularOf(t, c, m) = [i \in D[m] |-> g[<<m, i>>]] BY <2>3, <2>4 DEF RegularOf
  <2> QED BY <2>1, <2>4, <2>5
<1>3. \A m \in L : HistoryOf(t, c, m) \in H /\ F[m] = HistoryOf(t, c, m).bill
  <2> HIDE DEF H, L
  <2> QED BY <1>1
<1>4. \A m \in L : h[HistoryOf(t, c, m)] = F[m] BY <1>3
<1>5. SumFunction(h) = SumFunctionOnSet(h, H) BY DEF SumFunction
<1>6. ChildrenBillingSummary(t, c).billed = SumFunctionOnSet(g, P) BY DEF ChildrenBillingSummary, SumFunction
<1>7. P = UNION {{m} \X D[m] : m \in L} BY <1>1
<1> HIDE DEF P, L, D, g, F, H, h
<1>8. Paired(P, L, D, g, F)
  <2>1. \A m \in L : /\ IsFiniteSet(D[m]) /\ \A i \in D[m] : g[<<m, i>>] \in Int
                     /\ F[m] = SumFunctionOnSet([i \in D[m] |-> g[<<m, i>>]], D[m])
   <3> SUFFICES ASSUME NEW m \in L
     PROVE  /\ IsFiniteSet(D[m]) /\ \A i \in D[m] : g[<<m, i>>] \in Int
            /\ F[m] = SumFunctionOnSet([i \in D[m] |-> g[<<m, i>>]], D[m]) OBVIOUS
   <3>1. Summands([i \in D[m] |-> g[<<m, i>>]], D[m]) BY <1>2
   <3> QED BY <1>2, <3>1 DEF Summands
  <2> QED BY <1>1, <1>7, <2>1 DEF Paired
<1>9. Summands(F, L) /\ SumFunctionOnSet(F, L) = SumFunctionOnSet(g, P) BY <1>8, SumPairs
<1>10. SumFunctionOnSet(h, H) = SumFunctionOnSet(F, L) BY <1>4, <1>9, HistorySum DEF L, H
<1> QED BY <1>5, <1>6, <1>9, <1>10 DEF h, H

\* An entry for each bill that names the child.
LEMMA BillsAreHistory ==
  ASSUME NEW t, NEW c PROVE ChildrenBillingSummary(t, c).bills = Cardinality(ChildBillingHistory(t, c))
<1> DEFINE
  L == ListedMonths(t, c)
  H == ChildBillingHistory(t, c)
  e == [m \in L |-> HistoryOf(t, c, m)]
<1>1. IsFiniteSet(L) /\ H = {HistoryOf(t, c, m) : m \in L} BY HistoryIs
<1>2. \A m \in L : e[m] = HistoryOf(t, c, m) /\ e[m].month = m BY HistoryFields
<1>3. ChildrenBillingSummary(t, c).bills = Cardinality(L) BY DEF ChildrenBillingSummary, ListedMonths
<1>4. e = [m \in L |-> e[m]] OBVIOUS
<1> HIDE DEF L, H, e
<1>5. e \in Bijection(L, H) BY <1>1, <1>2, <1>4 DEF Bijection, Injection, IsInjective, Surjection
<1>6. Cardinality(H) = Cardinality(L) BY <1>1, <1>5, FS_Bijection DEF ExistsBijection
<1> QED BY <1>3, <1>6 DEF H

\* The entry's calculated figure, if it has one; without one nothing is earned.
LEMMA HistoryEarned ==
  ASSUME NEW t, Tabled(t), NEW c \in Children, NEW m \in ListedMonths(t, c)
  PROVE  LET calc == HistoryOf(t, c, m).calc
         IN  EarnedAt(t, c, m) \in Int /\ IF calc = NoRow THEN EarnedAt(t, c, m) = 0 ELSE calc = EarnedAt(t, c, m)
<1> DEFINE
  contract == ContractAt(t, c, m)
  period == FindPeriodForDate(t.funding, m)
  calculated == CalcAmounts(FundingAgeOnDate(Born[c], m), contract.props, period)
  calc == HistoryOf(t, c, m).calc
<1>1. m \in Int /\ Fundings(t.funding) BY HistoryPaid DEF Tabled
<1>2. Finite(calculated) /\ SumFunction(calculated) \in Int BY <1>1, CalcAmountsFacts, FiniteSum
<1>3. calc = ChildFigures(t, c, m).calc BY HistoryFields
<1>4. /\ contract = NoRow => ChildFigures(t, c, m).calc = NoRow
      /\ contract # NoRow /\ period = NoRow => ChildFigures(t, c, m).calc = NoRow
      /\ contract # NoRow /\ period # NoRow => ChildFigures(t, c, m).calc = SumFunction(calculated)
  BY <1>1, FiguresCases
<1>5. EarnedAt(t, c, m) = IF contract = NoRow THEN 0 ELSE SumFunction(calculated) BY DEF EarnedAt
<1>6. period = NoRow => SumFunction(calculated) = 0
  <2> SUFFICES ASSUME period = NoRow PROVE SumFunction(calculated) = 0 OBVIOUS
  <2>1. DOMAIN calculated = {} BY DEF CalcAmounts, MatchFundingProperties
  <2> HIDE DEF calculated
  <2>2. SumFunctionOnSet(calculated, {}) = 0 BY <1>2, <2>1, SumFacts DEF Finite
  <2> QED BY <2>1, <2>2 DEF SumFunction
<1> HIDE DEF contract, period, calculated, calc
<1>7. EarnedAt(t, c, m) \in Int /\ IF calc = NoRow THEN EarnedAt(t, c, m) = 0 ELSE calc = EarnedAt(t, c, m)
  BY <1>2, <1>3, <1>4, <1>5, <1>6, ReportSentinels
<1> QED BY <1>7 DEF calc

\* Where each bill names one voucher of the child, the list of children calculates what the history does.
LEMMA EarnedIsHistory ==
  ASSUME NEW t, Tabled(t), NEW c \in Children, \A x \in ChildBillingHistory(t, c) : Cardinality(x.rows) = 1
  PROVE  ChildrenBillingSummary(t, c).calculated
           = SumFunction([x \in {x \in ChildBillingHistory(t, c) : x.calc # NoRow} |-> x.calc])
<1> DEFINE
  L == ListedMonths(t, c)
  P == Named(t, c)
  D == [m \in L |-> RowsOf(t, c, m)]
  g == [n \in P |-> EarnedAt(t, c, n[1])]
  F == [m \in L |-> EarnedAt(t, c, m)]
  H == ChildBillingHistory(t, c)
  C == {x \in H : x.calc # NoRow}
  h == [x \in H |-> IF x.calc = NoRow THEN 0 ELSE x.calc]
  k == [x \in C |-> x.calc]
<1>1. P = UNION {{m} \X RowsOf(t, c, m) : m \in L} /\ IsFiniteSet(L) /\ H = {HistoryOf(t, c, m) : m \in L}
  BY HistoryIs
<1>2. \A m \in L : HistoryOf(t, c, m) \in H
  <2> HIDE DEF H, L
  <2> QED BY <1>1
<1>3. \A m \in L : F[m] = EarnedAt(t, c, m) /\ F[m] \in Int BY HistoryEarned
<1>4. \A m \in L : h[HistoryOf(t, c, m)] = F[m]
  <2> SUFFICES ASSUME NEW m \in L PROVE h[HistoryOf(t, c, m)] = F[m] OBVIOUS
  <2> DEFINE x == HistoryOf(t, c, m)
  <2>1. IF x.calc = NoRow THEN EarnedAt(t, c, m) = 0 ELSE x.calc = EarnedAt(t, c, m) BY HistoryEarned
  <2>2. h[x] = IF x.calc = NoRow THEN 0 ELSE x.calc BY <1>2
  <2> HIDE DEF x, h, F, L
  <2>3. h[x] = F[m] BY <1>3, <2>1, <2>2
  <2> QED BY <2>3 DEF x
<1>5. ASSUME NEW m \in L
  PROVE  /\ IsFiniteSet(D[m]) /\ \A i \in D[m] : g[<<m, i>>] \in Int
         /\ F[m] = SumFunctionOnSet([i \in D[m] |-> g[<<m, i>>]], D[m])
  <2>1. RowsOf(t, c, m) = D[m] /\ HistoryOf(t, c, m).rows = RowsOf(t, c, m) BY HistoryFields
  <2>2. IsFiniteSet(D[m]) BY <2>1, HistoryPaid DEF Summands
  <2>3. PICK i : D[m] = {i} BY <1>2, <2>1, <2>2, FS_Singleton
  <2>4. <<m, i>> \in P
   <3>1. i \in RowsOf(t, c, m) BY <2>1, <2>3
   <3> HIDE DEF P, L
   <3> QED BY <1>1, <3>1
  <2>5. g[<<m, i>>] = F[m] BY <1>3, <2>4
  <2> HIDE DEF g, F, D, L, P
  <2> DEFINE f == [j \in D[m] |-> g[<<m, j>>]]
  <2>6. f[i] = F[m] /\ F[m] \in Int BY <1>3, <2>3, <2>5
  <2>7. SumFunctionOnSet(f, {i}) = f[i] BY <2>6, SumSingle
  <2> QED BY <2>2, <2>3, <2>5, <2>6, <2>7
<1>6. P = UNION {{m} \X D[m] : m \in L} BY <1>1
<1>7. SumFunction(k) = SumFunctionOnSet(k, C) BY DEF SumFunction
<1>8. ChildrenBillingSummary(t, c).calculated = SumFunctionOnSet(g, P)
  BY DEF ChildrenBillingSummary, SumFunction, EarnedAt, ContractAt
<1>9. /\ \A x \in C : k[x] = h[x]
      /\ C \in SUBSET H /\ \A x \in H \ C : h[x] = 0 OBVIOUS
<1> HIDE DEF P, L, D, g, F, H, h, C, k
<1>10. Paired(P, L, D, g, F) BY <1>1, <1>5, <1>6 DEF Paired
<1>11. Summands(F, L) /\ SumFunctionOnSet(F, L) = SumFunctionOnSet(g, P) BY <1>10, SumPairs
<1>12. Summands(h, H) /\ SumFunctionOnSet(h, H) = SumFunctionOnSet(F, L) BY <1>4, <1>11, HistorySum DEF L, H
<1>13. Summands(h, C) /\ SumFunctionOnSet(h, H) = SumFunctionOnSet(h, C) BY <1>9, <1>12, SumDrop
<1>14. SumFunctionOnSet(k, C) = SumFunctionOnSet(h, C) BY <1>9, <1>13, SumSame
<1> QED BY <1>7, <1>8, <1>11, <1>12, <1>13, <1>14 DEF k, C, H

\* The totals of a child are those of its history.
LEMMA TotalsHold ==
  ASSUME NEW t, Tabled(t), NEW c \in Children
  PROVE  TotalsAreHistory(ChildBillingHistory(t, c), ChildrenBillingSummary(t, c))
  BY BilledIsHistory, BillsAreHistory, EarnedIsHistory DEF TotalsAreHistory

\* The figures and the child of an entry, from any of its rows.
LEMMA GroupsFigures ==
  ASSUME NEW v, DOMAIN v.rows \subseteq Nat, NEW i \in DOMAIN v.rows
  PROVE  LET G == GroupOf(v, i)
             child == ChildOf(v, i)
         IN  /\ CompareGroup(v, G).child = child /\ CompareGroup(v, G).rows = G
             /\ FiguresOf(v, G) = ComputeChildComparison(PaymentsOf(v.rows, G),
                    IF child = NoRow THEN NoRow ELSE v.contractOf[child],
                    IF child \in v.active THEN FundingAgeOnDate(Born[child], v.month) ELSE NoRow,
                    v.month, v.funding)
<1> DEFINE
  G == GroupOf(v, i)
  row == MergeBillChildren(v.rows, G)
  named == IF Resolved(v, row.number) THEN v.childOf[row.number] ELSE NoRow
<1>1. CompareGroup(v, G).child = ChildOf(v, i) /\ CompareGroup(v, G).rows = G BY GroupsChild, Groups
<1>2. CompareGroup(v, G).child = named BY DEF CompareGroup
<1>3. FiguresOf(v, G) = ComputeChildComparison(row.payments,
  IF named = NoRow THEN NoRow ELSE v.contractOf[named],
  IF named \in v.active THEN FundingAgeOnDate(Born[named], v.month) ELSE NoRow,
  v.month, v.funding) BY DEF FiguresOf
<1>4. row.payments = PaymentsOf(v.rows, G) BY DEF MergeBillChildren, PaymentsOf
<1> HIDE DEF row, named, G
<1> QED BY <1>1, <1>2, <1>3, <1>4 DEF G

\* A view of one moment, as the tables have it.
LEMMA ShotRows ==
  ASSUME NEW t, Tabled(t), NEW m \in BilledMonths(t), NEW v, Shot(v, t, m)
  PROVE  /\ DOMAIN v.rows \subseteq Nat /\ v.rows = t.bills[m].rows /\ v.month = m /\ v.funding = t.funding
         /\ ComparePeriod(v).entries = Billed(v) \cup Absent(v)
         /\ \A c \in Children : v.contractOf[c] = ContractAt(t, c, m) /\ (c \in v.active <=> ContractAt(t, c, m) # NoRow)
         /\ \A c \in Children : \A i \in DOMAIN v.rows :
              i \in RowsOf(t, c, m) <=> v.childOf[v.rows[i].number] = c
<1>1. BillsRows(t.bills[m].rows) /\ v.rows = t.bills[m].rows BY BillsTabled DEF Shot
<1>2. ComparePeriod(v).entries = Billed(v) \cup Absent(v) BY DEF ComparePeriod, Billed, Absent
<1>3. \A c \in Children : v.contractOf[c] = ContractAt(t, c, m) /\ (c \in v.active <=> ContractAt(t, c, m) # NoRow)
  BY DEF Shot, ContractAt
<1>4. \A c \in Children : \A i \in DOMAIN v.rows : i \in RowsOf(t, c, m) <=> v.childOf[v.rows[i].number] = c
  BY <1>1 DEF Shot, RowsOf
<1> QED BY <1>1, <1>2, <1>3, <1>4 DEF Shot, BillsRows

\* A child with a contract has an entry of its own in the comparison, with the figures of its history.
LEMMA ContractCompared ==
  ASSUME NEW t, Tabled(t), NEW m \in BilledMonths(t), NEW v, Shot(v, t, m),
         NEW c \in Children, m \in ListedMonths(t, c), ContractAt(t, c, m) # NoRow
  PROVE  \E i \in DOMAIN v.rows : LET y == CompareGroup(v, GroupOf(v, i))
                                  IN  y.child = c /\ FiguresOf(v, GroupOf(v, i)) = ChildFigures(t, c, m)
<1>1. /\ DOMAIN v.rows \subseteq Nat /\ v.rows = t.bills[m].rows /\ v.month = m /\ v.funding = t.funding
      /\ v.contractOf[c] = ContractAt(t, c, m) /\ c \in v.active
      /\ \A i \in DOMAIN v.rows : i \in RowsOf(t, c, m) <=> v.childOf[v.rows[i].number] = c BY ShotRows
<1>2. RowsOf(t, c, m) # {} /\ RowsOf(t, c, m) \subseteq DOMAIN v.rows BY <1>1, HistoryIs
<1>3. PICK i \in DOMAIN v.rows : i \in RowsOf(t, c, m) BY <1>2
<1>4. c # NoRow BY RatesAssumption, ReportSentinels
<1>5. \A j \in DOMAIN v.rows :
          Resolved(v, v.rows[j].number) /\ v.childOf[v.rows[j].number] = c <=> j \in RowsOf(t, c, m)
  BY <1>1, <1>4 DEF Resolved
<1>6. GroupOf(v, i) = RowsOf(t, c, m) /\ ChildOf(v, i) = c BY <1>3, <1>5, <1>2 DEF GroupOf, ChildOf
<1>7. /\ CompareGroup(v, GroupOf(v, i)).child = c
      /\ FiguresOf(v, GroupOf(v, i)) = ComputeChildComparison(PaymentsOf(v.rows, GroupOf(v, i)),
             v.contractOf[c], FundingAgeOnDate(Born[c], v.month), v.month, v.funding)
  BY <1>1, <1>3, <1>4, <1>6, GroupsFigures
<1>8. FiguresOf(v, GroupOf(v, i)) = ChildFigures(t, c, m) BY <1>1, <1>6, <1>7 DEF ChildFigures
<1> QED BY <1>7, <1>8

\* The money of a child without a contract is in entries of its rows, one for each, and none
\* of them says whose it is.
LEMMA UncontractedCompared ==
  ASSUME NEW t, Tabled(t), NEW m \in BilledMonths(t), NEW v, Shot(v, t, m),
         NEW c \in Children, m \in ListedMonths(t, c), ContractAt(t, c, m) = NoRow
  PROVE  LET E == ComparePeriod(v).entries
             own == {y \in E : y.status = "bill_only" /\ y.rows \subseteq RowsOf(t, c, m)}
         IN  /\ HistoryOf(t, c, m).bill = SumFunction([y \in own |-> y.bill])
             /\ \A y \in E : y.child # c
<1> DEFINE
  E == ComparePeriod(v).entries
  R == RowsOf(t, c, m)
  own == {y \in E : y.status = "bill_only" /\ y.rows \subseteq R}
  e == [i \in R |-> CompareGroup(v, {i})]
  F == RegularOf(t, c, m)
  h == [y \in own |-> y.bill]
<1>1. /\ DOMAIN v.rows \subseteq Nat /\ v.rows = t.bills[m].rows /\ v.month = m
      /\ E = Billed(v) \cup Absent(v)
      /\ v.contractOf[c] = NoRow /\ c \notin v.active
      /\ \A i \in DOMAIN v.rows : i \in R <=> v.childOf[v.rows[i].number] = c BY ShotRows
<1>2. R \subseteq DOMAIN v.rows /\ Apart(t.bills[m].rows) /\ BillsRows(v.rows) BY <1>1, HistoryIs, BillsTabled
<1>3. c # NoRow BY RatesAssumption, ReportSentinels
<1>4. \A i \in R : ~Resolved(v, v.rows[i].number) BY <1>1, <1>2 DEF Resolved
<1>5. \A i \in R : GroupOf(v, i) = {i} /\ ChildOf(v, i) = NoRow BY <1>4 DEF GroupOf, ChildOf
<1>6. \A i \in DOMAIN v.rows : ChildOf(v, i) # c BY <1>1, <1>3, <1>5 DEF ChildOf
<1> HIDE DEF R, E
<1>7. ASSUME NEW i \in R
  PROVE  LET y == CompareGroup(v, {i})
         IN  y \in Billed(v) /\ y.status = "bill_only" /\ y.rows = {i} /\ y.bill = F[i]
  <2> DEFINE
    y == CompareGroup(v, {i})
    comp == FiguresOf(v, {i})
    S == PaymentsOf(v.rows, {i})
  <2>1. i \in DOMAIN v.rows /\ GroupOf(v, i) = {i} /\ ChildOf(v, i) = NoRow BY <1>2, <1>5
  <2>2. y \in Billed(v) BY <2>1 DEF Billed
  <2>3. y.rows = {i} /\ y.status = comp.status BY GroupCompared
  <2>4. PICK age : comp = ComputeChildComparison(S, NoRow, age, v.month, v.funding) BY <1>1, <2>1, GroupsFigures
  <2>5. comp.status = "bill_only"
   <3> HIDE DEF comp, S
   <3> QED BY <2>4 DEF ComputeChildComparison
  <2>6. y.bill = SumFunction(BillAmounts(OfType(S, "regular"))) BY EntryMoney
  <2>7. S = v.rows[i].payments BY DEF PaymentsOf
  <2>8. F[i] = Total(OfType(v.rows[i].payments, "regular")) BY <1>1 DEF RegularOf, R
  <2>9. Payments(OfType(v.rows[i].payments, "regular")) BY <1>2, <2>1, Totals DEF BillsRows, OfType
  <2> HIDE DEF y, comp, S, F
  <2>10. y.bill = F[i] BY <2>6, <2>7, <2>8, <2>9, BillAmountsFacts
  <2> QED BY <2>2, <2>3, <2>5, <2>10 DEF y
<1>8. \A i \in R : e[i] = CompareGroup(v, {i}) /\ e[i] \in own /\ h[e[i]] = F[i] /\ e[i].rows = {i}
  <2> SUFFICES ASSUME NEW i \in R PROVE e[i] = CompareGroup(v, {i}) /\ e[i] \in own /\ h[e[i]] = F[i] /\ e[i].rows = {i}
    OBVIOUS
  <2>1. e[i] = CompareGroup(v, {i}) OBVIOUS
  <2> HIDE DEF e, F
  <2>2. e[i] \in E /\ e[i].status = "bill_only" /\ e[i].rows = {i} /\ e[i].bill = F[i] BY <1>1, <1>7, <2>1
  <2>3. e[i] \in own BY <2>2
  <2> QED BY <2>1, <2>2, <2>3
<1>9. ASSUME NEW y \in own PROVE \E i \in R : y = e[i]
  <2>1. y \in E /\ y.status = "bill_only" /\ y.rows \subseteq R OBVIOUS
  <2>2. y \in Billed(v) BY <1>1, <2>1 DEF Absent, CalcOnly
  <2>3. PICK i \in DOMAIN v.rows : y = CompareGroup(v, GroupOf(v, i)) BY <2>2 DEF Billed
  <2>4. y.rows = GroupOf(v, i) BY <2>3, GroupCompared
  <2>5. i \in R BY <2>1, <2>4, Groups
  <2>6. e[i] = CompareGroup(v, {i}) /\ GroupOf(v, i) = {i} BY <1>5, <1>8, <2>5
  <2> QED BY <2>3, <2>5, <2>6
<1>10. ASSUME NEW y \in E PROVE y.child # c
  <2>1. CASE y \in Billed(v)
   <3>1. PICK i \in DOMAIN v.rows : y = CompareGroup(v, GroupOf(v, i)) BY <2>1 DEF Billed
   <3>2. y.child = ChildOf(v, i) BY <1>1, <3>1, GroupsFigures
   <3> QED BY <1>6, <3>2
  <2>2. CASE y \in Absent(v)
   <3>1. PICK d \in v.active : y = CalcOnly(v, d) BY <2>2 DEF Absent
   <3>2. y.child = d BY <3>1 DEF CalcOnly
   <3> QED BY <1>1, <3>1, <3>2
  <2> QED BY <1>1, <2>1, <2>2
<1>11. SumFunction(h) = SumFunctionOnSet(h, own) BY DEF SumFunction
<1> HIDE DEF own, e, F, h
<1>12. Image(e, R, own) BY <1>8, <1>9 DEF Image
<1>13. Renamed(F, R, e, h) BY <1>8 DEF Renamed
<1>14. Summands(F, R) /\ HistoryOf(t, c, m).bill = SumFunctionOnSet(F, R) BY HistoryPaid DEF F, R
<1>15. SumFunctionOnSet(h, own) = SumFunctionOnSet(F, R) BY <1>12, <1>13, <1>14, SumRenamed
<1> QED BY <1>10, <1>11, <1>14, <1>15 DEF h, own, E, R

\* The history of each child is compared as the bill is.
LEMMA HistoryCompared ==
  ASSUME NEW t, Tabled(t), NEW m \in BilledMonths(t), NEW v, Shot(v, t, m),
         NEW history, \A c \in Children : history[c] = ChildBillingHistory(t, c)
  PROVE  HistoryIsCompared(history, ComparePeriod(v))
<1> DEFINE
  E == ComparePeriod(v).entries
  Agree(x, y) == x.status = y.status /\ x.bill = y.bill /\ x.calc = y.calc
                 /\ x.correction = y.correction /\ x.properties = y.properties
  Own(x) == {y \in E : y.status = "bill_only" /\ y.rows \subseteq x.rows}
<1>1. ComparePeriod(v).month = m BY DEF ComparePeriod, Shot
<1>2. ASSUME NEW c \in Children, NEW x \in history[c], x.month = m
  PROVE  IF x.status = "no_contract"
         THEN x.bill = SumFunction([y \in Own(x) |-> y.bill]) /\ \A y \in E : y.child # c
         ELSE \E y \in E : y.child = c /\ Agree(x, y)
  <2>1. m \in ListedMonths(t, c) /\ x = HistoryOf(t, c, m)
   <3>1. x \in {HistoryOf(t, c, n) : n \in ListedMonths(t, c)} BY <1>2, HistoryIs
   <3>2. PICK n \in ListedMonths(t, c) : x = HistoryOf(t, c, n) BY <3>1
   <3>3. x.month = n BY <3>2, HistoryFields
   <3> QED BY <1>2, <3>2, <3>3
  <2> DEFINE comp == ChildFigures(t, c, m)
  <2>2. /\ x.status = IF ContractAt(t, c, m) = NoRow THEN "no_contract" ELSE comp.status
        /\ x.bill = comp.bill /\ x.correction = comp.correction /\ x.calc = comp.calc
        /\ x.properties = comp.properties /\ x.rows = RowsOf(t, c, m) BY <2>1, HistoryFields
  <2>3. comp.status # "no_contract" BY <2>1, HistoryPaid, FiguresCases
  <2>4. CASE ContractAt(t, c, m) = NoRow
   <3>1. /\ HistoryOf(t, c, m).bill
              = SumFunction([y \in {y \in E : y.status = "bill_only" /\ y.rows \subseteq RowsOf(t, c, m)} |-> y.bill])
         /\ \A y \in E : y.child # c BY <2>1, <2>4, UncontractedCompared
   <3> HIDE DEF E
   <3> QED BY <2>1, <2>2, <2>4, <3>1
  <2>5. CASE ContractAt(t, c, m) # NoRow
   <3>1. PICK i \in DOMAIN v.rows : CompareGroup(v, GroupOf(v, i)).child = c
     /\ FiguresOf(v, GroupOf(v, i)) = comp BY <2>1, <2>5, ContractCompared
   <3> DEFINE y == CompareGroup(v, GroupOf(v, i))
   <3>2. /\ y.status = comp.status /\ y.bill = comp.bill /\ y.correction = comp.correction
         /\ y.calc = comp.calc /\ y.properties = comp.properties BY <3>1, GroupCompared
   <3>3. y \in E BY ShotRows DEF Billed
   <3>4. y.child = c BY <3>1
   <3> HIDE DEF y, comp, E
   <3>5. Agree(x, y) BY <2>2, <2>5, <3>2
   <3> QED BY <2>2, <2>3, <2>5, <3>3, <3>4, <3>5
  <2> QED BY <2>4, <2>5
<1> QED BY <1>1, <1>2 DEF HistoryIsCompared

\* The reports computed from the tables of one moment.
LEMMA ReportsOfMoment ==
  ASSUME NEW t, Tabled(t), NEW V, \A m \in BilledMonths(t) : Shot(V[m], t, m),
         NEW l, l.comparisons = {ComparePeriod(V[m]) : m \in BilledMonths(t)},
         \A c \in Children : l.history[c] = ChildBillingHistory(t, c) /\ l.summary[c] = ChildrenBillingSummary(t, c),
         l.attributed = AttributedTotals(t, 1, LastMonth) PROVE Agreed(l)
<1>1. ASSUME NEW comparison \in l.comparisons PROVE HistoryIsCompared(l.history, comparison)
  <2>1. PICK m \in BilledMonths(t) : comparison = ComparePeriod(V[m]) BY <1>1
  <2> QED BY <2>1, HistoryCompared
<1>2. \A c \in Children : TotalsAreHistory(l.history[c], l.summary[c]) BY TotalsHold
<1>3. SumFunction([x \in l.comparisons |-> x.correction]) = SumFunctionOnSet(l.attributed, Months)
  <2> DEFINE S == l.comparisons
  <2>1. S = {ComparePeriod(V[m]) : m \in BilledMonths(t)} OBVIOUS
  <2> HIDE DEF S
  <2>2. SumFunction([x \in S |-> x.correction]) = SumFunctionOnSet(AttributedTotals(t, 1, LastMonth), Months)
    BY <2>1, ComparisonsCorrections
  <2> QED BY <2>2 DEF S
<1> QED BY <1>1, <1>2, <1>3 DEF Agreed
----------------------------------------
(* Step promotions. *)

\* Dividing by a positive number, and rounding half away from zero.
LEMMA RoundedFacts ==
  ASSUME NEW a \in Int, NEW b \in Nat \ {0} PROVE Rounded(a, b) \in Int
<1> DEFINE up(n) == (2 * n + b) \div (2 * b)
<1>1. \A n \in Nat : up(n) \in Int OBVIOUS
<1>2. Abs(a) \in Nat BY DEF Abs
<1> HIDE DEF up
<1>3. up(Abs(a)) \in Int BY <1>1, <1>2
<1> QED BY <1>3 DEF Rounded, up

\* A rounded ten-thousandth is off by half at most.
LEMMA RoundedClose ==
  ASSUME NEW a \in Int
  PROVE  /\ Rounded(a, 10000) \in Int
         /\ 20000 * Rounded(a, 10000) - 2 * a <= 10000
         /\ 2 * a - 20000 * Rounded(a, 10000) <= 10000
<1>1. \A n \in Nat : LET up == (2 * n + 10000) \div (2 * 10000)
  IN  up \in Int /\ 20000 * up - 2 * n <= 10000 /\ 2 * n - 20000 * up <= 10000 OBVIOUS
<1>2. CASE a >= 0 BY <1>1 DEF Abs, Rounded
<1>3. CASE a < 0 BY <1>1 DEF Abs, Rounded
<1> QED BY <1>2, <1>3

\* The employer's share of a rise, and the rise of the employer's share, are within a cent.
LEMMA SharesClose ==
  ASSUME NEW g \in Int, NEW h \in Int, NEW rate \in Int
  PROVE  LET share(x) == Rounded(x * rate, 10000)
             off == share(h) - share(g) - share(h - g)
         IN  share(h) \in Int /\ share(g) \in Int /\ share(h - g) \in Int /\ off <= 1 /\ -1 <= off
<1>1. PICK a, b \in Int : a = g * rate /\ b = h * rate OBVIOUS
<1>2. (h - g) * rate = b - a BY <1>1
<1>3. /\ Rounded(a, 10000) \in Int /\ 20000 * Rounded(a, 10000) - 2 * a <= 10000 /\ 2 * a - 20000 * Rounded(a, 10000) <= 10000
      /\ Rounded(b, 10000) \in Int /\ 20000 * Rounded(b, 10000) - 2 * b <= 10000 /\ 2 * b - 20000 * Rounded(b, 10000) <= 10000
  BY RoundedClose
<1>4. /\ Rounded(b - a, 10000) \in Int /\ 20000 * Rounded(b - a, 10000) - 2 * (b - a) <= 10000
      /\ 2 * (b - a) - 20000 * Rounded(b - a, 10000) <= 10000 BY RoundedClose
<1>5. \A x, y, z \in Int : /\ 20000 * x - 2 * a <= 10000 /\ 2 * a - 20000 * x <= 10000
                           /\ 20000 * y - 2 * b <= 10000 /\ 2 * b - 20000 * y <= 10000
                           /\ 20000 * z - 2 * (b - a) <= 10000 /\ 2 * (b - a) - 20000 * z <= 10000
                           => y - x - z <= 1 /\ -1 <= y - x - z OBVIOUS
<1>6. Rounded(b, 10000) - Rounded(a, 10000) - Rounded(b - a, 10000) <= 1
  /\ -1 <= Rounded(b, 10000) - Rounded(a, 10000) - Rounded(b - a, 10000) BY <1>3, <1>4, <1>5
<1> QED BY <1>1, <1>2, <1>3, <1>4, <1>6

\* Which contract is picked.
LEMMA PickFacts ==
  ASSUME NEW rows, Spans(rows), NEW m \in Int
  PROVE  /\ \A k \in rows : ActiveOn(k, m) => PickActive(rows, m) = k
         /\ PickActive(rows, m) # NoRow => PickActive(rows, m) \in rows /\ ActiveOn(PickActive(rows, m), m)
<1> DEFINE active == {c \in rows : ActiveOn(c, m)}
<1>1. \A j, k \in active : j = k BY DEF Spans, OneAtATime, NeverBoth, ActiveOn
<1>2. PickActive(rows, m) = IF active = {} THEN NoRow
                            ELSE CHOOSE c \in active : \A d \in active : d.from < c.from \/ (d.from = c.from /\ d.id <= c.id)
  BY DEF PickActive
<1>3. ASSUME NEW k \in active PROVE PickActive(rows, m) = k
  <2>1. \A d \in active : d.from < k.from \/ (d.from = k.from /\ d.id <= k.id) BY <1>1, <1>3 DEF Spans
  <2> HIDE DEF active
  <2> QED BY <1>1, <1>2, <1>3, <2>1
<1> QED BY <1>2, <1>3

\* The period of a contract's plan.
LEMMA PlanFound ==
  ASSUME NEW d, PayPlans(d.plans), NEW k, NEW m, PayPlanPeriod(d, k, m) # NoRow
  PROVE  PayPeriod(PayPlanPeriod(d, k, m))
<1> DEFINE plan == d.plans[k.plan]
<1>1. k.plan \in DOMAIN d.plans /\ PayPlanPeriod(d, k, m) = FindPeriodForDate(plan, m) BY DEF PayPlanPeriod
<1>2. plan \in Seq(ToSet(plan)) /\ \A period \in ToSet(plan) : PayPeriod(period) BY <1>1 DEF PayPlans
<1> HIDE DEF plan
<1>3. DOMAIN plan = 1..Len(plan) /\ Len(plan) \in Nat /\ \A i \in DOMAIN plan : plan[i] \in ToSet(plan)
  BY <1>2 DEF ToSet
<1>4. Dated(plan) BY <1>3, FS_Interval, <1>2 DEF Dated, PayPeriod
<1>5. PICK i \in DOMAIN plan : FindPeriodForDate(plan, m) = plan[i] BY <1>1, <1>4, DatedFound
<1> QED BY <1>1, <1>2, <1>3, <1>5

\* The step that is due is a step of the plan, or none.
LEMMA EligibleFacts ==
  ASSUME NEW period, PayPeriod(period), NEW grade, NEW start, NEW m
  PROVE  LET s == DetermineEligibleStep(period.entries, grade, start, m)
         IN  s \in Nat /\ (s # 0 => <<grade, s>> \in DOMAIN period.entries)
<1> DEFINE
  X == {x \in DOMAIN period.entries : x[1] = grade /\ period.entries[x].years # NoRow
                                       /\ YearsServed(start, m, period.entries[x].years)}
  step == [x \in X |-> x[2]]
  steps == {x[2] : x \in X}
  T == {0} \cup steps
<1>1. DetermineEligibleStep(period.entries, grade, start, m) = Max(T) BY DEF DetermineEligibleStep
<1>2. \A x \in X : x \in STRING \X Nat /\ x \in DOMAIN period.entries /\ x = <<grade, x[2]>> BY DEF PayPeriod
<1>3. IsFiniteSet(T)
  <2>1. Image(step, X, steps) /\ IsFiniteSet(X) BY FS_Subset DEF Image, PayPeriod
  <2>2. IsFiniteSet(steps) /\ IsFiniteSet({0}) BY <2>1, FiniteImage, FS_Singleton
  <2> QED BY <2>2, FS_Union
<1>4. T \subseteq Nat /\ T # {} /\ \A n \in T : n # 0 => <<grade, n>> \in DOMAIN period.entries BY <1>2
<1> HIDE DEF T
<1>5. Max(T) \in T
  <2>1. T \subseteq Int BY <1>4
  <2> QED BY <1>3, <1>4, <2>1, MaxFact
<1> QED BY <1>1, <1>4, <1>5

\* What an employee costs in a month.
LEMMA CostFacts ==
  ASSUME NEW d, PayPlans(d.plans), NEW k \in StaffContracts, NEW m
  PROVE  LET period == PayPlanPeriod(d, k, m)
             cost == EmployeeMonthlyCost(d, k, m)
         IN  /\ cost # NoRow => cost = [gross |-> cost.gross, employer |-> cost.employer]
                                /\ cost.gross \in Int /\ cost.employer \in Int
             /\ period = NoRow => cost = NoRow
             /\ period # NoRow => (cost # NoRow <=> <<k.grade, k.step>> \in DOMAIN period.entries)
             /\ cost # NoRow => /\ period # NoRow /\ cost.gross = Gross(period, k, k.step)
                                /\ cost.employer = Rounded(cost.gross * period.rate, 10000)
<1> DEFINE
  period == PayPlanPeriod(d, k, m)
  cost == EmployeeMonthlyCost(d, k, m)
  gross == Gross(period, k, k.step)
<1>1. cost = IF period = NoRow \/ <<k.grade, k.step>> \notin DOMAIN period.entries THEN NoRow
             ELSE [gross |-> gross, employer |-> Contribution(period, gross)] BY DEF EmployeeMonthlyCost
<1>2. CASE period # NoRow /\ <<k.grade, k.step>> \in DOMAIN period.entries
  <2>1. PayPeriod(period) BY <1>2, PlanFound
  <2> HIDE DEF period
  <2>2. gross \in Int
   <3>1. gross = Rounded(period.entries[<<k.grade, k.step>>].amount * k.hours, period.hours) BY DEF Gross
   <3>2. period.entries[<<k.grade, k.step>>].amount \in Int /\ k.hours \in Int /\ period.hours \in Nat \ {0}
     BY <1>2, <2>1 DEF PayPeriod, StaffContracts
   <3>3. period.entries[<<k.grade, k.step>>].amount * k.hours \in Int BY <3>2
   <3> QED BY <3>1, <3>2, <3>3, RoundedFacts
  <2>3. Contribution(period, gross) = Rounded(gross * period.rate, 10000) BY DEF Contribution
  <2>4. Contribution(period, gross) \in Int
   <3>1. gross * period.rate \in Int BY <2>1, <2>2 DEF PayPeriod
   <3> QED BY <2>3, <3>1, RoundedClose
  <2> HIDE DEF gross, cost
  <2>5. cost = [gross |-> gross, employer |-> Contribution(period, gross)] BY <1>1, <1>2
  <2>6. cost \in MonthlyCosts BY <2>2, <2>4, <2>5 DEF MonthlyCosts
  <2>7. cost # NoRow BY <2>6, ReportSentinels
  <2> QED BY <1>2, <2>2, <2>3, <2>4, <2>5, <2>7 DEF gross, cost, period
<1>3. CASE ~(period # NoRow /\ <<k.grade, k.step>> \in DOMAIN period.entries)
  <2>1. cost = NoRow BY <1>1, <1>3
  <2> QED BY <1>3, <2>1
<1> QED BY <1>2, <1>3

\* Who is due.
LEMMA DueAre ==
  ASSUME NEW d, NEW m PROVE GetStepPromotions(d, m) = {PromotionOf(d, e, m) : e \in Raises(d, m)}
<1> DEFINE
  priced == {e \in Present(d.staff, m) : PayPlanPeriod(d, Contract(e, m), m) # NoRow}
  Promotion(e) ==
    IF Eligible(d, e, m) <= Contract(e, m).step THEN {} ELSE {PromotionOf(d, e, m)}
<1>1. GetStepPromotions(d, m) = UNION {Promotion(e) : e \in priced} BY DEF GetStepPromotions, Eligible, PromotionOf
<1>2. Raises(d, m) = {e \in priced : ~(Eligible(d, e, m) <= Contract(e, m).step)} BY DEF Raises
<1> HIDE DEF priced
<1> QED BY <1>1, <1>2

\* Who has which contract.
LEMMA StaffSpans ==
  ASSUME NEW d, Staffed(d), NEW e \in d.staff, NEW m \in Int
  PROVE  /\ Spans(e.contracts)
         /\ Contract(e, m) # NoRow => Contract(e, m) \in e.contracts /\ Contract(e, m) \in StaffContracts
<1>1. Spans(e.contracts)
  <2>1. e.contracts \subseteq StaffContracts /\ OneAtATime(e.contracts) BY DEF Staffed, Employed
  <2>2. \A k \in e.contracts : k.from \in Int /\ k.to \in Int /\ k.id \in Nat BY <2>1 DEF StaffContracts
  <2>3. NoRow \notin e.contracts BY <2>1, ReportSentinels
  <2> QED BY <2>1, <2>2, <2>3 DEF Spans
<1> QED BY <1>1, PickFacts DEF Contract, Staffed, Employed

\* The staff with the promotions granted.
LEMMA AfterAre ==
  ASSUME NEW d, Staffed(d), NEW m
  PROVE  /\ AfterPromotions(d, m).plans = d.plans
         /\ AfterPromotions(d, m).staff = {AfterOf(d, e, m) : e \in d.staff}
<1> DEFINE
  due == GetStepPromotions(d, m)
  Raised(e) == {IF c = Contract(e, m) THEN [c EXCEPT !.step = (CHOOSE p \in due : p.id = e.id).step] ELSE c
                   : c \in e.contracts}
  After(e) == IF \E p \in due : p.id = e.id THEN [e EXCEPT !.contracts = Raised(e)] ELSE e
<1>1. AfterPromotions(d, m) = [d EXCEPT !.staff = {After(e) : e \in d.staff}] BY DEF AfterPromotions
<1>2. Raises(d, m) \subseteq d.staff BY DEF Raises, Present
<1>3. \A e, f \in d.staff : e.id = f.id => e = f BY DEF Staffed, Employed
<1>4. due = {PromotionOf(d, e, m) : e \in Raises(d, m)} BY DueAre
<1>5. \A e \in Raises(d, m) : PromotionOf(d, e, m).id = e.id /\ PromotionOf(d, e, m).step = Eligible(d, e, m)
  BY DEF PromotionOf
<1> HIDE DEF due
<1>6. ASSUME NEW e \in d.staff PROVE After(e) = AfterOf(d, e, m)
  <2>1. (\E p \in due : p.id = e.id) <=> e \in Raises(d, m) BY <1>2, <1>3, <1>4, <1>5
  <2>2. CASE e \in Raises(d, m)
   <3>1. \A p \in due : p.id = e.id => p = PromotionOf(d, e, m) BY <1>2, <1>3, <1>4, <1>5
   <3>2. (CHOOSE p \in due : p.id = e.id) = PromotionOf(d, e, m) BY <2>1, <2>2, <3>1
   <3>3. Raised(e) = {RaisedContract(d, e, m, c) : c \in e.contracts} BY <1>5, <2>2, <3>2 DEF RaisedContract
   <3> HIDE DEF Raised
   <3> QED BY <2>1, <2>2, <3>3 DEF AfterOf
  <2>3. CASE e \notin Raises(d, m) BY <2>1, <2>3 DEF AfterOf
  <2> QED BY <2>2, <2>3
<1> HIDE DEF After
<1>7. {After(e) : e \in d.staff} = {AfterOf(d, e, m) : e \in d.staff} BY <1>6
<1> QED BY <1>1, <1>7 DEF Staffed

\* A promotion changes the step of the contract of the month, and nothing else.
LEMMA RaisedFacts ==
  ASSUME NEW d, Staffed(d), NEW m \in Int, NEW e \in Raises(d, m)
  PROVE  Granted(d, e, m, Contract(e, m), Eligible(d, e, m), AfterOf(d, e, m))
<1> DEFINE
  k == Contract(e, m)
  s == Eligible(d, e, m)
  f == AfterOf(d, e, m)
  period == PayPlanPeriod(d, k, m)
  R(c) == RaisedContract(d, e, m, c)
<1>1. e \in d.staff /\ k # NoRow /\ period # NoRow /\ ~(s <= k.step) BY DEF Raises, Present, Contract
<1>2. k \in StaffContracts /\ k \in e.contracts /\ Spans(e.contracts) /\ e.contracts \subseteq StaffContracts
  BY <1>1, StaffSpans DEF Staffed, Employed
<1>3. PayPeriod(period) BY <1>1, PlanFound DEF Staffed
<1>4. s \in Nat /\ (s # 0 => <<k.grade, s>> \in DOMAIN period.entries)
  <2> HIDE DEF period, k
  <2> QED BY <1>3, EligibleFacts DEF Eligible, period, k
<1>5. k.step \in Nat /\ k.step < s /\ s # 0 BY <1>1, <1>2, <1>4 DEF StaffContracts
<1>6. f = [e EXCEPT !.contracts = {R(c) : c \in e.contracts}] BY DEF AfterOf
<1>7. e = [id |-> e.id, contracts |-> e.contracts] BY <1>1 DEF Staffed, Employed
<1>8. f.id = e.id /\ f.contracts = {R(c) : c \in e.contracts}
  <2> HIDE DEF R, f
  <2> QED BY <1>6, <1>7
<1>9. /\ R(k) = [k EXCEPT !.step = s] /\ \A c \in e.contracts : c # k => R(c) = c
      /\ \A c \in e.contracts : R(c).from = c.from /\ R(c).to = c.to /\ R(c).id = c.id /\ R(c) \in StaffContracts
  BY <1>2, <1>4 DEF StaffContracts, RaisedContract
<1> HIDE DEF R, f, s, period
<1>10. Spans(f.contracts)
  <2>1. IsFiniteSet(f.contracts)
   <3> DEFINE g == [c \in e.contracts |-> R(c)]
   <3>1. Image(g, e.contracts, f.contracts) BY <1>8 DEF Image
   <3> QED BY <1>2, <3>1, FiniteImage DEF Spans, OneAtATime
  <2>2. NoRow \notin f.contracts BY <1>8, <1>9, ReportSentinels
  <2>3. \A x \in f.contracts : x.from \in Int /\ x.to \in Int /\ x.id \in Nat BY <1>2, <1>8, <1>9 DEF Spans
  <2>4. \A i, j \in f.contracts : i # j => i.id # j.id /\ (i.to < j.from \/ j.to < i.from)
   <3> SUFFICES ASSUME NEW a \in e.contracts, NEW b \in e.contracts, R(a) # R(b)
     PROVE  R(a).id # R(b).id /\ (R(a).to < R(b).from \/ R(b).to < R(a).from) BY <1>8
   <3> QED BY <1>2, <1>9 DEF Spans, OneAtATime, NeverBoth
  <2> QED BY <2>1, <2>2, <2>3, <2>4 DEF Spans, OneAtATime, NeverBoth
<1>11. Contract(f, m) = R(k) BY <1>1, <1>2, PickFacts, <1>8, <1>9, <1>10 DEF Contract, ActiveOn
<1>12. ServiceStart(f) = ServiceStart(e)
  <2>1. {c.from : c \in f.contracts} = {c.from : c \in e.contracts} BY <1>8, <1>9
  <2> QED BY <2>1 DEF ServiceStart
<1> QED BY <1>2, <1>3, <1>4, <1>5, <1>8, <1>9, <1>11, <1>12 DEF f, s, period, Granted

\* The expenses are those of the employees.
LEMMA ExpensesAre ==
  ASSUME NEW d, NEW m, IsFiniteSet(d.staff), \A e \in d.staff : Costed(d, e, m)
  PROVE  LET f == CalculateFinancials(d, m)
             gross == [e \in d.staff |-> GrossOf(d, e, m)]
             employer == [e \in d.staff |-> EmployerOf(d, e, m)]
         IN  /\ Summands(gross, d.staff) /\ f.grossSalary = SumFunctionOnSet(gross, d.staff)
             /\ Summands(employer, d.staff) /\ f.employerCosts = SumFunctionOnSet(employer, d.staff)
             /\ f.staffCount = Cardinality(Present(d.staff, m))
<1> DEFINE
  f == CalculateFinancials(d, m)
  gross == [e \in d.staff |-> GrossOf(d, e, m)]
  employer == [e \in d.staff |-> EmployerOf(d, e, m)]
  present == Present(d.staff, m)
  costs == [e \in present |-> CostOf(d, e, m)]
  paid == {e \in DOMAIN costs : costs[e] # NoRow}
  a == [e \in paid |-> costs[e].gross]
  b == [e \in paid |-> costs[e].employer]
<1>1. f.grossSalary = SumFunction(a) /\ f.employerCosts = SumFunction(b) /\ f.staffCount = Cardinality(DOMAIN costs)
  BY DEF CalculateFinancials, CostOf
<1>2. paid \in SUBSET d.staff /\ DOMAIN costs = present /\ \A e \in d.staff : e \in paid <=> IsPaid(d, e, m)
  BY DEF Present, IsPaid, Contract
<1>3. \A e \in paid : a[e] = gross[e] /\ b[e] = employer[e] BY <1>2 DEF GrossOf, EmployerOf
<1>4. \A e \in d.staff \ paid : gross[e] = 0 /\ employer[e] = 0 BY <1>2 DEF GrossOf, EmployerOf
<1>5. Summands(gross, d.staff) /\ Summands(employer, d.staff) BY DEF Summands, Costed
<1>6. DOMAIN a = paid /\ DOMAIN b = paid OBVIOUS
<1> HIDE DEF f, gross, employer, present, costs, paid, a, b
<1>7. Summands(gross, paid) /\ SumFunctionOnSet(gross, d.staff) = SumFunctionOnSet(gross, paid)
  BY <1>2, <1>4, <1>5, SumDrop
<1>8. Summands(employer, paid) /\ SumFunctionOnSet(employer, d.staff) = SumFunctionOnSet(employer, paid)
  BY <1>2, <1>4, <1>5, SumDrop
<1>9. SumFunctionOnSet(a, paid) = SumFunctionOnSet(gross, paid) /\ SumFunctionOnSet(b, paid) = SumFunctionOnSet(employer, paid)
  BY <1>3, <1>7, <1>8, SumSame
<1>10. SumFunction(a) = SumFunctionOnSet(gross, d.staff) /\ SumFunction(b) = SumFunctionOnSet(employer, d.staff)
  BY <1>6, <1>7, <1>8, <1>9 DEF SumFunction
<1> QED BY <1>1, <1>2, <1>5, <1>10 DEF f, gross, employer, present

\* An employee who is paid, or not.
LEMMA CostedFacts ==
  ASSUME NEW d, PayPlans(d.plans), NEW e, NEW m, Hired(e, m)
  PROVE  /\ Costed(d, e, m)
         /\ IsPaid(d, e, m) => PaidAs(d, e, m, Contract(e, m), PayPlanPeriod(d, Contract(e, m), m))
<1>1. CASE IsPaid(d, e, m) BY <1>1, CostFacts DEF IsPaid, CostOf, GrossOf, EmployerOf, Costed, PaidAs, Hired
<1>2. CASE ~IsPaid(d, e, m) BY <1>2 DEF GrossOf, EmployerOf, Costed
<1> QED BY <1>1, <1>2

\* What a promotion adds to the expenses is what is announced, within a cent.
LEMMA RaiseCosts ==
  ASSUME NEW d, Staffed(d), NEW m \in Int, NEW f, f.plans = d.plans, NEW e \in Raises(d, m)
  PROVE  LET x == AfterOf(d, e, m)
             delta == PromotionOf(d, e, m).delta
             off == GrossOf(f, x, m) + EmployerOf(f, x, m) - GrossOf(d, e, m) - EmployerOf(d, e, m) - delta
         IN  Costed(d, e, m) /\ Costed(f, x, m) /\ delta \in Int /\ off <= 1 /\ -1 <= off
<1> DEFINE
  k == Contract(e, m)
  s == Eligible(d, e, m)
  x == AfterOf(d, e, m)
  j == Contract(x, m)
  period == PayPlanPeriod(d, k, m)
  g == GrossOf(d, e, m)
  h == GrossOf(f, x, m)
  share(n) == Rounded(n * period.rate, 10000)
<1>1. /\ k \in StaffContracts /\ k \in e.contracts /\ PayPeriod(period) /\ s \in Nat
      /\ <<k.grade, s>> \in DOMAIN period.entries /\ j = [k EXCEPT !.step = s] BY RaisedFacts DEF Granted
<1>2. k # NoRow /\ period # NoRow BY DEF Raises, Present, Contract
<1> HIDE DEF s, x
<1>3. j \in StaffContracts /\ j.step = s /\ j.grade = k.grade /\ j.plan = k.plan /\ j.hours = k.hours /\ j # NoRow
  <2>1. j \in StaffContracts /\ j.step = s /\ j.grade = k.grade /\ j.plan = k.plan /\ j.hours = k.hours
   <3> HIDE DEF k, j
   <3> QED BY <1>1 DEF StaffContracts
  <2> QED BY <2>1, ReportSentinels
<1>4. PayPlanPeriod(f, j, m) = period BY <1>3 DEF PayPlanPeriod
<1>5. PayPlans(d.plans) /\ PayPlans(f.plans) BY DEF Staffed
<1> HIDE DEF k, j, period
<1>6. IsPaid(f, x, m) BY <1>1, <1>2, <1>3, <1>4, <1>5, CostFacts DEF IsPaid, CostOf, j
<1>7. Costed(d, e, m) /\ Costed(f, x, m) BY <1>1, <1>3, <1>5, CostedFacts DEF k, j, Hired
<1>8. h = Gross(period, k, s) /\ h \in Int /\ EmployerOf(f, x, m) = share(h)
  <2>1. h = Gross(PayPlanPeriod(f, j, m), j, j.step) /\ EmployerOf(f, x, m) = Rounded(h * PayPlanPeriod(f, j, m).rate, 10000)
   <3>1. Hired(x, m) BY <1>3 DEF j, Hired
   <3>2. PaidAs(f, x, m, j, PayPlanPeriod(f, j, m)) BY <1>5, <1>6, <3>1, CostedFacts DEF j
   <3> QED BY <3>2 DEF PaidAs
  <2>2. Gross(period, j, j.step) = Gross(period, k, s) BY <1>3 DEF Gross
  <2> QED BY <1>4, <1>7, <2>1, <2>2 DEF Costed
<1>9. /\ g \in Int /\ EmployerOf(d, e, m) = share(g)
      /\ SalaryDelta(period, k, s) = h - g
  <2>1. CASE IsPaid(d, e, m)
   <3>1. Hired(e, m) BY <1>1 DEF k, Hired
   <3>2. PaidAs(d, e, m, k, period) BY <1>5, <2>1, <3>1, CostedFacts DEF k, period
   <3>3. /\ <<k.grade, k.step>> \in DOMAIN period.entries /\ g = Gross(period, k, k.step)
         /\ EmployerOf(d, e, m) = share(g) BY <3>2 DEF PaidAs
   <3> QED BY <1>7, <1>8, <3>3 DEF SalaryDelta, Costed
  <2>2. CASE ~IsPaid(d, e, m)
   <3>1. EmployeeMonthlyCost(d, k, m) = NoRow BY <1>2, <2>2 DEF IsPaid, CostOf, k
   <3>2. <<k.grade, k.step>> \notin DOMAIN period.entries BY <1>1, <1>2, <1>5, <3>1, CostFacts DEF period
   <3>3. g = 0 /\ EmployerOf(d, e, m) = 0 BY <2>2 DEF GrossOf, EmployerOf
   <3>4. Rounded(0, 10000) = 0 BY DEF Rounded, Abs
   <3>5. 0 * period.rate = 0 BY <1>1 DEF PayPeriod
   <3> QED BY <1>8, <3>2, <3>3, <3>4, <3>5 DEF SalaryDelta
  <2> QED BY <2>1, <2>2
<1>10. PromotionOf(d, e, m).delta = (h - g) + share(h - g)
  BY <1>9 DEF PromotionOf, period, k, s, MonthlyCostDelta, Contribution
<1>11. share(h) \in Int /\ share(g) \in Int /\ share(h - g) \in Int
       /\ share(h) - share(g) - share(h - g) <= 1 /\ -1 <= share(h) - share(g) - share(h - g)
  <2>1. period.rate \in Int BY <1>1 DEF PayPeriod
  <2>2. \A r \in Int : LET by(n) == Rounded(n * r, 10000)
    IN  by(h) \in Int /\ by(g) \in Int /\ by(h - g) \in Int
        /\ by(h) - by(g) - by(h - g) <= 1 /\ -1 <= by(h) - by(g) - by(h - g)
   <3> HIDE DEF g, h
   <3> QED BY <1>8, <1>9, SharesClose
  <2> HIDE DEF g, h
  <2> QED BY <2>1, <2>2
<1> HIDE DEF g, h, share
<1>12. (h - g) + share(h - g) \in Int
       /\ h + share(h) - g - share(g) - ((h - g) + share(h - g)) = share(h) - share(g) - share(h - g)
  BY <1>8, <1>9, <1>11
<1> QED BY <1>7, <1>8, <1>9, <1>10, <1>11, <1>12 DEF g, h, x

\* The others cost what they cost.
LEMMA OthersCost ==
  ASSUME NEW d, Staffed(d), NEW m \in Int, NEW f, f.plans = d.plans, NEW e \in d.staff
  PROVE  /\ Costed(d, e, m) /\ GrossOf(f, e, m) = GrossOf(d, e, m) /\ EmployerOf(f, e, m) = EmployerOf(d, e, m)
<1>1. Costed(d, e, m) BY StaffSpans, CostedFacts DEF Staffed, Hired
<1>2. CostOf(f, e, m) = CostOf(d, e, m) BY DEF CostOf, EmployeeMonthlyCost, PayPlanPeriod
<1> QED BY <1>1, <1>2 DEF GrossOf, EmployerOf, IsPaid

\* What is announced is added, no promotion is left, and nobody is hired.
LEMMA PromotionsAre ==
  ASSUME NEW d, Staffed(d), NEW m \in Int
  PROVE  LET promoted == Promoted(d, m)
             announced == SumFunction([p \in promoted.due |-> p.delta])
             rise == Expenses(promoted.after) - Expenses(promoted.before)
         IN  /\ Abs(rise - announced) <= Cardinality(promoted.due)
             /\ promoted.left = {}
             /\ promoted.after.staffCount = promoted.before.staffCount
<1> DEFINE
  f == AfterPromotions(d, m)
  S == d.staff
  A == Raises(d, m)
  G == [e \in S |-> AfterOf(d, e, m)]
  due == GetStepPromotions(d, m)
  before == CalculateFinancials(d, m)
  after == CalculateFinancials(f, m)
<1>0. Promoted(d, m).due = due /\ Promoted(d, m).left = GetStepPromotions(f, m)
      /\ Promoted(d, m).before = before /\ Promoted(d, m).after = after BY DEF Promoted
<1>1. f.plans = d.plans /\ Image(G, S, f.staff) /\ IsFiniteSet(S) /\ A \subseteq S /\ PayPlans(d.plans)
  <2>1. f.plans = d.plans /\ f.staff = {AfterOf(d, e, m) : e \in S} BY AfterAre
  <2>2. IsFiniteSet(S) /\ PayPlans(d.plans) BY DEF Staffed, Employed
  <2>3. A \subseteq S BY DEF Raises, Present
  <2>4. \A e \in S : G[e] = AfterOf(d, e, m) OBVIOUS
  <2> HIDE DEF f, S, A, G
  <2>5. {G[e] : e \in S} = {AfterOf(d, e, m) : e \in S} BY <2>4
  <2> QED BY <2>1, <2>2, <2>3, <2>5 DEF Image
<1>2. /\ \A e \in S \ A : G[e] = e
      /\ \A e \in A : G[e].id = e.id
      /\ \A x, y \in S : x.id = y.id => x = y BY <1>1, RaisedFacts DEF Granted, AfterOf, Staffed, Employed
<1>3. \A x, y \in S : G[x] = G[y] => x = y BY <1>2
<1>4. \A e \in S : Contract(G[e], m) # NoRow <=> Contract(e, m) # NoRow
  <2>1. ASSUME NEW e \in A PROVE Contract(G[e], m) # NoRow /\ Contract(e, m) # NoRow
   <3> DEFINE
     k == Contract(e, m)
     s == Eligible(d, e, m)
   <3>1. k \in StaffContracts /\ s \in Nat /\ Contract(G[e], m) = [k EXCEPT !.step = s]
     BY <1>1, RaisedFacts DEF Granted
   <3> HIDE DEF k, s
   <3>2. [k EXCEPT !.step = s] \in StaffContracts BY <3>1 DEF StaffContracts
   <3> QED BY <3>1, <3>2, ReportSentinels DEF k
  <2> QED BY <1>2, <2>1
<1>granted. ASSUME NEW e \in A
  PROVE  /\ Contract(e, m) \in StaffContracts /\ Eligible(d, e, m) \in Nat
         /\ Contract(AfterOf(d, e, m), m) = [Contract(e, m) EXCEPT !.step = Eligible(d, e, m)]
         /\ ServiceStart(AfterOf(d, e, m)) = ServiceStart(e)
  <2>1. Granted(d, e, m, Contract(e, m), Eligible(d, e, m), AfterOf(d, e, m)) BY RaisedFacts
  <2> QED BY <2>1 DEF Granted
<1> HIDE DEF G, f
<1>5. ASSUME NEW e \in S PROVE G[e] \notin Raises(f, m)
  <2>1. CASE e \in A
   <3> DEFINE
     k == Contract(e, m)
     s == Eligible(d, e, m)
     j == Contract(G[e], m)
   <3>1. k \in StaffContracts /\ s \in Nat /\ j = [k EXCEPT !.step = s] /\ ServiceStart(G[e]) = ServiceStart(e)
     BY <2>1, <1>granted DEF G
   <3> HIDE DEF s
   <3>2. j.step = s /\ j.grade = k.grade /\ j.plan = k.plan
    <4> HIDE DEF k, j
    <4> QED BY <3>1 DEF StaffContracts
   <3>3. PayPlanPeriod(f, j, m) = PayPlanPeriod(d, k, m) BY <1>1, <3>2 DEF PayPlanPeriod
   <3>4. Eligible(f, G[e], m) = s BY <3>1, <3>2, <3>3 DEF Eligible, s
   <3> HIDE DEF j
   <3>5. Eligible(f, G[e], m) <= Contract(G[e], m).step BY <3>1, <3>2, <3>4 DEF j
   <3> QED BY <3>5 DEF Raises
  <2>2. CASE e \notin A
   <3>1. G[e] = e /\ \A k : PayPlanPeriod(f, k, m) = PayPlanPeriod(d, k, m) BY <1>1, <1>2, <2>2 DEF PayPlanPeriod
   <3>2. Eligible(f, e, m) = Eligible(d, e, m) BY <3>1 DEF Eligible
   <3> QED BY <2>2, <3>1, <3>2 DEF Raises, Present, Contract
  <2> QED BY <2>1, <2>2
<1>6. GetStepPromotions(f, m) = {} BY <1>1, <1>5, DueAre DEF Raises, Present, Image
<1> DEFINE
  a == [e \in S |-> GrossOf(d, e, m)]
  b == [e \in S |-> EmployerOf(d, e, m)]
  u == [e \in S |-> GrossOf(f, G[e], m)]
  v == [e \in S |-> EmployerOf(f, G[e], m)]
  w == [e \in S |-> IF e \in A THEN PromotionOf(d, e, m).delta ELSE 0]
  Uf == [x \in f.staff |-> GrossOf(f, x, m)]
  Vf == [x \in f.staff |-> EmployerOf(f, x, m)]
  off == [e \in S |-> u[e] + v[e] - a[e] - b[e] - w[e]]
<1>7. ASSUME NEW e \in S
  PROVE  /\ Costed(d, e, m) /\ Costed(f, G[e], m)
         /\ a[e] \in Int /\ b[e] \in Int /\ u[e] \in Int /\ v[e] \in Int /\ w[e] \in Int
         /\ e \in A => off[e] <= 1 /\ -1 <= off[e]
         /\ e \notin A => off[e] = 0
  <2>1. CASE e \in A
   <3> DEFINE delta == PromotionOf(d, e, m).delta
   <3>1. /\ Costed(d, e, m) /\ Costed(f, G[e], m) /\ delta \in Int
         /\ GrossOf(f, G[e], m) + EmployerOf(f, G[e], m) - GrossOf(d, e, m) - EmployerOf(d, e, m) - delta <= 1
         /\ -1 <= GrossOf(f, G[e], m) + EmployerOf(f, G[e], m) - GrossOf(d, e, m) - EmployerOf(d, e, m) - delta
     BY <1>1, <2>1, RaiseCosts DEF G
   <3>2. a[e] = GrossOf(d, e, m) /\ b[e] = EmployerOf(d, e, m) /\ u[e] = GrossOf(f, G[e], m)
         /\ v[e] = EmployerOf(f, G[e], m) /\ w[e] = delta /\ off[e] = u[e] + v[e] - a[e] - b[e] - w[e] BY <2>1
   <3> HIDE DEF a, b, u, v, w, off, delta
   <3> QED BY <2>1, <3>1, <3>2 DEF Costed
  <2>2. CASE e \notin A
   <3>1. Costed(d, e, m) /\ GrossOf(f, e, m) = GrossOf(d, e, m) /\ EmployerOf(f, e, m) = EmployerOf(d, e, m) /\ G[e] = e
     BY <1>1, <1>2, <2>2, OthersCost
   <3>2. a[e] = GrossOf(d, e, m) /\ b[e] = EmployerOf(d, e, m) /\ u[e] = GrossOf(f, G[e], m)
         /\ v[e] = EmployerOf(f, G[e], m) /\ w[e] = 0 /\ off[e] = u[e] + v[e] - a[e] - b[e] - w[e] BY <2>2
   <3> HIDE DEF a, b, u, v, w, off
   <3> QED BY <2>2, <3>1, <3>2 DEF Costed
  <2> QED BY <2>1, <2>2
<1>8. IsFiniteSet(f.staff) /\ \A x \in f.staff : Costed(f, x, m)
  <2>1. \A x \in f.staff : \E e \in S : x = G[e] BY <1>1 DEF Image
  <2>2. \A e \in S : Costed(f, G[e], m) BY <1>7
  <2>3. IsFiniteSet(f.staff)
   <3> HIDE DEF S
   <3> QED BY <1>1, FiniteImage
  <2> QED BY <2>1, <2>2, <2>3
<1>9. /\ before.grossSalary = SumFunctionOnSet(a, S) /\ before.employerCosts = SumFunctionOnSet(b, S)
      /\ before.staffCount = Cardinality(Present(S, m)) BY <1>1, <1>7, ExpensesAre
<1>10. /\ after.grossSalary = SumFunctionOnSet(Uf, f.staff) /\ after.employerCosts = SumFunctionOnSet(Vf, f.staff)
       /\ after.staffCount = Cardinality(Present(f.staff, m)) BY <1>8, ExpensesAre
<1>11. SumFunctionOnSet(Uf, f.staff) = SumFunctionOnSet(u, S) /\ SumFunctionOnSet(Vf, f.staff) = SumFunctionOnSet(v, S)
  <2>1. Summands(u, S) /\ Summands(v, S) BY <1>1, <1>7 DEF Summands
  <2>2. Renamed(u, S, G, Uf) /\ Renamed(v, S, G, Vf) BY <1>1, <1>3 DEF Renamed, Image
  <2> HIDE DEF u, v, Uf, Vf
  <2> QED BY <1>1, <2>1, <2>2, SumRenamed
<1>12. before.staffCount = after.staffCount
  <2> DEFINE
    P == Present(S, m)
    Q == Present(f.staff, m)
  <2>1. P \subseteq S /\ IsFiniteSet(P) BY <1>1, FS_Subset DEF Present
  <2>2. Image(G, P, Q) BY <1>1, <1>4 DEF Image, Present, Contract
  <2> HIDE DEF P, Q
  <2>3. Cardinality(Q) = Cardinality(P) BY <1>3, <2>1, <2>2, NamedCount
  <2> QED BY <1>9, <1>10, <2>3 DEF P, Q
<1>13. SumFunction([p \in due |-> p.delta]) = SumFunctionOnSet(w, S) /\ Cardinality(due) = Cardinality(A)
  <2> DEFINE
    D == [p \in due |-> p.delta]
    P == [e \in A |-> PromotionOf(d, e, m)]
  <2>1. Image(P, A, due) BY DueAre DEF Image
  <2>2. \A e \in A : P[e].id = e.id /\ P[e].delta = w[e] /\ P[e] \in due
   <3>1. ASSUME NEW e \in A PROVE P[e] = PromotionOf(d, e, m) /\ P[e].id = e.id /\ P[e].delta = w[e]
     BY <1>1 DEF PromotionOf
   <3>2. due = {PromotionOf(d, e, m) : e \in A} BY DueAre
   <3> QED BY <3>1, <3>2
  <2>3. \A x, y \in A : P[x] = P[y] => x = y
   <3> HIDE DEF P, due, w
   <3> QED BY <1>1, <1>2, <2>2
  <2>4. Summands(w, A) /\ SumFunctionOnSet(w, S) = SumFunctionOnSet(w, A) /\ IsFiniteSet(A)
   <3>1. Summands(w, S) BY <1>1, <1>7 DEF Summands
   <3>2. \A e \in S \ A : w[e] = 0 OBVIOUS
   <3> HIDE DEF w
   <3> QED BY <1>1, <3>1, <3>2, SumDrop, FS_Subset
  <2>5. DOMAIN D = due /\ \A p \in due : D[p] = p.delta OBVIOUS
  <2> HIDE DEF D, P, w, due, A
  <2>6. Renamed(w, A, P, D) BY <2>2, <2>3, <2>5 DEF Renamed
  <2>7. SumFunctionOnSet(D, due) = SumFunctionOnSet(w, A) BY <2>1, <2>4, <2>6, SumRenamed
  <2>8. Cardinality(due) = Cardinality(A) BY <2>1, <2>3, <2>4, NamedCount
  <2> QED BY <2>4, <2>5, <2>7, <2>8 DEF SumFunction, D
<1>14. SumFunctionOnSet(off, S) = SumFunctionOnSet(u, S) + SumFunctionOnSet(v, S) - SumFunctionOnSet(a, S)
                               - SumFunctionOnSet(b, S) - SumFunctionOnSet(w, S)
  /\ Summands(off, S)
  <2> DEFINE
    x1 == [e \in S |-> u[e] + v[e]]
    x2 == [e \in S |-> x1[e] - a[e]]
    x3 == [e \in S |-> x2[e] - b[e]]
  <2>1. Summands(u, S) /\ Summands(v, S) /\ Summands(a, S) /\ Summands(b, S) /\ Summands(w, S)
    BY <1>1, <1>7 DEF Summands
  <2>2. /\ \A e \in S : x1[e] = u[e] + v[e]
        /\ \A e \in S : x2[e] = x1[e] - a[e]
        /\ \A e \in S : x3[e] = x2[e] - b[e]
        /\ \A e \in S : off[e] = x3[e] - w[e]
   <3> HIDE DEF u, v, a, b, w
   <3>1. /\ x1 = [e \in S |-> u[e] + v[e]] /\ x2 = [e \in S |-> x1[e] - a[e]] /\ x3 = [e \in S |-> x2[e] - b[e]]
         /\ off = [e \in S |-> u[e] + v[e] - a[e] - b[e] - w[e]] OBVIOUS
   <3> HIDE DEF x1, x2, x3, off
   <3>2. ASSUME NEW e \in S PROVE x1[e] = u[e] + v[e] /\ x2[e] = x1[e] - a[e] /\ x3[e] = x2[e] - b[e] BY <3>1
   <3>3. ASSUME NEW e \in S PROVE off[e] = x3[e] - w[e] BY <3>1, <2>1, <3>2 DEF Summands
   <3> QED BY <3>2, <3>3
  <2> HIDE DEF x1, x2, x3, u, v, a, b, w, off, S, A, Uf, Vf, due, before, after
  <2>3. Summands(x1, S) /\ SumFunctionOnSet(x1, S) = SumFunctionOnSet(u, S) + SumFunctionOnSet(v, S)
    BY <2>1, <2>2, SumPlus
  <2>4. Summands(x2, S) /\ SumFunctionOnSet(x2, S) = SumFunctionOnSet(x1, S) - SumFunctionOnSet(a, S)
    BY <2>1, <2>2, <2>3, SumMinus
  <2>5. Summands(x3, S) /\ SumFunctionOnSet(x3, S) = SumFunctionOnSet(x2, S) - SumFunctionOnSet(b, S)
    BY <2>1, <2>2, <2>4, SumMinus
  <2>6. Summands(off, S) /\ SumFunctionOnSet(off, S) = SumFunctionOnSet(x3, S) - SumFunctionOnSet(w, S)
    BY <2>1, <2>2, <2>5, SumMinus
  <2>7. /\ SumFunctionOnSet(u, S) \in Int /\ SumFunctionOnSet(v, S) \in Int /\ SumFunctionOnSet(a, S) \in Int
        /\ SumFunctionOnSet(b, S) \in Int /\ SumFunctionOnSet(w, S) \in Int BY <2>1, SumFacts
  <2> QED BY <2>3, <2>4, <2>5, <2>6, <2>7
<1>15. \A e \in S : a[e] \in Int /\ b[e] \in Int /\ u[e] \in Int /\ v[e] \in Int /\ w[e] \in Int BY <1>7
<1>16. Summands(u, S) /\ Summands(v, S) /\ Summands(a, S) /\ Summands(b, S) /\ Summands(w, S)
  BY <1>1, <1>15 DEF Summands
<1>17. (\A e \in A : off[e] <= 1 /\ -1 <= off[e]) /\ \A e \in S \ A : off[e] = 0 BY <1>1, <1>7
<1> HIDE DEF u, v, a, b, w, off, Uf, Vf, due, before, after, A, S
<1>18. SumFunctionOnSet(off, S) <= Cardinality(A) /\ -Cardinality(A) <= SumFunctionOnSet(off, S) /\ Cardinality(A) \in Nat
  BY <1>1, <1>14, <1>17, SumWithin
<1>19. /\ SumFunctionOnSet(u, S) \in Int /\ SumFunctionOnSet(v, S) \in Int /\ SumFunctionOnSet(a, S) \in Int
       /\ SumFunctionOnSet(b, S) \in Int /\ SumFunctionOnSet(w, S) \in Int BY <1>16, SumFacts
<1> DEFINE n == (Expenses(after) - Expenses(before)) - SumFunction([p \in due |-> p.delta])
<1>20. n = SumFunctionOnSet(off, S) /\ n \in Int BY <1>9, <1>10, <1>11, <1>13, <1>14, <1>19 DEF Expenses
<1> HIDE DEF n
<1>21. Abs(n) <= Cardinality(due) BY <1>13, <1>18, <1>20 DEF Abs
<1> QED BY <1>0, <1>6, <1>12, <1>21 DEF n
----------------------------------------
(* The statistics of one month. *)

\* As many as there are ones.
LEMMA CountIsSum ==
  ASSUME NEW S, IsFiniteSet(S), NEW f, \A x \in S : f[x] = 1
  PROVE  Summands(f, S) /\ SumFunctionOnSet(f, S) = Cardinality(S)
<1> DEFINE B == {T \in SUBSET S : SumFunctionOnSet(f, T) # Cardinality(T)}
<1>1. Summands(f, S) BY DEF Summands
<1>2. ASSUME B # {} PROVE FALSE
  <2>1. PICK T \in B : \A x \in T : T \ {x} \notin B
   <3>1. B \subseteq SUBSET S OBVIOUS
   <3> HIDE DEF B
   <3> QED BY <1>2, <3>1, Fewest
  <2>2. T \in SUBSET S /\ SumFunctionOnSet(f, T) # Cardinality(T) /\ IsFiniteSet(T) /\ Summands(f, T)
    BY <1>1, FS_Subset, SumFacts
  <2>3. CASE T = {} BY <2>2, <2>3, SumFacts, FS_EmptySet
  <2>4. CASE T # {}
   <3>1. PICK x \in T : TRUE BY <2>4
   <3> DEFINE U == T \ {x}
   <3>2. SumFunctionOnSet(f, U) = Cardinality(U) BY <2>1, <2>2, <3>1
   <3>3. Cardinality(U) = Cardinality(T) - 1 /\ Cardinality(T) \in Nat BY <2>2, FS_RemoveElement, FS_CardinalityType
   <3>4. SumFunctionOnSet(f, T) = f[x] + SumFunctionOnSet(f, U) /\ f[x] = 1 BY <2>2, SumFacts
   <3> HIDE DEF U, B
   <3> QED BY <2>2, <3>2, <3>3, <3>4
  <2> QED BY <2>3, <2>4
<1> QED BY <1>1, <1>2

\* The elements of a set, counted class by class.
LEMMA CountFibres ==
  ASSUME NEW S, NEW K, NEW e, NEW F, Tallied(S, e, K, F) PROVE SumFunctionOnSet(F, K) = Cardinality(S)
<1>0. /\ IsFiniteSet(S) /\ IsFiniteSet(K) /\ \A x \in S : e[x] \in K
      /\ \A k \in K : F[k] = Cardinality({x \in S : e[x] = k}) BY DEF Tallied
<1> DEFINE one == [x \in S |-> 1]
<1>1. Summands(one, S) /\ SumFunctionOnSet(one, S) = Cardinality(S) BY <1>0, CountIsSum
<1>2. ASSUME NEW k \in K PROVE F[k] = SumFunctionOnSet(one, {x \in S : e[x] = k})
  <2> DEFINE T == {x \in S : e[x] = k}
  <2>1. IsFiniteSet(T) /\ \A x \in T : one[x] = 1 BY <1>0, FS_Subset
  <2> HIDE DEF one
  <2>2. SumFunctionOnSet(one, T) = Cardinality(T)
   <3> HIDE DEF T
   <3> QED BY <2>1, CountIsSum
  <2> QED BY <1>0, <2>2
<1> HIDE DEF one
<1>3. Fibred(one, S, e, K, F) BY <1>0, <1>2 DEF Fibred
<1> QED BY <1>1, <1>3, SumFibres

\* The rates that apply to a contract are finitely many, of numbers.
LEMMA MatchedFacts ==
  ASSUME NEW periods, Fundings(periods), NEW m, NEW age, NEW props
  PROVE  LET period == FindPeriodForDate(periods, m)
             matched == MatchFundingProperties(age, props, period)
         IN  /\ IsFiniteSet(matched) /\ \A rate \in matched : rate.pay \in Int /\ rate.req \in Int
             /\ period # NoRow => period.hours \in Int
             /\ period = NoRow => matched = {}
<1> DEFINE
  period == FindPeriodForDate(periods, m)
  matched == MatchFundingProperties(age, props, period)
<1>1. CASE period = NoRow
  <2>1. matched = {} BY <1>1 DEF MatchFundingProperties
  <2> QED BY <1>1, <2>1, FS_EmptySet
<1>2. CASE period # NoRow
  <2>1. PICK k \in DOMAIN periods : period = periods[k] BY <1>2, PeriodFound
  <2> DEFINE
    rates == period.rates
    all == {rates[i] : i \in DOMAIN rates}
  <2>2. /\ IsFiniteSet(DOMAIN rates) /\ period.hours \in Int
        /\ \A i \in DOMAIN rates : rates[i].pay \in Int /\ rates[i].req \in Int BY <2>1 DEF Fundings, RatesOf
  <2>3. IsFiniteSet(all) BY <2>2, FiniteImage DEF Image
  <2>4. matched \subseteq all BY <1>2 DEF MatchFundingProperties
  <2> QED BY <1>2, <2>2, <2>3, <2>4, FS_Subset
<1> QED BY <1>1, <1>2

\* What they pay, in one sum or by key and value.
LEMMA PayFacts ==
  ASSUME NEW periods, Fundings(periods), NEW m, NEW age, NEW props
  PROVE  LET period == FindPeriodForDate(periods, m)
             pay == TotalPay(MatchFundingProperties(age, props, period))
         IN  pay \in Int /\ pay = SumFunction(CalcAmounts(age, props, period)) /\ (period = NoRow => pay = 0)
<1> DEFINE
  period == FindPeriodForDate(periods, m)
  matched == MatchFundingProperties(age, props, period)
  f == [rate \in matched |-> rate.pay]
  e == [rate \in matched |-> rate.kv]
  K == {rate.kv : rate \in matched}
  F == CalcAmounts(age, props, period)
<1>1. IsFiniteSet(matched) /\ (\A rate \in matched : rate.pay \in Int) /\ (period = NoRow => matched = {})
  BY MatchedFacts
<1> HIDE DEF matched, period
<1>2. Summands(f, matched) BY <1>1 DEF Summands
<1>3. TotalPay(matched) = SumFunctionOnSet(f, matched) BY DEF TotalPay, SumFunction
<1>4. DOMAIN F = K /\ \A kv \in K : F[kv] = TotalPay({rate \in matched : rate.kv = kv}) BY DEF CalcAmounts, matched
<1>5. IsFiniteSet(K)
  <2>1. Image(e, matched, K) BY DEF Image
  <2> QED BY <1>1, <2>1, FiniteImage
<1>6. ASSUME NEW kv \in K PROVE F[kv] = SumFunctionOnSet(f, {rate \in matched : e[rate] = kv})
  <2> DEFINE
    T == {rate \in matched : rate.kv = kv}
    h == [rate \in T |-> rate.pay]
  <2>1. TotalPay(T) = SumFunctionOnSet(h, T) BY DEF TotalPay, SumFunction
  <2>2. T = {rate \in matched : e[rate] = kv} OBVIOUS
  <2>3. T \in SUBSET matched /\ \A rate \in T : h[rate] = f[rate] OBVIOUS
  <2> HIDE DEF T, h, f
  <2>4. Summands(f, T) BY <1>2, <2>3, SumFacts
  <2>5. SumFunctionOnSet(h, T) = SumFunctionOnSet(f, T) BY <2>3, <2>4, SumSame
  <2> QED BY <1>4, <2>1, <2>2, <2>5 DEF T
<1>7. \A rate \in matched : e[rate] \in K OBVIOUS
<1> HIDE DEF f, e, K, F
<1>8. SumFunctionOnSet(F, K) = SumFunctionOnSet(f, matched)
  <2>1. Fibred(f, matched, e, K, F) BY <1>5, <1>6, <1>7 DEF Fibred
  <2> QED BY <1>2, <2>1, SumFibres
<1>9. matched = {} => SumFunctionOnSet(f, matched) = 0 BY <1>2, SumFacts
<1>10. SumFunctionOnSet(f, matched) \in Int BY <1>2, SumFacts
<1>11. SumFunction(F) = SumFunctionOnSet(F, K) BY <1>4 DEF SumFunction
<1> QED BY <1>1, <1>3, <1>8, <1>9, <1>10, <1>11 DEF matched, period, F

\* There are finitely many rates by care type.
LEMMA StructureRatesFinite ==
  ASSUME NEW periods, Fundings(periods)
  PROVE  /\ IsFiniteSet(StructureRates(periods))
         /\ \A rate \in StructureRates(periods) : \E i \in DOMAIN periods : rate \in ToSet(periods[i].rates)
<1> DEFINE R == StructureRates(periods)
<1>1. CASE DOMAIN periods = {}
  <2>1. R = {} BY <1>1 DEF StructureRates
  <2> HIDE DEF R
  <2> QED BY <2>1, FS_EmptySet DEF R
<1>2. CASE DOMAIN periods # {}
  <2> DEFINE
    latest == CHOOSE p \in ToSet(periods) : \A o \in ToSet(periods) : o.from <= p.from
    from == [i \in DOMAIN periods |-> periods[i].from]
    starts == {periods[i].from : i \in DOMAIN periods}
  <2>1. starts \subseteq Int /\ starts # {} /\ IsFiniteSet(starts)
   <3>1. Image(from, DOMAIN periods, starts) BY DEF Image
   <3> QED BY <1>2, <3>1, FiniteImage DEF Fundings
  <2>2. PICK i \in DOMAIN periods : \A j \in DOMAIN periods : periods[j].from <= periods[i].from
   <3>1. PICK n \in starts : \A k \in starts : k <= n BY <2>1, Largest
   <3> QED BY <3>1
  <2>3. \E p \in ToSet(periods) : \A o \in ToSet(periods) : o.from <= p.from BY <2>2 DEF ToSet
  <2>4. latest \in ToSet(periods) BY <2>3
  <2>5. R \subseteq ToSet(latest.rates) BY <1>2 DEF StructureRates
  <2> HIDE DEF latest, R
  <2>6. PICK k \in DOMAIN periods : latest = periods[k] BY <2>4 DEF ToSet
  <2>7. IsFiniteSet(DOMAIN latest.rates) BY <2>6 DEF Fundings
  <2>8. Image(latest.rates, DOMAIN latest.rates, ToSet(latest.rates)) BY DEF Image, ToSet
  <2>9. IsFiniteSet(ToSet(latest.rates)) BY <2>7, <2>8, FiniteImage
  <2>10. \A rate \in R : rate \in ToSet(periods[k].rates) BY <2>5, <2>6
  <2> QED BY <2>5, <2>9, <2>10, FS_Subset DEF R
<1> QED BY <1>1, <1>2

\* There are finitely many care types.
LEMMA CareTypesFinite == ASSUME NEW periods, Fundings(periods) PROVE IsFiniteSet(CareTypes(periods))
<1> DEFINE
  R == StructureRates(periods)
  e == [r \in R |-> r.kv.value]
<1>1. Image(e, R, CareTypes(periods)) BY DEF Image, CareTypes
<1> QED BY <1>1, StructureRatesFinite, FiniteImage

\* A child is drawn in one cell, or in none.
LEMMA OneCell ==
  ASSUME NEW d, Banded(d), NEW child, NEW m
  PROVE  \/ CellsOf(d, child, m) = {}
         \/ \E x \in ToSet(d.bands) \X CareTypes(d.funding) : CellsOf(d, child, m) = {x}
<1> DEFINE
  age == FundingAgeOnDate(child.born, m)
  hits == {i \in DOMAIN d.bands : d.bands[i][1] <= age /\ age <= d.bands[i][2]}
  types == PickCareType(Contract(child, m).props) \cap CareTypes(d.funding)
<1>1. CellsOf(d, child, m) = IF hits = {} THEN {} ELSE {d.bands[Min(hits)]} \X types BY DEF CellsOf
<1>2. hits \subseteq Nat /\ hits \subseteq DOMAIN d.bands BY DEF Banded
<1>3. types = {} \/ \E v \in CareTypes(d.funding) : types = {v} BY DEF PickCareType
<1> HIDE DEF hits, types
<1>4. CASE hits = {} BY <1>1, <1>4
<1>5. CASE hits # {}
  <2>1. Min(hits) \in DOMAIN d.bands BY <1>2, <1>5, MinFact
  <2>2. d.bands[Min(hits)] \in ToSet(d.bands) BY <2>1 DEF ToSet
  <2>3. \A v : {d.bands[Min(hits)]} \X {v} = {<<d.bands[Min(hits)], v>>} OBVIOUS
  <2>4. {d.bands[Min(hits)]} \X {} = {} OBVIOUS
  <2> QED BY <1>1, <1>3, <1>5, <2>2, <2>3, <2>4
<1> QED BY <1>4, <1>5

\* Two sets that share nothing, counted together.
LEMMA CountApart ==
  ASSUME NEW A, IsFiniteSet(A), NEW B, IsFiniteSet(B), A \cap B = {}
  PROVE  /\ IsFiniteSet(A \cup B) /\ Cardinality(A \cup B) = Cardinality(A) + Cardinality(B)
         /\ Cardinality(A) \in Nat /\ Cardinality(B) \in Nat
<1>1. Cardinality(A) \in Nat /\ Cardinality(B) \in Nat /\ Cardinality({}) = 0 BY FS_CardinalityType, FS_EmptySet
<1>2. IsFiniteSet(A \cup B) /\ Cardinality(A \cup B) = Cardinality(A) + Cardinality(B) - Cardinality(A \cap B)
  BY FS_Union
<1>3. Cardinality(A \cap B) = 0 BY <1>1
<1> QED BY <1>1, <1>2, <1>3

\* What the occupancy consists of.
LEMMA OccupancyIs ==
  ASSUME NEW d, NEW m
  PROVE  LET occupancy == CalculateOccupancy(d, m)
             S == Present(d.children, m)
         IN  /\ occupancy.total = Cardinality(S)
             /\ occupancy.unmatched = Cardinality({x \in S : CellsOf(d, x, m) = {}})
             /\ DOMAIN occupancy.cell = Cells(d)
             /\ \A k \in Cells(d) : occupancy.cell[k] = Cardinality({x \in S : k \in CellsOf(d, x, m)})
<1> DEFINE
  S == Present(d.children, m)
  K == Cells(d)
  none == {x \in S : CellsOf(d, x, m) = {}}
  drawn == [x \in S |-> CellsOf(d, x, m)]
  occupancy == CalculateOccupancy(d, m)
<1>1. occupancy = [total |-> Cardinality(DOMAIN drawn),
  cell |-> [k \in K |-> Cardinality({x \in DOMAIN drawn : k \in drawn[x]})],
  unmatched |-> Cardinality({x \in DOMAIN drawn : drawn[x] = {}})] BY DEF CalculateOccupancy, Cells
<1>2. DOMAIN drawn = S /\ {x \in DOMAIN drawn : drawn[x] = {}} = none
      /\ \A k : {x \in DOMAIN drawn : k \in drawn[x]} = {x \in S : k \in CellsOf(d, x, m)} OBVIOUS
<1> HIDE DEF drawn, occupancy, S, K, none
<1>3. /\ occupancy.total = Cardinality(S) /\ occupancy.unmatched = Cardinality(none)
      /\ DOMAIN occupancy.cell = K
      /\ \A k \in K : occupancy.cell[k] = Cardinality({x \in S : k \in CellsOf(d, x, m)}) BY <1>1, <1>2
<1> QED BY <1>3 DEF occupancy, S, K, none

\* There are finitely many cells.
LEMMA CellsFinite == ASSUME NEW d, Enrolled(d) PROVE IsFiniteSet(Cells(d))
<1>1. Image(d.bands, DOMAIN d.bands, ToSet(d.bands)) BY DEF Image, ToSet
<1>2. IsFiniteSet(ToSet(d.bands)) BY <1>1, FiniteImage DEF Enrolled, Banded
<1> QED BY <1>2, CareTypesFinite, FS_Product DEF Enrolled, Cells

\* It is drawn where it fits and has a care type, in the band that starts first.
LEMMA CellIs ==
  ASSUME NEW d, Banded(d), NEW child, NEW m
  PROVE  LET fitting == Fitting(d, child, m)
             types == TypesOf(d, child, m)
         IN  /\ CellsOf(d, child, m) = {} <=> fitting = {} \/ types = {}
             /\ \A k \in CellsOf(d, child, m) :
                   k[1] \in fitting /\ k[2] \in types /\ \A b \in fitting : k[1][1] <= b[1]
<1> DEFINE
  age == FundingAgeOnDate(child.born, m)
  hits == {i \in DOMAIN d.bands : d.bands[i][1] <= age /\ age <= d.bands[i][2]}
  fitting == Fitting(d, child, m)
  types == TypesOf(d, child, m)
  band == d.bands[Min(hits)]
<1>1. CellsOf(d, child, m) = IF hits = {} THEN {} ELSE {band} \X types BY DEF CellsOf, TypesOf
<1>2. hits \subseteq Nat /\ hits \subseteq DOMAIN d.bands BY DEF Banded
<1>3. fitting = {d.bands[i] : i \in hits} BY DEF Fitting, ToSet
<1>4. \A i, j \in hits : d.bands[i][1] \in Int /\ (i < j => d.bands[i][1] <= d.bands[j][1]) BY <1>2 DEF Banded
<1> HIDE DEF age, hits, fitting, types, band
<1>5. CASE hits = {} BY <1>1, <1>3, <1>5 DEF fitting, types
<1>6. CASE hits # {}
  <2>1. Min(hits) \in hits /\ \A i \in hits : Min(hits) <= i BY <1>2, <1>6, MinFact
  <2>2. band \in fitting BY <1>3, <2>1 DEF band
  <2>3. \A b \in fitting : band[1] <= b[1]
   <3>1. ASSUME NEW i \in hits PROVE d.bands[Min(hits)][1] <= d.bands[i][1]
    <4>1. CASE Min(hits) = i BY <1>4, <2>1, <4>1
    <4>2. CASE Min(hits) # i BY <1>2, <1>4, <2>1, <4>2
    <4> QED BY <4>1, <4>2
   <3> QED BY <1>3, <3>1 DEF band
  <2>4. CellsOf(d, child, m) = {band} \X types BY <1>1, <1>6
  <2>5. \A k \in {band} \X types : k[1] = band /\ k[2] \in types OBVIOUS
  <2>6. ({band} \X types = {}) <=> types = {}
   <3>1. \A v \in types : <<band, v>> \in {band} \X types OBVIOUS
   <3> QED BY <2>5, <3>1
  <2> QED BY <2>2, <2>3, <2>4, <2>5, <2>6 DEF fitting, types
<1> QED BY <1>5, <1>6

\* Some of the cells together count the children that are drawn in one of them.
LEMMA CellsCount ==
  ASSUME NEW d, Enrolled(d), NEW m, NEW C \in SUBSET Cells(d)
  PROVE  SumFunctionOnSet(CalculateOccupancy(d, m).cell, C) = Cardinality(DrawnIn(d, m, C))
<1> DEFINE
  S == Present(d.children, m)
  K == Cells(d)
  drawn == DrawnIn(d, m, C)
  e == [x \in drawn |-> CHOOSE k \in K : CellsOf(d, x, m) = {k}]
  F == CalculateOccupancy(d, m).cell
<1>1. \A k \in K : F[k] = Cardinality({x \in S : k \in CellsOf(d, x, m)}) BY OccupancyIs
<1>2. IsFiniteSet(drawn) BY FS_Subset DEF Enrolled, Present, DrawnIn
<1>3. IsFiniteSet(C) BY CellsFinite, FS_Subset
<1>4. \A x \in drawn : e[x] \in K /\ CellsOf(d, x, m) = {e[x]} BY OneCell DEF Enrolled, DrawnIn, Cells
<1>5. \A x \in drawn : e[x] \in C BY <1>4 DEF DrawnIn
<1>6. ASSUME NEW k \in C PROVE F[k] = Cardinality({x \in drawn : e[x] = k})
  <2>1. {x \in S : k \in CellsOf(d, x, m)} = {x \in drawn : e[x] = k}
   <3>1. ASSUME NEW x \in S, k \in CellsOf(d, x, m) PROVE x \in drawn BY <3>1 DEF DrawnIn
   <3>2. drawn \subseteq S BY DEF DrawnIn
   <3> HIDE DEF e, S, drawn
   <3> QED BY <1>4, <3>1, <3>2
  <2> QED BY <1>1, <2>1
<1> HIDE DEF e, S, K, drawn, F
<1>7. Tallied(drawn, e, C, F) BY <1>2, <1>3, <1>5, <1>6 DEF Tallied
<1>8. SumFunctionOnSet(F, C) = Cardinality(drawn) BY <1>7, CountFibres
<1> QED BY <1>8 DEF F, drawn

\* The cells and the children that are in none add up to all.
LEMMA CellsAddUp ==
  ASSUME NEW d, Enrolled(d), NEW m
  PROVE  LET occupancy == CalculateOccupancy(d, m)
         IN  /\ occupancy.total = Cardinality(Present(d.children, m))
             /\ SumFunction(occupancy.cell) + occupancy.unmatched = occupancy.total
<1> DEFINE
  occupancy == CalculateOccupancy(d, m)
  S == Present(d.children, m)
  K == Cells(d)
  none == {x \in S : CellsOf(d, x, m) = {}}
  some == DrawnIn(d, m, K)
<1>1. occupancy.total = Cardinality(S) /\ occupancy.unmatched = Cardinality(none) /\ DOMAIN occupancy.cell = K
  BY OccupancyIs
<1>2. SumFunctionOnSet(occupancy.cell, K) = Cardinality(some) BY CellsCount
<1>3. IsFiniteSet(S) BY FS_Subset DEF Enrolled, Present
<1>4. \A x \in S : CellsOf(d, x, m) \subseteq K BY OneCell DEF Enrolled, Cells
<1>5. some \cap none = {} /\ some \cup none = S
  <2>1. ASSUME NEW x \in S PROVE CellsOf(d, x, m) \cap K # {} <=> CellsOf(d, x, m) # {} BY <1>4
  <2> HIDE DEF K, S
  <2>2. some = {x \in S : CellsOf(d, x, m) \cap K # {}} BY DEF DrawnIn, S
  <2> HIDE DEF some
  <2> QED BY <2>1, <2>2
<1> HIDE DEF S, K, some, none, occupancy
<1>6. Cardinality(S) = Cardinality(some) + Cardinality(none) /\ Cardinality(some) \in Nat /\ Cardinality(none) \in Nat
  <2>1. some \subseteq S /\ none \subseteq S BY <1>5
  <2>2. IsFiniteSet(some) /\ IsFiniteSet(none) BY <1>3, <2>1, FS_Subset
  <2>3. /\ Cardinality(some \cup none) = Cardinality(some) + Cardinality(none)
        /\ Cardinality(some) \in Nat /\ Cardinality(none) \in Nat BY <1>5, <2>2, CountApart
  <2> QED BY <1>5, <2>3, Zenon
<1>7. SumFunction(occupancy.cell) = SumFunctionOnSet(occupancy.cell, K) BY <1>1 DEF SumFunction
<1> QED BY <1>1, <1>2, <1>6, <1>7 DEF occupancy, S

\* An age is a number.
LEMMA AgeFacts ==
  ASSUME NEW born \in [month : Int, first : BOOLEAN], NEW m \in Int
  PROVE  CalculateAgeOnDate(born, m) \in Nat /\ FundingAgeOnDate(born, m) \in Nat
<1>1. ASSUME NEW n \in Int PROVE Years(n) \in Nat BY RatesAssumption DEF Years
<1>2. m - born.month - 1 \in Int /\ m - born.month - 0 \in Int OBVIOUS
<1> QED BY <1>1, <1>2 DEF CalculateAgeOnDate, FundingAgeOnDate

\* The age buckets are finitely many, the last of them 6.
LEMMA MaxOfBuckets == IsFiniteSet(Buckets) /\ Max(Buckets) = 6
<1>1. IsFiniteSet(Buckets) /\ Buckets \subseteq Int /\ Buckets # {}
  <2>1. IsFiniteSet(0..6)
   <3>1. 0 \in Int /\ 6 \in Int OBVIOUS
   <3> QED BY <3>1, FS_Interval, Zenon
  <2>2. 0..6 \subseteq Int /\ 0..6 # {} OBVIOUS
  <2> QED BY <2>1, <2>2 DEF Buckets
<1>2. Max(Buckets) \in Buckets /\ \A n \in Buckets : n <= Max(Buckets) BY <1>1, MaxFact
<1>3. 6 \in Buckets /\ \A n \in Buckets : n <= 6 BY DEF Buckets
<1>4. Max(Buckets) \in Int /\ Max(Buckets) <= 6 /\ 6 <= Max(Buckets) BY <1>1, <1>2, <1>3
<1> QED BY <1>1, <1>4

\* Some of the age buckets together count the children whose age is in one of them; the last
\* is open above.
LEMMA AgesCount ==
  ASSUME NEW d, Enrolled(d), NEW m \in Int, NEW B \in SUBSET Buckets
  PROVE  LET age(x) == CalculateAgeOnDate(x.born, m)
             bucket(x) == IF age(x) > 6 THEN 6 ELSE age(x)
         IN  SumFunctionOnSet(CalculateAgeDistribution(d, m), B)
               = Cardinality({x \in Present(d.children, m) : bucket(x) \in B})
<1> DEFINE
  S == Present(d.children, m)
  age(x) == CalculateAgeOnDate(x.born, m)
  e == [x \in S |-> IF age(x) > 6 THEN 6 ELSE age(x)]
  T == {x \in S : e[x] \in B}
  F == CalculateAgeDistribution(d, m)
<1>1. IsFiniteSet(Buckets) /\ Max(Buckets) = 6 BY MaxOfBuckets
<1>2. IsFiniteSet(S) /\ \A x \in S : age(x) \in Nat BY FS_Subset, AgeFacts DEF Enrolled, Present
<1>3. \A k \in Buckets : F[k] = Cardinality({x \in S : age(x) = k \/ (k = Max(Buckets) /\ age(x) > k)})
  BY DEF CalculateAgeDistribution
<1>4. T = {x \in Present(d.children, m) : (IF age(x) > 6 THEN 6 ELSE age(x)) \in B} OBVIOUS
<1> HIDE DEF age, F, S
<1>5. IsFiniteSet(T) /\ IsFiniteSet(B) /\ \A x \in T : e[x] \in B BY <1>1, <1>2, FS_Subset
<1>6. ASSUME NEW k \in B PROVE F[k] = Cardinality({x \in T : e[x] = k})
  <2>1. ASSUME NEW x \in S PROVE (age(x) = k \/ (k = Max(Buckets) /\ age(x) > k)) <=> e[x] = k
    BY <1>1, <1>2 DEF Buckets
  <2>2. {x \in S : age(x) = k \/ (k = Max(Buckets) /\ age(x) > k)} = {x \in T : e[x] = k}
   <3> HIDE DEF e
   <3> QED BY <2>1
  <2> QED BY <1>3, <2>2
<1> HIDE DEF e, T
<1>7. Tallied(T, e, B, F) BY <1>5, <1>6 DEF Tallied
<1>8. SumFunctionOnSet(F, B) = Cardinality(T) BY <1>7, CountFibres
<1> QED BY <1>4, <1>8 DEF F, age

\* Every child is in one age bucket.
LEMMA AgesAddUp ==
  ASSUME NEW d, Enrolled(d), NEW m \in Int
  PROVE  SumFunctionOnSet(CalculateAgeDistribution(d, m), Buckets) = Cardinality(Present(d.children, m))
<1> DEFINE
  S == Present(d.children, m)
  age(x) == CalculateAgeOnDate(x.born, m)
  bucket(x) == IF age(x) > 6 THEN 6 ELSE age(x)
<1>1. \A x \in S : age(x) \in Nat BY AgeFacts DEF Enrolled, Present
<1>2. SumFunctionOnSet(CalculateAgeDistribution(d, m), Buckets) = Cardinality({x \in S : bucket(x) \in Buckets})
  BY AgesCount
<1> HIDE DEF age, S
<1>3. ASSUME NEW x \in S PROVE bucket(x) \in Buckets BY <1>1 DEF Buckets
<1> HIDE DEF bucket
<1>4. {x \in S : bucket(x) \in Buckets} = S BY <1>3
<1> QED BY <1>2, <1>4 DEF S, age, bucket

\* The income from funding is what the children earn, each of whom is in the list once.
LEMMA IncomeAddsUp ==
  ASSUME NEW d, Enrolled(d), NEW m
  PROVE  LET S == Present(d.children, m)
             pay == [x \in S |-> PayOf(d, x, m)]
             income == CalculateFinancials(d, m)
         IN  /\ IsFiniteSet(S) /\ Summands(pay, S)
             /\ income.childCount = Cardinality(S) /\ income.fundingIncome = SumFunctionOnSet(pay, S)
<1> DEFINE
  S == Present(d.children, m)
  pay == [x \in S |-> PayOf(d, x, m)]
  income == CalculateFinancials(d, m)
<1>1. IsFiniteSet(S) BY FS_Subset DEF Enrolled, Present
<1>2. \A x \in S : PayOf(d, x, m) \in Int BY PayFacts DEF PayOf, Entitlements, Enrolled
<1>3. Summands(pay, S) BY <1>1, <1>2 DEF Summands
<1>4. income.childCount = Cardinality(S) /\ income.fundingIncome = SumFunction(pay) BY DEF CalculateFinancials, PayOf
<1>5. SumFunction(pay) = SumFunctionOnSet(pay, S) BY DEF SumFunction
<1> QED BY <1>1, <1>3, <1>4, <1>5

\* Those who earn it are as many as there are children, and earn as much.
LEMMA EarnersAddUp ==
  ASSUME NEW d, Enrolled(d), NEW m
  PROVE  LET earners == CalculateFunding(d, m)
             income == CalculateFinancials(d, m)
         IN  Cardinality(earners) = income.childCount
             /\ SumFunction([c \in earners |-> c.funding]) = income.fundingIncome
<1> DEFINE
  S == Present(d.children, m)
  pay == [x \in S |-> PayOf(d, x, m)]
  income == CalculateFinancials(d, m)
  K == CalculateFunding(d, m)
  e == [x \in S |-> EarnerOf(d, x, m)]
  F == [c \in K |-> c.funding]
<1>1. /\ IsFiniteSet(S) /\ Summands(pay, S)
      /\ income.childCount = Cardinality(S) /\ income.fundingIncome = SumFunctionOnSet(pay, S) BY IncomeAddsUp
<1>2. K = {EarnerOf(d, x, m) : x \in S} BY DEF CalculateFunding, EarnerOf, PayOf, RestOf
<1>3. \A x \in S : EarnerOf(d, x, m).child = x.id /\ EarnerOf(d, x, m).funding = PayOf(d, x, m) BY DEF EarnerOf
<1>4. \A x, y \in S : EarnerOf(d, x, m) = EarnerOf(d, y, m) => x = y BY <1>3 DEF Enrolled, Present
<1> HIDE DEF S, K, income
<1>5. Image(e, S, K) BY <1>2 DEF Image
<1>6. Renamed(pay, S, e, F) BY <1>2, <1>3, <1>4 DEF Renamed
<1>7. SumFunction(F) = SumFunctionOnSet(F, K) BY DEF SumFunction
<1> HIDE DEF e, F, pay
<1>8. SumFunctionOnSet(F, K) = SumFunctionOnSet(pay, S) BY <1>1, <1>5, <1>6, SumRenamed
<1>9. \A x, y \in S : e[x] = e[y] => x = y BY <1>6 DEF Renamed
<1>10. Cardinality(K) = Cardinality(S) BY <1>1, <1>5, <1>9, NamedCount
<1> QED BY <1>1, <1>7, <1>8, <1>10 DEF K, F, income

\* The statistics of one month agree with each other.
LEMMA MonthAddsUp ==
  ASSUME NEW d, Enrolled(d), NEW m \in Int PROVE ChildrenAddUp(MonthFigures(d, m))
<1> DEFINE figures == MonthFigures(d, m)
<1>1. /\ figures.forecast.financials = CalculateFinancials(d, m)
      /\ figures.forecast.occupancy = CalculateOccupancy(d, m)
      /\ figures.ages = CalculateAgeDistribution(d, m) /\ figures.children = CalculateFunding(d, m)
  BY DEF MonthFigures
<1> HIDE DEF figures
<1>2. CalculateFinancials(d, m).childCount = Cardinality(Present(d.children, m)) BY IncomeAddsUp
<1>3. ChildrenAddUp(figures) BY <1>1, <1>2, CellsAddUp, AgesAddUp, EarnersAddUp DEF ChildrenAddUp
<1> QED BY <1>3 DEF figures

\* Complete years are counted.
LEMMA YearsAre ==
  ASSUME NEW k \in Int, NEW n \in Nat \ {0} PROVE n <= Years(k) <=> n * YearMonths <= k
<1> DEFINE
  Y == YearMonths
  years == k \div Y
<1>1. Y \in Nat /\ Y >= 1 BY RatesAssumption
<1>2. n * Y \in Int /\ n * Y >= 1
  <2>1. \A a, b \in Int : a >= 1 /\ b >= 1 => a * b >= 1 OBVIOUS
  <2> HIDE DEF Y
  <2> QED BY <1>1, <2>1
<1>3. CASE k < 0
  <2>1. Years(k) = 0 BY <1>3 DEF Years
  <2> HIDE DEF Y
  <2>2. ~(n * Y <= k) BY <1>2, <1>3
  <2> QED BY <2>1, <2>2 DEF Y
<1>4. CASE ~(k < 0)
  <2>1. Years(k) = years BY <1>4 DEF Years
  <2>2. years \in Int /\ years * Y <= k /\ k < (years + 1) * Y
   <3>1. \A a \in Int, b \in Int : b >= 1 => a \div b \in Int /\ (a \div b) * b <= a /\ a < ((a \div b) + 1) * b
     OBVIOUS
   <3> HIDE DEF Y
   <3>2. k \in Int /\ Y \in Int /\ Y >= 1 BY <1>1
   <3> QED BY <3>1, <3>2
  <2>3. \A a, b, c \in Int : a <= b /\ c >= 1 => a * c <= b * c OBVIOUS
  <2> HIDE DEF Y, years
  <2>4. ASSUME n <= years PROVE n * Y <= k
   <3>1. n * Y <= years * Y BY <1>1, <2>2, <2>3, <2>4
   <3>2. years * Y \in Int BY <1>1, <2>2
   <3> QED BY <1>2, <2>2, <3>1, <3>2
  <2>5. ASSUME ~(n <= years) PROVE ~(n * Y <= k)
   <3>1. years + 1 <= n /\ years + 1 \in Int BY <2>2, <2>5
   <3>2. (years + 1) * Y <= n * Y BY <1>1, <2>3, <3>1
   <3>3. (years + 1) * Y \in Int BY <1>1, <3>1
   <3> QED BY <1>2, <2>2, <3>2, <3>3
  <2> QED BY <2>1, <2>4, <2>5 DEF Y
<1> QED BY <1>3, <1>4

\* An age reached is a birthday reached.
LEMMA BirthdayIs ==
  ASSUME NEW born \in [month : Int, first : BOOLEAN], NEW m \in Int, NEW n \in Nat \ {0}
  PROVE  /\ n <= CalculateAgeOnDate(born, m)
              <=> born.month + n * YearMonths + (IF born.first THEN 0 ELSE 1) <= m
         /\ n <= FundingAgeOnDate(born, m) <=> born.month + n * YearMonths < m
<1> DEFINE
  rest == IF born.first THEN 0 ELSE 1
  y == n * YearMonths
<1>1. rest \in Int /\ born.month \in Int OBVIOUS
<1>2. y \in Int BY RatesAssumption
<1>3. n <= Years(m - born.month - rest) <=> y <= m - born.month - rest BY <1>1, YearsAre
<1>4. n <= Years(m - born.month - 1) <=> y <= m - born.month - 1 BY <1>1, YearsAre
<1>5. CalculateAgeOnDate(born, m) = Years(m - born.month - rest) BY DEF CalculateAgeOnDate
<1>6. FundingAgeOnDate(born, m) = Years(m - born.month - 1) BY DEF FundingAgeOnDate
<1> HIDE DEF rest, y
<1>7. y <= m - born.month - rest <=> born.month + y + rest <= m BY <1>1, <1>2
<1>8. y <= m - born.month - 1 <=> born.month + y < m BY <1>1, <1>2
<1> QED BY <1>3, <1>4, <1>5, <1>6, <1>7, <1>8 DEF rest, y

\* The ages of a month follow the birthdays.
LEMMA BirthdaysFollowed ==
  ASSUME NEW d, Enrolled(d), Registered(d), NEW m \in Int PROVE AgesFollowBirthdays(MonthFigures(d, m), m)
<1> DEFINE
  figures == MonthFigures(d, m)
  cell == figures.forecast.occupancy.cell
  S == Present(d.children, m)
  P == {x.child : x \in figures.children}
<1>1. cell = CalculateOccupancy(d, m).cell /\ figures.ages = CalculateAgeDistribution(d, m)
      /\ figures.children = CalculateFunding(d, m) BY DEF MonthFigures
<1>2. P = {x.id : x \in S}
  <2>1. figures.children = {EarnerOf(d, x, m) : x \in S} BY <1>1 DEF CalculateFunding, EarnerOf, PayOf, RestOf
  <2>2. \A x : EarnerOf(d, x, m).child = x.id BY DEF EarnerOf
  <2> HIDE DEF figures, S
  <2> QED BY <2>1, <2>2
<1>3. DOMAIN cell = Cells(d) BY <1>1, OccupancyIs
<1>4. /\ IsFiniteSet(S) /\ \A x, y \in S : x.id = y.id => x = y
      /\ \A x \in S : /\ x.id \in Children /\ x.born = Born[x.id] /\ x.born \in [month : Int, first : BOOLEAN]
                      /\ CalculateAgeOnDate(x.born, m) \in Nat /\ FundingAgeOnDate(x.born, m) \in Nat
  BY FS_Subset, AgeFacts DEF Enrolled, Registered, Present
<1> HIDE DEF S, P, figures, cell
<1>5. ASSUME NEW A \in SUBSET S, NEW R, R = {x.id : x \in A} PROVE IsFiniteSet(A) /\ Cardinality(R) = Cardinality(A)
  <2> DEFINE e == [x \in A |-> x.id]
  <2>1. IsFiniteSet(A) BY <1>4, FS_Subset
  <2>2. Image(e, A, R) BY <1>5 DEF Image
  <2>3. \A x, y \in A : e[x] = e[y] => x = y BY <1>4
  <2> HIDE DEF e
  <2> QED BY <2>1, <2>2, <2>3, NamedCount
<1>6. Max(Buckets) = 6 BY MaxOfBuckets
<1>7. ASSUME NEW n \in Buckets \ {0}
  PROVE  /\ SumFunctionOnSet(figures.ages, n..Max(Buckets)) = Cardinality({c \in P : Reached(c, n, m)})
         /\ SumFunctionOnSet(cell, {x \in DOMAIN cell : n <= x[1][1]})
              <= Cardinality({c \in P : ReachedBefore(c, n, m)})
         /\ SumFunctionOnSet(cell, {x \in DOMAIN cell : x[1][2] < n})
              <= Cardinality({c \in P : ~ReachedBefore(c, n, m)})
  <2>0. n \in Nat \ {0} /\ n <= 6 BY DEF Buckets
  <2>1. ASSUME NEW x \in S
        PROVE  /\ n <= CalculateAgeOnDate(x.born, m) <=> Reached(x.id, n, m)
               /\ n <= FundingAgeOnDate(x.born, m) <=> ReachedBefore(x.id, n, m)
    BY <1>4, <2>0, BirthdayIs DEF Reached, ReachedBefore
  <2> DEFINE
    aged == {x \in S : n <= CalculateAgeOnDate(x.born, m)}
    older == {x \in S : n <= FundingAgeOnDate(x.born, m)}
    younger == S \ older
    C1 == {x \in DOMAIN cell : n <= x[1][1]}
    C2 == {x \in DOMAIN cell : x[1][2] < n}
  <2>2. /\ {c \in P : Reached(c, n, m)} = {x.id : x \in aged}
        /\ {c \in P : ReachedBefore(c, n, m)} = {x.id : x \in older}
        /\ {c \in P : ~ReachedBefore(c, n, m)} = {x.id : x \in younger} BY <1>2, <2>1
  <2>3. /\ Cardinality({c \in P : Reached(c, n, m)}) = Cardinality(aged)
        /\ Cardinality({c \in P : ReachedBefore(c, n, m)}) = Cardinality(older)
        /\ Cardinality({c \in P : ~ReachedBefore(c, n, m)}) = Cardinality(younger)
        /\ IsFiniteSet(older) /\ IsFiniteSet(younger)
   <3>1. aged \in SUBSET S /\ older \in SUBSET S /\ younger \in SUBSET S OBVIOUS
   <3> HIDE DEF aged, older, younger
   <3> QED BY <1>5, <2>2, <3>1
  <2>4. SumFunctionOnSet(figures.ages, n..Max(Buckets)) = Cardinality(aged)
   <3> DEFINE bucket(x) == IF CalculateAgeOnDate(x.born, m) > 6 THEN 6 ELSE CalculateAgeOnDate(x.born, m)
   <3>1. n..6 \in SUBSET Buckets BY <2>0 DEF Buckets
   <3>2. SumFunctionOnSet(figures.ages, n..6) = Cardinality({x \in S : bucket(x) \in n..6})
    <4>1. \A B \in SUBSET Buckets :
      SumFunctionOnSet(CalculateAgeDistribution(d, m), B)
        = Cardinality({x \in Present(d.children, m) : bucket(x) \in B}) BY AgesCount
    <4> HIDE DEF bucket
    <4> QED BY <1>1, <3>1, <4>1 DEF S
   <3>3. ASSUME NEW x \in S PROVE bucket(x) \in n..6 <=> n <= CalculateAgeOnDate(x.born, m) BY <1>4, <2>0
   <3>4. {x \in S : bucket(x) \in n..6} = aged
    <4> HIDE DEF bucket
    <4> QED BY <3>3
   <3> QED BY <1>6, <3>2, <3>4
  <2>5. SumFunctionOnSet(cell, C1) <= Cardinality(older) /\ SumFunctionOnSet(cell, C2) <= Cardinality(younger)
   <3>1. C1 \in SUBSET Cells(d) /\ C2 \in SUBSET Cells(d) BY <1>3
   <3>2. ASSUME NEW x \in S, NEW k \in CellsOf(d, x, m)
         PROVE  /\ k[1][1] \in Int /\ k[1][2] \in Int
                /\ k[1][1] <= FundingAgeOnDate(x.born, m) /\ FundingAgeOnDate(x.born, m) <= k[1][2]
     BY CellIs DEF Enrolled, Fitting, Banded, ToSet
   <3>3. DrawnIn(d, m, C1) \subseteq older
    <4>1. ASSUME NEW x \in S, NEW k \in CellsOf(d, x, m), k \in C1 PROVE x \in older BY <1>4, <2>0, <3>2, <4>1
    <4> QED BY <4>1 DEF DrawnIn, S
   <3>4. DrawnIn(d, m, C2) \subseteq younger
    <4>1. ASSUME NEW x \in S, NEW k \in CellsOf(d, x, m), k \in C2 PROVE x \in younger BY <1>4, <2>0, <3>2, <4>1
    <4> QED BY <4>1 DEF DrawnIn, S
   <3> HIDE DEF C1, C2, older, younger
   <3>5. /\ SumFunctionOnSet(cell, C1) = Cardinality(DrawnIn(d, m, C1))
         /\ SumFunctionOnSet(cell, C2) = Cardinality(DrawnIn(d, m, C2)) BY <1>1, <3>1, CellsCount
   <3> QED BY <2>3, <3>3, <3>4, <3>5, FS_Subset
  <2> QED BY <2>3, <2>4, <2>5
<1>8. AgesFollowBirthdays(figures, m) BY <1>7 DEF AgesFollowBirthdays, P, cell
<1> QED BY <1>8 DEF figures
----------------------------------------
(* A bill's comparison, and the income of its month. *)

\* A contract is picked of those that are active.
LEMMA PickOfActive ==
  ASSUME NEW rows, NEW m PROVE PickActive({k \in rows : ActiveOn(k, m)}, m) = PickActive(rows, m)
<1> DEFINE
  some == {k \in rows : ActiveOn(k, m)}
  active == {c \in rows : ActiveOn(c, m)}
  active2 == {c \in some : ActiveOn(c, m)}
  Top(S) == CHOOSE c \in S : \A d \in S : d.from < c.from \/ (d.from = c.from /\ d.id <= c.id)
<1>1. active2 = active OBVIOUS
<1>2. PickActive(some, m) = (IF active2 = {} THEN NoRow ELSE Top(active2))
  /\ PickActive(rows, m) = (IF active = {} THEN NoRow ELSE Top(active)) BY DEF PickActive
<1> HIDE DEF active, active2, Top, some
<1>3. PickActive(some, m) = PickActive(rows, m) BY <1>1, <1>2
<1> QED BY <1>3 DEF some

\* What a child with a contract earns.
LEMMA EarnedFacts ==
  ASSUME NEW t, Tabled(t), NEW m, NEW c \in Attending(t, m)
  PROVE  LET contract == ContractAt(t, c, m)
             period == FindPeriodForDate(t.funding, m)
             age == FundingAgeOnDate(Born[c], m)
         IN  /\ EarnedAt(t, c, m) = TotalPay(MatchFundingProperties(age, contract.props, period))
             /\ EarnedAt(t, c, m) = SumFunction(CalcAmounts(age, contract.props, period))
             /\ EarnedAt(t, c, m) \in Int
<1> DEFINE
  contract == ContractAt(t, c, m)
  period == FindPeriodForDate(t.funding, m)
  age == FundingAgeOnDate(Born[c], m)
<1>1. EarnedAt(t, c, m) = SumFunction(CalcAmounts(age, contract.props, period)) BY DEF EarnedAt, Attending
<1>2. LET pay == TotalPay(MatchFundingProperties(age, contract.props, period))
  IN  pay \in Int /\ pay = SumFunction(CalcAmounts(age, contract.props, period)) BY PayFacts DEF Tabled
<1> QED BY <1>1, <1>2

\* Its entry in the comparison, with the bill's rows of the child or without.
LEMMA ChildsEntry ==
  ASSUME NEW t, Tabled(t), NEW m \in BilledMonths(t), NEW v, FullShot(v, t, m), NEW c \in Attending(t, m)
  PROVE  \E x \in ComparePeriod(v).entries :
             x.child = c /\ IF x.calc = NoRow THEN EarnedAt(t, c, m) = 0 ELSE x.calc = EarnedAt(t, c, m)
<1>1. /\ DOMAIN v.rows \subseteq Nat /\ v.rows = t.bills[m].rows /\ v.month = m /\ v.funding = t.funding
      /\ ComparePeriod(v).entries = Billed(v) \cup Absent(v)
      /\ c \in Children /\ c \in v.active /\ ContractAt(t, c, m) # NoRow
      /\ \A i \in DOMAIN v.rows : i \in RowsOf(t, c, m) <=> v.childOf[v.rows[i].number] = c
  BY ShotRows DEF FullShot, Attending
<1>2. c # NoRow BY <1>1, RatesAssumption, ReportSentinels
<1>3. CASE m \in ListedMonths(t, c)
  <2>1. PICK i \in DOMAIN v.rows : LET y == CompareGroup(v, GroupOf(v, i))
                                   IN  y.child = c /\ FiguresOf(v, GroupOf(v, i)) = ChildFigures(t, c, m)
    BY <1>1, <1>3, ContractCompared DEF FullShot
  <2> DEFINE y == CompareGroup(v, GroupOf(v, i))
  <2>2. y \in ComparePeriod(v).entries BY <1>1 DEF Billed
  <2>3. y.calc = ChildFigures(t, c, m).calc BY <2>1, GroupCompared
  <2>4. ChildFigures(t, c, m).calc = HistoryOf(t, c, m).calc BY HistoryFields
  <2>5. IF HistoryOf(t, c, m).calc = NoRow THEN EarnedAt(t, c, m) = 0 ELSE HistoryOf(t, c, m).calc = EarnedAt(t, c, m)
    BY <1>1, <1>3, HistoryEarned
  <2> QED BY <2>1, <2>2, <2>3, <2>4, <2>5
<1>4. CASE m \notin ListedMonths(t, c)
  <2>1. ASSUME NEW i \in DOMAIN v.rows PROVE v.childOf[v.rows[i].number] # c
   <3>1. ASSUME i \in RowsOf(t, c, m) PROVE FALSE
    <4>1. <<m, i>> \in Named(t, c) /\ <<m, i>>[1] = m BY <3>1 DEF Named, BilledMonths
    <4> QED BY <1>4, <4>1 DEF ListedMonths
   <3> QED BY <1>1, <3>1
  <2>2. c \notin {x.child : x \in Billed(v)}
   <3>1. ASSUME NEW i \in DOMAIN v.rows PROVE CompareGroup(v, GroupOf(v, i)).child # c
     BY <1>1, Groups, GroupsChild, <1>2, <2>1 DEF ChildOf
   <3> QED BY <3>1 DEF Billed
  <2>3. ~AllInBill(v, c) BY <1>1, <2>1 DEF FullShot, Shot, VouchersOf, ToSet, AllInBill
  <2>4. PickActive(v.preloaded[c], v.month) = ContractAt(t, c, m)
    BY <1>1, PickOfActive DEF FullShot, ActiveContracts, ContractAt
  <2> DEFINE y == CalcOnly(v, c)
  <2>5. y \in ComparePeriod(v).entries BY <1>1, <2>2, <2>3, <2>4 DEF Absent
  <2>6. y.child = c /\ y.calc = SumFunction(CalcAmounts(FundingAgeOnDate(Born[c], m), ContractAt(t, c, m).props,
                                                        FindPeriodForDate(t.funding, m))) BY <1>1, <2>4 DEF CalcOnly
  <2> HIDE DEF y
  <2>7. y.calc = EarnedAt(t, c, m) /\ y.calc # NoRow BY <2>6, EarnedFacts, ReportSentinels
  <2> QED BY <2>5, <2>6, <2>7
<1> QED BY <1>3, <1>4

\* Whose an entry may be; nobody's has no calculated figure.
LEMMA EntrysChild ==
  ASSUME NEW t, Tabled(t), Linked(t), NEW m \in BilledMonths(t), NEW v, FullShot(v, t, m),
         NEW x \in ComparePeriod(v).entries
  PROVE  /\ x.child \in Attending(t, m) \cup {NoRow} /\ Sides(x)
         /\ x.child = NoRow => x.calc = NoRow
<1>1. /\ DOMAIN v.rows \subseteq Nat /\ v.rows = t.bills[m].rows /\ v.month = m /\ v.funding = t.funding
      /\ ComparePeriod(v).entries = Billed(v) \cup Absent(v)
      /\ \A c \in Children : v.contractOf[c] = ContractAt(t, c, m) /\ (c \in v.active <=> ContractAt(t, c, m) # NoRow)
      /\ v.active \subseteq Children /\ v.childOf = t.linked BY ShotRows DEF FullShot, Shot
<1>2. Readable(v) BY <1>1, BillsTabled DEF Readable, Tabled
<1>3. Sides(x) BY <1>2, EntriesSides
<1>4. CASE x \in Absent(v)
  <2>1. PICK c \in v.active : x = CalcOnly(v, c) BY <1>4 DEF Absent
  <2>2. x.child = c BY <2>1 DEF CalcOnly
  <2>3. c \in Attending(t, m) BY <1>1, <2>1 DEF Attending
  <2>4. c # NoRow
   <3>1. c \in Children BY <1>1
   <3> QED BY <3>1, RatesAssumption, ReportSentinels
  <2> QED BY <1>3, <2>2, <2>3, <2>4
<1>5. CASE x \in Billed(v)
  <2>1. PICK i \in DOMAIN v.rows : x = CompareGroup(v, GroupOf(v, i)) BY <1>5 DEF Billed
  <2> DEFINE
    child == ChildOf(v, i)
    payments == PaymentsOf(v.rows, GroupOf(v, i))
    contract == IF child = NoRow THEN NoRow ELSE v.contractOf[child]
    age == IF child \in v.active THEN FundingAgeOnDate(Born[child], v.month) ELSE NoRow
  <2>2. x.child = child /\ FiguresOf(v, GroupOf(v, i)) = ComputeChildComparison(payments, contract, age, v.month, v.funding)
    BY <1>1, <2>1, GroupsFigures
  <2>3. child # NoRow => child \in Attending(t, m) BY <1>1 DEF Linked, ChildOf, Resolved, Attending
  <2>4. x.calc = FiguresOf(v, GroupOf(v, i)).calc BY <2>1, GroupCompared
  <2> HIDE DEF child, payments, age
  <2>5. child = NoRow => ComputeChildComparison(payments, contract, age, v.month, v.funding).calc = NoRow
    BY DEF ComputeChildComparison
  <2> QED BY <1>3, <2>2, <2>3, <2>4, <2>5
<1> QED BY <1>1, <1>4, <1>5

\* Its children of the month, and what each of them earns.
LEMMA AttendingPresent ==
  ASSUME NEW t, Tabled(t), NEW d, DataOf(d, t), NEW m
  PROVE  /\ Present(d.children, m) = {ChildOfTables(t, c) : c \in Attending(t, m)}
         /\ \A c \in Attending(t, m) : PayOf(d, ChildOfTables(t, c), m) = EarnedAt(t, c, m)
         /\ \A c, e \in Attending(t, m) : ChildOfTables(t, c) = ChildOfTables(t, e) => c = e
<1> DEFINE P(c) == ChildOfTables(t, c)
<1>1. \A c : P(c).id = c /\ P(c).born = Born[c] /\ P(c).contracts = ContractsOf(t, c) BY DEF ChildOfTables
<1>2. \A c : Contract(P(c), m) = ContractAt(t, c, m) BY <1>1 DEF Contract, ContractAt
<1>3. \A c : ContractAt(t, c, m) # NoRow => ContractsOf(t, c) # {} BY DEF ContractAt, PickActive
<1>4. Present(d.children, m) = {x \in {P(c) : c \in {c \in Children : ContractsOf(t, c) # {}}} : Contract(x, m) # NoRow}
  BY DEF Present, Contract, DataOf
<1>5. ASSUME NEW c \in Attending(t, m) PROVE PayOf(d, P(c), m) = EarnedAt(t, c, m)
  <2>1. EarnedAt(t, c, m) = TotalPay(MatchFundingProperties(FundingAgeOnDate(Born[c], m), ContractAt(t, c, m).props,
    FindPeriodForDate(t.funding, m))) BY EarnedFacts
  <2>2. d.funding = t.funding BY DEF DataOf
  <2> HIDE DEF P
  <2> QED BY <1>1, <1>2, <2>1, <2>2 DEF PayOf, Entitlements
<1> HIDE DEF P
<1>6. \A x : x \in Present(d.children, m) <=> \E c \in Attending(t, m) : x = P(c) BY <1>2, <1>3, <1>4 DEF Attending
<1>7. Present(d.children, m) = {P(c) : c \in Attending(t, m)} BY <1>6
<1>8. \A c, e \in Attending(t, m) : P(c) = P(e) => c = e BY <1>1
<1> QED BY <1>5, <1>7, <1>8 DEF P

\* The comparison is measured against the income.
LEMMA ComparedWithIncome ==
  ASSUME NEW t, Tabled(t), Linked(t), NEW m \in BilledMonths(t), NEW v, FullShot(v, t, m),
         NEW d, DataOf(d, t), Enrolled(d) PROVE MeasuredAgainstIncome(ComparePeriod(v), CalculateFinancials(d, m))
<1> DEFINE
  A == Attending(t, m)
  S == Present(d.children, m)
  E == ComparePeriod(v).entries
  N == {x \in E : x.child # NoRow}
  pay == [x \in S |-> PayOf(d, x, m)]
  earned == [c \in A |-> EarnedAt(t, c, m)]
  person == [c \in A |-> ChildOfTables(t, c)]
  entry == [c \in A |-> CHOOSE x \in E : x.child = c]
  calc == [x \in E |-> IF x.calc = NoRow THEN 0 ELSE x.calc]
  income == CalculateFinancials(d, m)
<1>1. /\ IsFiniteSet(S) /\ Summands(pay, S)
      /\ income.childCount = Cardinality(S) /\ income.fundingIncome = SumFunctionOnSet(pay, S) BY IncomeAddsUp
<1>2. /\ \A c \in A : person[c] \in S /\ pay[person[c]] = earned[c] /\ earned[c] \in Int
      /\ \A c, e \in A : person[c] = person[e] => c = e
      /\ Image(person, A, S)
  <2>1. /\ S = {ChildOfTables(t, c) : c \in A}
        /\ \A c \in A : PayOf(d, ChildOfTables(t, c), m) = EarnedAt(t, c, m)
        /\ \A c, e \in A : ChildOfTables(t, c) = ChildOfTables(t, e) => c = e BY AttendingPresent
  <2>2. \A c \in A : EarnedAt(t, c, m) \in Int BY EarnedFacts
  <2> HIDE DEF S, A
  <2> QED BY <2>1, <2>2 DEF Image
<1>3. /\ IsFiniteSet(E) /\ Once(ComparePeriod(v)) /\ Readable(v)
  BY BillsTabled, EntriesSides, ComparesOnce DEF Readable, Tabled, FullShot, Shot, BillsRows
<1>4. \A x \in E : /\ x.child \in A \cup {NoRow} /\ Sides(x) /\ (x.child = NoRow => x.calc = NoRow)
  <2> SUFFICES ASSUME NEW x \in E
    PROVE  x.child \in A \cup {NoRow} /\ Sides(x) /\ (x.child = NoRow => x.calc = NoRow) OBVIOUS
  <2> QED BY EntrysChild
<1>5. \A c \in A : \E x \in E : x.child = c /\ IF x.calc = NoRow THEN earned[c] = 0 ELSE x.calc = earned[c]
  <2> SUFFICES ASSUME NEW c \in A
    PROVE  \E x \in E : x.child = c /\ IF x.calc = NoRow THEN earned[c] = 0 ELSE x.calc = earned[c] OBVIOUS
  <2>1. earned[c] = EarnedAt(t, c, m) OBVIOUS
  <2>2. \E x \in E : x.child = c /\ IF x.calc = NoRow THEN EarnedAt(t, c, m) = 0 ELSE x.calc = EarnedAt(t, c, m)
    BY ChildsEntry
  <2> QED BY <2>1, <2>2
<1>6. NoRow \notin A
  <2>1. A \subseteq Children BY DEF Attending
  <2>2. \A c \in Children : c # NoRow
   <3> TAKE c \in Children
   <3> QED BY RatesAssumption, ReportSentinels
  <2> HIDE DEF A
  <2> QED BY <2>1, <2>2
<1>7. \A x, y \in N : x.child = y.child => x = y BY <1>3 DEF Once
<1>8. ComparePeriod(v).calc = SumFunction([x \in {x \in Counted(E) : x.calc # NoRow} |-> x.calc]) BY DEF ComparePeriod
<1> HIDE DEF E, S, A, pay, earned, person, income
<1>9. \A c \in A : entry[c] \in N /\ entry[c].child = c /\ calc[entry[c]] = earned[c]
  <2> SUFFICES ASSUME NEW c \in A PROVE entry[c] \in N /\ entry[c].child = c /\ calc[entry[c]] = earned[c] OBVIOUS
  <2>1. PICK x \in E : x.child = c /\ IF x.calc = NoRow THEN earned[c] = 0 ELSE x.calc = earned[c] BY <1>5
  <2>2. entry[c] \in E /\ entry[c].child = c BY <2>1
  <2>3. entry[c] = x BY <1>6, <1>7, <2>1, <2>2
  <2> QED BY <1>6, <2>1, <2>2, <2>3
<1>10. \A x \in N : x.child \in A /\ entry[x.child] = x BY <1>4, <1>7, <1>9
<1>11. Cardinality(S) = Cardinality(A) /\ IsFiniteSet(A)
  BY ReportAssumption, FS_Subset, <1>2, NamedCount DEF A, Attending
<1>12. Image(entry, A, N) /\ \A c, e \in A : entry[c] = entry[e] => c = e
  <2> HIDE DEF entry, N
  <2>1. \A x \in N : \E c \in A : x = entry[c] BY <1>10
  <2>2. N = {entry[c] : c \in A} BY <1>9, <2>1
  <2>3. \A c, e \in A : entry[c] = entry[e] => c = e
   <3> SUFFICES ASSUME NEW c \in A, NEW e \in A, entry[c] = entry[e] PROVE c = e OBVIOUS
   <3>1. entry[c].child = c /\ entry[e].child = e BY <1>9
   <3> QED BY <3>1
  <2> QED BY <2>2, <2>3 DEF Image
<1>13. Cardinality(N) = Cardinality(A)
  <2> HIDE DEF entry, N
  <2> QED BY <1>11, <1>12, NamedCount
<1>14. Summands(earned, A) BY <1>2, <1>11 DEF Summands
<1>15. SumFunctionOnSet(pay, S) = SumFunctionOnSet(earned, A) BY <1>2, <1>14, SumRenamed DEF Renamed
<1>16. Summands(calc, N) /\ SumFunctionOnSet(calc, N) = SumFunctionOnSet(earned, A)
  <2>1. Renamed(earned, A, entry, calc) BY <1>9, <1>12 DEF Renamed
  <2> HIDE DEF entry, calc, N
  <2> QED BY <1>12, <1>14, <2>1, SumRenamed
<1> DEFINE
  C == {x \in Counted(E) : x.calc # NoRow}
  f == [x \in C |-> x.calc]
<1>17. C = {x \in N : x.calc # NoRow} BY <1>4, ReportSentinels DEF Sides, Counted
<1>18. C \in SUBSET N /\ (\A x \in N \ C : calc[x] = 0) /\ \A x \in C : f[x] = calc[x] BY <1>17
<1>19. SumFunction(f) = SumFunctionOnSet(f, C) BY DEF SumFunction
<1> HIDE DEF entry, calc, N, C, f
<1>20. Summands(calc, C) /\ SumFunctionOnSet(calc, N) = SumFunctionOnSet(calc, C) BY <1>16, <1>18, SumDrop
<1>21. SumFunctionOnSet(f, C) = SumFunctionOnSet(calc, C) BY <1>18, <1>20, SumSame
<1>22. ComparePeriod(v).calc = SumFunction(f) BY <1>8 DEF f, C
<1> QED BY <1>1, <1>11, <1>13, <1>15, <1>16, <1>19, <1>20, <1>21, <1>22 DEF MeasuredAgainstIncome, N, E, income
----------------------------------------
(* Persons exchanged for others like them. *)

\* What is said of both is said of as many.
LEMMA ExchangedCount ==
  ASSUME NEW S, NEW T, NEW e, NEW m, NEW rows, Exchange(S, T, e, m, rows),
         NEW A \in SUBSET S, NEW B \in SUBSET T, \A x \in S : x \in A <=> e[x] \in B
  PROVE  IsFiniteSet(T) /\ IsFiniteSet(A) /\ IsFiniteSet(B) /\ Cardinality(B) = Cardinality(A)
<1>1. IsFiniteSet(A) BY FS_Subset DEF Exchange
<1>2. Image(e, A, B)
  <2>1. T = {e[x] : x \in S} BY DEF Exchange, Image
  <2>2. \A y \in B : \E x \in A : y = e[x] BY <2>1
  <2>3. \A x \in A : e[x] \in B OBVIOUS
  <2> QED BY <2>2, <2>3 DEF Image
<1>3. \A x, y \in A : e[x] = e[y] => x = y BY DEF Exchange
<1>4. IsFiniteSet(B) /\ Cardinality(B) = Cardinality(A) BY <1>1, <1>2, <1>3, NamedCount
<1>5. IsFiniteSet(T) BY FiniteImage DEF Exchange
<1> QED BY <1>1, <1>4, <1>5

\* What is summed over both comes to as much.
LEMMA ExchangedSum ==
  ASSUME NEW S, NEW T, NEW e, NEW m, NEW rows, Exchange(S, T, e, m, rows),
         NEW a, NEW b, \A x \in S : a[x] \in Int /\ b[e[x]] = a[x]
  PROVE  Summands(a, S) /\ Summands(b, T) /\ SumFunctionOnSet(b, T) = SumFunctionOnSet(a, S)
<1>1. Summands(a, S) BY DEF Exchange, Summands
<1>2. Renamed(a, S, e, b) /\ Image(e, S, T) BY DEF Exchange, Renamed
<1> QED BY <1>1, <1>2, SumRenamed

\* Each gets the same rates, and is drawn in cells of the same care type and lower bound.
LEMMA ChildExchanged ==
  ASSUME NEW d, NEW f, NEW e, NEW m, ChildrenExchanged(d, f, e, m), NEW x \in Present(d.children, m)
  PROVE  /\ Entitlements(f, e[x], m) = Entitlements(d, x, m) /\ PayOf(f, e[x], m) = PayOf(d, x, m)
         /\ PayOf(d, x, m) \in Int
         /\ CellsOf(f, e[x], m) = {} <=> CellsOf(d, x, m) = {}
         /\ \A k \in CellsOf(d, x, m), l \in CellsOf(f, e[x], m) : k[1][1] = l[1][1] /\ k[2] = l[2]
<1>1. /\ Contract(e[x], m).props = Contract(x, m).props /\ e[x].born = x.born
      /\ f.funding = d.funding /\ ToSet(f.bands) = ToSet(d.bands)
      /\ Fundings(d.funding) /\ Banded(d) /\ Banded(f)
  BY DEF ChildrenExchanged, Exchange, Copy, ContractRows, Enrolled
<1>2. Entitlements(f, e[x], m) = Entitlements(d, x, m) BY <1>1 DEF Entitlements
<1>3. PayOf(d, x, m) \in Int BY <1>1, PayFacts DEF PayOf, Entitlements
<1>4. Fitting(f, e[x], m) = Fitting(d, x, m) /\ TypesOf(f, e[x], m) = TypesOf(d, x, m) BY <1>1 DEF Fitting, TypesOf
<1>5. /\ CellsOf(d, x, m) = {} <=> Fitting(d, x, m) = {} \/ TypesOf(d, x, m) = {}
      /\ \A k \in CellsOf(d, x, m) : /\ k[1] \in Fitting(d, x, m) /\ k[2] \in TypesOf(d, x, m)
                                     /\ \A b \in Fitting(d, x, m) : k[1][1] <= b[1] BY <1>1, CellIs
<1>6. /\ CellsOf(f, e[x], m) = {} <=> Fitting(d, x, m) = {} \/ TypesOf(d, x, m) = {}
      /\ \A k \in CellsOf(f, e[x], m) : /\ k[1] \in Fitting(d, x, m) /\ k[2] \in TypesOf(d, x, m)
                                        /\ \A b \in Fitting(d, x, m) : k[1][1] <= b[1] BY <1>1, <1>4, CellIs
<1>7. \A b \in Fitting(d, x, m) : b[1] \in Int BY <1>1 DEF Fitting, Banded, ToSet
<1>8. \A v, w \in TypesOf(d, x, m) : v = w BY DEF TypesOf, PickCareType
<1>9. ASSUME NEW k \in CellsOf(d, x, m), NEW l \in CellsOf(f, e[x], m) PROVE k[1][1] = l[1][1] /\ k[2] = l[2]
  BY <1>5, <1>6, <1>7, <1>8
<1> QED BY <1>2, <1>3, <1>5, <1>6, <1>9 DEF PayOf

\* The occupancy is the same, but for the choice of cells with the same lower bound.
LEMMA OccupancyExchanged ==
  ASSUME NEW d, NEW f, NEW e, NEW m, ChildrenExchanged(d, f, e, m)
  PROVE  SameOccupancy(CalculateOccupancy(d, m), CalculateOccupancy(f, m))
<1> DEFINE
  S == Present(d.children, m)
  T == Present(f.children, m)
  one == CalculateOccupancy(d, m)
  other == CalculateOccupancy(f, m)
  level(cell, x) == {y \in DOMAIN cell : y[1][1] = x[1][1] /\ y[2] = x[2]}
<1>1. Exchange(S, T, e, m, ContractRows) /\ Enrolled(d) /\ Enrolled(f) BY DEF ChildrenExchanged
<1>2. \A x \in S : /\ e[x] \in T /\ (CellsOf(f, e[x], m) = {} <=> CellsOf(d, x, m) = {})
                   /\ \A k \in CellsOf(d, x, m), l \in CellsOf(f, e[x], m) : k[1][1] = l[1][1] /\ k[2] = l[2]
  BY <1>1, ChildExchanged DEF Exchange, Image
<1>3. Cells(f) = Cells(d) BY DEF ChildrenExchanged, Cells
<1>4. /\ one.total = Cardinality(S) /\ other.total = Cardinality(T)
      /\ one.unmatched = Cardinality({x \in S : CellsOf(d, x, m) = {}})
      /\ other.unmatched = Cardinality({x \in T : CellsOf(f, x, m) = {}})
      /\ DOMAIN one.cell = Cells(d) /\ DOMAIN other.cell = Cells(d) BY <1>3, OccupancyIs
<1>5. /\ \A x \in S : CellsOf(d, x, m) \subseteq Cells(d)
      /\ \A x \in T : CellsOf(f, x, m) \subseteq Cells(d) BY <1>1, <1>3, OneCell DEF Enrolled, Cells
<1>6. \A C \in SUBSET Cells(d) :
          /\ SumFunctionOnSet(one.cell, C) = Cardinality({x \in S : CellsOf(d, x, m) \cap C # {}})
          /\ SumFunctionOnSet(other.cell, C) = Cardinality({x \in T : CellsOf(f, x, m) \cap C # {}})
  BY <1>1, <1>3, CellsCount DEF DrawnIn
<1> HIDE DEF S, T, one, other
<1>7. other.total = one.total BY <1>2, <1>1, ExchangedCount, <1>4
<1>8. other.unmatched = one.unmatched
  <2> DEFINE
    A == {x \in S : CellsOf(d, x, m) = {}}
    B == {x \in T : CellsOf(f, x, m) = {}}
  <2>1. A \in SUBSET S /\ B \in SUBSET T /\ \A x \in S : x \in A <=> e[x] \in B BY <1>2
  <2> HIDE DEF A, B
  <2>2. Cardinality(B) = Cardinality(A) BY <1>1, <2>1, ExchangedCount
  <2> QED BY <1>4, <2>2 DEF A, B
<1>9. ASSUME NEW c \in Cells(d)
  PROVE  SumFunctionOnSet(other.cell, level(other.cell, c)) = SumFunctionOnSet(one.cell, level(one.cell, c))
  <2> DEFINE
    C == {y \in Cells(d) : y[1][1] = c[1][1] /\ y[2] = c[2]}
    A == {x \in S : CellsOf(d, x, m) \cap C # {}}
    B == {x \in T : CellsOf(f, x, m) \cap C # {}}
  <2>1. level(one.cell, c) = C /\ level(other.cell, c) = C /\ C \in SUBSET Cells(d) BY <1>4
  <2>2. ASSUME NEW x \in S PROVE x \in A <=> e[x] \in B
   <3> DEFINE
     own == CellsOf(d, x, m)
     new == CellsOf(f, e[x], m)
   <3>1. /\ e[x] \in T /\ (new = {} <=> own = {})
         /\ \A k \in own, l \in new : k[1][1] = l[1][1] /\ k[2] = l[2]
         /\ own \subseteq Cells(d) /\ new \subseteq Cells(d) BY <1>2, <1>5
   <3>2. (x \in A <=> own \cap C # {}) /\ (e[x] \in B <=> new \cap C # {}) BY <3>1
   <3> HIDE DEF own, new, A, B
   <3>3. \A k \in own, l \in new : k \in C <=> l \in C BY <3>1
   <3> HIDE DEF C
   <3> QED BY <3>1, <3>2, <3>3
  <2>3. A \in SUBSET S /\ B \in SUBSET T OBVIOUS
  <2>4. SumFunctionOnSet(one.cell, C) = Cardinality(A) /\ SumFunctionOnSet(other.cell, C) = Cardinality(B)
    BY <1>6, <2>1
  <2> HIDE DEF A, B, C, level
  <2>5. Cardinality(B) = Cardinality(A) BY <1>1, <2>2, <2>3, ExchangedCount
  <2> QED BY <2>1, <2>4, <2>5
<1>10. SameOccupancy(one, other) BY <1>4, <1>7, <1>8, <1>9 DEF SameOccupancy
<1> QED BY <1>10 DEF one, other

\* So are those of both of whom the same is said.
LEMMA ExchangedPart ==
  ASSUME NEW S, NEW T, NEW e, NEW m, NEW rows, Exchange(S, T, e, m, rows),
         NEW A \in SUBSET S, NEW B \in SUBSET T, \A x \in S : x \in A <=> e[x] \in B PROVE Exchange(A, B, e, m, rows)
<1>1. IsFiniteSet(A) BY FS_Subset DEF Exchange
<1>2. Image(e, A, B)
  <2>1. T = {e[x] : x \in S} BY DEF Exchange, Image
  <2>2. \A y \in B : \E x \in A : y = e[x] BY <2>1
  <2>3. \A x \in A : e[x] \in B OBVIOUS
  <2> QED BY <2>2, <2>3 DEF Image
<1> QED BY <1>1, <1>2 DEF Exchange

\* Each costs the same.
LEMMA EmployeeExchanged ==
  ASSUME NEW d, NEW f, NEW e, NEW m, StaffExchanged(d, f, e, m), NEW x \in Present(d.staff, m)
  PROVE  LET cost == EmployeeMonthlyCost(d, Contract(x, m), m)
         IN  /\ EmployeeMonthlyCost(f, Contract(e[x], m), m) = cost
             /\ cost # NoRow => cost.gross \in Int /\ cost.employer \in Int
             /\ Contract(e[x], m).category = Contract(x, m).category
             /\ Contract(e[x], m).hours = Contract(x, m).hours /\ Contract(x, m).hours \in Int
<1> DEFINE
  k == Contract(x, m)
  l == Contract(e[x], m)
<1>1. k \in StaffContracts /\ l \in StaffContracts /\ l = [k EXCEPT !.id = l.id] BY DEF StaffExchanged, Exchange, Copy
<1> HIDE DEF k, l
<1>2. /\ l.plan = k.plan /\ l.grade = k.grade /\ l.step = k.step /\ l.hours = k.hours /\ l.category = k.category
      /\ k.hours \in Int BY <1>1 DEF StaffContracts
<1>3. f.plans = d.plans /\ PayPlans(d.plans) BY DEF StaffExchanged
<1>4. PayPlanPeriod(f, l, m) = PayPlanPeriod(d, k, m) BY <1>2, <1>3 DEF PayPlanPeriod
<1>5. EmployeeMonthlyCost(f, l, m) = EmployeeMonthlyCost(d, k, m) BY <1>2, <1>4 DEF Gross, EmployeeMonthlyCost
<1>6. EmployeeMonthlyCost(d, k, m) # NoRow =>
          EmployeeMonthlyCost(d, k, m).gross \in Int /\ EmployeeMonthlyCost(d, k, m).employer \in Int
  BY <1>1, <1>3, CostFacts
<1> QED BY <1>2, <1>5, <1>6 DEF k, l

\* The income and the expenses in these terms.
LEMMA FinancialsAre ==
  ASSUME NEW d, NEW m
  PROVE  LET count == Cardinality(Present(d.children, m))
         IN  CalculateFinancials(d, m)
               = [fundingIncome |-> PaySum(d, m), grossSalary |-> GrossSum(d, m), employerCosts |-> EmployerSum(d, m),
                  balance |-> PaySum(d, m) + BudgetSum(d.items, m, count, TRUE) - GrossSum(d, m) - EmployerSum(d, m)
                                - BudgetSum(d.items, m, count, FALSE),
                  childCount |-> count, staffCount |-> Cardinality(Present(d.staff, m))]
<1> DEFINE
  P == Present(d.staff, m)
  costs == [x \in P |-> EmployeeMonthlyCost(d, Contract(x, m), m)]
  paid == {x \in DOMAIN costs : costs[x] # NoRow}
  count == Cardinality(Present(d.children, m))
  gross == SumFunction([x \in paid |-> costs[x].gross])
  employer == SumFunction([x \in paid |-> costs[x].employer])
<1>1. DOMAIN costs = P /\ paid = PaidIn(d, m)
      /\ \A x \in P : costs[x] = EmployeeMonthlyCost(d, Contract(x, m), m) BY DEF PaidIn
<1>2. CalculateFinancials(d, m)
        = [fundingIncome |-> PaySum(d, m), grossSalary |-> gross, employerCosts |-> employer,
           balance |-> PaySum(d, m) + BudgetSum(d.items, m, count, TRUE) - gross - employer
                         - BudgetSum(d.items, m, count, FALSE),
           childCount |-> count, staffCount |-> Cardinality(DOMAIN costs)]
  BY DEF CalculateFinancials, PaySum, PayOf, BudgetSum
<1> HIDE DEF costs, P
<1>3. [x \in paid |-> costs[x].gross] = [x \in PaidIn(d, m) |-> EmployeeMonthlyCost(d, Contract(x, m), m).gross]
  BY <1>1 DEF PaidIn, P
<1>4. [x \in paid |-> costs[x].employer] = [x \in PaidIn(d, m) |-> EmployeeMonthlyCost(d, Contract(x, m), m).employer]
  BY <1>1 DEF PaidIn, P
<1>5. gross = GrossSum(d, m) /\ employer = EmployerSum(d, m) BY <1>3, <1>4 DEF GrossSum, EmployerSum
<1> HIDE DEF paid, gross, employer, count
<1> QED BY <1>1, <1>2, <1>5 DEF P, count

\* They are the same.
LEMMA FinancialsExchanged ==
  ASSUME NEW d, NEW f, NEW e, NEW h, NEW m, ChildrenExchanged(d, f, e, m), StaffExchanged(d, f, h, m),
         f.items = d.items PROVE CalculateFinancials(f, m) = CalculateFinancials(d, m)
<1> DEFINE
  S == Present(d.children, m)
  T == Present(f.children, m)
  A == PaidIn(d, m)
  B == PaidIn(f, m)
  cost(g, x) == EmployeeMonthlyCost(g, Contract(x, m), m)
<1>1. Exchange(S, T, e, m, ContractRows) /\ \A x \in S : e[x] \in T BY DEF ChildrenExchanged, Exchange, Image
<1>2. Exchange(Present(d.staff, m), Present(f.staff, m), h, m, StaffContracts)
  /\ \A x \in Present(d.staff, m) : h[x] \in Present(f.staff, m) BY DEF StaffExchanged, Exchange, Image
<1>3. \A x \in Present(d.staff, m) :
          cost(f, h[x]) = cost(d, x) /\ (cost(d, x) # NoRow => cost(d, x).gross \in Int /\ cost(d, x).employer \in Int)
  BY EmployeeExchanged
<1>4. Cardinality(T) = Cardinality(S) /\ Cardinality(Present(f.staff, m)) = Cardinality(Present(d.staff, m))
  <2>1. Cardinality(T) = Cardinality(S)
   <3> HIDE DEF S, T
   <3> QED BY <1>1, ExchangedCount
  <2>2. Cardinality(Present(f.staff, m)) = Cardinality(Present(d.staff, m))
   <3> DEFINE
     P == Present(d.staff, m)
     Q == Present(f.staff, m)
   <3>1. Exchange(P, Q, h, m, StaffContracts) /\ \A x \in P : h[x] \in Q BY <1>2
   <3> HIDE DEF P, Q
   <3>2. Cardinality(Q) = Cardinality(P) BY <3>1, ExchangedCount
   <3> QED BY <3>2 DEF P, Q
  <2> QED BY <2>1, <2>2
<1>5. PaySum(f, m) = PaySum(d, m)
  <2> DEFINE
    a == [x \in S |-> PayOf(d, x, m)]
    b == [x \in T |-> PayOf(f, x, m)]
  <2>1. \A x \in S : a[x] \in Int /\ b[e[x]] = a[x] BY <1>1, ChildExchanged
  <2>2. PaySum(f, m) = SumFunctionOnSet(b, T) /\ PaySum(d, m) = SumFunctionOnSet(a, S) BY DEF PaySum, SumFunction
  <2> HIDE DEF a, b, S, T
  <2> QED BY <1>1, <2>1, <2>2, ExchangedSum
<1>6. Exchange(A, B, h, m, StaffContracts) /\ A \subseteq Present(d.staff, m) /\ \A x \in A : h[x] \in B
  <2>1. A \in SUBSET Present(d.staff, m) /\ B \in SUBSET Present(f.staff, m) BY DEF PaidIn
  <2>2. \A x \in Present(d.staff, m) : x \in A <=> h[x] \in B BY <1>2, <1>3 DEF PaidIn
  <2> HIDE DEF A, B
  <2> QED BY <1>2, <2>1, <2>2, ExchangedPart
<1>7. \A x \in A : cost(d, x) # NoRow BY DEF PaidIn
<1>8. GrossSum(f, m) = GrossSum(d, m)
  <2> DEFINE
    a == [x \in A |-> cost(d, x).gross]
    b == [x \in B |-> cost(f, x).gross]
  <2> HIDE DEF A, B, cost
  <2>1. \A x \in A : a[x] \in Int /\ b[h[x]] = a[x] BY <1>3, <1>6, <1>7
  <2>2. GrossSum(f, m) = SumFunctionOnSet(b, B) /\ GrossSum(d, m) = SumFunctionOnSet(a, A)
    BY DEF GrossSum, SumFunction, A, B, cost
  <2> HIDE DEF a, b
  <2> QED BY <1>6, <2>1, <2>2, ExchangedSum
<1>9. EmployerSum(f, m) = EmployerSum(d, m)
  <2> DEFINE
    a == [x \in A |-> cost(d, x).employer]
    b == [x \in B |-> cost(f, x).employer]
  <2> HIDE DEF A, B, cost
  <2>1. \A x \in A : a[x] \in Int /\ b[h[x]] = a[x] BY <1>3, <1>6, <1>7
  <2>2. EmployerSum(f, m) = SumFunctionOnSet(b, B) /\ EmployerSum(d, m) = SumFunctionOnSet(a, A)
    BY DEF EmployerSum, SumFunction, A, B, cost
  <2> HIDE DEF a, b
  <2> QED BY <1>6, <2>1, <2>2, ExchangedSum
<1> QED BY <1>4, <1>5, <1>8, <1>9, FinancialsAre

\* The pedagogical staff of a month is named by those whose contract of the month is pedagogical.
LEMMA PedagoguesAre ==
  ASSUME NEW d, Employed(d.staff), NEW m \in Int
  PROVE  /\ Image([x \in Teaching(d, m) |-> Pedagogue(x)], Teaching(d, m), Present(PedagogicalEmployees(d), m))
         /\ \A x \in Teaching(d, m) : Contract(Pedagogue(x), m) = Contract(x, m)
         /\ \A x, y \in Teaching(d, m) : Pedagogue(x) = Pedagogue(y) => x = y
<1> DEFINE
  rows(x) == {c \in x.contracts : c.category \in Pedagogical}
  P == Present(PedagogicalEmployees(d), m)
<1>1. ASSUME NEW x \in d.staff PROVE Spans(x.contracts) /\ Spans(rows(x))
  <2>1. x.contracts \subseteq StaffContracts /\ OneAtATime(x.contracts) BY DEF Employed
  <2>2. \A k \in x.contracts : k.from \in Int /\ k.to \in Int /\ k.id \in Nat BY <2>1 DEF StaffContracts
  <2>3. NoRow \notin x.contracts BY <2>1, ReportSentinels
  <2>4. IsFiniteSet(rows(x)) /\ rows(x) \subseteq x.contracts BY <2>1, FS_Subset DEF OneAtATime
  <2> HIDE DEF rows
  <2>5. OneAtATime(rows(x)) BY <2>1, <2>4 DEF OneAtATime
  <2> QED BY <2>1, <2>2, <2>3, <2>4, <2>5 DEF Spans
<1>2. \A x : Pedagogue(x).id = x.id /\ Pedagogue(x).contracts = rows(x) BY DEF Pedagogue
<1>3. ASSUME NEW x \in d.staff PROVE Contract(Pedagogue(x), m) # NoRow <=> x \in Teaching(d, m)
  <2>1. ASSUME Contract(Pedagogue(x), m) # NoRow PROVE x \in Teaching(d, m)
   <3> DEFINE k == PickActive(rows(x), m)
   <3>1. k # NoRow BY <1>2, <2>1 DEF Contract
   <3>2. k \in rows(x) /\ ActiveOn(k, m) BY <1>1, <3>1, PickFacts
   <3>3. k \in x.contracts /\ k.category \in Pedagogical BY <3>2
   <3>4. PickActive(x.contracts, m) = k BY <1>1, <3>2, <3>3, PickFacts
   <3> HIDE DEF k
   <3> QED BY <3>1, <3>3, <3>4 DEF Teaching, Present, Contract
  <2>2. ASSUME x \in Teaching(d, m) PROVE Contract(Pedagogue(x), m) = Contract(x, m) /\ Contract(x, m) # NoRow
   <3> DEFINE k == PickActive(x.contracts, m)
   <3>1. k # NoRow /\ k.category \in Pedagogical BY <2>2 DEF Teaching, Present, Contract
   <3>2. k \in x.contracts /\ ActiveOn(k, m) BY <1>1, <3>1, PickFacts
   <3>3. k \in rows(x) BY <3>1, <3>2
   <3>4. PickActive(rows(x), m) = k BY <1>1, <3>2, <3>3, PickFacts
   <3> HIDE DEF k
   <3> QED BY <1>2, <3>1, <3>4 DEF Contract, k
  <2> QED BY <2>1, <2>2
<1>4. ASSUME NEW x \in Teaching(d, m) PROVE Contract(Pedagogue(x), m) = Contract(x, m) /\ x \in d.staff
  <2> DEFINE k == PickActive(x.contracts, m)
  <2>0. x \in d.staff BY DEF Teaching, Present
  <2>1. k # NoRow /\ k.category \in Pedagogical BY DEF Teaching, Present, Contract
  <2>2. k \in x.contracts /\ ActiveOn(k, m) BY <1>1, <2>0, <2>1, PickFacts
  <2>3. k \in rows(x) BY <2>1, <2>2
  <2>4. PickActive(rows(x), m) = k BY <1>1, <2>0, <2>2, <2>3, PickFacts
  <2> HIDE DEF k
  <2> QED BY <1>2, <2>0, <2>1, <2>4 DEF Contract, k
<1>5. \A y : y \in P <=> \E x \in d.staff : y = Pedagogue(x) /\ Contract(y, m) # NoRow
  <2>1. P = {y \in {y \in {Pedagogue(x) : x \in d.staff} : y.contracts # {}} : Contract(y, m) # NoRow}
    BY DEF Present, PedagogicalEmployees, Contract, Pedagogue
  <2>2. \A y : Contract(y, m) # NoRow => y.contracts # {} BY DEF Contract, PickActive
  <2> HIDE DEF P
  <2> QED BY <2>1, <2>2
<1>6. \A y : y \in P <=> \E x \in Teaching(d, m) : y = Pedagogue(x)
  <2> HIDE DEF P
  <2> QED BY <1>3, <1>4, <1>5
<1>7. P = {[y \in Teaching(d, m) |-> Pedagogue(y)][x] : x \in Teaching(d, m)}
  <2> HIDE DEF P
  <2>1. P = {Pedagogue(x) : x \in Teaching(d, m)} BY <1>6
  <2> QED BY <2>1
<1>8. \A x, y \in Teaching(d, m) : Pedagogue(x) = Pedagogue(y) => x = y BY <1>2, <1>4 DEF Employed
<1> QED BY <1>4, <1>7, <1>8 DEF Image

\* The staffing hours in these terms.
LEMMA StaffingIs ==
  ASSUME NEW d, Employed(d.staff), NEW m \in Int
  PROVE  LET T == Teaching(d, m)
         IN  CalculateStaffingHours(d, m)
               = [required |-> SumFunction([x \in Present(d.children, m) |-> RequiredOf(d, x, m)]),
                  available |-> SumFunction([x \in T |-> Contract(x, m).hours]), staffCount |-> Cardinality(T)]
<1> DEFINE
  T == Teaching(d, m)
  P == Present(PedagogicalEmployees(d), m)
  e == [x \in T |-> Pedagogue(x)]
  a == [x \in T |-> Contract(x, m).hours]
  b == [x \in P |-> Contract(x, m).hours]
<1>1. CalculateStaffingHours(d, m)
  = [required |-> SumFunction([x \in Present(d.children, m) |-> RequiredOf(d, x, m)]),
     available |-> SumFunction(b), staffCount |-> Cardinality(P)] BY DEF CalculateStaffingHours, RequiredOf
<1>2. Image(e, T, P) BY PedagoguesAre
<1>3. /\ \A x \in T : Contract(e[x], m) = Contract(x, m)
      /\ \A x, y \in T : e[x] = e[y] => x = y BY PedagoguesAre
<1>4. IsFiniteSet(T) /\ \A x \in T : Contract(x, m).hours \in Int
  <2>1. T \subseteq d.staff /\ IsFiniteSet(d.staff) BY DEF Teaching, Present, Employed
  <2>2. ASSUME NEW x \in T PROVE Contract(x, m).hours \in Int
   <3>1. x \in d.staff /\ Contract(x, m) # NoRow BY DEF Teaching, Present, Contract
   <3>2. x.contracts \subseteq StaffContracts /\ OneAtATime(x.contracts) BY <3>1 DEF Employed
   <3>3. (\A k \in x.contracts : k.from \in Int /\ k.to \in Int /\ k.id \in Nat) /\ NoRow \notin x.contracts
     BY <3>2, ReportSentinels DEF StaffContracts
   <3>4. Spans(x.contracts) BY <3>2, <3>3 DEF Spans
   <3>5. Contract(x, m) \in StaffContracts BY <3>1, <3>2, <3>4, PickFacts DEF Contract
   <3> QED BY <3>5 DEF StaffContracts
  <2> QED BY <2>1, <2>2, FS_Subset
<1> HIDE DEF T, P, e
<1>5. Summands(a, T) BY <1>4 DEF Summands
<1>6. Renamed(a, T, e, b) BY <1>2, <1>3 DEF Image, Renamed
<1>7. SumFunction(a) = SumFunctionOnSet(a, T) /\ SumFunction(b) = SumFunctionOnSet(b, P) BY DEF SumFunction
<1> HIDE DEF a, b
<1>8. SumFunctionOnSet(b, P) = SumFunctionOnSet(a, T) BY <1>2, <1>5, <1>6, SumRenamed
<1>9. Cardinality(P) = Cardinality(T) BY <1>2, <1>3, <1>4, NamedCount
<1> QED BY <1>1, <1>7, <1>8, <1>9 DEF a, b, T, P

\* They are the same.
LEMMA StaffingExchanged ==
  ASSUME NEW d, NEW f, NEW e, NEW h, NEW m \in Int, ChildrenExchanged(d, f, e, m), StaffExchanged(d, f, h, m),
         Employed(d.staff), Employed(f.staff) PROVE CalculateStaffingHours(f, m) = CalculateStaffingHours(d, m)
<1> DEFINE
  S == Present(d.children, m)
  T == Present(f.children, m)
  P == Present(d.staff, m)
  Q == Present(f.staff, m)
  A == Teaching(d, m)
  B == Teaching(f, m)
  a == [x \in S |-> RequiredOf(d, x, m)]
  b == [x \in T |-> RequiredOf(f, x, m)]
  g == [x \in A |-> Contract(x, m).hours]
  k == [x \in B |-> Contract(x, m).hours]
<1>1. Exchange(S, T, e, m, ContractRows) /\ \A x \in S : e[x] \in T BY DEF ChildrenExchanged, Exchange, Image
<1>2. Exchange(P, Q, h, m, StaffContracts) /\ \A x \in P : h[x] \in Q BY DEF StaffExchanged, Exchange, Image
<1>3. SumFunction(b) = SumFunction(a)
  <2>1. ASSUME NEW x \in S PROVE RequiredOf(d, x, m) \in Int /\ RequiredOf(f, e[x], m) = RequiredOf(d, x, m)
   <3> DEFINE
     period == FindPeriodForDate(d.funding, m)
     rates == Entitlements(d, x, m)
     w == [rate \in rates |-> rate.req * period.hours]
   <3>1. Entitlements(f, e[x], m) = rates /\ f.funding = d.funding /\ Fundings(d.funding)
    <4>1. Entitlements(f, e[x], m) = rates BY ChildExchanged
    <4> QED BY <4>1 DEF ChildrenExchanged, Enrolled
   <3>2. /\ IsFiniteSet(rates) /\ \A rate \in rates : rate.req \in Int
         /\ period # NoRow => period.hours \in Int
         /\ period = NoRow => rates = {} BY <3>1, MatchedFacts DEF Entitlements
   <3> HIDE DEF rates, period
   <3>3. \A rate \in rates : rate.req * period.hours \in Int BY <3>2
   <3>4. Summands(w, rates) BY <3>2, <3>3 DEF Summands
   <3>5. SumFunction(w) = SumFunctionOnSet(w, rates) BY DEF SumFunction
   <3>6. SumFunction(w) \in Int BY <3>4, <3>5, SumFacts
   <3> QED BY <3>1, <3>6 DEF RequiredOf, rates, period
  <2>2. \A x \in S : a[x] \in Int /\ b[e[x]] = a[x] BY <1>1, <2>1
  <2>3. SumFunction(b) = SumFunctionOnSet(b, T) /\ SumFunction(a) = SumFunctionOnSet(a, S) BY DEF SumFunction
  <2> HIDE DEF a, b, S, T
  <2> QED BY <1>1, <2>2, <2>3, ExchangedSum
<1>4. \A x \in P : /\ Contract(h[x], m).category = Contract(x, m).category
                   /\ Contract(h[x], m).hours = Contract(x, m).hours /\ Contract(x, m).hours \in Int
  <2> SUFFICES ASSUME NEW x \in P
    PROVE  /\ Contract(h[x], m).category = Contract(x, m).category
           /\ Contract(h[x], m).hours = Contract(x, m).hours /\ Contract(x, m).hours \in Int OBVIOUS
  <2> QED BY EmployeeExchanged
<1>5. A \in SUBSET P /\ B \in SUBSET Q /\ \A x \in P : x \in A <=> h[x] \in B BY <1>2, <1>4 DEF Teaching
<1> HIDE DEF P, Q, A, B, S, T, a, b
<1>6. Exchange(A, B, h, m, StaffContracts) /\ Cardinality(B) = Cardinality(A) /\ \A x \in A : h[x] \in B
  BY <1>2, <1>5, ExchangedPart, ExchangedCount
<1>7. SumFunction(k) = SumFunction(g)
  <2>1. \A x \in A : g[x] \in Int /\ k[h[x]] = g[x] BY <1>4, <1>5, <1>6
  <2>2. SumFunction(k) = SumFunctionOnSet(k, B) /\ SumFunction(g) = SumFunctionOnSet(g, A) BY DEF SumFunction
  <2> HIDE DEF g, k
  <2> QED BY <1>6, <2>1, <2>2, ExchangedSum
<1>8. /\ CalculateStaffingHours(d, m) = [required |-> SumFunction(a), available |-> SumFunction(g), staffCount |-> Cardinality(A)]
      /\ CalculateStaffingHours(f, m) = [required |-> SumFunction(b), available |-> SumFunction(k), staffCount |-> Cardinality(B)]
  BY StaffingIs DEF A, B, S, T, a, b
<1> QED BY <1>3, <1>6, <1>7, <1>8

\* The forecast of a month is the same.
LEMMA ForecastExchanged ==
  ASSUME NEW d, NEW f, NEW e, NEW h, NEW m \in Int, ChildrenExchanged(d, f, e, m), StaffExchanged(d, f, h, m),
         f.items = d.items, Employed(d.staff), Employed(f.staff)
  PROVE  SameForecast(MonthFigures(d, m).forecast, MonthFigures(f, m).forecast)
<1>1. CalculateFinancials(f, m) = CalculateFinancials(d, m) BY FinancialsExchanged
<1>2. CalculateStaffingHours(f, m) = CalculateStaffingHours(d, m) BY StaffingExchanged
<1>3. SameOccupancy(CalculateOccupancy(d, m), CalculateOccupancy(f, m)) BY OccupancyExchanged
<1> QED BY <1>1, <1>2, <1>3 DEF MonthFigures, SameForecast
----------------------------------------
(* Persons taken on again, in a list and under new ids. *)

\* A finite set can be listed.
LEMMA ListOfSet == ASSUME NEW S, IsFiniteSet(S) PROVE Listed(SetToSeq(S), S)
<1> DEFINE
  n == Cardinality(S)
  s == SetToSeq(S)
<1>1. n \in Nat /\ ExistsBijection(1..n, S) BY FS_CardinalityType
<1>2. PICK g \in [1..n -> S] : IsInjective(g) BY <1>1 DEF ExistsBijection, Bijection, Injection
<1>3. s \in [1..n -> S] /\ IsInjective(s) BY <1>2 DEF SetToSeq
<1>4. s \in Injection(1..n, S) BY <1>3 DEF Injection
<1>5. s \in Surjection(1..n, S) BY <1>1, FS_Interval, <1>4, FS_Injection
<1>6. s \in Seq(S) /\ Len(s) = n /\ DOMAIN s = 1..n BY <1>1, <1>3, SeqDef, LenProperties
<1>7. Image(s, DOMAIN s, S)
  <2>1. \A y \in S : \E i \in 1..n : s[i] = y BY <1>5 DEF Surjection
  <2> HIDE DEF s
  <2> QED BY <1>3, <1>6, <2>1 DEF Image
<1>8. s = [i \in DOMAIN s |-> s[i]]
  <2> HIDE DEF s
  <2> QED BY <1>3
<1> HIDE DEF s
<1> QED BY <1>1, <1>3, <1>6, <1>7, <1>8 DEF Listed, IsInjective, s

\* A sum of terms of at least one is at least their number.
LEMMA SumAtLeast ==
  ASSUME NEW f, NEW S, Summands(f, S), \A x \in S : 1 <= f[x]
  PROVE  Cardinality(S) <= SumFunctionOnSet(f, S) /\ Cardinality(S) \in Nat
<1> DEFINE B == {T \in SUBSET S : ~(Cardinality(T) <= SumFunctionOnSet(f, T))}
<1>1. IsFiniteSet(S) /\ \A T \in SUBSET S : Summands(f, T) /\ IsFiniteSet(T) /\ Cardinality(T) \in Nat
  BY FS_Subset, FS_CardinalityType DEF Summands
<1>2. ASSUME B # {} PROVE FALSE
  <2>1. PICK T \in B : \A x \in T : T \ {x} \notin B
   <3>1. B \subseteq SUBSET S OBVIOUS
   <3> HIDE DEF B
   <3> QED BY <1>1, <1>2, <3>1, Fewest
  <2>2. T \in SUBSET S /\ ~(Cardinality(T) <= SumFunctionOnSet(f, T)) OBVIOUS
  <2>3. Summands(f, T) /\ IsFiniteSet(T) /\ Cardinality(T) \in Nat BY <1>1, <2>2
  <2>4. CASE T = {} BY <2>2, <2>3, <2>4, SumFacts, FS_EmptySet
  <2>5. CASE T # {}
   <3>1. PICK x \in T : TRUE BY <2>5
   <3> DEFINE U == T \ {x}
   <3>2. Cardinality(U) <= SumFunctionOnSet(f, U) BY <2>1, <2>2, <3>1
   <3>3. Cardinality(U) = Cardinality(T) - 1 BY <2>3, FS_RemoveElement
   <3>4. SumFunctionOnSet(f, T) = f[x] + SumFunctionOnSet(f, U) /\ SumFunctionOnSet(f, U) \in Int BY <2>3, SumFacts
   <3>5. f[x] \in Int /\ 1 <= f[x] BY <2>2, <3>1 DEF Summands
   <3> HIDE DEF U, B
   <3> QED BY <2>2, <2>3, <3>2, <3>3, <3>4, <3>5
  <2> QED BY <2>4, <2>5
<1> QED BY <1>1, <1>2

\* They are numbers from n on, and all different.
LEMMA GivenApart ==
  ASSUME NEW N \in Nat, NEW w, \A j \in 1..N : w[j] \in Int /\ 1 <= w[j], NEW n \in Int
  PROVE  /\ \A i \in 1..N : Given(w, n, i) \in Int /\ n <= Given(w, n, i)
         /\ \A i, j \in 1..N : Given(w, n, i) = Given(w, n, j) => i = j
<1> DEFINE Before(i) == SumFunctionOnSet(w, 1..i - 1)
<1>1. \A i \in 1..N : Summands(w, 1..i - 1)
  <2> SUFFICES ASSUME NEW i \in 1..N PROVE Summands(w, 1..i - 1) OBVIOUS
  <2>1. IsFiniteSet(1..i - 1)
   <3>1. 1 \in Int /\ i - 1 \in Int OBVIOUS
   <3> QED BY <3>1, FS_Interval, Zenon
  <2> QED BY <2>1 DEF Summands
<1>2. \A i \in 1..N : Given(w, n, i) = n + Before(i)
  <2> SUFFICES ASSUME NEW i \in 1..N PROVE Given(w, n, i) = n + Before(i) OBVIOUS
  <2> DEFINE f == [j \in 1..i - 1 |-> w[j]]
  <2>1. SumFunction(f) = SumFunctionOnSet(f, 1..i - 1) BY DEF SumFunction
  <2>2. \A j \in 1..i - 1 : f[j] = w[j] OBVIOUS
  <2>3. Given(w, n, i) = n + SumFunction(f) BY DEF Given
  <2> HIDE DEF f
  <2>4. SumFunctionOnSet(f, 1..i - 1) = SumFunctionOnSet(w, 1..i - 1) BY <1>1, <2>2, SumSame
  <2> QED BY <2>1, <2>3, <2>4
<1>3. ASSUME NEW i \in 1..N PROVE Before(i) \in Int /\ 0 <= Before(i)
  <2>1. Summands(w, 1..i - 1) /\ \A j \in 1..i - 1 : 1 <= w[j] BY <1>1
  <2>2. Cardinality(1..i - 1) <= Before(i) /\ Cardinality(1..i - 1) \in Nat BY <2>1, SumAtLeast
  <2>3. Before(i) \in Int BY <2>1, SumFacts
  <2> HIDE DEF Before
  <2> QED BY <2>2, <2>3
<1>4. ASSUME NEW i \in 1..N, NEW j \in 1..N, i < j PROVE Before(i) < Before(j)
  <2> DEFINE
    A == 1..i - 1
    B == i..j - 1
  <2>1. Summands(w, A \cup B) /\ A \cap B = {} /\ A \cup B = 1..j - 1
   <3>1. A \cup B = 1..j - 1 /\ A \cap B = {} BY <1>4
   <3>2. Summands(w, 1..j - 1) BY <1>1
   <3> QED BY <3>1, <3>2
  <2>2. B # {} /\ \A k \in B : 1 <= w[k] BY <1>4
  <2>3. Before(i) = SumFunctionOnSet(w, A) /\ Before(j) = SumFunctionOnSet(w, A \cup B) BY <2>1
  <2> HIDE DEF A, B, Before
  <2>4. Summands(w, B) /\ Summands(w, A) BY <2>1, SumFacts
  <2>5. SumFunctionOnSet(w, A \cup B) = SumFunctionOnSet(w, A) + SumFunctionOnSet(w, B) BY <2>1, <2>4, SumUnion
  <2>6. Cardinality(B) <= SumFunctionOnSet(w, B) /\ Cardinality(B) \in Nat /\ SumFunctionOnSet(w, B) \in Int
    BY <2>2, <2>4, SumAtLeast, SumFacts
  <2>7. Cardinality(B) # 0 BY <2>2, <2>4, FS_EmptySet DEF Summands
  <2> QED BY <1>3, <2>3, <2>5, <2>6, <2>7
<1> HIDE DEF Before
<1>5. ASSUME NEW i \in 1..N PROVE Given(w, n, i) \in Int /\ n <= Given(w, n, i) BY <1>2, <1>3
<1>6. ASSUME NEW i \in 1..N, NEW j \in 1..N, Given(w, n, i) = Given(w, n, j) PROVE i = j
  <2>1. Before(i) = Before(j) BY <1>2, <1>3, <1>6
  <2>2. i \in Int /\ j \in Int /\ Before(i) \in Int BY <1>3
  <2>3. ~(i < j) /\ ~(j < i) BY <1>3, <1>4, <2>1
  <2> QED BY <2>2, <2>3
<1> QED BY <1>5, <1>6

\* The contracts of children and of staff are rows of this kind.
LEMMA RowsReidentified == Reidentified(ContractRows) /\ Reidentified(StaffContracts)
<1>1. NoRow \notin ContractRows /\ NoRow \notin StaffContracts BY ReportSentinels
<1>2. ASSUME NEW k \in ContractRows
  PROVE  k.from \in Int /\ k.to \in Int /\ k.id \in Nat /\ [k EXCEPT !.id = k.id] = k BY DEF ContractRows
<1>3. ASSUME NEW k \in ContractRows, NEW i \in Nat
      PROVE  LET l == [k EXCEPT !.id = i] IN l \in ContractRows /\ l.id = i /\ l.from = k.from /\ l.to = k.to
  BY DEF ContractRows
<1>4. ASSUME NEW k \in StaffContracts
  PROVE  k.from \in Int /\ k.to \in Int /\ k.id \in Nat /\ [k EXCEPT !.id = k.id] = k BY DEF StaffContracts
<1>5. ASSUME NEW k \in StaffContracts, NEW i \in Nat
      PROVE  LET l == [k EXCEPT !.id = i] IN l \in StaffContracts /\ l.id = i /\ l.from = k.from /\ l.to = k.to
  BY DEF StaffContracts
<1> QED BY <1>1, <1>2, <1>3, <1>4, <1>5 DEF Reidentified

\* The contracts of a person, under new ids.
LEMMA ContractsTaken ==
  ASSUME NEW U, Reidentified(U), NEW rows \in SUBSET U, OneAtATime(rows), NEW s, Listed(s, rows), NEW n \in Nat
  PROVE  LET new == NumberedFrom(s, n)
         IN  /\ new \subseteq U /\ OneAtATime(new) /\ (new = {} <=> rows = {})
             /\ \A m \in Int : Alike(PickActive(rows, m), PickActive(new, m), U)
<1> DEFINE
  new == NumberedFrom(s, n)
  at(a) == [s[a] EXCEPT !.id = n + a]
<1>1. Listed(s, rows) OBVIOUS
<1>2. /\ DOMAIN s \subseteq Nat /\ IsFiniteSet(DOMAIN s)
      /\ \A a \in DOMAIN s : s[a] \in rows /\ s[a] \in U /\ n + a \in Nat
      /\ \A k \in rows : \E a \in DOMAIN s : k = s[a]
      /\ \A a, b \in DOMAIN s : s[a] = s[b] => a = b
  <2>1. DOMAIN s = 1..Len(s) /\ Len(s) \in Nat BY <1>1 DEF Listed
  <2>2. IsFiniteSet(DOMAIN s)
   <3>1. 1 \in Int /\ Len(s) \in Int BY <2>1
   <3> QED BY <2>1, <3>1, FS_Interval, Zenon
  <2>3. rows = {s[a] : a \in DOMAIN s} /\ \A a, b \in DOMAIN s : s[a] = s[b] => a = b BY <1>1 DEF Listed, Image
  <2>4. \A a \in DOMAIN s : a \in Nat /\ n + a \in Nat BY <2>1
  <2> QED BY <2>2, <2>3, <2>4
<1>3. ASSUME NEW a \in DOMAIN s
  PROVE  /\ at(a) \in U /\ at(a).id = n + a /\ at(a).from = s[a].from /\ at(a).to = s[a].to
         /\ s[a].from \in Int /\ s[a].to \in Int /\ Copy(s[a], at(a), U)
  <2>1. s[a] \in U /\ n + a \in Nat BY <1>2
  <2>2. at(a) \in U /\ at(a).id = n + a /\ at(a).from = s[a].from /\ at(a).to = s[a].to BY <2>1 DEF Reidentified
  <2>3. at(a) = [s[a] EXCEPT !.id = at(a).id] BY <2>2
  <2> HIDE DEF at
  <2> QED BY <2>1, <2>2, <2>3 DEF Reidentified, Copy
<1>4. new = {at(a) : a \in DOMAIN s} BY DEF NumberedFrom
<1> HIDE DEF at, new
<1>5. new \subseteq U BY <1>3, <1>4
<1>6. OneAtATime(new)
  <2>1. IsFiniteSet(new)
   <3> DEFINE e == [a \in DOMAIN s |-> at(a)]
   <3>1. Image(e, DOMAIN s, new) BY <1>4 DEF Image
   <3> HIDE DEF e
   <3> QED BY <1>2, <3>1, FiniteImage
  <2>2. ASSUME NEW a \in DOMAIN s, NEW b \in DOMAIN s, at(a) # at(b)
    PROVE  at(a).id # at(b).id /\ (at(a).to < at(b).from \/ at(b).to < at(a).from)
   <3>1. a # b /\ s[a] # s[b] /\ s[a] \in rows /\ s[b] \in rows BY <1>2, <2>2
   <3>2. s[a].to < s[b].from \/ s[b].to < s[a].from BY <3>1 DEF OneAtATime, NeverBoth
   <3>3. n + a # n + b BY <1>2, <3>1
   <3> QED BY <1>3, <3>2, <3>3
  <2> QED BY <1>4, <2>1, <2>2 DEF OneAtATime, NeverBoth
<1>7. Spans(rows) /\ Spans(new) BY <1>5, <1>6 DEF Spans, Reidentified
<1>8. ASSUME NEW m \in Int PROVE Alike(PickActive(rows, m), PickActive(new, m), U)
  <2>1. CASE PickActive(rows, m) # NoRow
   <3>1. PickActive(rows, m) \in rows /\ ActiveOn(PickActive(rows, m), m) BY <1>7, <2>1, PickFacts
   <3>2. PICK a \in DOMAIN s : PickActive(rows, m) = s[a] BY <1>2, <3>1
   <3>3. at(a) \in new /\ ActiveOn(at(a), m) BY <1>3, <1>4, <3>1, <3>2 DEF ActiveOn
   <3>4. PickActive(new, m) = at(a) BY <1>7, <3>3, PickFacts
   <3>5. at(a) # NoRow BY <1>3 DEF Reidentified
   <3> QED BY <1>3, <2>1, <3>2, <3>4, <3>5 DEF Alike
  <2>2. CASE PickActive(rows, m) = NoRow
   <3>1. ASSUME PickActive(new, m) # NoRow PROVE FALSE
    <4>1. PickActive(new, m) \in new /\ ActiveOn(PickActive(new, m), m) BY <1>7, <3>1, PickFacts
    <4>2. PICK a \in DOMAIN s : PickActive(new, m) = at(a) BY <1>4, <4>1
    <4>3. s[a] \in rows /\ ActiveOn(s[a], m) BY <1>2, <1>3, <4>1, <4>2 DEF ActiveOn
    <4>4. PickActive(rows, m) = s[a] BY <1>7, <4>3, PickFacts
    <4> QED BY <1>7, <2>2, <4>3, <4>4 DEF Spans
   <3> QED BY <2>2, <3>1 DEF Alike
  <2> QED BY <2>1, <2>2
<1>9. new = {} <=> rows = {}
  <2>1. new = {} <=> DOMAIN s = {} BY <1>4
  <2>2. rows = {} <=> DOMAIN s = {} BY <1>2
  <2> QED BY <2>1, <2>2
<1> QED BY <1>5, <1>6, <1>8, <1>9 DEF new

\* What stays of a person who is taken on, and what changes.
LEMMA TakenIs ==
  ASSUME NEW p, NEW w, NEW n, Employee(p) \/ Child(p), w = [p EXCEPT !.contracts = w.contracts]
  PROVE  LET u == TakenOn(w, n)
         IN  /\ w.id = p.id /\ u.id = n /\ u.contracts = NumberedFrom(w.contracts, n)
             /\ Employee(p) => Employee(u)
             /\ Child(p) => Child(u) /\ u.born = p.born
<1> DEFINE
  s == w.contracts
  rows == NumberedFrom(s, n)
  u == TakenOn(w, n)
<1>1. CASE Employee(p)
  <2>1. w = [id |-> p.id, contracts |-> s] BY <1>1 DEF Employee
  <2> HIDE DEF s
  <2>2. w.contracts = s /\ w.id = p.id BY <2>1
  <2>3. u = [w EXCEPT !.id = n, !.contracts = rows] BY <2>2 DEF TakenOn
  <2> HIDE DEF rows, u
  <2>4. u = [id |-> n, contracts |-> rows] BY <2>1, <2>3
  <2>5. ~Child(p)
   <3>1. DOMAIN p = {"id", "contracts"} BY <1>1 DEF Employee
   <3>2. ASSUME Child(p) PROVE FALSE
    <4>1. DOMAIN p = {"id", "born", "contracts"} BY <3>2 DEF Child
    <4>2. "born" # "id" /\ "born" # "contracts" OBVIOUS
    <4> QED BY <3>1, <4>1, <4>2
   <3> QED BY <3>2
  <2> QED BY <2>2, <2>4, <2>5 DEF Employee, s, rows, u
<1>2. CASE Child(p)
  <2>1. w = [id |-> p.id, born |-> p.born, contracts |-> s] BY <1>2 DEF Child
  <2> HIDE DEF s
  <2>2. w.contracts = s /\ w.id = p.id BY <2>1
  <2>3. u = [w EXCEPT !.id = n, !.contracts = rows] BY <2>2 DEF TakenOn
  <2> HIDE DEF rows, u
  <2>4. u = [id |-> n, born |-> p.born, contracts |-> rows] BY <2>1, <2>3
  <2>5. ~Employee(p)
   <3>1. DOMAIN p = {"id", "born", "contracts"} BY <1>2 DEF Child
   <3>2. ASSUME Employee(p) PROVE FALSE
    <4>1. DOMAIN p = {"id", "contracts"} BY <3>2 DEF Employee
    <4>2. "born" # "id" /\ "born" # "contracts" OBVIOUS
    <4> QED BY <3>1, <4>1, <4>2
   <3> QED BY <3>2
  <2> QED BY <2>2, <2>4, <2>5 DEF Child, s, rows, u
<1> QED BY <1>1, <1>2

\* A list of nothing.
LEMMA ListedEmpty == ASSUME NEW s, NEW S, Listed(s, S) PROVE s = <<>> <=> S = {}
<1>1. s \in Seq(S) /\ DOMAIN s = 1..Len(s) /\ Len(s) \in Nat /\ S = {s[i] : i \in DOMAIN s} BY DEF Listed, Image
<1>2. s = <<>> <=> Len(s) = 0 BY <1>1, EmptySeq
<1>3. S = {} <=> DOMAIN s = {} BY <1>1
<1>4. DOMAIN s = {} <=> Len(s) = 0 BY <1>1
<1> QED BY <1>2, <1>3, <1>4

\* The persons taken on are those with contracts, each under an id of its own.
LEMMA AllReadmitted ==
  ASSUME NEW P, NEW w, NEW L, NEW num, Readmission(P, w, L, num)
  PROVE  /\ \A p \in P : PlaceOf(L, w, p) \in DOMAIN L /\ L[PlaceOf(L, w, p)] = w[p]
                         /\ NewOf(L, w, num, p).id = num[PlaceOf(L, w, p)]
         /\ Readmitted(L, num) = {NewOf(L, w, num, p) : p \in HiredOf(P)}
         /\ \A p, u \in P : NewOf(L, w, num, p).id = NewOf(L, w, num, u).id => p = u
<1>1. /\ \A p \in P : Employee(p) \/ Child(p)
      /\ \A p \in P : w[p] = [p EXCEPT !.contracts = w[p].contracts] /\ Listed(w[p].contracts, p.contracts)
      /\ \A p, u \in P : p.id = u.id => p = u
      /\ {w[p] : p \in P} = {L[i] : i \in DOMAIN L}
      /\ \A i, j \in DOMAIN L : L[i] = L[j] => i = j
      /\ \A i, j \in DOMAIN L : num[i] = num[j] => i = j BY DEF Readmission, InLists, Listed, Image
<1>2. ASSUME NEW p \in P
  PROVE  /\ PlaceOf(L, w, p) \in DOMAIN L /\ L[PlaceOf(L, w, p)] = w[p]
         /\ NewOf(L, w, num, p).id = num[PlaceOf(L, w, p)]
         /\ w[p].id = p.id /\ (w[p].contracts = <<>> <=> p.contracts = {})
  <2>1. \E i \in DOMAIN L : L[i] = w[p] BY <1>1
  <2>2. PlaceOf(L, w, p) \in DOMAIN L /\ L[PlaceOf(L, w, p)] = w[p] BY <2>1 DEF PlaceOf
  <2>3. /\ Employee(p) \/ Child(p)
        /\ w[p] = [p EXCEPT !.contracts = w[p].contracts] /\ Listed(w[p].contracts, p.contracts) BY <1>1
  <2>4. TakenOn(w[p], num[PlaceOf(L, w, p)]).id = num[PlaceOf(L, w, p)] /\ w[p].id = p.id BY <2>3, TakenIs
  <2>5. w[p].contracts = <<>> <=> p.contracts = {} BY <2>3, ListedEmpty
  <2> QED BY <2>2, <2>4, <2>5 DEF NewOf
<1>3. ASSUME NEW p \in P, NEW u \in P, NewOf(L, w, num, p).id = NewOf(L, w, num, u).id PROVE p = u
  <2>1. PlaceOf(L, w, p) = PlaceOf(L, w, u) BY <1>1, <1>2, <1>3
  <2>2. w[p] = w[u] BY <1>2, <2>1
  <2>3. p.id = u.id BY <1>2, <2>2
  <2> QED BY <1>1, <2>3
<1>4. ASSUME NEW y PROVE y \in Readmitted(L, num) <=> \E p \in HiredOf(P) : y = NewOf(L, w, num, p)
  <2>1. ASSUME y \in Readmitted(L, num) PROVE \E p \in HiredOf(P) : y = NewOf(L, w, num, p)
   <3>1. PICK i \in DOMAIN L : L[i].contracts # <<>> /\ y = TakenOn(L[i], num[i]) BY <2>1 DEF Readmitted
   <3>2. PICK p \in P : L[i] = w[p] BY <1>1
   <3>3. PlaceOf(L, w, p) = i BY <1>1, <1>2, <3>2
   <3>4. y = NewOf(L, w, num, p) BY <3>1, <3>2, <3>3 DEF NewOf
   <3>5. p \in HiredOf(P) BY <1>2, <3>1, <3>2 DEF HiredOf
   <3> QED BY <3>4, <3>5
  <2>2. ASSUME NEW p \in HiredOf(P), y = NewOf(L, w, num, p) PROVE y \in Readmitted(L, num)
   <3>1. p \in P /\ p.contracts # {} BY DEF HiredOf
   <3> DEFINE i == PlaceOf(L, w, p)
   <3>2. i \in DOMAIN L /\ L[i].contracts # <<>> /\ L[i] = w[p] BY <1>2, <3>1
   <3>3. y = TakenOn(L[i], num[i]) BY <2>2, <3>2 DEF NewOf
   <3> HIDE DEF i
   <3> QED BY <3>2, <3>3 DEF Readmitted
  <2> QED BY <2>1, <2>2
<1>5. Readmitted(L, num) = {NewOf(L, w, num, p) : p \in HiredOf(P)} BY <1>4
<1> QED BY <1>2, <1>3, <1>5

\* In every month they are exchanged.
LEMMA PeopleExchanged ==
  ASSUME NEW S, NEW T, NEW e, NEW U, Renewed(S, T, e, U), NEW m \in Int
  PROVE  Exchange(Present(S, m), Present(T, m), e, m, U)
<1> DEFINE
  A == Present(S, m)
  B == Present(T, m)
<1>1. A = {p \in S : Contract(p, m) # NoRow} /\ B = {p \in T : Contract(p, m) # NoRow} BY DEF Present, Contract
<1>2. \A p \in A : p \in HiredOf(S)
  <2>1. \A p : Contract(p, m) # NoRow => p.contracts # {} BY DEF Contract, PickActive
  <2> HIDE DEF A, B
  <2> QED BY <1>1, <2>1 DEF HiredOf
<1> HIDE DEF A, B
<1>3. IsFiniteSet(A) BY <1>1, FS_Subset DEF Renewed
<1>4. T = {e[p] : p \in HiredOf(S)} /\ HiredOf(S) \subseteq S BY DEF Renewed, Image, HiredOf
<1>5. \A p \in HiredOf(S) : /\ Contract(p, m) = NoRow <=> Contract(e[p], m) = NoRow
                            /\ Contract(p, m) # NoRow => Copy(Contract(p, m), Contract(e[p], m), U)
  BY DEF Renewed, Alike
<1>6. \A y : y \in B <=> \E p \in A : y = e[p] BY <1>1, <1>2, <1>4, <1>5
<1>7. Image(e, A, B) BY <1>6 DEF Image
<1>8. \A p \in A : Copy(Contract(p, m), Contract(e[p], m), U) BY <1>1, <1>2, <1>5
<1>9. \A p, u \in A : e[p] = e[u] => p = u BY <1>2 DEF Renewed
<1> QED BY <1>3, <1>7, <1>8, <1>9 DEF Exchange, A, B
----------------------------------------
(* The forecast with contracts added, and with persons exchanged for hypothetical ones. *)

\* A person with contracts added is the same person.
LEMMA PlusIs ==
  ASSUME NEW p, NEW added, Employee(p) \/ Child(p)
  PROVE  LET y == Plus(p, added)
         IN  /\ y.id = p.id /\ y.contracts = p.contracts \cup AddedTo(p, added)
             /\ Employee(p) => Employee(y)
             /\ Child(p) => Child(y) /\ y.born = p.born
<1> DEFINE
  rows == p.contracts \cup AddedTo(p, added)
  y == Plus(p, added)
<1>1. CASE Employee(p)
  <2>1. y = [id |-> p.id, contracts |-> rows] BY <1>1 DEF Employee, Plus
  <2>2. DOMAIN p = {"id", "contracts"} BY <1>1 DEF Employee
  <2>3. ASSUME Child(p) PROVE FALSE
   <3>1. DOMAIN p = {"id", "born", "contracts"} BY <2>3 DEF Child
   <3>2. "born" # "id" /\ "born" # "contracts" OBVIOUS
   <3> QED BY <2>2, <3>1, <3>2
  <2> HIDE DEF y, rows
  <2> QED BY <2>1, <2>3 DEF Employee, y, rows
<1>2. CASE Child(p)
  <2>1. y = [id |-> p.id, born |-> p.born, contracts |-> rows] BY <1>2 DEF Child, Plus
  <2>2. DOMAIN p = {"id", "born", "contracts"} BY <1>2 DEF Child
  <2>3. ASSUME Employee(p) PROVE FALSE
   <3>1. DOMAIN p = {"id", "contracts"} BY <2>3 DEF Employee
   <3>2. "born" # "id" /\ "born" # "contracts" OBVIOUS
   <3> QED BY <2>2, <3>1, <3>2
  <2> HIDE DEF y, rows
  <2> QED BY <2>1, <2>3 DEF Child, y, rows
<1> QED BY <1>1, <1>2

\* People with contracts added, one by one.
LEMMA ExtendIs == ASSUME NEW people, NEW added PROVE Extend(people, added) = {Plus(p, added) : p \in people}
<1> QED BY DEF Extend, Plus, AddedTo

\* A contract completed is a contract of the same days.
LEMMA CompletedIs ==
  ASSUME NEW d, Whole(d), NEW k \in ContractRows
  PROVE  LET l == Completed(d, k)
         IN  l \in ContractRows /\ l.id = k.id /\ l.child = k.child /\ l.from = k.from /\ l.to = k.to
<1> DEFINE
  period == FindPeriodForDate(d.funding, k.from)
  props == MergeDefaults(k.props, AutoApplyProperties(period))
  l == Completed(d, k)
<1>1. AutoApplyProperties(period) \subseteq KVs
  <2>1. CASE period = NoRow BY <2>1 DEF AutoApplyProperties
  <2>2. CASE period # NoRow
   <3>1. PICK i \in DOMAIN d.funding : period = d.funding[i] BY <2>2, PeriodFound DEF Whole, Enrolled
   <3>2. \A rate \in ToSet(period.rates) : rate.kv \in KVs BY <3>1 DEF Whole, ToSet
   <3> HIDE DEF period
   <3>3. \A kv \in AutoApplyProperties(period) : \E rate \in ToSet(period.rates) : kv = rate.kv
     BY <2>2 DEF AutoApplyProperties
   <3> QED BY <3>2, <3>3
  <2> QED BY <2>1, <2>2
<1>2. props \subseteq KVs BY <1>1 DEF MergeDefaults, ContractRows
<1>3. l = [k EXCEPT !.props = props] BY DEF Completed
<1> HIDE DEF props, l
<1>4. l = [id |-> k.id, child |-> k.child, from |-> k.from, to |-> k.to, props |-> props] BY <1>3 DEF ContractRows
<1> QED BY <1>2, <1>4 DEF ContractRows, l

\* One contract more that is apart from those there are.
LEMMA OneMore ==
  ASSUME NEW rows, OneAtATime(rows), NEW new, \A k, l \in new : k = l, \A k \in rows, l \in new : NeverBoth(k, l)
  PROVE  OneAtATime(rows \cup new)
<1>1. IsFiniteSet(new)
  <2>1. CASE new = {} BY <2>1, FS_EmptySet
  <2>2. CASE new # {}
   <3>1. PICK k \in new : TRUE BY <2>2
   <3>2. new = {k} BY <3>1
   <3> QED BY <3>2, FS_Singleton
  <2> QED BY <2>1, <2>2
<1>2. IsFiniteSet(rows \cup new) BY <1>1, FS_Union DEF OneAtATime
<1>3. \A j, k \in rows \cup new : j # k => NeverBoth(j, k) BY DEF NeverBoth, OneAtATime
<1> QED BY <1>2, <1>3 DEF OneAtATime

\* What becomes of each who is taken on again.
LEMMA TakenAlike ==
  ASSUME NEW P, NEW w, NEW L, NEW num, Readmission(P, w, L, num), \A i \in DOMAIN L : num[i] \in Nat,
         NEW U, Reidentified(U), NEW p \in P, p.contracts \subseteq U, OneAtATime(p.contracts)
  PROVE  LET u == NewOf(L, w, num, p)
         IN  /\ u.id \in Nat /\ u.contracts \subseteq U /\ OneAtATime(u.contracts)
             /\ u.contracts = {} <=> p.contracts = {}
             /\ \A m \in Int : Alike(Contract(p, m), Contract(u, m), U)
             /\ Employee(p) => Employee(u)
             /\ Child(p) => Child(u) /\ u.born = p.born
<1> DEFINE
  n == num[PlaceOf(L, w, p)]
  u == NewOf(L, w, num, p)
  rows == p.contracts
  new == NumberedFrom(w[p].contracts, n)
<1>1. PlaceOf(L, w, p) \in DOMAIN L BY AllReadmitted
<1>2. n \in Nat BY <1>1
<1>3. /\ Employee(p) \/ Child(p)
      /\ w[p] = [p EXCEPT !.contracts = w[p].contracts] /\ Listed(w[p].contracts, p.contracts)
  BY DEF Readmission, InLists
<1>4. /\ u.id = n /\ u.contracts = new
      /\ Employee(p) => Employee(u)
      /\ Child(p) => Child(u) /\ u.born = p.born
  <2>1. u = TakenOn(w[p], n) BY DEF NewOf
  <2> HIDE DEF n, u
  <2>2. LET q2 == TakenOn(w[p], n)
    IN  /\ q2.id = n /\ q2.contracts = NumberedFrom(w[p].contracts, n)
        /\ Employee(p) => Employee(q2)
        /\ Child(p) => Child(q2) /\ q2.born = p.born BY <1>3, TakenIs
  <2> QED BY <2>1, <2>2
<1> HIDE DEF n, u
<1>5. /\ new \subseteq U /\ OneAtATime(new) /\ (new = {} <=> rows = {})
      /\ \A m \in Int : Alike(PickActive(rows, m), PickActive(new, m), U)
  <2> DEFINE s == w[p].contracts
  <2>1. rows \in SUBSET U /\ OneAtATime(rows) /\ Listed(s, rows) BY <1>3
  <2> HIDE DEF rows, s
  <2>2. /\ NumberedFrom(s, n) \subseteq U /\ OneAtATime(NumberedFrom(s, n)) /\ (NumberedFrom(s, n) = {} <=> rows = {})
        /\ \A m \in Int : Alike(PickActive(rows, m), PickActive(NumberedFrom(s, n), m), U)
    BY <1>2, <2>1, ContractsTaken
  <2> QED BY <2>2 DEF s
<1>6. \A m \in Int : Alike(Contract(p, m), Contract(u, m), U)
  <2> SUFFICES ASSUME NEW m \in Int PROVE Alike(Contract(p, m), Contract(u, m), U) OBVIOUS
  <2>1. Contract(p, m) = PickActive(rows, m) /\ Contract(u, m) = PickActive(new, m) BY <1>4 DEF Contract
  <2> HIDE DEF rows, new
  <2> QED BY <1>5, <2>1
<1> QED BY <1>2, <1>4, <1>5, <1>6 DEF u

\* Two lists, one after the other.
LEMMA ListsJoined ==
  ASSUME NEW A, NEW S, Listed(A, S), NEW B, NEW T, Listed(B, T)
  PROVE  LET L == A \o B
         IN  /\ DOMAIN L = 1..Len(A) + Len(B) /\ Len(A) \in Nat /\ Len(B) \in Nat
             /\ DOMAIN A = 1..Len(A) /\ DOMAIN B = 1..Len(B)
             /\ \A i \in 1..Len(A) : L[i] = A[i]
             /\ \A j \in 1..Len(B) : L[Len(A) + j] = B[j]
<1>1. A \in Seq(S) /\ B \in Seq(T) /\ Len(A) \in Nat /\ Len(B) \in Nat /\ DOMAIN A = 1..Len(A) /\ DOMAIN B = 1..Len(B)
  BY DEF Listed
<1>2. A \in Seq(S \cup T) /\ B \in Seq(S \cup T)
  <2>1. A \in [1..Len(A) -> S \cup T] /\ B \in [1..Len(B) -> S \cup T]
   <3>1. S = {A[i] : i \in DOMAIN A} /\ T = {B[i] : i \in DOMAIN B}
         /\ A = [i \in DOMAIN A |-> A[i]] /\ B = [i \in DOMAIN B |-> B[i]] BY DEF Listed, Image
   <3>2. \A i \in 1..Len(A) : A[i] \in S \cup T BY <1>1, <3>1
   <3>3. \A i \in 1..Len(B) : B[i] \in S \cup T BY <1>1, <3>1
   <3> QED BY <1>1, <3>1, <3>2, <3>3
  <2> QED BY <1>1, <2>1, SeqDef
<1> DEFINE L == A \o B
<1>3. /\ L \in Seq(S \cup T) /\ Len(L) = Len(A) + Len(B)
      /\ \A i \in 1..Len(A) + Len(B) : L[i] = IF i <= Len(A) THEN A[i] ELSE B[i - Len(A)] BY <1>2, ConcatProperties
<1>4. DOMAIN L = 1..Len(A) + Len(B) BY <1>3, LenProperties
<1> HIDE DEF L
<1>5. \A i \in 1..Len(A) : L[i] = A[i]
  <2> SUFFICES ASSUME NEW i \in 1..Len(A) PROVE L[i] = A[i] OBVIOUS
  <2>1. i \in 1..Len(A) + Len(B) /\ i <= Len(A) BY <1>1
  <2> QED BY <1>3, <2>1
<1>6. \A j \in 1..Len(B) : L[Len(A) + j] = B[j]
  <2> SUFFICES ASSUME NEW j \in 1..Len(B) PROVE L[Len(A) + j] = B[j] OBVIOUS
  <2>1. Len(A) + j \in 1..Len(A) + Len(B) /\ ~(Len(A) + j <= Len(A)) /\ Len(A) + j - Len(A) = j BY <1>1
  <2> QED BY <1>3, <2>1
<1> QED BY <1>1, <1>4, <1>5, <1>6 DEF L

\* The ids along a list.
LEMMA IdsApart ==
  ASSUME NEW L, NEW N \in Nat, DOMAIN L = 1..N, \A i \in 1..N : Len(L[i].contracts) \in Nat, NEW n \in Int
  PROVE  /\ \A i \in 1..N : IdsOf(L, n)[i] \in Int /\ n <= IdsOf(L, n)[i]
         /\ \A i, j \in 1..N : IdsOf(L, n)[i] = IdsOf(L, n)[j] => i = j
<1> DEFINE w == [j \in 1..N |-> 1 + Len(L[j].contracts)]
<1>1. ASSUME NEW i \in 1..N PROVE IdsOf(L, n)[i] = Given(w, n, i)
  <2>1. [j \in 1..i - 1 |-> 1 + Len(L[j].contracts)] = [j \in 1..i - 1 |-> w[j]] OBVIOUS
  <2>2. IdsOf(L, n)[i] = n + SumFunction([j \in 1..i - 1 |-> 1 + Len(L[j].contracts)]) BY DEF IdsOf
  <2> HIDE DEF w
  <2> QED BY <2>1, <2>2 DEF Given
<1>2. \A j \in 1..N : w[j] \in Int /\ 1 <= w[j] OBVIOUS
<1> HIDE DEF w
<1>3. /\ \A i \in 1..N : Given(w, n, i) \in Int /\ n <= Given(w, n, i)
      /\ \A i, j \in 1..N : Given(w, n, i) = Given(w, n, j) => i = j BY <1>2, GivenApart
<1> QED BY <1>1, <1>3

\* The first of them is above every id of the dataset.
LEMMA FreeIdFacts ==
  ASSUME NEW d, IsFiniteSet(d.children), IsFiniteSet(d.staff),
         \A p \in d.children \cup d.staff : /\ p.id \in Nat /\ IsFiniteSet(p.contracts)
                                            /\ \A c \in p.contracts : c.id \in Nat
  PROVE  FreeId(d) \in Nat /\ \A p \in d.children \cup d.staff : p.id < FreeId(d)
<1> DEFINE
  P == d.children \cup d.staff
  idsOf(p) == {p.id} \cup {c.id : c \in p.contracts}
  K == {idsOf(p) : p \in P}
  I == {0} \cup UNION K
<1>1. ASSUME NEW p \in P PROVE IsFiniteSet(idsOf(p)) /\ idsOf(p) \subseteq Nat
  <2> DEFINE
    e == [c \in p.contracts |-> c.id]
    C == {c.id : c \in p.contracts}
  <2>1. Image(e, p.contracts, C) BY DEF Image
  <2>2. IsFiniteSet(p.contracts) /\ p.id \in Nat /\ C \subseteq Nat OBVIOUS
  <2> HIDE DEF e, C
  <2>3. IsFiniteSet(C) BY <2>1, <2>2, FiniteImage
  <2>4. IsFiniteSet({p.id} \cup C) BY <2>3, FS_Singleton, FS_Union
  <2>5. {p.id} \cup C \subseteq Nat BY <2>2
  <2> QED BY <2>4, <2>5 DEF C
<1>2. IsFiniteSet(K)
  <2> DEFINE e == [p \in P |-> idsOf(p)]
  <2>1. Image(e, P, K) BY DEF Image
  <2>2. IsFiniteSet(P) BY FS_Union
  <2> HIDE DEF e, P, K
  <2> QED BY <2>1, <2>2, FiniteImage
<1>3. FreeId(d) = Max(I) + 1 BY DEF FreeId
<1>4. \A p \in P : p.id \in I OBVIOUS
<1>5. \A S \in K : IsFiniteSet(S) /\ S \subseteq Nat
  <2> HIDE DEF idsOf, P
  <2> QED BY <1>1
<1> HIDE DEF K, P
<1>6. IsFiniteSet(UNION K) /\ UNION K \subseteq Nat BY <1>2, <1>5, FS_UNION
<1>7. IsFiniteSet(I) /\ I \subseteq Int /\ I # {} /\ 0 \in I
  <2> DEFINE V == UNION K
  <2>1. IsFiniteSet(V) /\ V \subseteq Nat /\ IsFiniteSet({0}) BY <1>6, FS_Singleton
  <2> HIDE DEF V
  <2>2. IsFiniteSet({0} \cup V) BY <2>1, FS_Union
  <2>3. {0} \cup V \subseteq Int BY <2>1
  <2> QED BY <2>2, <2>3 DEF V
<1> HIDE DEF I
<1>8. Max(I) \in I /\ \A n \in I : n <= Max(I) BY <1>7, MaxFact
<1>9. Max(I) \in Int /\ 0 <= Max(I) BY <1>7, <1>8
<1>10. \A p \in P : p.id \in Int /\ p.id <= Max(I) BY <1>4, <1>7, <1>8
<1> QED BY <1>3, <1>9, <1>10 DEF P

\* An overlay: what is added to those who are left, and those of the lists under new ids.
LEMMA OverlayIs ==
  ASSUME NEW d, NEW o
  PROVE  LET added == o.addEmployees \o CompletedList(d, o.addChildren)
             kept == KeptOf(d, o)
             id == IdsOf(added, FreeId(kept))
         IN  ApplyOverlay(d, o)
               = [kept EXCEPT !.staff = @ \cup PeopleIn(added, id, DOMAIN o.addEmployees),
                              !.children = @ \cup PeopleIn(added, id, DOMAIN added \ DOMAIN o.addEmployees)]
<1> QED BY DEF ApplyOverlay, KeptOf, IdsOf, PeopleIn, TakenOn, NumberedFrom, CompletedList, ListCompleted

\* What an extension adds to a child is apart from its contracts.
LEMMA ExtensionFacts ==
  ASSUME NEW d, Whole(d), NEW x \in d.children
  PROVE  LET C == Extension(d).addChildContracts
         IN  /\ AddedTo(x, C) \subseteq ContractRows
             /\ \A k, l \in AddedTo(x, C) : k = l
             /\ \A k \in x.contracts, l \in AddedTo(x, C) : NeverBoth(k, l)
             /\ AddedTo(x, More(d)) = {Completed(d, l) : l \in AddedTo(x, C)}
<1> DEFINE C == Extension(d).addChildContracts
<1>1. \A a \in C : /\ a \in Added.children
                   /\ \A child \in d.children : child.id = a.to => \A k \in child.contracts : NeverBoth(k, a.contract)
  BY DEF Extension, NoOverlay
<1>2. More(d) = {[a EXCEPT !.contract = Completed(d, @)] : a \in C} BY DEF More
<1> HIDE DEF C
<1>3. \A a \in C : a = [to |-> a.to, contract |-> a.contract] /\ a.contract \in ContractRows BY <1>1, AddedAssumption
<1>4. \A a, b \in C : a.to = b.to => a = b BY <1>1, AddedAssumption
<1>5. \A l \in AddedTo(x, C) : \E a \in C : a.to = x.id /\ l = a.contract BY DEF AddedTo
<1>6. AddedTo(x, More(d)) = {Completed(d, l) : l \in AddedTo(x, C)}
  <2>1. ASSUME NEW l \in AddedTo(x, More(d)) PROVE \E k \in AddedTo(x, C) : l = Completed(d, k)
   <3>1. PICK b \in More(d) : b.to = x.id /\ l = b.contract BY DEF AddedTo
   <3>2. PICK a \in C : b = [a EXCEPT !.contract = Completed(d, @)] BY <1>2, <3>1
   <3>3. b = [to |-> a.to, contract |-> Completed(d, a.contract)] BY <1>3, <3>2
   <3>4. a.to = x.id /\ l = Completed(d, a.contract) BY <3>1, <3>3
   <3> QED BY <3>4 DEF AddedTo
  <2>2. ASSUME NEW k \in AddedTo(x, C) PROVE Completed(d, k) \in AddedTo(x, More(d))
   <3>1. PICK a \in C : a.to = x.id /\ k = a.contract BY <1>5
   <3> DEFINE b == [a EXCEPT !.contract = Completed(d, @)]
   <3>2. b \in More(d) BY <1>2
   <3>3. b.to = x.id /\ b.contract = Completed(d, k) BY <1>3, <3>1
   <3> HIDE DEF b
   <3> QED BY <3>2, <3>3 DEF AddedTo
  <2> QED BY <2>1, <2>2
<1>7. AddedTo(x, C) \subseteq ContractRows BY <1>3, <1>5
<1>8. \A k, l \in AddedTo(x, C) : k = l BY <1>4, <1>5
<1>9. \A k \in x.contracts, l \in AddedTo(x, C) : NeverBoth(k, l) BY <1>1, <1>5
<1> QED BY <1>6, <1>7, <1>8, <1>9 DEF C

\* A child with what is added to it: its contracts before and after they are completed.
LEMMA ChildGrown ==
  ASSUME NEW d, Whole(d), NEW x \in d.children
  PROVE  LET raw == x.contracts \cup AddedTo(x, Extension(d).addChildContracts)
             y == Plus(x, More(d))
         IN  /\ raw \subseteq ContractRows /\ OneAtATime(raw)
             /\ Child(y) /\ y.id = x.id /\ y.born = x.born /\ y.contracts # {}
             /\ y.contracts \subseteq ContractRows /\ OneAtATime(y.contracts)
             /\ (\A k \in x.contracts : Complete(d, k)) => y.contracts = {Completed(d, k) : k \in raw}
<1> DEFINE
  more == AddedTo(x, Extension(d).addChildContracts)
  raw == x.contracts \cup more
  done == {Completed(d, l) : l \in more}
  y == Plus(x, More(d))
<1>1. /\ Child(x) /\ x.contracts # {} /\ x.contracts \subseteq ContractRows /\ OneAtATime(x.contracts) BY DEF Whole
<1>2. /\ more \subseteq ContractRows /\ \A k, l \in more : k = l
      /\ \A k \in x.contracts, l \in more : NeverBoth(k, l)
      /\ AddedTo(x, More(d)) = done BY ExtensionFacts
<1>3. y.id = x.id /\ y.contracts = x.contracts \cup done /\ Child(y) /\ y.born = x.born BY <1>1, <1>2, PlusIs
<1> HIDE DEF more, y
<1>4. \A l \in more : LET c == Completed(d, l)
  IN  c \in ContractRows /\ c.id = l.id /\ c.from = l.from /\ c.to = l.to BY <1>2, CompletedIs
<1>5. done \subseteq ContractRows /\ (\A k, l \in done : k = l) /\ \A k \in x.contracts, l \in done : NeverBoth(k, l)
  BY <1>2, <1>4 DEF NeverBoth
<1>6. (\A k \in x.contracts : Complete(d, k)) => x.contracts \cup done = {Completed(d, k) : k \in raw} BY DEF Complete
<1>7. OneAtATime(raw) BY <1>1, <1>2, OneMore
<1> HIDE DEF done
<1>8. OneAtATime(x.contracts \cup done) BY <1>1, <1>5, OneMore
<1> QED BY <1>1, <1>2, <1>3, <1>5, <1>6, <1>7, <1>8 DEF more, y

\* The extended dataset is one.
LEMMA GrownWhole ==
  ASSUME NEW d, Whole(d), Employed(Extend(d.staff, Added.staff))
  PROVE  /\ Whole(Grown(d))
         /\ Grown(d) = [bands |-> d.bands, children |-> Extend(d.children, More(d)), staff |-> Extend(d.staff, Added.staff),
                        funding |-> d.funding, plans |-> d.plans, items |-> d.items]
<1> DEFINE
  S == Extend(d.children, More(d))
  E == Extend(d.staff, Added.staff)
  D == Grown(d)
<1>1. /\ d = [bands |-> d.bands, children |-> d.children, staff |-> d.staff, funding |-> d.funding,
              plans |-> d.plans, items |-> d.items]
      /\ PayPlans(d.plans) BY DEF Whole, Staffed
<1>2. D = [d EXCEPT !.children = S, !.staff = E] BY DEF Grown
<1>3. S = {Plus(x, More(d)) : x \in d.children} BY ExtendIs
<1>4. Employed(E) OBVIOUS
<1> HIDE DEF D, S, E
<1>5. D = [bands |-> d.bands, children |-> S, staff |-> E, funding |-> d.funding, plans |-> d.plans, items |-> d.items]
  BY <1>1, <1>2
<1>6. /\ D.bands = d.bands /\ D.children = S /\ D.staff = E /\ D.funding = d.funding /\ D.plans = d.plans
      /\ D.items = d.items BY <1>5
<1>7. Staffed(D) BY <1>1, <1>4, <1>5, <1>6 DEF Staffed
<1>8. ASSUME NEW x \in d.children
  PROVE  LET y == Plus(x, More(d))
         IN  /\ Child(y) /\ y.id = x.id /\ y.born = x.born /\ y.contracts # {}
             /\ y.contracts \subseteq ContractRows /\ OneAtATime(y.contracts) BY ChildGrown
<1>9. /\ IsFiniteSet(d.children) /\ \A x, y \in d.children : x.id = y.id => x = y
      /\ \A x \in d.children : x.id \in Nat /\ x.born \in [month : Int, first : BOOLEAN]
      /\ Fundings(d.funding) /\ Banded(d)
      /\ \A i \in DOMAIN d.funding : \A j \in DOMAIN d.funding[i].rates : d.funding[i].rates[j].kv \in KVs
  BY DEF Whole, Enrolled
<1>10. IsFiniteSet(S)
  <2> DEFINE e == [x \in d.children |-> Plus(x, More(d))]
  <2>1. Image(e, d.children, S) BY <1>3 DEF Image
  <2> HIDE DEF e
  <2> QED BY <1>9, <2>1, FiniteImage
<1>11. ASSUME NEW u \in S, NEW v \in S, u.id = v.id PROVE u = v
  <2>1. PICK x \in d.children : u = Plus(x, More(d)) BY <1>3
  <2>2. PICK z \in d.children : v = Plus(z, More(d)) BY <1>3
  <2>3. x.id = z.id BY <1>8, <1>11, <2>1, <2>2
  <2> QED BY <1>9, <2>1, <2>2, <2>3
<1>12. ASSUME NEW u \in S
  PROVE  /\ Child(u) /\ u.id \in Nat /\ u.contracts # {} /\ u.contracts \subseteq ContractRows
         /\ OneAtATime(u.contracts) /\ u.born \in [month : Int, first : BOOLEAN]
  <2>1. PICK x \in d.children : u = Plus(x, More(d)) BY <1>3
  <2> QED BY <1>8, <1>9, <2>1
<1>13. Enrolled(D) BY <1>6, <1>9, <1>10, <1>11, <1>12 DEF Enrolled, Banded
<1>14. Whole(D) BY <1>6, <1>7, <1>9, <1>12, <1>13 DEF Whole
<1> QED BY <1>5, <1>14 DEF D, S, E

\* What a forecast with contracts added is computed from.
LEMMA ExtensionIs ==
  ASSUME NEW d, Whole(d), Employed(Extend(d.staff, Added.staff)) PROVE ApplyOverlay(d, Extension(d)) = Grown(d)
<1> DEFINE
  o == Extension(d)
  list == CompletedList(d, o.addChildren)
  added == o.addEmployees \o list
  kept == KeptOf(d, o)
  id == IdsOf(added, FreeId(kept))
<1>1. /\ o.removeChildren = {} /\ o.removeEmployees = {} /\ o.addEmployeeContracts = Added.staff
      /\ o.addEmployees = <<>> /\ o.addChildren = <<>> BY DEF Extension, NoOverlay
<1>2. kept = Grown(d)
  <2>1. {c \in d.children : c.id \notin o.removeChildren} = d.children /\ {e \in d.staff : e.id \notin o.removeEmployees} = d.staff
    BY <1>1
  <2>2. {[a EXCEPT !.contract = Completed(d, @)] : a \in o.addChildContracts} = More(d) BY DEF More
  <2>3. kept = [d EXCEPT !.children = Extend({c \in d.children : c.id \notin o.removeChildren},
                        {[a EXCEPT !.contract = Completed(d, @)] : a \in o.addChildContracts}),
    !.staff = Extend({e \in d.staff : e.id \notin o.removeEmployees}, o.addEmployeeContracts)] BY DEF KeptOf
  <2> HIDE DEF o, kept
  <2> QED BY <1>1, <2>1, <2>2, <2>3 DEF Grown
<1>3. added = <<>>
  <2>1. DOMAIN CompletedList(d, <<>>) = {} BY DEF CompletedList
  <2>2. CompletedList(d, <<>>) = <<>> BY DEF CompletedList
  <2>3. <<>> \o <<>> = <<>> OBVIOUS
  <2> HIDE DEF o
  <2> QED BY <1>1, <2>2, <2>3
<1>4. ApplyOverlay(d, o) = [kept EXCEPT !.staff = @ \cup PeopleIn(added, id, DOMAIN o.addEmployees),
                                        !.children = @ \cup PeopleIn(added, id, DOMAIN added \ DOMAIN o.addEmployees)]
  BY OverlayIs
<1> HIDE DEF o, list, added, kept, id
<1>5. PeopleIn(added, id, DOMAIN o.addEmployees) = {} /\ PeopleIn(added, id, DOMAIN added \ DOMAIN o.addEmployees) = {}
  BY <1>1, <1>3 DEF PeopleIn
<1>6. Grown(d) = [bands |-> d.bands, children |-> Extend(d.children, More(d)), staff |-> Extend(d.staff, Added.staff),
  funding |-> d.funding, plans |-> d.plans, items |-> d.items] BY GrownWhole
<1> DEFINE g == Grown(d)
<1>7. ApplyOverlay(d, o) = [g EXCEPT !.staff = @ \cup {}, !.children = @ \cup {}] BY <1>2, <1>4, <1>5
<1>8. g = [bands |-> g.bands, children |-> g.children, staff |-> g.staff, funding |-> g.funding,
  plans |-> g.plans, items |-> g.items] BY <1>6
<1> HIDE DEF g
<1>9. [g EXCEPT !.staff = @ \cup {}, !.children = @ \cup {}] = g BY <1>8
<1> QED BY <1>7, <1>9 DEF g, o

\* A list of others in the place of the elements of a list.
LEMMA ListedThrough ==
  ASSUME NEW s, NEW S, Listed(s, S), NEW g, NEW T, Image(g, S, T), \A x, y \in S : g[x] = g[y] => x = y
  PROVE  Listed([i \in DOMAIN s |-> g[s[i]]], T)
<1> DEFINE t == [i \in DOMAIN s |-> g[s[i]]]
<1>1. DOMAIN s = 1..Len(s) /\ Len(s) \in Nat /\ S = {s[i] : i \in DOMAIN s} /\ \A i, j \in DOMAIN s : s[i] = s[j] => i = j
  BY DEF Listed, Image
<1>2. T = {g[x] : x \in S} BY DEF Image
<1>3. \A i \in DOMAIN s : s[i] \in S /\ g[s[i]] \in T BY <1>1, <1>2
<1>4. t \in Seq(T) /\ Len(t) = Len(s) /\ DOMAIN t = DOMAIN s
  <2>1. t \in [1..Len(s) -> T] BY <1>1, <1>3
  <2> HIDE DEF t
  <2>2. t \in Seq(T) BY <1>1, <2>1, SeqDef
  <2>3. DOMAIN t = 1..Len(s) BY <2>1
  <2>4. Len(t) = Len(s) BY <1>1, <2>2, <2>3, LenProperties
  <2> QED BY <1>1, <2>2, <2>3, <2>4
<1>5. \A i \in DOMAIN s : t[i] = g[s[i]] OBVIOUS
<1>6. t = [i \in DOMAIN t |-> t[i]] BY <1>4
<1> HIDE DEF t
<1>7. Image(t, DOMAIN t, T)
  <2>1. ASSUME NEW y \in T PROVE \E i \in DOMAIN t : y = t[i] BY <1>1, <1>2, <1>4, <1>5
  <2>2. \A i \in DOMAIN t : t[i] \in T BY <1>3, <1>4, <1>5
  <2> QED BY <2>1, <2>2 DEF Image
<1>8. \A i, j \in DOMAIN t : t[i] = t[j] => i = j
  <2> SUFFICES ASSUME NEW i \in DOMAIN t, NEW j \in DOMAIN t, t[i] = t[j] PROVE i = j OBVIOUS
  <2>1. g[s[i]] = g[s[j]] /\ s[i] \in S /\ s[j] \in S BY <1>3, <1>4, <1>5
  <2>2. s[i] = s[j] BY <2>1
  <2> QED BY <1>1, <1>4, <2>2
<1> QED BY <1>1, <1>4, <1>6, <1>7, <1>8 DEF Listed, t

\* The contracts of a child who leaves, in the list in which it is entered anew.
LEMMA ChildListed ==
  ASSUME NEW d, Whole(d), NEW x \in GoingOf(d)
  PROVE  LET C == Extension(d).addChildContracts
             a == Anew(x, C)
             y == Plus(x, More(d))
             u == [a EXCEPT !.contracts = ListCompleted(d, @)]
         IN  a.id = x.id /\ u.id = x.id /\ u = [y EXCEPT !.contracts = u.contracts] /\ Listed(u.contracts, y.contracts)
<1> DEFINE
  more == AddedTo(x, Extension(d).addChildContracts)
  raw == x.contracts \cup more
  s == SetToSeq(raw)
  t == ListCompleted(d, s)
  a == Anew(x, Extension(d).addChildContracts)
  u == [a EXCEPT !.contracts = ListCompleted(d, @)]
  y == Plus(x, More(d))
<1>1. x \in d.children /\ Child(x) /\ \A k \in x.contracts : Complete(d, k) BY DEF GoingOf, Whole
<1>2. /\ raw \subseteq ContractRows /\ OneAtATime(raw)
      /\ Child(y) /\ y.id = x.id /\ y.born = x.born
      /\ y.contracts = {Completed(d, k) : k \in raw} BY <1>1, ChildGrown
<1>3. a = [x EXCEPT !.contracts = s] BY DEF Anew
<1>4. u = [a EXCEPT !.contracts = ListCompleted(d, a.contracts)] OBVIOUS
<1> HIDE DEF raw, y, a, u, s
<1>5. a = [id |-> x.id, born |-> x.born, contracts |-> s] BY <1>1, <1>3 DEF Child
<1> HIDE DEF t
<1>6. u = [id |-> x.id, born |-> x.born, contracts |-> t] BY <1>4, <1>5 DEF t
<1>7. u = [y EXCEPT !.contracts = u.contracts] BY <1>2, <1>6 DEF Child
<1>8. Listed(t, y.contracts)
  <2> DEFINE g == [k \in raw |-> Completed(d, k)]
  <2>1. Listed(s, raw) BY <1>2, ListOfSet DEF OneAtATime, s
  <2>2. Image(g, raw, y.contracts) BY <1>2 DEF Image
  <2>3. \A k, l \in raw : g[k] = g[l] => k = l BY <1>2, CompletedIs DEF OneAtATime, NeverBoth
  <2>4. t = [i \in DOMAIN s |-> g[s[i]]]
   <3>1. \A i \in DOMAIN s : s[i] \in raw BY <2>1 DEF Listed, Image
   <3>2. t = [i \in DOMAIN s |-> Completed(d, s[i])] BY DEF t, ListCompleted
   <3>3. \A i \in DOMAIN s : g[s[i]] = Completed(d, s[i]) BY <3>1
   <3> QED BY <3>2, <3>3
  <2> HIDE DEF g
  <2> QED BY <2>1, <2>2, <2>3, <2>4, ListedThrough
<1>9. a.id = x.id /\ u.id = x.id /\ u.contracts = t BY <1>5, <1>6
<1> QED BY <1>7, <1>8, <1>9 DEF a, u, y

\* The list of the children who leave, as it is entered, has each of them once.
LEMMA GoingListed ==
  ASSUME NEW d, Whole(d)
  PROVE  LET G == Extend(GoingOf(d), More(d))
             B == CompletedList(d, SetToSeq({Anew(x, Extension(d).addChildContracts) : x \in GoingOf(d)}))
         IN  Entered(B, G)
<1> DEFINE
  C == Extension(d).addChildContracts
  H == GoingOf(d)
  G == Extend(H, More(d))
  S == {Anew(x, C) : x \in H}
  L == SetToSeq(S)
  B == CompletedList(d, L)
  done(a) == [a EXCEPT !.contracts = ListCompleted(d, @)]
  own(p) == CHOOSE x \in H : x.id = p.id
  w == [p \in G |-> done(Anew(own(p), C))]
  g == [a \in S |-> done(a)]
<1>1. G = {Plus(x, More(d)) : x \in H} BY ExtendIs
<1>2. ASSUME NEW x \in H
  PROVE  LET a == Anew(x, C)
             y == Plus(x, More(d))
             u == done(a)
         IN  /\ a.id = x.id /\ u.id = x.id /\ y.id = x.id
             /\ u = [y EXCEPT !.contracts = u.contracts] /\ Listed(u.contracts, y.contracts)
  <2>1. x \in d.children BY DEF GoingOf
  <2>2. Plus(x, More(d)).id = x.id BY <2>1, ChildGrown
  <2> QED BY <2>2, ChildListed
<1>3. IsFiniteSet(H) /\ H \subseteq d.children /\ \A x, y \in H : x.id = y.id => x = y
  <2>1. H \subseteq d.children /\ IsFiniteSet(d.children) /\ \A x, y \in d.children : x.id = y.id => x = y
    BY DEF GoingOf, Whole, Enrolled
  <2> HIDE DEF H
  <2> QED BY <2>1, FS_Subset
<1> HIDE DEF H, G, C, done
<1>4. \A p \in G : w[p] = done(Anew(own(p), C)) OBVIOUS
<1>5. \A x \in H : own(Plus(x, More(d))) = x
  <2> SUFFICES ASSUME NEW x \in H PROVE own(Plus(x, More(d))) = x OBVIOUS
  <2>1. Plus(x, More(d)).id = x.id BY <1>2
  <2>2. own(Plus(x, More(d))) \in H /\ own(Plus(x, More(d))).id = x.id BY <2>1
  <2> QED BY <1>3, <2>2
<1> HIDE DEF w, own
<1>6. \A x \in H : Plus(x, More(d)) \in G /\ w[Plus(x, More(d))] = done(Anew(x, C)) BY <1>1, <1>4, <1>5
<1>7. InLists(w, G)
  <2> SUFFICES ASSUME NEW p \in G PROVE w[p] = [p EXCEPT !.contracts = w[p].contracts] /\ Listed(w[p].contracts, p.contracts)
    BY DEF InLists
  <2>1. PICK x \in H : p = Plus(x, More(d)) BY <1>1
  <2> QED BY <1>2, <1>6, <2>1
<1>8. {w[p] : p \in G} = {done(Anew(x, C)) : x \in H} BY <1>1, <1>6
<1>9. \A a \in S : g[a] = done(a) OBVIOUS
<1>10. IsFiniteSet(S)
  <2> DEFINE e == [x \in H |-> Anew(x, C)]
  <2>1. Image(e, H, S) BY DEF Image
  <2> HIDE DEF e, S
  <2> QED BY <1>3, <2>1, FiniteImage
<1>11. Listed(L, S) BY <1>10, ListOfSet
<1>12. Image(g, S, {w[p] : p \in G}) BY <1>8, <1>9 DEF Image
<1>13. \A a, b \in S : g[a] = g[b] => a = b
  <2> SUFFICES ASSUME NEW a \in S, NEW b \in S, g[a] = g[b] PROVE a = b OBVIOUS
  <2>1. PICK x \in H : a = Anew(x, C) OBVIOUS
  <2>2. PICK y \in H : b = Anew(y, C) OBVIOUS
  <2>3. done(a).id = x.id /\ done(b).id = y.id BY <1>2, <2>1, <2>2
  <2>4. x.id = y.id BY <1>9, <2>3
  <2> QED BY <1>3, <2>1, <2>2, <2>4
<1>14. B = [i \in DOMAIN L |-> g[L[i]]]
  <2>1. \A i \in DOMAIN L : L[i] \in S BY <1>11 DEF Listed, Image
  <2>2. B = [i \in DOMAIN L |-> done(L[i])] BY DEF CompletedList, done
  <2> HIDE DEF L, B, S, g
  <2>3. \A i \in DOMAIN L : done(L[i]) = g[L[i]] BY <1>9, <2>1
  <2> QED BY <2>2, <2>3
<1> DEFINE T == {w[p] : p \in G}
<1> HIDE DEF L, B, S, g, T
<1>15. Listed(B, T) BY <1>12, <1>11, <1>13, <1>14, ListedThrough DEF T
<1>16. Entered(B, G) BY <1>7, <1>15 DEF Entered, T
<1> QED BY <1>16 DEF B, L, S, C, H, G

\* The list of the staff, as it is entered.
LEMMA StaffListed ==
  ASSUME NEW staff, NEW added, Employed(staff), Employed(Extend(staff, added))
  PROVE  LET E == Extend(staff, added)
             A == SetToSeq({Anew(e, added) : e \in staff})
         IN  Entered(A, E)
<1> DEFINE
  E == Extend(staff, added)
  S == {Anew(e, added) : e \in staff}
  v == [p \in E |-> [p EXCEPT !.contracts = SetToSeq(@)]]
<1>1. E = {Plus(e, added) : e \in staff} BY ExtendIs
<1>2. IsFiniteSet(staff) /\ \A e \in staff : Employee(e) BY DEF Employed, Employee
<1>3. \A p \in E : Employee(p) /\ IsFiniteSet(p.contracts) BY DEF Employed, Employee, OneAtATime
<1>4. ASSUME NEW e \in staff PROVE v[Plus(e, added)] = Anew(e, added)
  <2> DEFINE
    rows == e.contracts \cup AddedTo(e, added)
    s == SetToSeq(rows)
    p == Plus(e, added)
  <2>1. e = [id |-> e.id, contracts |-> e.contracts] BY <1>2 DEF Employee
  <2>2. p \in E BY <1>1
  <2>3. p = [e EXCEPT !.contracts = rows] BY DEF Plus
  <2>4. Anew(e, added) = [e EXCEPT !.contracts = s] BY DEF Anew
  <2>5. v[p] = [p EXCEPT !.contracts = SetToSeq(p.contracts)] BY <2>2
  <2> HIDE DEF rows, v, p
  <2>6. p = [id |-> e.id, contracts |-> rows] BY <2>1, <2>3
  <2>7. p.contracts = rows BY <2>6
  <2>8. v[p] = [p EXCEPT !.contracts = s] BY <2>5, <2>7
  <2> HIDE DEF s
  <2>9. v[p] = [id |-> e.id, contracts |-> s] BY <2>6, <2>8
  <2>10. Anew(e, added) = [id |-> e.id, contracts |-> s] BY <2>1, <2>4
  <2> QED BY <2>9, <2>10 DEF p
<1>5. InLists(v, E)
  <2> SUFFICES ASSUME NEW p \in E PROVE v[p] = [p EXCEPT !.contracts = v[p].contracts] /\ Listed(v[p].contracts, p.contracts)
    BY DEF InLists
  <2> DEFINE s == SetToSeq(p.contracts)
  <2>1. p = [id |-> p.id, contracts |-> p.contracts] BY <1>3 DEF Employee
  <2>2. v[p] = [p EXCEPT !.contracts = s] OBVIOUS
  <2>3. Listed(s, p.contracts) BY <1>3, ListOfSet
  <2> HIDE DEF v, s
  <2>4. v[p].contracts = s BY <2>1, <2>2
  <2> QED BY <2>2, <2>3, <2>4
<1> HIDE DEF E, v
<1>6. {v[p] : p \in E} = S BY <1>1, <1>4
<1>7. IsFiniteSet(S)
  <2> DEFINE h == [e \in staff |-> Anew(e, added)]
  <2>1. Image(h, staff, S) BY DEF Image
  <2> HIDE DEF h, S
  <2> QED BY <1>2, <2>1, FiniteImage
<1> HIDE DEF S
<1>8. Listed(SetToSeq(S), S) BY <1>7, ListOfSet
<1>9. Listed(SetToSeq(S), {v[p] : p \in E}) BY <1>6, <1>8
<1>10. Entered(SetToSeq(S), E) BY <1>5, <1>9 DEF Entered
<1> QED BY <1>10 DEF E, S

\* The replacement carries out a plan on the extended dataset.
LEMMA ReplacementIs ==
  ASSUME NEW d, Whole(d), Employed(Extend(d.staff, Added.staff))
  PROVE  LET G == Extend(GoingOf(d), More(d))
             f == ApplyOverlay(d, Replacement(d))
         IN  /\ G \subseteq Grown(d).children
             /\ \E A, B, v, w, kept, id :
                    /\ ReplacementPlan(Grown(d), G, A, B, v, w, kept, id)
                    /\ f = [kept EXCEPT !.staff = @ \cup PeopleIn(A \o B, id, DOMAIN A),
                                        !.children = @ \cup PeopleIn(A \o B, id, DOMAIN (A \o B) \ DOMAIN A)]
<1> DEFINE
  o == Replacement(d)
  C == Extension(d).addChildContracts
  H == GoingOf(d)
  G == Extend(H, More(d))
  A == SetToSeq({Anew(x, Added.staff) : x \in d.staff})
  L == SetToSeq({Anew(x, C) : x \in H})
  B == CompletedList(d, L)
  kept == KeptOf(d, o)
  id == IdsOf(A \o B, FreeId(kept))
  D == Grown(d)
<1>1. /\ o.removeChildren = {x.id : x \in H} /\ o.removeEmployees = {x.id : x \in d.staff}
      /\ o.addChildContracts = C /\ o.addEmployeeContracts = Added.staff
      /\ o.addEmployees = A /\ o.addChildren = L BY DEF Replacement, Extension, NoOverlay, Anew, AddedTo, GoingOf
<1>2. /\ d = [bands |-> d.bands, children |-> d.children, staff |-> d.staff, funding |-> d.funding,
              plans |-> d.plans, items |-> d.items]
      /\ Employed(d.staff) /\ H \subseteq d.children
      /\ \A x, y \in d.children : x.id = y.id => x = y BY DEF Whole, Staffed, Enrolled, GoingOf
<1>3. /\ D = [bands |-> d.bands, children |-> Extend(d.children, More(d)), staff |-> Extend(d.staff, Added.staff),
              funding |-> d.funding, plans |-> d.plans, items |-> d.items] BY GrownWhole
<1> HIDE DEF D
<1>4. /\ D.bands = d.bands /\ D.children = Extend(d.children, More(d)) /\ D.staff = Extend(d.staff, Added.staff)
      /\ D.funding = d.funding /\ D.plans = d.plans /\ D.items = d.items BY <1>3
<1>5. PICK v : InLists(v, Extend(d.staff, Added.staff)) /\ Listed(A, {v[p] : p \in Extend(d.staff, Added.staff)})
  <2>1. Entered(A, Extend(d.staff, Added.staff)) BY <1>2, StaffListed
  <2> QED BY <2>1 DEF Entered
<1>6. PICK w : InLists(w, G) /\ Listed(B, {w[p] : p \in G}) BY GoingListed DEF Entered
<1>7. /\ \A S : Extend(S, More(d)) = {Plus(x, More(d)) : x \in S}
      /\ \A x \in d.children : Plus(x, More(d)).id = x.id BY ExtendIs, ChildGrown
<1>8. G \subseteq D.children BY <1>2, <1>4, <1>7
<1>9. Extend({x \in d.children : x.id \notin o.removeChildren}, More(d)) = D.children \ G
  <2> DEFINE stay == {x \in d.children : x.id \notin o.removeChildren}
  <2>1. \A x \in d.children : x \in stay <=> x \notin H
   <3> HIDE DEF o, H
   <3> QED BY <1>1, <1>2
  <2>2. stay \subseteq d.children OBVIOUS
  <2>3. Extend(stay, More(d)) = {Plus(x, More(d)) : x \in stay} /\ G = {Plus(x, More(d)) : x \in H}
        /\ D.children = {Plus(x, More(d)) : x \in d.children} BY <1>4, <1>7
  <2>4. \A x, y \in d.children : Plus(x, More(d)) = Plus(y, More(d)) => x = y BY <1>2, <1>7
  <2> HIDE DEF stay, H, G, o
  <2>5. ASSUME NEW p \in Extend(stay, More(d)) PROVE p \in D.children /\ p \notin G
   <3>1. PICK x \in stay : p = Plus(x, More(d)) BY <2>3
   <3>2. ASSUME p \in G PROVE FALSE
    <4>1. PICK y \in H : p = Plus(y, More(d)) BY <2>3, <3>2
    <4> QED BY <1>2, <2>1, <2>2, <2>4, <3>1, <4>1
   <3> QED BY <2>2, <2>3, <3>1, <3>2
  <2>6. ASSUME NEW p \in D.children, p \notin G PROVE p \in Extend(stay, More(d))
   <3>1. PICK x \in d.children : p = Plus(x, More(d)) BY <2>3
   <3> QED BY <2>1, <2>3, <2>6, <3>1
  <2> QED BY <2>5, <2>6 DEF stay
<1>10. Extend({x \in d.staff : x.id \notin o.removeEmployees}, Added.staff) = {}
  <2>1. {x \in d.staff : x.id \notin o.removeEmployees} = {}
   <3> HIDE DEF o
   <3> QED BY <1>1
  <2>2. Extend({}, Added.staff) = {} BY ExtendIs
  <2> HIDE DEF o
  <2> QED BY <2>1, <2>2
<1>11. kept = [bands |-> d.bands, children |-> D.children \ G, staff |-> {}, funding |-> d.funding,
  plans |-> d.plans, items |-> d.items]
  <2>1. {[a EXCEPT !.contract = Completed(d, @)] : a \in o.addChildContracts} = More(d)
   <3> HIDE DEF o
   <3> QED BY <1>1 DEF More
  <2>2. kept = [d EXCEPT !.children = Extend({x \in d.children : x.id \notin o.removeChildren},
                                  {[a EXCEPT !.contract = Completed(d, @)] : a \in o.addChildContracts}),
                         !.staff = Extend({x \in d.staff : x.id \notin o.removeEmployees}, o.addEmployeeContracts)]
    BY DEF KeptOf
  <2> HIDE DEF o, kept, G
  <2>3. kept = [d EXCEPT !.children = D.children \ G, !.staff = {}] BY <1>1, <1>9, <1>10, <2>1, <2>2
  <2> QED BY <1>2, <2>3
<1>12. ApplyOverlay(d, o)
  = [kept EXCEPT !.staff = @ \cup PeopleIn(A \o B, id, DOMAIN A),
                 !.children = @ \cup PeopleIn(A \o B, id, DOMAIN (A \o B) \ DOMAIN A)]
  <2> DEFINE
    added == o.addEmployees \o CompletedList(d, o.addChildren)
    ids == IdsOf(added, FreeId(kept))
  <2>1. ApplyOverlay(d, o)
    = [kept EXCEPT !.staff = @ \cup PeopleIn(added, ids, DOMAIN o.addEmployees),
                   !.children = @ \cup PeopleIn(added, ids, DOMAIN added \ DOMAIN o.addEmployees)] BY OverlayIs
  <2> HIDE DEF o, A, L, kept
  <2>2. added = A \o B BY <1>1
  <2> QED BY <1>1, <2>1, <2>2
<1> HIDE DEF o, A, L, B, kept, id
<1>13. ReplacementPlan(D, G, A, B, v, w, kept, id) BY <1>4, <1>5, <1>6, <1>11 DEF ReplacementPlan, id
<1> HIDE DEF G, H
<1> DEFINE
  f == ApplyOverlay(d, o)
  done == [kept EXCEPT !.staff = @ \cup PeopleIn(A \o B, id, DOMAIN A),
                       !.children = @ \cup PeopleIn(A \o B, id, DOMAIN (A \o B) \ DOMAIN A)]
<1>14. ReplacementPlan(D, G, A, B, v, w, kept, id) /\ f = done BY <1>12, <1>13
<1> HIDE DEF f
<1>15. \E A1, B1, v1, w1, kept1, id1 :
  /\ ReplacementPlan(D, G, A1, B1, v1, w1, kept1, id1)
  /\ f = [kept1 EXCEPT !.staff = @ \cup PeopleIn(A1 \o B1, id1, DOMAIN A1),
                       !.children = @ \cup PeopleIn(A1 \o B1, id1, DOMAIN (A1 \o B1) \ DOMAIN A1)]
  <2> WITNESS A, B, v, w, kept, id
  <2> QED BY <1>14
<1> QED BY <1>8, <1>15 DEF f, o, D, G, H

\* A plan takes everybody on under the ids from the first free one on.
LEMMA PlanFacts ==
  ASSUME NEW d, Whole(d), NEW G \in SUBSET d.children, NEW A, NEW B, NEW v, NEW w, NEW kept, NEW id,
         ReplacementPlan(d, G, A, B, v, w, kept, id)
  PROVE  PlanDone(d, G, A, B, v, w, kept, id, [i \in DOMAIN A |-> id[i]], [j \in DOMAIN B |-> id[Len(A) + j]])
<1> DEFINE
  L == A \o B
  N == Len(A) + Len(B)
  n == FreeId(kept)
  forStaff == [i \in DOMAIN A |-> id[i]]
  forChildren == [j \in DOMAIN B |-> id[Len(A) + j]]
  SA == {v[x] : x \in d.staff}
  SB == {w[x] : x \in G}
<1>1. InLists(v, d.staff) /\ Listed(A, SA) /\ InLists(w, G) /\ Listed(B, SB) /\ id = IdsOf(L, n)
      /\ kept.children = d.children \ G /\ kept.staff = {} BY DEF ReplacementPlan
<1>2. /\ \A x \in d.staff : Employee(x) /\ IsFiniteSet(x.contracts)
      /\ \A x, y \in d.staff : x.id = y.id => x = y BY DEF Whole, Staffed, Employed, Employee, OneAtATime
<1>3. /\ \A x \in d.children : Child(x) /\ IsFiniteSet(x.contracts) /\ x.id \in Nat /\ \A k \in x.contracts : k.id \in Nat
      /\ \A x, y \in d.children : x.id = y.id => x = y
      /\ G \subseteq d.children /\ IsFiniteSet(d.children)
  <2>1. ASSUME NEW x \in d.children
        PROVE  Child(x) /\ IsFiniteSet(x.contracts) /\ x.id \in Nat /\ \A k \in x.contracts : k.id \in Nat
    BY DEF Whole, OneAtATime, ContractRows
  <2> QED BY <2>1 DEF Whole, Enrolled
<1> HIDE DEF SA, SB, n
<1>4. /\ DOMAIN L = 1..N /\ Len(A) \in Nat /\ Len(B) \in Nat /\ N \in Nat
      /\ DOMAIN A = 1..Len(A) /\ DOMAIN B = 1..Len(B)
      /\ \A i \in 1..Len(A) : L[i] = A[i]
      /\ \A j \in 1..Len(B) : L[Len(A) + j] = B[j] BY <1>1, ListsJoined
<1>5. n \in Nat /\ \A x \in kept.children : x.id < n
  <2>1. IsFiniteSet(kept.children) /\ IsFiniteSet(kept.staff) BY <1>1, <1>3, FS_Subset, FS_EmptySet
  <2>2. \A x \in kept.children \cup kept.staff : /\ x.id \in Nat /\ IsFiniteSet(x.contracts)
                                                 /\ \A k \in x.contracts : k.id \in Nat BY <1>1, <1>3
  <2>3. FreeId(kept) \in Nat /\ \A x \in kept.children \cup kept.staff : x.id < FreeId(kept)
    BY <2>1, <2>2, FreeIdFacts
  <2> QED BY <2>3 DEF n
<1>6. \A i \in DOMAIN A : \E x \in d.staff : A[i] = v[x] BY <1>1 DEF Listed, Image, SA
<1>7. \A j \in DOMAIN B : \E x \in G : B[j] = w[x] BY <1>1 DEF Listed, Image, SB
<1>8. (\A x \in d.staff : Len(v[x].contracts) \in Nat) /\ \A x \in G : Len(w[x].contracts) \in Nat
  BY <1>1 DEF InLists, Listed
<1>9. \A i \in DOMAIN A : Len(A[i].contracts) \in Nat BY <1>6, <1>8
<1>10. \A j \in DOMAIN B : Len(B[j].contracts) \in Nat BY <1>7, <1>8
<1> HIDE DEF L, N
<1>11. \A i \in 1..N : i \in 1..Len(A) \/ \E j \in 1..Len(B) : i = Len(A) + j
  <2> SUFFICES ASSUME NEW i \in 1..N, ~(i \in 1..Len(A)) PROVE i = Len(A) + (i - Len(A)) /\ i - Len(A) \in 1..Len(B)
    OBVIOUS
  <2> QED BY <1>4 DEF N
<1>12. \A i \in 1..N : Len(L[i].contracts) \in Nat BY <1>4, <1>9, <1>10, <1>11
<1>13. /\ \A i \in 1..N : id[i] \in Int /\ n <= id[i]
       /\ \A i, j \in 1..N : id[i] = id[j] => i = j BY <1>5, <1>4, <1>12, IdsApart, <1>1
<1>14. (\A i \in 1..Len(A) : i \in 1..N) /\ \A j \in 1..Len(B) : Len(A) + j \in 1..N /\ Len(A) + j \notin 1..Len(A)
  BY <1>4 DEF N
<1>15. ASSUME NEW i \in DOMAIN A PROVE forStaff[i] = id[i] /\ id[i] \in Nat BY <1>4, <1>13, <1>14, <1>5
<1>16. ASSUME NEW j \in DOMAIN B
  PROVE  forChildren[j] = id[Len(A) + j] /\ id[Len(A) + j] \in Nat /\ \A x \in kept.children : x.id < id[Len(A) + j]
  BY <1>4, <1>13, <1>14, <1>1, <1>3, <1>5
<1>17. Readmission(d.staff, v, A, forStaff)
  <2>1. \A i, j \in DOMAIN A : forStaff[i] = forStaff[j] => i = j BY <1>4, <1>13, <1>14
  <2> HIDE DEF forStaff
  <2> QED BY <1>1, <1>2, <2>1 DEF Readmission, SA
<1>18. Readmission(G, w, B, forChildren)
  <2>1. \A i, j \in DOMAIN B : forChildren[i] = forChildren[j] => i = j
   <3> SUFFICES ASSUME NEW i \in DOMAIN B, NEW j \in DOMAIN B, forChildren[i] = forChildren[j] PROVE i = j OBVIOUS
   <3>1. id[Len(A) + i] = id[Len(A) + j] /\ Len(A) + i \in 1..N /\ Len(A) + j \in 1..N BY <1>4, <1>14
   <3>2. Len(A) + i = Len(A) + j BY <1>13, <3>1
   <3> QED BY <1>4, <3>2
  <2> HIDE DEF forChildren
  <2> QED BY <1>1, <1>3, <2>1 DEF Readmission, SB
<1> HIDE DEF forStaff, forChildren
<1>19. PeopleIn(L, id, DOMAIN A) = Readmitted(A, forStaff)
  <2>1. \A y : y \in PeopleIn(L, id, DOMAIN A) <=> \E i \in DOMAIN A : L[i].contracts # <<>> /\ y = TakenOn(L[i], id[i])
    BY DEF PeopleIn
  <2>2. \A y : y \in Readmitted(A, forStaff) <=> \E i \in DOMAIN A : A[i].contracts # <<>> /\ y = TakenOn(A[i], forStaff[i])
    BY DEF Readmitted
  <2>3. \A i \in DOMAIN A : L[i] = A[i] /\ forStaff[i] = id[i] BY <1>4, <1>15
  <2>4. \A y : y \in PeopleIn(L, id, DOMAIN A) <=> y \in Readmitted(A, forStaff) BY <2>1, <2>2, <2>3
  <2> QED BY <2>4
<1>20. PeopleIn(L, id, DOMAIN L \ DOMAIN A) = Readmitted(B, forChildren)
  <2>1. \A y : y \in PeopleIn(L, id, DOMAIN L \ DOMAIN A)
    <=> \E i \in DOMAIN L \ DOMAIN A : L[i].contracts # <<>> /\ y = TakenOn(L[i], id[i]) BY DEF PeopleIn
  <2>2. \A y : y \in Readmitted(B, forChildren)
    <=> \E j \in DOMAIN B : B[j].contracts # <<>> /\ y = TakenOn(B[j], forChildren[j]) BY DEF Readmitted
  <2>3. \A j \in DOMAIN B : Len(A) + j \in DOMAIN L \ DOMAIN A /\ L[Len(A) + j] = B[j] /\ forChildren[j] = id[Len(A) + j]
    BY <1>4, <1>14, <1>16
  <2>4. \A i \in DOMAIN L \ DOMAIN A : \E j \in DOMAIN B : i = Len(A) + j BY <1>4, <1>11
  <2>5. ASSUME NEW y \in PeopleIn(L, id, DOMAIN L \ DOMAIN A) PROVE y \in Readmitted(B, forChildren)
   <3>1. PICK i \in DOMAIN L \ DOMAIN A : L[i].contracts # <<>> /\ y = TakenOn(L[i], id[i]) BY <2>1
   <3>2. PICK j \in DOMAIN B : i = Len(A) + j BY <2>4
   <3> QED BY <2>2, <2>3, <3>1, <3>2
  <2>6. ASSUME NEW y \in Readmitted(B, forChildren) PROVE y \in PeopleIn(L, id, DOMAIN L \ DOMAIN A)
   <3>1. PICK j \in DOMAIN B : B[j].contracts # <<>> /\ y = TakenOn(B[j], forChildren[j]) BY <2>2
   <3> QED BY <2>1, <2>3, <3>1
  <2> QED BY <2>5, <2>6
<1>21. \A i \in DOMAIN A : forStaff[i] \in Nat BY <1>15
<1>22. \A j \in DOMAIN B : forChildren[j] \in Nat /\ \A x \in kept.children : x.id < forChildren[j] BY <1>16
<1> QED BY <1>17, <1>18, <1>19, <1>20, <1>21, <1>22 DEF PlanDone, L, forStaff, forChildren

\* Everyone stays as they are, or is exchanged for someone like them.
LEMMA StaysAlike ==
  ASSUME NEW U, Reidentified(U), NEW p, p.contracts \subseteq U, OneAtATime(p.contracts), NEW m \in Int
  PROVE  Alike(Contract(p, m), Contract(p, m), U)
<1>1. Spans(p.contracts) BY DEF Spans, Reidentified
<1> DEFINE k == Contract(p, m)
<1>2. k # NoRow => k \in U BY <1>1, PickFacts DEF Contract
<1> HIDE DEF k
<1>3. k # NoRow => Copy(k, k, U) BY <1>2 DEF Reidentified, Copy
<1> QED BY <1>3 DEF Alike, k

\* The staff replaced has the contracts it had, month by month.
LEMMA StaffReplaced ==
  ASSUME NEW d, Whole(d), NEW v, NEW A, NEW num, Readmission(d.staff, v, A, num), \A i \in DOMAIN A : num[i] \in Nat
  PROVE  /\ Renewed(d.staff, Readmitted(A, num), [x \in d.staff |-> NewOf(A, v, num, x)], StaffContracts)
         /\ Employed(Readmitted(A, num))
<1> DEFINE
  S == d.staff
  T == Readmitted(A, num)
  h == [x \in S |-> NewOf(A, v, num, x)]
<1>1. /\ T = {NewOf(A, v, num, x) : x \in HiredOf(S)}
      /\ \A x, y \in S : NewOf(A, v, num, x).id = NewOf(A, v, num, y).id => x = y BY AllReadmitted
<1>2. IsFiniteSet(S) /\ HiredOf(S) \subseteq S
      /\ \A x \in S : Employee(x) /\ x.contracts \subseteq StaffContracts /\ OneAtATime(x.contracts)
  BY DEF Whole, Staffed, Employed, Employee, HiredOf
<1>3. ASSUME NEW x \in S
  PROVE  LET u == NewOf(A, v, num, x)
         IN  /\ u.id \in Nat /\ u.contracts \subseteq StaffContracts /\ OneAtATime(u.contracts)
             /\ \A m \in Int : Alike(Contract(x, m), Contract(u, m), StaffContracts)
             /\ Employee(u) BY <1>2, TakenAlike, RowsReidentified
<1>4. IsFiniteSet(T)
  <2> DEFINE e == [x \in HiredOf(S) |-> NewOf(A, v, num, x)]
  <2>1. Image(e, HiredOf(S), T) BY <1>1 DEF Image
  <2>2. IsFiniteSet(HiredOf(S)) BY <1>2, FS_Subset
  <2> HIDE DEF e, T
  <2> QED BY <2>1, <2>2, FiniteImage
<1> HIDE DEF T
<1>5. Employed(T)
  <2>1. ASSUME NEW u \in T
    PROVE  /\ u = [id |-> u.id, contracts |-> u.contracts] /\ u.id \in Nat
           /\ u.contracts \subseteq StaffContracts /\ OneAtATime(u.contracts)
   <3>1. PICK x \in HiredOf(S) : u = NewOf(A, v, num, x) BY <1>1
   <3> QED BY <1>2, <1>3, <3>1 DEF Employee
  <2>2. ASSUME NEW u \in T, NEW r \in T, u.id = r.id PROVE u = r
   <3>1. PICK x \in HiredOf(S) : u = NewOf(A, v, num, x) BY <1>1
   <3>2. PICK y \in HiredOf(S) : r = NewOf(A, v, num, y) BY <1>1
   <3> QED BY <1>1, <1>2, <2>2, <3>1, <3>2
  <2> QED BY <1>4, <2>1, <2>2 DEF Employed
<1>6. Renewed(S, T, h, StaffContracts)
  <2>1. \A x \in HiredOf(S) : h[x] = NewOf(A, v, num, x) BY <1>2
  <2>2. T = {h[x] : x \in HiredOf(S)} BY <1>1, <2>1
  <2>3. \A x, y \in HiredOf(S) : h[x] = h[y] => x = y BY <1>1, <1>2, <2>1
  <2>4. \A x \in HiredOf(S) : \A m \in Int : Alike(Contract(x, m), Contract(h[x], m), StaffContracts)
    BY <1>2, <1>3, <2>1
  <2> HIDE DEF h
  <2> QED BY <1>2, <2>2, <2>3, <2>4 DEF Renewed, Image
<1> QED BY <1>5, <1>6 DEF T

\* The children replaced have the contracts and dates of birth they had, and ids of their own.
LEMMA ChildrenReplaced ==
  ASSUME NEW d, Whole(d), NEW G \in SUBSET d.children, NEW w, NEW B, NEW num, Readmission(G, w, B, num),
         \A j \in DOMAIN B : num[j] \in Nat /\ \A x \in d.children \ G : x.id < num[j]
  PROVE  LET T == (d.children \ G) \cup Readmitted(B, num)
             e == [x \in d.children |-> IF x \in G THEN NewOf(B, w, num, x) ELSE x]
         IN  /\ Renewed(d.children, T, e, ContractRows) /\ \A x \in d.children : e[x].born = x.born
             /\ IsFiniteSet(T) /\ \A x, y \in T : x.id = y.id => x = y
             /\ \A x \in T : x.born \in [month : Int, first : BOOLEAN]
<1> DEFINE
  S == d.children
  T == (S \ G) \cup Readmitted(B, num)
  e == [x \in S |-> IF x \in G THEN NewOf(B, w, num, x) ELSE x]
<1>1. /\ Readmitted(B, num) = {NewOf(B, w, num, x) : x \in HiredOf(G)}
      /\ \A x, y \in G : NewOf(B, w, num, x).id = NewOf(B, w, num, y).id => x = y
      /\ \A x \in G : PlaceOf(B, w, x) \in DOMAIN B /\ NewOf(B, w, num, x).id = num[PlaceOf(B, w, x)] BY AllReadmitted
<1>2. /\ IsFiniteSet(S) /\ G \subseteq S
      /\ \A x \in S : /\ Child(x) /\ x.id \in Nat /\ x.contracts # {} /\ x.contracts \subseteq ContractRows
                      /\ OneAtATime(x.contracts) /\ x.born \in [month : Int, first : BOOLEAN]
      /\ \A x, y \in S : x.id = y.id => x = y BY DEF Whole, Enrolled
<1>3. HiredOf(G) = G /\ HiredOf(S) = S BY <1>2 DEF HiredOf
<1>4. ASSUME NEW x \in G
  PROVE  LET u == NewOf(B, w, num, x)
         IN  /\ u.id \in Nat /\ \A y \in S \ G : y.id # u.id
             /\ \A m \in Int : Alike(Contract(x, m), Contract(u, m), ContractRows)
             /\ u.born = x.born
  <2>1. Child(x) /\ x.contracts \subseteq ContractRows /\ OneAtATime(x.contracts) BY <1>2
  <2>2. \A i \in DOMAIN B : num[i] \in Nat OBVIOUS
  <2>3. LET u == NewOf(B, w, num, x)
    IN  /\ u.id \in Nat /\ u.contracts \subseteq ContractRows /\ OneAtATime(u.contracts)
        /\ u.contracts = {} <=> x.contracts = {}
        /\ \A m \in Int : Alike(Contract(x, m), Contract(u, m), ContractRows)
        /\ Employee(x) => Employee(u)
        /\ Child(x) => Child(u) /\ u.born = x.born BY <2>1, <2>2, TakenAlike, RowsReidentified
  <2>4. \A y \in S \ G : y.id \in Nat /\ y.id < NewOf(B, w, num, x).id BY <1>1, <1>2
  <2>5. \A y \in S \ G : y.id # NewOf(B, w, num, x).id BY <2>3, <2>4
  <2> QED BY <2>1, <2>3, <2>5
<1>5. \A x \in S : e[x] = IF x \in G THEN NewOf(B, w, num, x) ELSE x OBVIOUS
<1>6. T = {e[x] : x \in S}
  <2>1. \A y : y \in T <=> (y \in S /\ y \notin G) \/ \E x \in G : y = NewOf(B, w, num, x) BY <1>1, <1>3
  <2> HIDE DEF T, e
  <2>2. ASSUME NEW y \in T PROVE \E x \in S : y = e[x] BY <1>2, <1>5, <2>1
  <2>3. ASSUME NEW x \in S PROVE e[x] \in T BY <1>5, <2>1
  <2> QED BY <2>2, <2>3
<1> HIDE DEF T, e
<1>7. \A x, y \in S : e[x].id = e[y].id => x = y
  <2> SUFFICES ASSUME NEW x \in S, NEW y \in S, e[x].id = e[y].id PROVE x = y OBVIOUS
  <2>1. CASE x \in G /\ y \in G BY <1>1, <1>5, <2>1
  <2>2. CASE x \in G /\ y \notin G BY <1>4, <1>5, <2>2
  <2>3. CASE x \notin G /\ y \in G BY <1>4, <1>5, <2>3
  <2>4. CASE x \notin G /\ y \notin G BY <1>2, <1>5, <2>4
  <2> QED BY <2>1, <2>2, <2>3, <2>4
<1>8. \A x \in S : e[x].born = x.born BY <1>4, <1>5
<1>9. Image(e, S, T) BY <1>6 DEF Image
<1>10. IsFiniteSet(T) BY <1>2, <1>9, FiniteImage
<1>11. ASSUME NEW x \in S, NEW m \in Int PROVE Alike(Contract(x, m), Contract(e[x], m), ContractRows)
  <2>1. CASE x \in G BY <1>4, <1>5, <2>1
  <2>2. CASE x \notin G
   <3>1. Alike(Contract(x, m), Contract(x, m), ContractRows) BY <1>2, StaysAlike, RowsReidentified
   <3> QED BY <1>5, <2>2, <3>1
  <2> QED BY <2>1, <2>2
<1>12. Renewed(S, T, e, ContractRows) BY <1>2, <1>3, <1>7, <1>9, <1>11 DEF Renewed
<1>13. \A x, y \in T : x.id = y.id => x = y BY <1>6, <1>7
<1>14. \A x \in T : x.born \in [month : Int, first : BOOLEAN] BY <1>2, <1>6, <1>8
<1> QED BY <1>8, <1>10, <1>12, <1>13, <1>14 DEF T, e

\* What is added does not depend on the order of the bands.
LEMMA GrownReordered ==
  ASSUME NEW d, Whole(d), NEW f, Whole(f), Reordered(d, f), Employed(Extend(d.staff, Added.staff))
  PROVE  LET D == Grown(d)
             F == Grown(f)
         IN  /\ Employed(Extend(f.staff, Added.staff))
             /\ F.children = D.children /\ F.staff = D.staff /\ F.funding = D.funding /\ F.plans = D.plans
             /\ F.items = D.items /\ ToSet(F.bands) = ToSet(D.bands)
<1> DEFINE
  C == Extension(d).addChildContracts
  E == Extension(f).addChildContracts
<1>1. /\ f.children = d.children /\ f.staff = d.staff /\ f.funding = d.funding /\ f.plans = d.plans
      /\ f.items = d.items /\ ToSet(f.bands) = ToSet(d.bands) BY DEF Whole, Staffed, Reordered
<1>2. \A k : Completed(f, k) = Completed(d, k) BY <1>1 DEF Completed
<1>3. \A k : Accepted(f, k) <=> Accepted(d, k) BY <1>1, <1>2 DEF ValidProperties, Accepted
<1>4. C = E
  <2>1. \A a : a \in C <=> /\ a \in Added.children /\ Accepted(d, a.contract)
                           /\ \A child \in d.children : child.id = a.to => \A k \in child.contracts : NeverBoth(k, a.contract)
    BY DEF Extension, NoOverlay
  <2>2. \A a : a \in E <=> /\ a \in Added.children /\ Accepted(f, a.contract)
                           /\ \A child \in f.children : child.id = a.to => \A k \in child.contracts : NeverBoth(k, a.contract)
    BY DEF Extension, NoOverlay
  <2> HIDE DEF C, E
  <2>3. \A a : a \in C <=> a \in E BY <1>1, <1>3, <2>1, <2>2
  <2> QED BY <2>3
<1>5. More(f) = More(d)
  <2>1. More(d) = {[a EXCEPT !.contract = Completed(d, @)] : a \in C} BY DEF More
  <2>2. More(f) = {[a EXCEPT !.contract = Completed(f, @)] : a \in E} BY DEF More
  <2> HIDE DEF C, E
  <2>3. \A a : [a EXCEPT !.contract = Completed(d, @)] = [a EXCEPT !.contract = Completed(f, @)] BY <1>2
  <2>4. \A y : (\E a \in C : y = [a EXCEPT !.contract = Completed(d, @)])
    <=> \E a \in E : y = [a EXCEPT !.contract = Completed(f, @)] BY <1>4, <2>3
  <2>5. \A y : y \in More(d) <=> y \in More(f) BY <2>1, <2>2, <2>4
  <2> QED BY <2>5
<1>6. /\ Grown(d) = [bands |-> d.bands, children |-> Extend(d.children, More(d)), staff |-> Extend(d.staff, Added.staff),
                     funding |-> d.funding, plans |-> d.plans, items |-> d.items]
      /\ Employed(Extend(f.staff, Added.staff)) BY <1>1, GrownWhole
<1>7. Grown(f) = [bands |-> f.bands, children |-> Extend(f.children, More(f)), staff |-> Extend(f.staff, Added.staff),
  funding |-> f.funding, plans |-> f.plans, items |-> f.items] BY <1>6, GrownWhole
<1> QED BY <1>1, <1>5, <1>6, <1>7

\* The forecast with the replacement is the forecast with the contracts added, and its
\* children add up.
LEMMA ReplacementSame ==
  ASSUME NEW d, Whole(d), NEW other, Whole(other), Reordered(d, other), Employed(Extend(d.staff, Added.staff)),
         NEW m \in Int
  PROVE  LET f == ApplyOverlay(other, Replacement(other))
         IN  Enrolled(f) /\ SameForecast(MonthFigures(Grown(d), m).forecast, MonthFigures(f, m).forecast)
<1> DEFINE
  f == ApplyOverlay(other, Replacement(other))
  D == Grown(other)
  F == Grown(d)
  G == Extend(GoingOf(other), More(other))
<1>1. /\ Employed(Extend(other.staff, Added.staff))
      /\ D.children = F.children /\ D.staff = F.staff /\ D.funding = F.funding /\ D.plans = F.plans
      /\ D.items = F.items /\ ToSet(D.bands) = ToSet(F.bands) BY GrownReordered
<1>2. Whole(D) /\ Whole(F) BY <1>1, GrownWhole
<1>3. /\ G \in SUBSET D.children
      /\ \E A, B, v, w, kept, id :
             /\ ReplacementPlan(D, G, A, B, v, w, kept, id)
             /\ f = [kept EXCEPT !.staff = @ \cup PeopleIn(A \o B, id, DOMAIN A),
                                 !.children = @ \cup PeopleIn(A \o B, id, DOMAIN (A \o B) \ DOMAIN A)]
  BY <1>1, ReplacementIs
<1> HIDE DEF f, D, F, G
<1>4. PICK A, B, v, w, kept, id :
  /\ ReplacementPlan(D, G, A, B, v, w, kept, id)
  /\ f = [kept EXCEPT !.staff = @ \cup PeopleIn(A \o B, id, DOMAIN A),
                      !.children = @ \cup PeopleIn(A \o B, id, DOMAIN (A \o B) \ DOMAIN A)] BY <1>3
<1> DEFINE
  forStaff == [i \in DOMAIN A |-> id[i]]
  forChildren == [j \in DOMAIN B |-> id[Len(A) + j]]
  Q == Readmitted(A, forStaff)
  T == (D.children \ G) \cup Readmitted(B, forChildren)
  h == [x \in D.staff |-> NewOf(A, v, forStaff, x)]
  e == [x \in D.children |-> IF x \in G THEN NewOf(B, w, forChildren, x) ELSE x]
<1>5. PlanDone(D, G, A, B, v, w, kept, id, forStaff, forChildren) BY <1>2, <1>3, <1>4, PlanFacts
<1> HIDE DEF forStaff, forChildren
<1>6. /\ Readmission(D.staff, v, A, forStaff) /\ Readmission(G, w, B, forChildren)
      /\ \A i \in DOMAIN A : forStaff[i] \in Nat
      /\ \A j \in DOMAIN B : forChildren[j] \in Nat /\ \A x \in kept.children : x.id < forChildren[j]
      /\ PeopleIn(A \o B, id, DOMAIN A) = Readmitted(A, forStaff)
      /\ PeopleIn(A \o B, id, DOMAIN (A \o B) \ DOMAIN A) = Readmitted(B, forChildren) BY <1>5 DEF PlanDone
<1>7. kept = [bands |-> D.bands, children |-> D.children \ G, staff |-> {}, funding |-> D.funding,
  plans |-> D.plans, items |-> D.items] BY <1>4 DEF ReplacementPlan
<1>8. f = [bands |-> D.bands, children |-> T, staff |-> Q, funding |-> D.funding, plans |-> D.plans, items |-> D.items]
  BY <1>4, <1>6, <1>7
<1>9. /\ f.bands = D.bands /\ f.children = T /\ f.staff = Q /\ f.funding = D.funding /\ f.plans = D.plans
      /\ f.items = D.items BY <1>8
<1>10. kept.children = D.children \ G BY <1>7
<1>11. Renewed(D.staff, Q, h, StaffContracts) /\ Employed(Q) BY <1>2, <1>6, StaffReplaced
<1>12. /\ Renewed(D.children, T, e, ContractRows) /\ \A x \in D.children : e[x].born = x.born
       /\ IsFiniteSet(T) /\ \A x, y \in T : x.id = y.id => x = y
       /\ \A x \in T : x.born \in [month : Int, first : BOOLEAN]
  <2>1. \A j \in DOMAIN B : forChildren[j] \in Nat /\ \A x \in D.children \ G : x.id < forChildren[j] BY <1>6, <1>10
  <2> QED BY <1>2, <1>3, <1>6, <2>1, ChildrenReplaced
<1> HIDE DEF Q, T, h, e
<1>13. Fundings(D.funding) /\ Banded(D) /\ Enrolled(F) /\ PayPlans(F.plans) /\ Employed(F.staff)
  BY <1>2 DEF Whole, Enrolled, Staffed
<1>14. Enrolled(f) BY <1>9, <1>12, <1>13 DEF Enrolled, Banded
<1>15. ChildrenExchanged(F, f, e, m)
  <2>1. Exchange(Present(D.children, m), Present(T, m), e, m, ContractRows) BY <1>12, PeopleExchanged
  <2>2. \A x \in Present(D.children, m) : e[x].born = x.born BY <1>12 DEF Present
  <2>3. f.children = T /\ f.funding = F.funding /\ ToSet(f.bands) = ToSet(F.bands) /\ F.children = D.children BY <1>1, <1>9 DEF D, F
  <2> QED BY <1>13, <1>14, <2>1, <2>2, <2>3 DEF ChildrenExchanged
<1>16. StaffExchanged(F, f, h, m) BY <1>11, PeopleExchanged, <1>1, <1>9, <1>13 DEF D, F, StaffExchanged
<1>17. Employed(f.staff) /\ f.items = F.items BY <1>1, <1>9, <1>11 DEF D, F
<1>18. SameForecast(MonthFigures(F, m).forecast, MonthFigures(f, m).forecast)
  BY <1>13, <1>15, <1>16, <1>17, ForecastExchanged
<1> QED BY <1>14, <1>18 DEF f, F

\* What is the same is so both ways.
LEMMA SameBothWays ==
  ASSUME NEW one, NEW other PROVE SameForecast(one, one) /\ (SameForecast(one, other) => SameForecast(other, one))
<1> DEFINE level(cell, x) == SumFunctionOnSet(cell, {y \in DOMAIN cell : y[1][1] = x[1][1] /\ y[2] = x[2]})
<1>1. \A a, b : SameOccupancy(a, b) <=> /\ b.total = a.total /\ b.unmatched = a.unmatched
                                       /\ DOMAIN b.cell = DOMAIN a.cell
                                       /\ \A x \in DOMAIN a.cell : level(b.cell, x) = level(a.cell, x)
  BY DEF SameOccupancy
<1> HIDE DEF level
<1>2. \A a, b : SameOccupancy(a, a) /\ (SameOccupancy(a, b) => SameOccupancy(b, a)) BY <1>1
<1> QED BY <1>2 DEF SameForecast

\* Both forecasts, of all months.
LEMMA ForecastsAgree ==
  ASSUME NEW d, Whole(d), NEW other, Whole(other), Reordered(d, other), Employed(Extend(d.staff, Added.staff)),
         NEW forecasts, forecasts = BothForecasts(d, other)
  PROVE  \A x, y \in forecasts : \A m \in Months :
             ChildrenAddUp(x[m]) /\ SameForecast(x[m].forecast, y[m].forecast)
<1> DEFINE
  D == Grown(d)
  f == ApplyOverlay(other, Replacement(other))
  a == EveryMonth(D)
  b == EveryMonth(f)
<1>1. ApplyOverlay(d, Extension(d)) = D BY ExtensionIs
<1>2. forecasts = {a, b} BY <1>1 DEF BothForecasts
<1>3. Enrolled(D) BY GrownWhole DEF Whole
<1>4. ASSUME NEW m \in Months
  PROVE  /\ ChildrenAddUp(a[m]) /\ ChildrenAddUp(b[m])
         /\ SameForecast(a[m].forecast, b[m].forecast)
  <2>1. m \in Int BY RatesAssumption DEF Months
  <2>2. Enrolled(f) /\ SameForecast(MonthFigures(D, m).forecast, MonthFigures(f, m).forecast) BY <2>1, ReplacementSame
  <2> HIDE DEF D, f
  <2>3. a[m] = MonthFigures(D, m) /\ b[m] = MonthFigures(f, m) BY DEF EveryMonth
  <2>4. ChildrenAddUp(MonthFigures(D, m)) /\ ChildrenAddUp(MonthFigures(f, m)) BY <1>3, <2>1, <2>2, MonthAddsUp
  <2> QED BY <2>2, <2>3, <2>4
<1> HIDE DEF a, b
<1>5. \A m \in Months : SameForecast(a[m].forecast, a[m].forecast) /\ SameForecast(b[m].forecast, b[m].forecast)
                        /\ SameForecast(b[m].forecast, a[m].forecast) BY <1>4, SameBothWays
<1> QED BY <1>2, <1>4, <1>5

\* The figures computed from the tables of one moment.
LEMMA FiguresOfMoment ==
  ASSUME NEW t, Tabled(t), Linked(t), NEW V, \A m \in BilledMonths(t) : FullShot(V[m], t, m),
         NEW d, DataOf(d, t), Whole(d), Registered(d),
         NEW one, Whole(one), Employed(Extend(one.staff, Added.staff)),
         NEW other, Whole(other), Reordered(one, other),
         NEW l, l.comparisons = {ComparePeriod(V[m]) : m \in BilledMonths(t)}, l.figures = EveryMonth(d),
         l.forecasts = BothForecasts(one, other) PROVE Figured(l)
<1> DEFINE figures == l.figures
<1>1. \A x, y \in l.forecasts : \A m \in Months :
  ChildrenAddUp(x[m]) /\ SameForecast(x[m].forecast, y[m].forecast) BY ForecastsAgree
<1>2. ASSUME NEW m \in Months
  PROVE  figures[m] = MonthFigures(d, m) /\ ChildrenAddUp(figures[m]) /\ AgesFollowBirthdays(figures[m], m)
  <2>1. m \in Int BY RatesAssumption DEF Months
  <2>2. figures[m] = MonthFigures(d, m) BY DEF EveryMonth
  <2> HIDE DEF figures
  <2> QED BY <2>1, <2>2, MonthAddsUp, BirthdaysFollowed DEF Whole
<1> HIDE DEF figures
<1>3. ASSUME NEW comparison \in l.comparisons
  PROVE  MeasuredAgainstIncome(comparison, figures[comparison.month].forecast.financials)
  <2>1. PICK m \in BilledMonths(t) : comparison = ComparePeriod(V[m]) BY <1>3
  <2>2. m \in Months /\ FullShot(V[m], t, m) /\ V[m].month = m BY DEF BilledMonths, FullShot, Shot
  <2>3. comparison.month = m BY <2>1, <2>2 DEF ComparePeriod
  <2>4. figures[m].forecast.financials = CalculateFinancials(d, m)
   <3>1. MonthFigures(d, m).forecast.financials = CalculateFinancials(d, m) BY DEF MonthFigures
   <3> QED BY <1>2, <2>2, <3>1
  <2>5. MeasuredAgainstIncome(ComparePeriod(V[m]), CalculateFinancials(d, m)) BY <2>2, ComparedWithIncome DEF Whole
  <2> QED BY <2>1, <2>3, <2>4, <2>5
<1>4. \A x \in {figures} \cup l.forecasts : \A m \in Months : ChildrenAddUp(x[m]) BY <1>1, <1>2
<1> QED BY <1>1, <1>2, <1>3, <1>4 DEF Figured, figures
----------------------------------------
(* The invariant. *)

\* The view of a request that has read nothing.
LEMMA NothingViewed == ASSUME NEW m \in Int PROVE Viewed(NothingRead(m)) /\ NothingRead(m).month = m
<1>1. NothingRead(m).rows = <<>> /\ NothingRead(m).funding = <<>> /\ NothingRead(m).active = {}
      /\ NothingRead(m).month = m BY DEF NothingRead
<1>2. BillsRows(<<>>) /\ Fundings(<<>>) BY FS_EmptySet DEF BillsRows, Fundings
<1>3. Viewed(NothingRead(m)) <=> Readable(NothingRead(m)) BY DEF Viewed, NothingRead
<1> QED BY <1>1, <1>2, <1>3 DEF Readable

\* The report of a request that has made none.
LEMMA NothingReported == ASSUME NEW m \in Int PROVE Reported(NoReport, m)
<1>1. NoReport.comparisons = <<>> /\ NoReport.loaded = NoRow BY DEF NoReport
<1>2. <<>> \in Seq({}) /\ ToSet(<<>>) = {} BY DEF ToSet
<1>3. Separate({}) BY FS_EmptySet DEF Separate
<1>4. Compared(<<>>, m) BY <1>2, <1>3 DEF Compared
<1> QED BY <1>1, <1>4 DEF Reported, NoReport

\* The rows of a bill there is at first.
LEMMA RowsOfSeq ==
  ASSUME NEW rows \in Seq(BillRows), RowsApart(rows)
  PROVE  Apart(rows) /\ \A i \in DOMAIN rows : rows[i].number \in Numbers
<1>1. DOMAIN rows = 1..Len(rows) /\ Len(rows) \in Nat /\ \A i \in DOMAIN rows : rows[i] \in BillRows
  BY LenProperties, ElementOfSeq
<1>2. IsFiniteSet(DOMAIN rows) /\ DOMAIN rows \subseteq Nat BY <1>1, FS_Interval
<1>3. \A i \in DOMAIN rows : \A p \in rows[i].payments : p.amount \in Int /\ p.month \in Months \cup {NoRow}
  BY <1>1 DEF BillRows, PaymentRows
<1>4. BillsRows(rows) BY <1>2, <1>3 DEF BillsRows, Payments, RowsApart
<1>5. \A i \in DOMAIN rows : rows[i].number \in Numbers BY <1>1 DEF BillRows
<1> QED BY <1>3, <1>4, <1>5 DEF Apart, RowsApart

\* The initial states.
LEMMA InitInv == Init => ReportsInv
<1> SUFFICES ASSUME Init PROVE ReportsInv OBVIOUS
<1>1. PICK c \in Scenarios :
  /\ Idle(c.menu)
  /\ contracts = c.contracts /\ linked = c.linked /\ funding = c.funding /\ bills = c.bills
  /\ view = [r \in Reqs |-> NothingRead(0)] /\ report = [r \in Reqs |-> NoReport] BY DEF Init
<1>2. /\ c.menu \in [Reqs -> SUBSET Request] /\ c.funding \in Seq(PeriodRows)
      /\ c.bills \in [Months -> Bills \cup {NoRow}]
      /\ \A m \in Months : c.bills[m] # NoRow => RowsApart(c.bills[m].rows)
      /\ Contracted(c.contracts) /\ c.linked \in [Numbers -> Children \cup {NoRow}] BY ReportAssumption DEF Contracted
<1>3. Stored
  <2>1. Configuration(funding) /\ Fundings(funding) BY <1>1, <1>2, PeriodsOfFile, ConfigurationFundings
  <2>2. ASSUME NEW m \in Months PROVE Kept(bills[m])
   <3>1. CASE bills[m] = NoRow BY <3>1 DEF Kept
   <3>2. CASE bills[m] # NoRow
    <4>1. bills[m] \in Bills /\ RowsApart(bills[m].rows) BY <1>1, <1>2, <3>2
    <4>2. bills[m].rows \in Seq(BillRows) /\ bills[m].file = NoRow /\ bills[m].booked = NoRow BY <4>1 DEF Bills
    <4>3. Apart(bills[m].rows) /\ \A i \in DOMAIN bills[m].rows : bills[m].rows[i].number \in Numbers
      BY <4>1, <4>2, RowsOfSeq
    <4> QED BY <4>2, <4>3 DEF Kept
   <3> QED BY <3>1, <3>2
  <2> QED BY <1>1, <1>2, <2>1, <2>2 DEF Stored
<1>4. ASSUME NEW r \in Reqs PROVE Reader(r)
  BY <1>1, <1>2, NothingViewed, NothingReported DEF Idle, Reader, Comparing, Writing
<1> QED BY <1>1, <1>3, <1>4 DEF ReportsInv, Functions4, Idle

\* A step of one request leaves the invariant, if what it leaves itself is as it should be.
LEMMA ReaderMoves ==
  ASSUME ReportsInv, Stored', NEW r \in Reqs, NEW stage, NEW k \in Request, NEW v, NEW p, menu' = menu,
         Changed(pc, pc', r, stage), Changed(q, q', r, k), Changed(view, view', r, v),
         Changed(report, report', r, p),
         stage # "idle", stage \in Writing => k.kind = stage,
         stage \in Comparing => k.kind = "compare" /\ v.month >= 1,
         Viewed(v), Reported(p, v.month) PROVE ReportsInv'
<1>1. Functions4' BY DEF ReportsInv, Functions4, Changed
<1>2. ASSUME NEW s \in Reqs PROVE Reader(s)'
  <2>1. /\ pc'[s] = IF s = r THEN stage ELSE pc[s]
        /\ q'[s] = IF s = r THEN k ELSE q[s]
        /\ view'[s] = IF s = r THEN v ELSE view[s]
        /\ report'[s] = IF s = r THEN p ELSE report[s] BY DEF ReportsInv, Functions4, Changed
  <2>2. Reader(s) BY DEF ReportsInv
  <2>3. CASE s = r BY <2>1, <2>2, <2>3 DEF Reader
  <2>4. CASE s # r BY <2>1, <2>2, <2>4 DEF Reader
  <2> QED BY <2>3, <2>4
<1> QED BY <1>1, <1>2 DEF ReportsInv

\* A later month has the earlier ones behind it.
LEMMA ReportedLater ==
  ASSUME NEW p, NEW m \in Int, NEW n \in Int, m <= n, Reported(p, m) PROVE Reported(p, n)
<1>1. \A i \in Int : i < m => i < n OBVIOUS
<1> QED BY <1>1 DEF Reported, Compared

\* The comparison of a month joins those of the earlier ones.
LEMMA ComparisonJoins ==
  ASSUME NEW comparisons, NEW v, Compared(comparisons, v.month), Viewed(v)
  PROVE  Compared(Append(comparisons, ComparePeriod(v)), v.month + 1)
<1> DEFINE
  c == ComparePeriod(v)
  all == Append(comparisons, c)
<1>1. PICK S : comparisons \in Seq(S) BY DEF Compared
<1>2. all \in Seq(S \cup {c}) /\ ToSet(all) = ToSet(comparisons) \cup {c}
  <2> DEFINE n == Len(comparisons)
  <2> HIDE DEF c
  <2>1. comparisons \in Seq(S \cup {c}) /\ n \in Nat /\ DOMAIN comparisons = 1..n BY <1>1, LenProperties, SeqDef
  <2>2. all \in Seq(S \cup {c}) /\ Len(all) = n + 1 /\ (\A i \in 1..n : all[i] = comparisons[i]) /\ all[n + 1] = c
    BY <2>1, AppendProperties
  <2>3. DOMAIN all = 1..(n + 1) BY <2>2, LenProperties
  <2>4. 1..(n + 1) = 1..n \cup {n + 1} BY <2>1
  <2> HIDE DEF n, all
  <2>5. ToSet(all) = {all[i] : i \in 1..n \cup {n + 1}} /\ ToSet(comparisons) = {comparisons[i] : i \in 1..n}
    BY <2>1, <2>3, <2>4 DEF ToSet
  <2>6. n + 1 \notin 1..n BY <2>1
  <2> QED BY <2>2, <2>5, <2>6
<1>3. Balanced(c) /\ Once(c) /\ c.month = v.month
  BY ComparesOnce, ComparisonBalanced DEF Viewed, Readable, BillsRows, ComparePeriod
<1> HIDE DEF c, all
<1>4. Separate(ToSet(all))
  <2>1. IsFiniteSet(ToSet(all))
   <3>1. IsFiniteSet(ToSet(comparisons)) BY DEF Compared, Separate
   <3> QED BY <1>2, <3>1, FS_AddElement
  <2>2. \A d \in ToSet(comparisons) : d.month # c.month BY <1>3 DEF Compared, Viewed
  <2> QED BY <1>2, <1>3, <2>1, <2>2 DEF Compared, Separate
<1>5. \A d \in ToSet(all) : Once(d) /\ d.month \in Int /\ d.month < v.month + 1
  <2>1. v.month \in Int BY DEF Viewed
  <2>2. \A d \in ToSet(comparisons) : Once(d) /\ d.month \in Int /\ d.month < v.month BY DEF Compared
  <2>3. \A i \in Int : i < v.month => i < v.month + 1 BY <2>1
  <2> QED BY <1>2, <1>3, <2>1, <2>2, <2>3
<1> QED BY <1>2, <1>4, <1>5 DEF Compared, all, c

\* What a step that writes no table leaves of them.
LEMMA StoredStays == ASSUME Stored, UNCHANGED tables PROVE Stored' BY DEF Stored, tables

\* A value replaced, and a function as it was.
LEMMA Replaced ==
  ASSUME NEW f, NEW g, NEW S, DOMAIN f = S, NEW a \in S
  PROVE  /\ \A b : g = [f EXCEPT ![a] = b] => Changed(f, g, a, b)
         /\ g = f => Changed(f, g, a, f[a]) BY DEF Changed

\* A comparison stays in its months.
LEMMA GoingStays ==
  ASSUME ReportsInv, NEW r, NEW stage, NEW v, Going(r, stage, v)
  PROVE  /\ r \in Reqs /\ q[r] \in Request /\ menu' = menu
         /\ stage \in Comparing => q[r].kind = "compare" /\ v.month >= 1
<1>1. Reader(r) /\ view[r].month \in Int /\ v.month \in Int /\ view[r].month <= v.month
  BY DEF Going, ReportsInv, Reader, Viewed
<1>2. view[r].month >= 1 => v.month >= 1 BY <1>1
<1> QED BY <1>1, <1>2 DEF Going, Reader, clientVars

\* The next view of a comparison.
LEMMA ReadKeeps ==
  ASSUME ReportsInv, NEW r, NEW stage, NEW v, Going(r, stage, v), Read(r, stage, v) PROVE ReportsInv'
<1>1. Stored' BY StoredStays DEF ReportsInv, Read
<1>2. /\ r \in Reqs /\ q[r] \in Request /\ menu' = menu /\ Reader(r)
      /\ stage \in Comparing => q[r].kind = "compare" /\ v.month >= 1 BY GoingStays DEF ReportsInv
<1>3. Changed(pc, pc', r, stage) /\ Changed(q, q', r, q[r]) /\ Changed(view, view', r, v)
      /\ Changed(report, report', r, report[r]) BY <1>2, Replaced DEF ReportsInv, Functions4, Read, Goto, Going
<1>4. Reported(report[r], v.month) BY <1>2, ReportedLater DEF Reader, Viewed, Going
<1> QED BY <1>1, <1>2, <1>3, <1>4, ReaderMoves DEF Going

\* The next state of a report.
LEMMA ReportKeeps ==
  ASSUME ReportsInv, NEW r, NEW stage, NEW v, NEW p, Going(r, stage, v), UNCHANGED tables,
         pc' = [pc EXCEPT ![r] = stage],
         Changed(view, view', r, v), Changed(report, report', r, p), Reported(p, v.month) PROVE ReportsInv'
<1>1. Stored' BY StoredStays DEF ReportsInv
<1>2. /\ r \in Reqs /\ q[r] \in Request /\ menu' = menu
      /\ stage \in Comparing => q[r].kind = "compare" /\ v.month >= 1 BY GoingStays
<1>3. Changed(pc, pc', r, stage) /\ Changed(q, q', r, q[r]) BY <1>2, Replaced DEF ReportsInv, Functions4, Going
<1> QED BY <1>1, <1>2, <1>3, ReaderMoves DEF Going

\* A view is filled one part after the other, each part as it may be.
LEMMA ViewFilled ==
  ASSUME NEW v, Viewed(v)
  PROVE  /\ \A x : BillsRows(x) => Viewed([v EXCEPT !.rows = x])
         /\ \A x : Fundings(x) => Viewed([v EXCEPT !.funding = x])
         /\ \A x : x \subseteq Children => Viewed([v EXCEPT !.active = x])
         /\ \A x : Viewed([v EXCEPT !.childOf = x]) /\ Viewed([v EXCEPT !.contractOf = x])
                   /\ Viewed([v EXCEPT !.preloaded = x]) /\ Viewed([v EXCEPT !.settled = x])
                   /\ Viewed([v EXCEPT !.vouchersOf = x])
         /\ \A x : /\ [v EXCEPT !.rows = x].month = v.month /\ [v EXCEPT !.funding = x].month = v.month
                   /\ [v EXCEPT !.active = x].month = v.month /\ [v EXCEPT !.childOf = x].month = v.month
                   /\ [v EXCEPT !.contractOf = x].month = v.month /\ [v EXCEPT !.preloaded = x].month = v.month
                   /\ [v EXCEPT !.settled = x].month = v.month /\ [v EXCEPT !.vouchersOf = x].month = v.month
<1>1. PICK m, rows, periods, childOf, contractOf, active, preloaded, settled, vouchersOf :
  /\ v = [month |-> m, rows |-> rows, funding |-> periods, childOf |-> childOf, contractOf |-> contractOf,
          active |-> active, preloaded |-> preloaded, settled |-> settled, vouchersOf |-> vouchersOf]
  /\ m \in Int /\ BillsRows(rows) /\ Fundings(periods) /\ active \subseteq Children BY DEF Viewed, Readable
<1>2. \A x : BillsRows(x) => Viewed([v EXCEPT !.rows = x]) BY <1>1 DEF Viewed, Readable
<1>3. \A x : Fundings(x) => Viewed([v EXCEPT !.funding = x]) BY <1>1 DEF Viewed, Readable
<1>4. \A x : x \subseteq Children => Viewed([v EXCEPT !.active = x]) BY <1>1 DEF Viewed, Readable
<1>5. \A x : Viewed([v EXCEPT !.childOf = x]) /\ Viewed([v EXCEPT !.contractOf = x])
             /\ Viewed([v EXCEPT !.preloaded = x]) /\ Viewed([v EXCEPT !.settled = x])
             /\ Viewed([v EXCEPT !.vouchersOf = x]) BY <1>1 DEF Viewed, Readable
<1> QED BY <1>1, <1>2, <1>3, <1>4, <1>5

\* Each statement of a comparison.
LEMMA CompareKeeps ==
  ASSUME ReportsInv, NEW r \in Reqs, UNCHANGED <<q, clientVars>>, CompareRange(r) PROVE ReportsInv'
<1> DEFINE
  v == view[r]
  month == v.month
<1>1. Viewed(v) /\ month \in Int /\ month <= month /\ Reported(report[r], month) /\ Stored
  BY DEF ReportsInv, Reader, Viewed
<1>2. ASSUME NEW stage \in Comparing \cup {"attributed"}, NEW w, Read(r, stage, w), pc[r] \in Comparing,
  Viewed(w), month <= w.month PROVE ReportsInv'
  <2>1. Going(r, stage, w) BY <1>2 DEF Going, Comparing, Writing
  <2> QED BY <1>2, <2>1, ReadKeeps
<1>3. ASSUME FindBill(r) PROVE ReportsInv'
  <2>1. pc[r] = "compare" /\ pc[r] \in Comparing BY <1>3 DEF FindBill, Comparing
  <2>2. CASE month > q[r].to
   <3>1. Read(r, "attributed", v) BY <1>3, <2>2 DEF FindBill
   <3> QED BY <1>1, <1>2, <2>1, <3>1
  <2>3. CASE ~(month > q[r].to) /\ ~HasBill(Tables, month)
   <3>1. Read(r, "compare", NothingRead(month + 1)) BY <1>3, <2>3 DEF FindBill
   <3>2. month + 1 \in Int /\ month <= month + 1 BY <1>1
   <3>3. Viewed(NothingRead(month + 1)) /\ NothingRead(month + 1).month = month + 1 BY <3>2, NothingViewed
   <3> QED BY <1>2, <2>1, <3>1, <3>2, <3>3 DEF Comparing
  <2>4. CASE ~(month > q[r].to) /\ HasBill(Tables, month)
   <3>1. Read(r, "findFunding", [v EXCEPT !.rows = bills[month].rows]) BY <1>3, <2>4 DEF FindBill
   <3>2. month \in Months /\ bills[month] # NoRow
    <4>1. bills[month] # NoRow BY <2>4 DEF HasBill, Tables
    <4>2. month \in Months BY <2>1, <1>1, <2>4, RatesAssumption DEF ReportsInv, Reader, Request, Months
    <4> QED BY <4>1, <4>2
   <3>3. BillsRows(bills[month].rows) BY <1>1, <3>2 DEF Stored, Kept, Apart
   <3> DEFINE w == [v EXCEPT !.rows = bills[month].rows]
   <3>4. Viewed(w) /\ w.month = month BY <1>1, <3>3, ViewFilled
   <3> HIDE DEF w
   <3> QED BY <1>1, <1>2, <2>1, <3>1, <3>4 DEF Comparing, w
  <2> QED BY <2>2, <2>3, <2>4
<1>4. ASSUME FindFunding(r) PROVE ReportsInv'
  <2>1. PICK found \in {funding, <<>>} : Read(r, "resolveVouchers", [v EXCEPT !.funding = found])
    BY <1>4 DEF FindFunding
  <2>2. Fundings(<<>>) BY FS_EmptySet DEF Fundings
  <2>3. Fundings(found) BY <1>1, <2>1, <2>2 DEF Stored
  <2>4. pc[r] \in Comparing /\ "resolveVouchers" \in Comparing BY <1>4 DEF FindFunding, Comparing
  <2> DEFINE w == [v EXCEPT !.funding = found]
  <2>5. Viewed(w) /\ w.month = month BY <1>1, <2>3, ViewFilled
  <2> HIDE DEF w
  <2> QED BY <1>1, <1>2, <2>1, <2>4, <2>5 DEF w
<1>5. ASSUME ResolveVouchers(r) PROVE ReportsInv'
  <2> DEFINE w == [v EXCEPT !.childOf = linked]
  <2>1. Read(r, "resolveContracts", w) /\ pc[r] \in Comparing /\ "resolveContracts" \in Comparing
    BY <1>5 DEF ResolveVouchers, Comparing
  <2>3. Viewed(w) /\ w.month = month BY <1>1, ViewFilled
  <2> HIDE DEF w
  <2> QED BY <1>1, <1>2, <2>1, <2>3
<1>6. ASSUME ResolveContracts(r) PROVE ReportsInv'
  <2> DEFINE w == [v EXCEPT !.contractOf = [c \in Children |-> ActiveContract(Tables, c, month)]]
  <2>1. Read(r, "findActive", w) /\ pc[r] \in Comparing /\ "findActive" \in Comparing
    BY <1>6 DEF ResolveContracts, Comparing
  <2>3. Viewed(w) /\ w.month = month BY <1>1, ViewFilled
  <2> HIDE DEF w
  <2> QED BY <1>1, <1>2, <2>1, <2>3
<1>7. ASSUME FindActive(r) PROVE ReportsInv'
  <2> DEFINE w == [v EXCEPT !.active = ActiveChildren(Tables, month)]
  <2>1. Read(r, "preload", w) /\ pc[r] \in Comparing /\ "preload" \in Comparing BY <1>7 DEF FindActive, Comparing
  <2>2. ActiveChildren(Tables, month) \subseteq Children BY DEF ActiveChildren
  <2>3. Viewed(w) /\ w.month = month BY <1>1, <2>2, ViewFilled
  <2> HIDE DEF w
  <2> QED BY <1>1, <1>2, <2>1, <2>3
<1>8. ASSUME Preload(r) PROVE ReportsInv'
  <2> DEFINE w == [v EXCEPT !.preloaded = ActiveContracts(Tables, month)]
  <2>1. Read(r, "findSettled", w) /\ pc[r] \in Comparing /\ "findSettled" \in Comparing BY <1>8 DEF Preload, Comparing
  <2>3. Viewed(w) /\ w.month = month BY <1>1, ViewFilled
  <2> HIDE DEF w
  <2> QED BY <1>1, <1>2, <2>1, <2>3
<1>9. ASSUME FindSettled(r) PROVE ReportsInv'
  <2>1. PICK found : Read(r, "findVouchers", [v EXCEPT !.settled = found]) BY <1>9 DEF FindSettled
  <2>2. pc[r] \in Comparing /\ "findVouchers" \in Comparing BY <1>9 DEF FindSettled, Comparing
  <2> DEFINE w == [v EXCEPT !.settled = found]
  <2>3. Viewed(w) /\ w.month = month BY <1>1, ViewFilled
  <2> HIDE DEF w
  <2> QED BY <1>1, <1>2, <2>1, <2>2, <2>3 DEF w
<1>10. ASSUME FindVouchers(r) PROVE ReportsInv'
  <2> DEFINE
    w == [v EXCEPT !.vouchersOf = VouchersOf(Tables)]
    p == [report[r] EXCEPT !.comparisons = Append(@, ComparePeriod(w))]
    next == NothingRead(month + 1)
  <2>1. Viewed(w) /\ w.month = month BY <1>1, ViewFilled
  <2>2. Compared(Append(report[r].comparisons, ComparePeriod(w)), month + 1)
   <3>1. Compared(report[r].comparisons, w.month) BY <1>1, <2>1 DEF Reported
   <3> HIDE DEF w
   <3> QED BY <2>1, <3>1, ComparisonJoins
  <2>3. Reported(p, month + 1)
   <3> DEFINE all == Append(report[r].comparisons, ComparePeriod(w))
   <3>0. p = [report[r] EXCEPT !.comparisons = all] OBVIOUS
   <3> HIDE DEF p, all
   <3>1. p.comparisons = all /\ p.loaded = report[r].loaded
         /\ p = [comparisons |-> all, attributed |-> report[r].attributed,
                 corrections |-> report[r].corrections, loaded |-> report[r].loaded] BY <1>1, <3>0 DEF Reported
   <3>2. Compared(all, month + 1) BY <2>2 DEF all
   <3>3. report[r].loaded # NoRow => BookedIsCompared(report[r].loaded) /\ Agreed(report[r].loaded)
                                      /\ Priced(report[r].loaded) /\ Figured(report[r].loaded) BY <1>1 DEF Reported
   <3> QED BY <3>1, <3>2, <3>3 DEF Reported
  <2>4. Viewed(next) /\ next.month = month + 1 /\ month <= month + 1 BY <1>1, NothingViewed
  <2> HIDE DEF w, p, next
  <2>5. /\ Going(r, "compare", next) /\ UNCHANGED tables /\ pc' = [pc EXCEPT ![r] = "compare"]
        /\ report' = [report EXCEPT ![r] = p] /\ view' = [view EXCEPT ![r] = next]
    BY <1>10, <2>4 DEF FindVouchers, Going, Goto, Comparing, Writing, w, p, next
  <2>6. Changed(view, view', r, next) /\ Changed(report, report', r, p) BY <2>5, Replaced DEF ReportsInv, Functions4
  <2>7. Reported(p, next.month) BY <2>3, <2>4
  <2> QED BY <2>4, <2>5, <2>6, <2>7, ReportKeeps
<1>11. ASSUME FindAttributed(r) PROVE ReportsInv'
  <2> DEFINE
    x == AttributedTotals(Tables, q[r].from, q[r].to)
    p == [report[r] EXCEPT !.attributed = x]
  <2> HIDE DEF x
  <2>1. Reported(p, month)
   <3> DEFINE o == report[r]
   <3>1. p = [comparisons |-> o.comparisons, attributed |-> x, corrections |-> o.corrections, loaded |-> o.loaded]
     BY <1>1 DEF Reported
   <3> HIDE DEF p
   <3> QED BY <1>1, <3>1 DEF Reported
  <2>2. /\ Going(r, "billedMonths", v) /\ UNCHANGED tables /\ pc' = [pc EXCEPT ![r] = "billedMonths"]
        /\ report' = [report EXCEPT ![r] = p] /\ view' = view
    BY <1>1, <1>11 DEF FindAttributed, Going, Goto, Comparing, Writing, x
  <2> HIDE DEF p
  <2>3. Changed(view, view', r, v) /\ Changed(report, report', r, p) BY <2>2, Replaced DEF ReportsInv, Functions4
  <2> QED BY <1>1, <2>1, <2>2, <2>3, ReportKeeps
<1>12. ASSUME FindBilledMonths(r) PROVE ReportsInv'
  <2>1. PICK x : report' = [report EXCEPT ![r].corrections = x] BY <1>12 DEF FindBilledMonths
  <2> DEFINE p == [report[r] EXCEPT !.corrections = x]
  <2>2. Reported(p, month) BY <1>1 DEF Reported
  <2>3. /\ Going(r, "done", v) /\ UNCHANGED tables /\ pc' = [pc EXCEPT ![r] = "done"]
        /\ report' = [report EXCEPT ![r] = p] /\ view' = view
    BY <1>1, <1>12, <2>1 DEF FindBilledMonths, Going, Answer, Comparing, Writing
  <2> HIDE DEF p
  <2>4. Changed(view, view', r, v) /\ Changed(report, report', r, p) BY <2>3, Replaced DEF ReportsInv, Functions4
  <2> QED BY <1>1, <2>2, <2>3, <2>4, ReportKeeps
<1> QED BY <1>3, <1>4, <1>5, <1>6, <1>7, <1>8, <1>9, <1>10, <1>11, <1>12 DEF CompareRange

\* The comparison of an uploaded bill comes to the booking its file states.
LEMMA SnapshotCompared ==
  ASSUME Stored, NEW m \in Months, bills[m] # NoRow
  PROVE  /\ ComparePeriod(Snapshot(m)).month = m
         /\ \/ bills[m].booked = NoRow
            \/ SumFunction([x \in ComparePeriod(Snapshot(m)).entries |-> x.bill + x.correction]) = bills[m].booked
<1> DEFINE
  v == Snapshot(m)
  bill == bills[m]
  lines == TableLines(bill.file)
<1>1. v.rows = bill.rows /\ v.month = m /\ Readable(v)
  <2>1. v.rows = bill.rows /\ v.month = m /\ v.funding = funding /\ v.active = ActiveChildren(Tables, m)
    BY DEF Snapshot
  <2>2. BillsRows(bill.rows) /\ Fundings(funding) /\ ActiveChildren(Tables, m) \subseteq Children
    BY DEF Stored, Kept, Apart, ActiveChildren
  <2> HIDE DEF v
  <2> QED BY <2>1, <2>2 DEF Readable
<1> HIDE DEF v
<1>2. ComparePeriod(v).month = m BY <1>1 DEF ComparePeriod
<1>3. CASE bill.file \in Books /\ Vouchers(bill.file) # {} /\ ReconcilesWithHeader(bill.file) /\ bill = Convert(bill.file)
  <2>1. Lines(lines) /\ bill.rows = Rows(lines) /\ bill.booked = ReadOrSumColumn(bill.file.booked)
    BY <1>3, TableIsLines DEF Convert
  <2>2. SumFunction([i \in DOMAIN lines |-> lines[i].sum]) = bill.booked BY <1>3, <2>1 DEF ReconcilesWithHeader
  <2> HIDE DEF lines
  <2>3. SumFunction([i \in DOMAIN Rows(lines) |-> Total(Rows(lines)[i].payments)])
    = SumFunction([i \in DOMAIN lines |-> lines[i].sum]) BY <2>1, RowsTotal
  <2>4. v.rows = Rows(lines) BY <1>1, <2>1
  <2>5. SumFunction([x \in ComparePeriod(v).entries |-> x.bill + x.correction])
    = SumFunction([i \in DOMAIN v.rows |-> Total(v.rows[i].payments)]) BY <1>1, <2>1, <2>4, ComparedAsPaid
  <2>6. SumFunction([x \in ComparePeriod(v).entries |-> x.bill + x.correction]) = bill.booked
    BY <2>2, <2>3, <2>4, <2>5
  <2> QED BY <1>2, <2>6 DEF v
<1>4. CASE bill.booked = NoRow BY <1>2, <1>4 DEF v
<1>5. Kept(bill) BY DEF Stored
<1> QED BY <1>3, <1>4, <1>5 DEF Kept

\* The tables, and the views of them at one moment.
LEMMA TablesTabled ==
  ASSUME Stored PROVE Tabled(Tables) /\ Linked(Tables) /\ \A m \in Months : FullShot(Snapshot(m), Tables, m)
<1>1. Tables.funding = funding /\ Tables.bills = bills /\ Tables.linked = linked BY DEF Tables
<1>2. Tabled(Tables) BY <1>1 DEF Stored, Kept, Tabled, HasBill
<1>4. Linked(Tables) BY <1>1 DEF BilledMonths, HasBill, Stored, Kept, Linked
<1>3. ASSUME NEW m \in Months PROVE FullShot(Snapshot(m), Tables, m)
  BY <1>1 DEF Snapshot, Shot, ActiveChildren, ActiveContract, FullShot
<1> QED BY <1>2, <1>3, <1>4

\* The bands of the care rates in any order: each is listed, by its lower bound.
LEMMA BandsListed ==
  ASSUME NEW periods, Fundings(periods), Configuration(periods), NEW bands \in BandOrders(periods)
  PROVE  /\ ToSet(bands) = {<<x.min, x.max>> : x \in StructureRates(periods)}
         /\ DOMAIN bands \subseteq Nat /\ IsFiniteSet(DOMAIN bands)
         /\ \A i \in DOMAIN bands : bands[i][1] \in Int /\ bands[i][2] \in Int
         /\ \A i, j \in DOMAIN bands : i < j => bands[i][1] <= bands[j][1]
<1> DEFINE
  R == StructureRates(periods)
  S == {<<x.min, x.max>> : x \in R}
  n == Cardinality(S)
  e == [x \in R |-> <<x.min, x.max>>]
<1>1. IsFiniteSet(R) /\ R \subseteq RateRows
  <2>1. \A i \in DOMAIN periods : \A rate \in ToSet(periods[i].rates) : rate \in RateRows
    BY DEF Configuration, PeriodTable, RateTable, ToSet
  <2> QED BY <2>1, StructureRatesFinite
<1>2. Image(e, R, S) BY DEF Image
<1>3. bands \in SetToSeqs(S) /\ \A i, j \in DOMAIN bands : i < j => bands[i][1] <= bands[j][1] BY DEF BandOrders
<1>4. \A x \in R : x.min \in Int /\ x.max \in Int BY <1>1 DEF RateRows
<1>5. \A b \in S : b[1] \in Int /\ b[2] \in Int BY <1>4
<1> HIDE DEF R, S, e
<1>6. IsFiniteSet(S) BY <1>1, <1>2, FiniteImage
<1>7. n \in Nat BY <1>6, FS_CardinalityType
<1>8. bands \in [1..n -> S] /\ \A i, j \in 1..n : i # j => bands[i] # bands[j] BY <1>3 DEF SetToSeqs
<1> HIDE DEF n
<1>9. IsFiniteSet(1..n) /\ Cardinality(1..n) = n BY <1>7, FS_Interval
<1>10. bands \in Injection(1..n, S) BY <1>8 DEF Injection, IsInjective
<1>11. bands \in Surjection(1..n, S) BY <1>6, <1>9, <1>10, FS_Injection DEF n
<1>12. ToSet(bands) = S BY <1>8, <1>11 DEF Surjection, ToSet
<1>13. \A i \in DOMAIN bands : bands[i][1] \in Int /\ bands[i][2] \in Int BY <1>5, <1>8
<1>14. DOMAIN bands \subseteq Nat /\ IsFiniteSet(DOMAIN bands) BY <1>7, <1>8, <1>9
<1> QED BY <1>3, <1>12, <1>13, <1>14 DEF S, R

\* The statistics are of the tables, and of finitely many persons told apart by their ids.
LEMMA DataSetWhole ==
  ASSUME Stored, NEW bands \in BandOrders(funding) PROVE Drawn(DataSet(bands))
<1> DEFINE
  d == DataSet(bands)
  have == {c \in Children : ContractsOf(Tables, c) # {}}
<1>1. /\ d = [bands |-> bands, children |-> {ChildOfTables(Tables, c) : c \in have},
              staff |-> Staff, funding |-> funding, plans |-> Plans, items |-> Items]
      /\ d.bands = bands /\ d.children = {ChildOfTables(Tables, c) : c \in have}
      /\ d.staff = Staff /\ d.funding = funding /\ d.plans = Plans /\ d.items = Items BY DEF DataSet, ChildOfTables
<1> HIDE DEF d
<1>2. DataOf(d, Tables) BY <1>1 DEF Tables, DataOf
<1>3. Staffed(d) BY <1>1, StaffAssumption DEF Staffed
<1>4. Banded(d) BY BandsListed, <1>1 DEF Stored, Banded
<1>5. \A c \in Children : c \in Nat /\ Born[c] \in [month : Int, first : BOOLEAN] BY RatesAssumption
<1>6. ASSUME NEW x \in d.children
  PROVE  \E c \in have : x = ChildOfTables(Tables, c) /\ x.id = c /\ x.born = Born[c]
                         /\ x.contracts = ContractsOf(Tables, c)
  <2>1. PICK c \in have : x = ChildOfTables(Tables, c) BY <1>1
  <2> QED BY <2>1 DEF ChildOfTables
<1>7. Enrolled(d)
  <2> DEFINE e == [c \in have |-> ChildOfTables(Tables, c)]
  <2>1. Image(e, have, d.children) BY <1>1 DEF Image
  <2>2. IsFiniteSet(have) BY ReportAssumption, FS_Subset
  <2> HIDE DEF e, have
  <2>3. IsFiniteSet(d.children) BY <2>1, <2>2, FiniteImage
  <2>4. \A x, y \in d.children : x.id = y.id => x = y BY <1>6
  <2>5. \A x \in d.children : x.born \in [month : Int, first : BOOLEAN] BY <1>5, <1>6 DEF have
  <2> QED BY <1>1, <1>4, <2>3, <2>4, <2>5 DEF Enrolled, Stored
<1>8. ASSUME NEW x \in d.children
  PROVE  /\ Child(x) /\ x.id \in Nat /\ x.contracts # {}
         /\ x.contracts \subseteq ContractRows /\ OneAtATime(x.contracts)
  <2>1. PICK c \in have : x = ChildOfTables(Tables, c) /\ x.id = c /\ x.born = Born[c]
                          /\ x.contracts = ContractsOf(Tables, c) BY <1>6
  <2>2. c \in Children /\ ContractsOf(Tables, c) # {} OBVIOUS
  <2>3. Child(x) BY <2>1 DEF Child, ChildOfTables
  <2>4. ContractsOf(Tables, c) = {k \in contracts : k.child = c} BY DEF ContractsOf, Tables
  <2>5. ContractsOf(Tables, c) \subseteq ContractRows /\ OneAtATime(ContractsOf(Tables, c))
    BY <2>2, <2>4 DEF Stored, Contracted
  <2> QED BY <1>5, <2>1, <2>2, <2>3, <2>5
<1>9. \A i \in DOMAIN d.funding : \A j \in DOMAIN d.funding[i].rates : d.funding[i].rates[j].kv \in KVs
  <2>1. \A i \in DOMAIN funding : \A j \in DOMAIN funding[i].rates : funding[i].rates[j] \in RateRows
    BY DEF Stored, Configuration, PeriodTable, RateTable
  <2> QED BY <1>1, <2>1 DEF RateRows
<1>10. Whole(d) BY <1>3, <1>7, <1>8, <1>9 DEF Whole
<1>11. Registered(d) BY <1>6 DEF Registered
<1>12. Employed(Extend(d.staff, Added.staff)) BY <1>1, AddedAssumption
<1> QED BY <1>2, <1>10, <1>11, <1>12 DEF Drawn, d

\* The datasets that two calculations draw differ in the order of the bands only.
LEMMA DataSetReordered ==
  ASSUME Stored, NEW a \in BandOrders(funding), NEW b \in BandOrders(funding) PROVE Reordered(DataSet(a), DataSet(b))
<1>1. ToSet(a) = ToSet(b) BY BandsListed DEF Stored
<1> DEFINE
  C == DataSet(a).children
  Of(bands) == [bands |-> bands, children |-> C, staff |-> Staff, funding |-> funding, plans |-> Plans, items |-> Items]
<1>2. DataSet(a) = Of(a) /\ DataSet(b) = Of(b) BY DEF DataSet
<1> HIDE DEF C
<1>3. Of(b) = [Of(a) EXCEPT !.bands = b] /\ Of(a).bands = a /\ Of(b).bands = b OBVIOUS
<1> HIDE DEF Of
<1> QED BY <1>1, <1>2, <1>3 DEF Reordered

\* The reports of one moment.
LEMMA LoadKeeps ==
  ASSUME ReportsInv, NEW r \in Reqs, UNCHANGED <<q, clientVars>>, LoadDataSet(r) PROVE ReportsInv'
<1> DEFINE
  v == view[r]
  billed == {m \in Months : HasBill(Tables, m)}
  history == [c \in Children |-> ChildBillingHistory(Tables, c)]
  summary == [c \in Children |-> ChildrenBillingSummary(Tables, c)]
  attributed == AttributedTotals(Tables, 1, LastMonth)
<1>1. Viewed(v) /\ v.month <= v.month /\ Reported(report[r], v.month) /\ Stored BY DEF ReportsInv, Reader, Viewed
<1>2. PICK promoted, d, one, other :
  /\ \A m \in Months : PricedMonth(promoted[m])
  /\ Drawn(d) /\ Drawn(one) /\ Drawn(other) /\ Reordered(one, other)
  /\ report' = [report EXCEPT ![r].loaded =
         [booked |-> [m \in Months |-> IF HasBill(Tables, m) THEN Tables.bills[m].booked ELSE NoRow],
          comparisons |-> {ComparePeriod(w) : w \in {Snapshot(m) : m \in billed}},
          history |-> history, summary |-> summary, attributed |-> attributed,
          promoted |-> promoted, figures |-> EveryMonth(d), forecasts |-> BothForecasts(one, other)]]
  <2>1. PICK t \in {Tables}, d, one, other \in {DataSet(bands) : bands \in BandOrders(funding)} :
    report' = [report EXCEPT ![r].loaded =
        [booked |-> [m \in Months |-> IF HasBill(t, m) THEN t.bills[m].booked ELSE NoRow],
         comparisons |-> {ComparePeriod(w) : w \in {Snapshot(m) : m \in {m \in Months : HasBill(t, m)}}},
         history |-> [c \in Children |-> ChildBillingHistory(t, c)],
         summary |-> [c \in Children |-> ChildrenBillingSummary(t, c)],
         attributed |-> AttributedTotals(t, 1, LastMonth),
         promoted |-> [m \in Months |-> Promoted(d, m)],
         figures |-> EveryMonth(d),
         forecasts |-> {EveryMonth(ApplyOverlay(one, Extension(one))),
                        EveryMonth(ApplyOverlay(other, Replacement(other)))}]] BY DEF LoadDataSet
  <2> DEFINE promoted == [m \in Months |-> Promoted(d, m)]
  <2> HIDE DEF promoted
  <2>2. report' = [report EXCEPT ![r].loaded =
    [booked |-> [m \in Months |-> IF HasBill(t, m) THEN t.bills[m].booked ELSE NoRow],
     comparisons |-> {ComparePeriod(w) : w \in {Snapshot(m) : m \in {m \in Months : HasBill(t, m)}}},
     history |-> [c \in Children |-> ChildBillingHistory(t, c)],
     summary |-> [c \in Children |-> ChildrenBillingSummary(t, c)],
     attributed |-> AttributedTotals(t, 1, LastMonth), promoted |-> promoted,
     figures |-> EveryMonth(d), forecasts |-> BothForecasts(one, other)]] BY <2>1 DEF promoted, BothForecasts
  <2>3. t = Tables OBVIOUS
  <2>5. Drawn(d) /\ Drawn(one) /\ Drawn(other) /\ Reordered(one, other) BY <1>1, <2>1, DataSetWhole, DataSetReordered
  <2>4. ASSUME NEW m \in Months PROVE PricedMonth(promoted[m])
   <3>2. Staffed(d) BY <2>5 DEF Drawn, Whole
   <3>3. m \in Int /\ promoted[m] = Promoted(d, m) BY RatesAssumption DEF Months, promoted
   <3> HIDE DEF promoted
   <3> QED BY <3>2, <3>3, PromotionsAre DEF PricedMonth
  <2> QED BY <2>2, <2>3, <2>4, <2>5
<1> DEFINE
  loaded ==
   [booked |-> [m \in Months |-> IF HasBill(Tables, m) THEN Tables.bills[m].booked ELSE NoRow],
    comparisons |-> {ComparePeriod(w) : w \in {Snapshot(m) : m \in billed}},
    history |-> history, summary |-> summary, attributed |-> attributed,
    promoted |-> promoted, figures |-> EveryMonth(d), forecasts |-> BothForecasts(one, other)]
  p == [report[r] EXCEPT !.loaded = loaded]
<1>3. BookedIsCompared(loaded)
  <2>1. loaded.comparisons = {ComparePeriod(w) : w \in {Snapshot(m) : m \in billed}}
    /\ loaded.booked = [m \in Months |-> IF HasBill(Tables, m) THEN Tables.bills[m].booked ELSE NoRow] OBVIOUS
  <2>2. \A m \in billed : m \in Months /\ bills[m] # NoRow /\ loaded.booked[m] = bills[m].booked
    BY <2>1 DEF HasBill, Tables
  <2> HIDE DEF loaded
  <2>3. ASSUME NEW c \in loaded.comparisons
    PROVE  \/ loaded.booked[c.month] = NoRow
           \/ SumFunction([x \in c.entries |-> x.bill + x.correction]) = loaded.booked[c.month]
   <3>1. PICK m \in billed : c = ComparePeriod(Snapshot(m)) BY <2>1
   <3>2. m \in Months /\ bills[m] # NoRow /\ loaded.booked[m] = bills[m].booked BY <2>2
   <3>3. c.month = m /\ (\/ bills[m].booked = NoRow
                         \/ SumFunction([x \in c.entries |-> x.bill + x.correction]) = bills[m].booked)
     BY <1>1, <3>1, <3>2, SnapshotCompared
   <3> QED BY <3>2, <3>3
  <2> QED BY <2>3 DEF BookedIsCompared
<1>4. Agreed(loaded)
  <2> DEFINE
    V == [m \in billed |-> Snapshot(m)]
    t == Tables
  <2>1. Tabled(t) /\ billed = BilledMonths(t) /\ \A m \in billed : Shot(V[m], t, m)
    BY <1>1, TablesTabled DEF BilledMonths, FullShot
  <2>2. loaded.comparisons = {ComparePeriod(V[m]) : m \in billed} OBVIOUS
  <2>3. \A c \in Children : loaded.history[c] = ChildBillingHistory(t, c) /\ loaded.summary[c] = ChildrenBillingSummary(t, c)
    OBVIOUS
  <2>4. loaded.attributed = AttributedTotals(t, 1, LastMonth) OBVIOUS
  <2> HIDE DEF loaded, V, billed, t
  <2> QED BY <2>1, <2>2, <2>3, <2>4, ReportsOfMoment
<1> HIDE DEF history, summary, attributed
<1>figured. Figured(loaded)
  <2> DEFINE
    V == [m \in billed |-> Snapshot(m)]
    t == Tables
  <2>1. Tabled(t) /\ Linked(t) /\ billed = BilledMonths(t) /\ \A m \in billed : FullShot(V[m], t, m)
    BY <1>1, TablesTabled DEF BilledMonths
  <2>2. loaded.comparisons = {ComparePeriod(V[m]) : m \in billed} /\ loaded.figures = EveryMonth(d)
        /\ loaded.forecasts = BothForecasts(one, other) OBVIOUS
  <2>3. /\ DataOf(d, t) /\ Whole(d) /\ Registered(d) /\ Reordered(one, other)
        /\ Whole(one) /\ Employed(Extend(one.staff, Added.staff)) /\ Whole(other) BY <1>2 DEF Drawn
  <2> HIDE DEF loaded, V, billed, t
  <2> QED BY <2>1, <2>2, <2>3, FiguresOfMoment
<1>priced. Priced(loaded)
  <2>1. loaded.promoted = promoted OBVIOUS
  <2> HIDE DEF loaded
  <2> QED BY <1>2, <2>1 DEF Priced
<1>5. /\ report' = [report EXCEPT ![r] = p] /\ view' = view /\ UNCHANGED tables
      /\ pc' = [pc EXCEPT ![r] = "done"] /\ Going(r, "done", v)
  BY <1>1, <1>2 DEF LoadDataSet, Going, Answer, Comparing, Writing
<1> HIDE DEF loaded
<1>6. Reported(p, v.month)
  <2> DEFINE o == report[r]
  <2>1. p = [comparisons |-> o.comparisons, attributed |-> o.attributed, corrections |-> o.corrections, loaded |-> loaded]
    BY <1>1 DEF Reported
  <2> HIDE DEF p
  <2> QED BY <1>1, <1>3, <1>4, <1>priced, <1>figured, <2>1 DEF Reported
<1> HIDE DEF p
<1>7. Changed(view, view', r, v) /\ Changed(report, report', r, p) BY <1>5, Replaced DEF ReportsInv, Functions4
<1> QED BY <1>5, <1>6, <1>7, ReportKeeps

\* A request that leaves the tables as they may be, and is answered.
LEMMA AnswerKeeps ==
  ASSUME ReportsInv, Stored', NEW r \in Reqs, UNCHANGED <<q, clientVars, view, report>>, pc[r] # "idle",
         pc' = [pc EXCEPT ![r] = "done"] PROVE ReportsInv'
<1>1. menu' = menu /\ q' = q /\ view' = view /\ report' = report BY DEF clientVars
<1>2. Changed(pc, pc', r, "done") /\ Changed(q, q', r, q[r]) /\ Changed(view, view', r, view[r])
      /\ Changed(report, report', r, report[r]) BY <1>1, Replaced DEF ReportsInv, Functions4
<1>3. q[r] \in Request /\ Viewed(view[r]) /\ Reported(report[r], view[r].month) BY DEF ReportsInv, Reader
<1> QED BY <1>1, <1>2, <1>3, ReaderMoves DEF Comparing, Writing

\* What an upload stores.
LEMMA ConvertKept ==
  ASSUME NEW book \in Books, Vouchers(book) # {}, ReconcilesWithHeader(book) PROVE Kept(Convert(book))
<1>1. Lines(TableLines(book)) BY TableIsLines
<1>2. Apart(Rows(TableLines(book))) BY <1>1, RowsPayments
<1>3. Convert(book).rows = Rows(TableLines(book)) /\ Convert(book).file = book BY DEF Convert
<1>4. \A i \in DOMAIN Rows(TableLines(book)) : Rows(TableLines(book))[i].number \in Numbers
  <2> DEFINE lines == TableLines(book)
  <2> HIDE DEF lines
  <2>1. Lines(lines) BY <1>1 DEF lines
  <2>2. DOMAIN Rows(lines) \subseteq DOMAIN lines /\ \A i \in DOMAIN Rows(lines) : Rows(lines)[i].number = lines[i].voucher
    BY <2>1, RowsAre
  <2> QED BY <2>1, <2>2 DEF Lines, lines
<1> QED BY <1>2, <1>3, <1>4 DEF Kept

\* An upload assigns a number to a child, or to nobody.
LEMMA HolderIsChild ==
  ASSUME NEW book \in Books, Vouchers(book) # {}, NEW n \in {row.number : row \in ToSet(Convert(book).rows)}
  PROVE  Holder(book, n) \in Children \cup {NoRow}
<1> DEFINE lines == TableLines(book)
<1> HIDE DEF lines
<1>1. Lines(lines) BY TableIsLines DEF lines
<1>2. Convert(book).rows = Rows(lines) BY DEF Convert, lines
<1>3. PICK i \in DOMAIN Rows(lines) : n = Rows(lines)[i].number BY <1>2 DEF ToSet
<1>4. i \in DOMAIN lines /\ n = lines[i].voucher BY <1>1, <1>3, RowsAre
<1> DEFINE S == {j \in DOMAIN lines : lines[j].voucher = n}
<1>5. S \subseteq Nat /\ S # {} BY <1>1, <1>4 DEF Lines
<1>6. Holder(book, n) = lines[Min(S)].holder BY DEF Holder, lines
<1> HIDE DEF S
<1>7. Min(S) \in S BY <1>5, MinFact
<1>8. Min(S) \in DOMAIN lines BY <1>7 DEF S
<1>9. lines[Min(S)] \in SheetLines BY <1>1, <1>8 DEF Lines
<1>10. lines[Min(S)].holder \in Children \cup {NoRow} BY <1>9 DEF SheetLines
<1> QED BY <1>6, <1>10

\* Each request that writes.
LEMMA WriteKeeps ==
  ASSUME ReportsInv, NEW r \in Reqs, UNCHANGED <<q, clientVars>>, Write(r) PROVE ReportsInv'
<1>1. Stored /\ Reader(r) /\ DOMAIN bills = Months BY DEF ReportsInv, Stored
<1>2. UNCHANGED <<q, clientVars, view, report>> /\ pc[r] # "idle" /\ pc' = [pc EXCEPT ![r] = "done"]
  BY DEF Write, LinkVoucher, WriteContracts, Configure, ImportFunding, ProcessISBJ, DeleteBill, Written, Answer
<1>3. CASE LinkVoucher(r)
  <2>1. q[r] \in Request /\ q[r].kind = "link" /\ UNCHANGED <<contracts, funding, bills>>
    BY <1>1, <1>3 DEF LinkVoucher, Reader, Writing
  <2>2. q[r].child \in Children \cup {NoRow} /\ linked' = [linked EXCEPT ![q[r].number] = q[r].child]
    BY <1>3, <2>1 DEF LinkVoucher, Request
  <2>3. linked' \in [Numbers -> Children \cup {NoRow}] BY <1>1, <2>2 DEF Stored
  <2>4. Stored' BY <1>1, <2>1, <2>3 DEF Stored
  <2> QED BY <1>2, <2>4, AnswerKeeps
<1>8. CASE WriteContracts(r)
  <2> DEFINE
    new == q[r].contracts
    old == {k \in contracts : k.child = q[r].child}
  <2>1. q[r] \in Request /\ q[r].kind = "write" /\ UNCHANGED <<linked, funding, bills>>
    BY <1>1, <1>8 DEF WriteContracts, Reader, Writing
  <2>2. new \subseteq ContractRows /\ OneAtATime(new) /\ \A k \in new : k.child = q[r].child BY <2>1 DEF Request
  <2>3. contracts' = (contracts \ old) \cup new BY <1>8 DEF WriteContracts, ContractsOf, Tables
  <2>4. ASSUME NEW c \in Children PROVE OneAtATime({k \in contracts' : k.child = c})
   <3>1. CASE c = q[r].child
    <4>1. {k \in contracts' : k.child = c} = new BY <2>2, <2>3, <3>1
    <4> QED BY <2>2, <4>1
   <3>2. CASE c # q[r].child BY <2>2, <2>3, <1>1 DEF Stored, Contracted
   <3> QED BY <3>1, <3>2
  <2>5. Contracted(contracts') BY <1>1, <2>2, <2>3, <2>4 DEF Stored, Contracted
  <2>6. Stored' BY <1>1, <2>1, <2>5 DEF Stored
  <2> QED BY <1>2, <2>6, AnswerKeeps
<1>4. CASE Configure(r)
  <2>1. q[r] \in Request /\ q[r].kind = "configure" /\ funding' = q[r].periods /\ UNCHANGED <<bills, contracts, linked>>
    BY <1>1, <1>4 DEF Configure, Reader, Writing
  <2>2. q[r].periods \in Seq(PeriodRows) BY <2>1 DEF Request
  <2>3. Configuration(funding') /\ Fundings(funding') BY <2>1, <2>2, PeriodsOfFile, ConfigurationFundings
  <2>4. Stored' BY <1>1, <2>1, <2>3 DEF Stored
  <2> QED BY <1>2, <2>4, AnswerKeeps
<1>5. CASE ImportFunding(r)
  <2>1. q[r] \in Request /\ q[r].kind = "import" /\ UNCHANGED <<bills, contracts, linked>>
    BY <1>1, <1>5 DEF ImportFunding, Reader, Writing
  <2>2. q[r].file \in Seq(PeriodRows) BY <2>1 DEF Request
  <2>3. Configuration(ImportFile(funding, q[r].file).rows) BY <1>1, <2>2, ImportTyped DEF Stored
  <2>6. Configuration(funding') BY <1>1, <1>5, <2>3 DEF ImportFunding, Stored
  <2>4. Configuration(funding') /\ Fundings(funding') BY <2>6, ConfigurationFundings
  <2>5. Stored' BY <1>1, <2>1, <2>4 DEF Stored
  <2> QED BY <1>2, <2>5, AnswerKeeps
<1>6. CASE ProcessISBJ(r)
  <2> DEFINE
    book == q[r].book
    ok == UploadAnswer(book) = "ok"
  <2>1. q[r] \in Request /\ q[r].kind = "upload" /\ UNCHANGED <<funding, contracts>>
    BY <1>1, <1>6 DEF ProcessISBJ, Reader, Writing
  <2>2. book \in Books BY <2>1 DEF Request
  <2>3. bills' = IF ok THEN [bills EXCEPT ![book.month] = Convert(book)] ELSE bills BY <1>6 DEF ProcessISBJ
  <2> DEFINE new == {row.number : row \in {row \in ToSet(Convert(book).rows) : linked[row.number] = NoRow}}
  <2>9. /\ linked' = IF ok THEN [n \in Numbers |-> IF n \in new THEN Holder(book, n) ELSE linked[n]] ELSE linked
        /\ new \subseteq {row.number : row \in ToSet(Convert(book).rows)} BY <1>6 DEF ProcessISBJ
  <2> HIDE DEF new
  <2>4. ok => Vouchers(book) # {} /\ ReconcilesWithHeader(book) BY DEF UploadAnswer, Parses
  <2>5. ok => Kept(Convert(book)) BY <2>2, <2>4, ConvertKept
  <2>10. ASSUME ok, NEW n \in new PROVE Holder(book, n) \in Children \cup {NoRow}
   <3>1. book \in Books /\ Vouchers(book) # {} /\ n \in {row.number : row \in ToSet(Convert(book).rows)}
     BY <2>2, <2>4, <2>9, <2>10
   <3> HIDE DEF book
   <3> QED BY <3>1, HolderIsChild
  <2>11. linked' \in [Numbers -> Children \cup {NoRow}]
   <3> HIDE DEF ok, book
   <3>1. linked \in [Numbers -> Children \cup {NoRow}] BY <1>1 DEF Stored
   <3> QED BY <2>9, <2>10, <3>1
  <2> HIDE DEF ok, book
  <2>6. DOMAIN bills' = Months /\ \A m \in Months : bills'[m] = bills[m] \/ (ok /\ bills'[m] = Convert(book))
    BY <1>1, <2>3
  <2>7. \A m \in Months : Kept(bills'[m]) BY <1>1, <2>5, <2>6 DEF Stored
  <2>8. Stored' BY <1>1, <2>1, <2>6, <2>7, <2>11 DEF Stored
  <2> QED BY <1>2, <2>8, AnswerKeeps
<1>7. CASE DeleteBill(r)
  <2>1. UNCHANGED <<funding, contracts, linked>> /\ DOMAIN bills' = Months
        /\ \A m \in Months : bills'[m] = bills[m] \/ bills'[m] = NoRow BY <1>1, <1>7 DEF DeleteBill
  <2>2. \A m \in Months : Kept(bills'[m]) BY <1>1, <2>1 DEF Stored, Kept
  <2>3. Stored' BY <1>1, <2>1, <2>2 DEF Stored
  <2> QED BY <1>2, <2>3, AnswerKeeps
<1> QED BY <1>3, <1>4, <1>5, <1>6, <1>7, <1>8 DEF Write

\* A request sent.
LEMMA SendKeeps == ASSUME ReportsInv, NEW r \in Reqs, Send(r) PROVE ReportsInv'
<1>1. PICK k \in menu[r] : q' = [q EXCEPT ![r] = k] BY DEF Send, Submit
<1>2. pc[r] = "idle" /\ menu[r] \in SUBSET Request /\ report[r] = NoReport /\ menu' = menu /\ Stored'
  BY StoredStays DEF Send, Submit, ReportsInv, Reader
<1>3. k \in Request BY <1>1, <1>2
<1> DEFINE m == IF k.kind = "compare" THEN k.from ELSE 0
<1>4. q'[r] = k BY <1>1 DEF ReportsInv, Functions4
<1>5. pc' = [pc EXCEPT ![r] = k.kind] /\ view' = [view EXCEPT ![r] = NothingRead(m)] /\ report' = report
  BY <1>4 DEF Send, Goto
<1>6. m \in Int /\ k.kind # "idle" /\ (k.kind \in Comparing => k.kind = "compare" /\ m >= 1)
  <2>1. k.kind \in {"compare", "statistics", "link", "write", "configure", "import", "upload", "deleteBill"}
    BY <1>3 DEF Request
  <2>2. CASE k.kind = "compare"
   <3>1. k.from \in Months BY <1>3, <2>2 DEF Request
   <3> QED BY <2>2, <3>1, RatesAssumption DEF Months
  <2>3. CASE k.kind # "compare" BY <2>1, <2>3 DEF Comparing
  <2> QED BY <2>2, <2>3
<1> HIDE DEF m
<1>7. Viewed(NothingRead(m)) /\ NothingRead(m).month = m /\ Reported(NoReport, m)
  BY <1>6, NothingViewed, NothingReported
<1>8. Changed(pc, pc', r, k.kind) /\ Changed(q, q', r, k) /\ Changed(view, view', r, NothingRead(m))
      /\ Changed(report, report', r, NoReport) BY <1>1, <1>2, <1>5, Replaced DEF ReportsInv, Functions4
<1> QED BY <1>2, <1>3, <1>6, <1>7, <1>8, ReaderMoves

\* Each step, and a stutter.
LEMMA NextInv == ReportsInv /\ [Next]_vars => ReportsInv'
<1> SUFFICES ASSUME ReportsInv, [Next]_vars PROVE ReportsInv' OBVIOUS
<1>1. CASE UNCHANGED vars BY <1>1 DEF vars, requestVars, tables, ReportsInv, Stored, Functions4, Reader
<1>2. ASSUME NEW r \in Reqs, Send(r) PROVE ReportsInv' BY <1>2, SendKeeps
<1>3. ASSUME NEW r \in Reqs, CompareRange(r) \/ LoadDataSet(r) \/ Write(r), UNCHANGED <<q, clientVars>>
      PROVE  ReportsInv' BY <1>3, CompareKeeps, LoadKeeps, WriteKeeps
<1> QED BY <1>1, <1>2, <1>3 DEF Next, Finished
----------------------------------------
(* The theorems. *)

\* A stored bill pays what its file states.
LEMMA StoredAsStated ==
  ASSUME NEW bill, Kept(bill), bill # NoRow, bill.file # NoRow
  PROVE  LET lines == ToSet(TableLines(bill.file))
         IN  /\ \A line \in lines, type \in {"regular", "correction"} :
                    PaidFor(bill, line.voucher, line.month, type)
                      = StatedFor(bill.file, line.voucher, line.month, type)
             /\ Cardinality({line.voucher : line \in lines}) = Cardinality(DOMAIN bill.rows)
             /\ SumFunction([i \in DOMAIN bill.rows |-> Total(bill.rows[i].payments)]) = bill.booked
<1> DEFINE
  book == bill.file
  table == TableLines(book)
<1>1. book \in Books /\ Vouchers(book) # {} /\ ReconcilesWithHeader(book) /\ bill = Convert(book) BY DEF Kept
<1>2. bill.rows = Rows(table) /\ bill.booked = ReadOrSumColumn(book.booked) BY <1>1 DEF Convert
<1>3. Lines(table) BY <1>1, TableIsLines
<1>4. SumFunction([i \in DOMAIN table |-> table[i].sum]) = bill.booked BY <1>1, <1>2 DEF ReconcilesWithHeader
<1>5. ASSUME NEW line \in ToSet(table), NEW type \in {"regular", "correction"}
  PROVE  PaidFor(bill, line.voucher, line.month, type) = StatedFor(book, line.voucher, line.month, type)
  <2> DEFINE
    n == line.voucher
    m == line.month
  <2>1. n \in {TableLines(book)[i].voucher : i \in DOMAIN TableLines(book)} BY DEF ToSet
  <2>2. Lines(TableLines(book)) BY <1>3
  <2> HIDE DEF n, m, book
  <2>3. PaidFor(Convert(book), n, m, type) = StatedFor(book, n, m, type) BY <2>1, <2>2, PaidIsStated
  <2>4. PaidFor(bill, n, m, type) = StatedFor(book, n, m, type) BY <1>1, <2>3
  <2> QED BY <2>4 DEF n, m
<1> HIDE DEF table
<1>6. Cardinality({line.voucher : line \in ToSet(table)}) = Cardinality(DOMAIN Rows(table)) BY <1>3, RowsCount
<1>7. SumFunction([i \in DOMAIN Rows(table) |-> Total(Rows(table)[i].payments)])
  = SumFunction([i \in DOMAIN table |-> table[i].sum]) BY <1>3, RowsTotal
<1> QED BY <1>2, <1>4, <1>5, <1>6, <1>7 DEF table

\* What the invariant says of the comparisons and the bills.
LEMMA InvStates == ReportsInv => ComparedOnce /\ DecompositionExact /\ BilledAsStated /\ ReportsAgree
                                  /\ PromotionsPriced /\ FiguresAgree
<1> SUFFICES ASSUME ReportsInv PROVE ComparedOnce /\ DecompositionExact /\ BilledAsStated /\ ReportsAgree
                                                  /\ PromotionsPriced /\ FiguresAgree OBVIOUS
<1>1. \A r \in Reqs : Reported(report[r], view[r].month) BY DEF ReportsInv, Reader
<1>2. ComparedOnce
  <2>1. \A r \in Reqs : \A c \in ToSet(report[r].comparisons) : Once(c) BY <1>1 DEF Reported, Compared
  <2> QED BY <2>1 DEF ComparedOnce, Once
<1>3. DecompositionExact
  <2>1. ASSUME NEW r \in Reqs PROVE Exact(report[r].comparisons) BY <1>1, SummaryExact DEF Reported, Compared
  <2> QED BY <2>1 DEF DecompositionExact, Exact
<1>4. BilledAsStated
  <2>1. ASSUME NEW m \in Months, HasBill(Tables, m), bills[m].file # NoRow
    PROVE  LET bill == bills[m]
               lines == ToSet(TableLines(bill.file))
           IN  /\ \A line \in lines, type \in {"regular", "correction"} :
                      PaidFor(bill, line.voucher, line.month, type)
                        = StatedFor(bill.file, line.voucher, line.month, type)
               /\ Cardinality({line.voucher : line \in lines}) = Cardinality(DOMAIN bill.rows)
               /\ SumFunction([i \in DOMAIN bill.rows |-> Total(bill.rows[i].payments)]) = bill.booked
   <3>1. Kept(bills[m]) /\ bills[m] # NoRow BY <2>1 DEF ReportsInv, Stored, HasBill, Tables
   <3> QED BY <2>1, <3>1, StoredAsStated
  <2>2. ASSUME NEW l \in Loaded PROVE BookedIsCompared(l)
   <3>1. PICK r \in Reqs : l = report[r].loaded /\ l # NoRow BY DEF Loaded
   <3> QED BY <1>1, <3>1 DEF Reported
  <2>3. \A l \in Loaded : \A c \in l.comparisons :
    l.booked[c.month] = NoRow
    \/ SumFunction([x \in c.entries |-> x.bill + x.correction]) = l.booked[c.month] BY <2>2 DEF BookedIsCompared
  <2> QED BY <2>1, <2>3 DEF BilledAsStated
<1>5. ReportsAgree
  <2>1. ASSUME NEW l \in Loaded PROVE Agreed(l)
   <3>1. PICK r \in Reqs : l = report[r].loaded /\ l # NoRow BY DEF Loaded
   <3> QED BY <1>1, <3>1 DEF Reported
  <2> QED BY <2>1 DEF ReportsAgree, Agreed
<1>6. PromotionsPriced
  <2>1. ASSUME NEW l \in Loaded, NEW m \in Months PROVE PricedMonth(l.promoted[m])
   <3>1. PICK r \in Reqs : l = report[r].loaded /\ l # NoRow BY DEF Loaded
   <3> QED BY <1>1, <3>1 DEF Reported, Priced
  <2> QED BY <2>1 DEF PromotionsPriced, PricedMonth
<1>7. FiguresAgree
  <2>1. ASSUME NEW l \in Loaded PROVE Figured(l)
   <3>1. PICK r \in Reqs : l = report[r].loaded /\ l # NoRow BY DEF Loaded
   <3> QED BY <1>1, <3>1 DEF Reported
  <2> QED BY <2>1 DEF FiguresAgree, Figured
<1> QED BY <1>2, <1>3, <1>4, <1>5, <1>6, <1>7

\* The invariant holds of every reachable state.
THEOREM ReportsInvariant == Spec => []ReportsInv BY InitInv, NextInv, PTL DEF Spec

\* However writes fall between its statements, a comparison has every row of its bill in
\* one entry, and no child in two (comparePeriod).
THEOREM ComparedOnceHolds == Spec => []ComparedOnce BY ReportsInvariant, InvStates, PTL

\* The categories take the difference of the bills compared and the rates apart without a
\* rest, and so do the issues with the rate difference (BuildComparisonSummary).
THEOREM DecompositionIsExact == Spec => []DecompositionExact BY ReportsInvariant, InvStates, PTL

\* An uploaded bill pays each voucher what its file states, for each month and type, and
\* its comparison comes to the stated booking (ProcessISBJ, convertChild, reconcileRow).
THEOREM BillsPayAsStated == Spec => []BilledAsStated BY ReportsInvariant, InvStates, PTL

\* A bill's comparison, a child's history, the list of all children and the corrections of
\* the year agree on the same rows (ChildBillingHistory, ChildrenBillingSummary).
THEOREM ReportsAlwaysAgree == Spec => []ReportsAgree BY ReportsInvariant, InvStates, PTL

\* The promotions announced for a month cost what granting them adds to the expenses, up to a
\* cent each, leave none to announce, and hire nobody (GetStepPromotions, calculateMonthlyCostDelta).
THEOREM PromotionsArePriced == Spec => []PromotionsPriced BY ReportsInvariant, InvStates, PTL

\* The statistics of a month count and pay for the same children and follow their birthdays, a bill's
\* comparison is measured against their income, and a contract added to a person comes to the same forecast
\* as the person removed and entered anew with it, whatever orders of the bands the two calculations find,
\* but for the choice among bands that start at one age (calculateFinancials, calculateOccupancy, applyOverlay).
THEOREM FiguresAlwaysAgree == Spec => []FiguresAgree BY ReportsInvariant, InvStates, PTL
----------------------------------------
(* Imports. *)

\* A step moves one request that is not done, on or to its end.
LEMMA OneMoves ==
  ASSUME NEW r \in Reqs, Send(r) \/ CompareRange(r) \/ LoadDataSet(r) \/ Write(r)
  PROVE  pc[r] # "done" /\ ((\E stage : Goto(r, stage)) \/ \E code : Answer(r, code))
<1>1. CASE Send(r) BY <1>1 DEF Send, Submit
<1>2. CASE CompareRange(r)
  BY <1>2 DEF CompareRange, FindBill, FindFunding, ResolveVouchers, ResolveContracts, FindActive, Preload, FindSettled,
     FindVouchers, FindAttributed, FindBilledMonths, Read
<1>3. CASE LoadDataSet(r) BY <1>3 DEF LoadDataSet
<1>4. CASE Write(r)
  BY <1>4 DEF Write, LinkVoucher, WriteContracts, Configure, ImportFunding, ProcessISBJ, DeleteBill, Written
<1> QED BY <1>1, <1>2, <1>3, <1>4

\* So a step leaves what a request that is not done has for an answer.
LEMMA UnansweredStays == Unanswered /\ [Next]_vars => Unanswered'
<1> SUFFICES ASSUME Unanswered, [Next]_vars PROVE Unanswered' OBVIOUS
<1>1. CASE UNCHANGED vars BY <1>1 DEF vars, requestVars, Unanswered
<1>2. ASSUME NEW r \in Reqs, Send(r) \/ CompareRange(r) \/ LoadDataSet(r) \/ Write(r) PROVE Unanswered'
  <2>1. CASE \E stage : Goto(r, stage) BY <1>2, <2>1, OneMoves DEF Goto, Unanswered
  <2>2. CASE \E code : Answer(r, code) BY <2>2 DEF Answer, Unanswered
  <2> QED BY <1>2, <2>1, <2>2, OneMoves
<1> QED BY <1>1, <1>2 DEF Next, Finished

\* An import that is answered with success has left what it should.
LEMMA ImportStep ==
  ASSUME ReportsInv, Unanswered, [Next]_vars, NEW r \in Reqs, pc[r] = "import", resp'[r] = "ok",
         InOrder(funding), \A period \in ToSet(q[r].file) : RatesApart(period.rates)
  PROVE  Left(q[r].file, funding, funding')
<1>1. resp[r] = "none" BY DEF Unanswered
<1>2. PICK s \in Reqs : Send(s) \/ CompareRange(s) \/ LoadDataSet(s) \/ Write(s)
  BY <1>1 DEF Next, Finished, vars, requestVars
<1>3. s = r BY <1>1, <1>2, OneMoves DEF Goto, Answer, Unanswered
<1>4. ImportFunding(r)
  <2>1. ~Send(r) /\ ~LoadDataSet(r) BY DEF Send, Submit, LoadDataSet
  <2>2. ~CompareRange(r)
    BY DEF CompareRange, FindBill, FindFunding, ResolveVouchers, ResolveContracts, FindActive, Preload, FindSettled,
       FindVouchers, FindAttributed, FindBilledMonths
  <2>3. ~LinkVoucher(r) /\ ~WriteContracts(r) /\ ~Configure(r) /\ ~ProcessISBJ(r) /\ ~DeleteBill(r)
    BY DEF LinkVoucher, WriteContracts, Configure, ProcessISBJ, DeleteBill
  <2> QED BY <1>2, <1>3, <2>1, <2>2, <2>3 DEF Write
<1>5. ImportFile(funding, q[r].file).ok /\ funding' = ImportFile(funding, q[r].file).rows
  BY <1>4 DEF ImportFunding, Answer, Unanswered
<1>6. Orderly(funding, q[r].file) BY DEF ReportsInv, Stored, Reader, Writing, Request, Orderly, ToSet
<1> QED BY <1>5, <1>6, ImportLeaves

\* An import into a configuration in order, of a file that names each rate of a period once, makes the
\* configuration the file's, and to import the file again changes nothing (incrementalImport, diffProperties).
THEOREM ImportsFollowTheFile == Spec => ImportFollowsFile
<1> DEFINE
  A == \A r \in Reqs :
         /\ pc[r] = "import" /\ resp'[r] = "ok"
         /\ InOrder(funding) /\ \A period \in ToSet(q[r].file) : RatesApart(period.rates)
         => Left(q[r].file, funding, funding')
<1>1. Init => Unanswered BY DEF Init, Idle, Unanswered
<1>2. ReportsInv /\ Unanswered /\ [Next]_vars => [A]_vars
  <2> SUFFICES ASSUME ReportsInv, Unanswered, [Next]_vars PROVE A OBVIOUS
  <2> QED BY ImportStep
<1> QED BY <1>1, <1>2, UnansweredStays, ReportsInvariant, PTL DEF Spec, ImportFollowsFile
=============================================================================
