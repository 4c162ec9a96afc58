------------------------- MODULE SelectionProofs -------------------------
(***************************************************************************)
(* Theorems about the algorithms over amounts.  About the loops of         *)
(* SelectionLoops, for any leaves and targets: what they return is what    *)
(* LeafSelection says, a selection that is returned is exact, and leaves   *)
(* of the denominations are never swapped for nothing.  About the operators*)
(* that MCSelectionLoops gives lists, for lists of any amounts and length: *)
(* a selection of token outputs pays, a request that is split is valid     *)
(* batch by batch, and what the optimizer plans is sound.                  *)
(*                                                                         *)
(* The provers know no induction scheme, so each induction takes a minimal *)
(* counterexample (FiniteMin, LeastNat) and derives a contradiction, and   *)
(* what a fold computes is read off the recursive function it stands for.  *)
(***************************************************************************)
EXTENDS MCSelectionLoops, FiniteSetTheorems, SequenceTheorems, TLAPS

-----------------------------------------------------------------------------
(***************************************************************************)
(* Minimal counterexamples, and recursion over finite sets.                *)
(***************************************************************************)
\* A nonempty set of finite sets has a minimal member.  Every induction below over
\* a finite set is this: the least counterexample is shown not to be one.
LEMMA FiniteMin ==
  ASSUME NEW S, IsFiniteSet(S), NEW Bad, Bad \subseteq SUBSET S, Bad # {}
  PROVE \E T \in Bad : \A U \in Bad : ~ (U \subseteq T /\ U # T)
<1>1. IsWellFoundedOn(StrictSubsetOrdering(S), FiniteSubsetsOf(S)) BY FS_StrictSubsetOrderingWellFounded
<1>2. FiniteSubsetsOf(S) = SUBSET S BY FS_FiniteSubsetsOfFinite
<1>3. \E x \in Bad : \A y \in Bad : ~ (<<y, x>> \in StrictSubsetOrdering(S)) BY <1>1, <1>2, WFMin
<1> QED BY <1>3 DEF StrictSubsetOrdering

\* A nonempty set of naturals has a least element.
LEMMA LeastNat ==
  ASSUME NEW T, T \subseteq Nat, T # {}
  PROVE \E n \in T : \A m \in T : n <= m
<1> PICK k \in T : TRUE OBVIOUS
<1> DEFINE Bad == {0..m : m \in {m \in T : m <= k}}
           S == 0..k
<1>1. Bad \subseteq SUBSET S /\ S \in Bad /\ Bad # {} OBVIOUS
<1>2. IsFiniteSet(S) BY FS_Interval
<1> HIDE DEF Bad, S
<1>3. PICK X \in Bad : \A U \in Bad : ~ (U \subseteq X /\ U # X) BY <1>1, <1>2, FiniteMin
<1>4. PICK n \in T : n <= k /\ X = 0..n BY DEF Bad
<1>5. ASSUME NEW m \in T PROVE n <= m
  <2> SUFFICES ASSUME m < n PROVE FALSE OBVIOUS
  <2>1. 0..m \in Bad BY <1>4 DEF Bad
  <2>2. 0..m \subseteq X /\ n \in X /\ n \notin 0..m BY <1>4
  <2> QED BY <1>3, <2>1, <2>2
<1> QED BY <1>5

\* f is what H computes of the subsets of T, an element at a time.
Recursion(f, T, b, c, H) ==
  \A U \in SUBSET T : f[U] = IF U = {} THEN b ELSE H[<<c[U], f[U \ {c[U]}]>>]

\* A recursion over the subsets of a finite set has one solution.
LEMMA RecursionUnique ==
  ASSUME NEW D, IsFiniteSet(D), NEW b, NEW c, NEW H,
         \A U \in SUBSET D : U # {} => c[U] \in U,
         NEW T \in SUBSET D, NEW W \in SUBSET D, NEW f, NEW g,
         Recursion(f, T, b, c, H), Recursion(g, W, b, c, H)
  PROVE  \A U \in SUBSET (T \cap W) : f[U] = g[U]
<1> DEFINE Bad == {U \in SUBSET (T \cap W) : f[U] # g[U]}
<1> SUFFICES ASSUME Bad # {} PROVE FALSE OBVIOUS
<1>1. Bad \subseteq SUBSET D OBVIOUS
<1> HIDE DEF Bad
<1>2. PICK U \in Bad : \A X \in Bad : ~ (X \subseteq U /\ X # U) BY <1>1, FiniteMin
<1>3. U \in SUBSET D /\ U \subseteq T /\ U \subseteq W /\ f[U] # g[U] BY DEF Bad
<1>4. CASE U = {} BY <1>3, <1>4 DEF Recursion
<1>5. CASE U # {}
  <2>1. c[U] \in U BY <1>3, <1>5
  <2>2. U \ {c[U]} \subseteq U /\ U \ {c[U]} # U BY <2>1
  <2>3. f[U \ {c[U]}] = g[U \ {c[U]}] BY <1>2, <1>3, <2>2 DEF Bad
  <2>4. f[U] = H[<<c[U], f[U \ {c[U]}]>>] BY <1>3, <1>5 DEF Recursion
  <2>5. g[U] = H[<<c[U], g[U \ {c[U]}]>>] BY <1>3, <1>5 DEF Recursion
  <2> QED BY <1>3, <2>3, <2>4, <2>5
<1> QED BY <1>4, <1>5

\* A recursion over the subsets of a finite set has a solution.
LEMMA RecursionExists ==
  ASSUME NEW D, IsFiniteSet(D), NEW V, NEW b \in V, NEW c,
         \A U \in SUBSET D : U # {} => c[U] \in U,
         NEW H \in [D \X V -> V]
  PROVE  \E f \in [SUBSET D -> V] : Recursion(f, D, b, c, H)
<1> DEFINE Sol(T, f) == f \in [SUBSET T -> V] /\ Recursion(f, T, b, c, H)
           Bad == {T \in SUBSET D : ~ \E f : Sol(T, f)}
<1> SUFFICES ASSUME Bad # {} PROVE FALSE OBVIOUS
<1>1. Bad \subseteq SUBSET D OBVIOUS
<1> HIDE DEF Bad, Sol
<1>2. PICK T \in Bad : \A X \in Bad : ~ (X \subseteq T /\ X # T) BY <1>1, FiniteMin
<1> DEFINE F(U) == CHOOSE g : Sol(U, g)
           v(U) == F(U)[U]
           first == IF T = {} THEN b ELSE H[<<c[T], v(T \ {c[T]})>>]
           f == [U \in SUBSET T |-> IF U = T THEN first ELSE v(U)]
<1>3. \A U \in SUBSET T : U # T => Sol(U, F(U)) BY <1>1, <1>2 DEF Bad
<1>4. T \in SUBSET D BY <1>1
<1>5. \A U \in SUBSET T : U # T => v(U) \in V BY <1>3 DEF Sol
<1>6. T # {} => c[T] \in T /\ T \ {c[T]} \in SUBSET T /\ T \ {c[T]} # T BY <1>4
<1>7. first \in V
  <2>1. CASE T = {} BY <2>1
  <2>2. CASE T # {} BY <2>2, <1>4, <1>5, <1>6
  <2> QED BY <2>1, <2>2
<1>8. f \in [SUBSET T -> V] BY <1>5, <1>7
<1>9. ASSUME NEW U \in SUBSET T PROVE f[U] = IF U = {} THEN b ELSE H[<<c[U], f[U \ {c[U]}]>>]
  <2>1. CASE U = T
    <3>1. CASE T = {} BY <2>1, <3>1
    <3>2. CASE T # {} BY <2>1, <3>2, <1>6
    <3> QED BY <3>1, <3>2
  <2>2. CASE U # T
    <3>1. f[U] = v(U) BY <2>2
    <3>2. Sol(U, F(U)) BY <1>3, <2>2
    <3> HIDE DEF F
    <3>3. v(U) = IF U = {} THEN b ELSE H[<<c[U], F(U)[U \ {c[U]}]>>] BY <3>2 DEF Sol, Recursion
    <3>4. CASE U = {} BY <3>1, <3>3, <3>4
    <3>5. CASE U # {}
      <4>0. c[U] \in U BY <1>4, <3>5
      <4> DEFINE W == U \ {c[U]}
      <4>1. W \in SUBSET T /\ W # T /\ W \in SUBSET D /\ U \in SUBSET D BY <4>0, <1>4
      <4>2. Sol(W, F(W)) BY <4>1, <1>3 DEF F
      <4>3. Recursion(F(W), W, b, c, H) /\ Recursion(F(U), U, b, c, H) BY <4>2, <3>2 DEF Sol
      <4>4. W \in SUBSET (W \cap U) OBVIOUS
      <4> HIDE DEF W
      <4>5. F(W)[W] = F(U)[W] BY <4>1, <4>3, <4>4, RecursionUnique
      <4>6. f[W] = v(W) BY <4>1
      <4> QED BY <3>1, <3>3, <3>5, <4>5, <4>6 DEF W
    <3> QED BY <3>4, <3>5
  <2> QED BY <2>1, <2>2
<1>10. Sol(T, f)
  <2> HIDE DEF f
  <2> QED BY <1>8, <1>9 DEF Sol, Recursion
<1> QED BY <1>10, <1>2 DEF Bad

-----------------------------------------------------------------------------
(***************************************************************************)
(* Sums over finite sets.                                                  *)
(***************************************************************************)
SumOver(f, S) == MapThenSumSet(LAMBDA x : f[x], S)
\* Sums(g, f, D): g is the recursive function that MapThenSumSet evaluates.
Choice(T) == CHOOSE x \in T : TRUE
Sums(g, f, D) == g = [T \in SUBSET D |-> IF T = {} THEN 0 ELSE f[Choice(T)] + g[T \ {Choice(T)}]]

\* MapThenSumSet adds one chosen element after the other.
LEMMA SumUnfolds ==
  ASSUME NEW f, NEW S
  PROVE  SumOver(f, S) = (CHOOSE g : Sums(g, f, S))[S]
BY DEF SumOver, MapThenSumSet, MapThenFoldSet, Sums, Choice

\* The recursion that adds the elements has a solution.
LEMMA SumsExist ==
  ASSUME NEW S, IsFiniteSet(S), NEW f, \A x \in S : f[x] \in Int
  PROVE  \E g : g \in [SUBSET S -> Int] /\ Sums(g, f, S)
<1> DEFINE c == [T \in SUBSET S |-> Choice(T)]
           H == [p \in S \X Int |-> f[p[1]] + p[2]]
<1>1. \A T \in SUBSET S : T # {} => c[T] \in T BY DEF Choice
<1>2. H \in [S \X Int -> Int] OBVIOUS
<1> HIDE DEF c, H
<1>0. 0 \in Int OBVIOUS
<1>3. PICK g \in [SUBSET S -> Int] : Recursion(g, S, 0, c, H) BY <1>0, <1>1, <1>2, RecursionExists
<1>4. ASSUME NEW T \in SUBSET S
      PROVE  g[T] = IF T = {} THEN 0 ELSE f[Choice(T)] + g[T \ {Choice(T)}]
  <2>1. CASE T = {} BY <1>3, <2>1 DEF Recursion
  <2>2. CASE T # {}
    <3>1. c[T] = Choice(T) /\ c[T] \in S BY <1>1, <2>2 DEF c
    <3>2. g[T] = H[<<c[T], g[T \ {c[T]}]>>] BY <1>3, <2>2 DEF Recursion
    <3>3. T \ {c[T]} \in SUBSET S OBVIOUS
    <3>4. g[T \ {c[T]}] \in Int BY <3>3
    <3> HIDE DEF Choice
    <3> QED BY <3>1, <3>2, <3>4, <2>2 DEF H
  <2> QED BY <2>1, <2>2
<1>5. g = [T \in SUBSET S |-> IF T = {} THEN 0 ELSE f[Choice(T)] + g[T \ {Choice(T)}]]
  BY <1>4
<1> QED BY <1>5 DEF Sums

\* Two solutions agree on the smaller set.
LEMMA SumsUnique ==
  ASSUME NEW S, IsFiniteSet(S), NEW f, NEW T \in SUBSET S, NEW g, NEW h, Sums(g, f, S), Sums(h, f, T)
  PROVE  \A U \in SUBSET T : g[U] = h[U]
<1> DEFINE Bad == {U \in SUBSET T : g[U] # h[U]}
<1> SUFFICES ASSUME Bad # {} PROVE FALSE OBVIOUS
<1>1. Bad \subseteq SUBSET S OBVIOUS
<1> HIDE DEF Bad
<1>2. PICK U \in Bad : \A X \in Bad : ~ (X \subseteq U /\ X # U) BY <1>1, FiniteMin
<1>3. U \in SUBSET T /\ U \in SUBSET S /\ g[U] # h[U] BY DEF Bad
<1>4. CASE U = {} BY <1>3, <1>4 DEF Sums
<1>5. CASE U # {}
  <2>1. Choice(U) \in U BY <1>5 DEF Choice
  <2> DEFINE W == U \ {Choice(U)}
  <2>2. W \subseteq U /\ W # U /\ W \in SUBSET T BY <2>1, <1>3
  <2>3. g[W] = h[W] BY <1>2, <2>2 DEF Bad
  <2>4. g[U] = f[Choice(U)] + g[W] BY <1>3, <1>5 DEF Sums
  <2>5. h[U] = f[Choice(U)] + h[W] BY <1>3, <1>5 DEF Sums
  <2> QED BY <1>3, <2>3, <2>4, <2>5
<1> QED BY <1>4, <1>5

\* A sum over a part is what a solution for the whole says.
LEMMA SumIs ==
  ASSUME NEW S, IsFiniteSet(S), NEW f, \A x \in S : f[x] \in Int,
         NEW g, Sums(g, f, S), NEW T \in SUBSET S
  PROVE  SumOver(f, T) = g[T]
<1>1. IsFiniteSet(T) BY FS_Subset
<1>2. \E h : Sums(h, f, T) BY <1>1, SumsExist
<1> DEFINE h == CHOOSE h : Sums(h, f, T)
<1>3. Sums(h, f, T) BY <1>2
<1>4. SumOver(f, T) = h[T] BY SumUnfolds
<1> HIDE DEF h
<1> QED BY <1>3, <1>4, SumsUnique

\* A sum of integers is an integer.
LEMMA SumType ==
  ASSUME NEW S, IsFiniteSet(S), NEW f, \A x \in S : f[x] \in Int
  PROVE  SumOver(f, S) \in Int
<1>1. PICK g : g \in [SUBSET S -> Int] /\ Sums(g, f, S) BY SumsExist
<1>2. SumOver(f, S) = g[S] BY <1>1, SumIs
<1> QED BY <1>1, <1>2

\* The empty sum.
LEMMA SumEmpty ==
  ASSUME NEW f
  PROVE  SumOver(f, {}) = 0
<1>1. IsFiniteSet({}) BY FS_EmptySet
<1>2. PICK g : Sums(g, f, {}) BY <1>1, SumsExist
<1>3. SumOver(f, {}) = g[{}] BY <1>1, <1>2, SumIs
<1> QED BY <1>2, <1>3 DEF Sums

\* The sum takes its own first element out.
LEMMA SumChoice ==
  ASSUME NEW S, IsFiniteSet(S), NEW f, \A x \in S : f[x] \in Int, S # {}
  PROVE  SumOver(f, S) = f[Choice(S)] + SumOver(f, S \ {Choice(S)})
<1>1. PICK g : Sums(g, f, S) BY SumsExist
<1>2. SumOver(f, S) = g[S] /\ SumOver(f, S \ {Choice(S)}) = g[S \ {Choice(S)}]
  BY <1>1, SumIs
<1> QED BY <1>1, <1>2 DEF Sums

\* Any element may be taken out first.
LEMMA SumRemove ==
  ASSUME NEW S, IsFiniteSet(S), NEW f, \A x \in S : f[x] \in Int, NEW x \in S
  PROVE  SumOver(f, S) = f[x] + SumOver(f, S \ {x})
<1> DEFINE Bad == {T \in SUBSET S : \E y \in T : SumOver(f, T) # f[y] + SumOver(f, T \ {y})}
<1> SUFFICES ASSUME Bad # {} PROVE FALSE OBVIOUS
<1>1. Bad \subseteq SUBSET S OBVIOUS
<1> HIDE DEF Bad
<1>2. PICK T \in Bad : \A X \in Bad : ~ (X \subseteq T /\ X # T) BY <1>1, FiniteMin
<1>3. T \in SUBSET S BY DEF Bad
<1>4. PICK y \in T : SumOver(f, T) # f[y] + SumOver(f, T \ {y}) BY DEF Bad
<1> DEFINE z == Choice(T)
<1>5. z \in T BY <1>4 DEF Choice
<1>6. IsFiniteSet(T) BY <1>3, FS_Subset
<1>7. SumOver(f, T) = f[z] + SumOver(f, T \ {z}) BY <1>3, <1>5, <1>6, SumChoice
<1>8. y # z BY <1>4, <1>7
<1> HIDE DEF z
<1>9. \A X \in SUBSET T : X # T => \A w \in X : SumOver(f, X) = f[w] + SumOver(f, X \ {w})
  BY <1>2, <1>3 DEF Bad
<1> DEFINE Y == T \ {y}
           Z == T \ {z}
           W == T \ {y, z}
<1>10. SumOver(f, Z) = f[y] + SumOver(f, Z \ {y}) BY <1>9, <1>8, <1>5
<1>11. SumOver(f, Y) = f[z] + SumOver(f, Y \ {z}) BY <1>9, <1>8, <1>5
<1>12. Z \ {y} = W /\ Y \ {z} = W OBVIOUS
<1>13. IsFiniteSet(W) /\ \A w \in W : f[w] \in Int BY <1>3, <1>6, FS_Subset
<1> HIDE DEF W
<1>14. SumOver(f, W) \in Int BY <1>13, SumType
<1>15. f[y] \in Int /\ f[z] \in Int BY <1>3, <1>5
<1>16. SumOver(f, Z) = f[y] + SumOver(f, W) /\ SumOver(f, Y) = f[z] + SumOver(f, W) BY <1>10, <1>11, <1>12
<1>17. SumOver(f, T) = f[z] + SumOver(f, Z) BY <1>7
<1>18. SumOver(f, T) # f[y] + SumOver(f, Y) BY <1>4
<1> HIDE DEF Y, Z
<1> QED BY <1>14, <1>15, <1>16, <1>17, <1>18

\* One element more.
LEMMA SumAdd ==
  ASSUME NEW S, IsFiniteSet(S), NEW x, x \notin S, NEW f, \A y \in S \cup {x} : f[y] \in Int
  PROVE  SumOver(f, S \cup {x}) = f[x] + SumOver(f, S)
<1>1. IsFiniteSet(S \cup {x}) BY FS_AddElement
<1>2. (S \cup {x}) \ {x} = S OBVIOUS
<1> DEFINE T == S \cup {x}
<1>3. x \in T /\ T \ {x} = S /\ IsFiniteSet(T) /\ \A y \in T : f[y] \in Int BY <1>1
<1> HIDE DEF T
<1>4. SumOver(f, T) = f[x] + SumOver(f, T \ {x}) BY <1>3, SumRemove
<1> QED BY <1>3, <1>4 DEF T

\* The sum over two disjoint sets.
LEMMA SumUnion ==
  ASSUME NEW S, IsFiniteSet(S), NEW R, IsFiniteSet(R), S \cap R = {},
         NEW f, \A y \in S \cup R : f[y] \in Int
  PROVE  SumOver(f, S \cup R) = SumOver(f, S) + SumOver(f, R)
<1> DEFINE Bad == {T \in SUBSET R : SumOver(f, S \cup T) # SumOver(f, S) + SumOver(f, T)}
<1> SUFFICES ASSUME Bad # {} PROVE FALSE OBVIOUS
<1>1. Bad \subseteq SUBSET R OBVIOUS
<1> HIDE DEF Bad
<1>2. PICK T \in Bad : \A X \in Bad : ~ (X \subseteq T /\ X # T) BY <1>1, FiniteMin
<1>3. T \in SUBSET R /\ SumOver(f, S \cup T) # SumOver(f, S) + SumOver(f, T) BY DEF Bad
<1>4. SumOver(f, S) \in Int BY SumType
<1>5. T # {}
  <2> SUFFICES ASSUME T = {} PROVE FALSE OBVIOUS
  <2>1. S \cup T = S /\ SumOver(f, T) = 0 BY SumEmpty
  <2> QED BY <1>3, <1>4, <2>1
<1>6. PICK x \in T : TRUE BY <1>5
<1> DEFINE W == T \ {x}
<1>7. W \in SUBSET R /\ W \subseteq T /\ W # T BY <1>3
<1>8. SumOver(f, S \cup W) = SumOver(f, S) + SumOver(f, W) BY <1>2, <1>7 DEF Bad
<1>9. IsFiniteSet(W) /\ IsFiniteSet(T) BY <1>3, FS_Subset
<1>10. IsFiniteSet(S \cup W) BY <1>9, FS_Union
<1>11. T = W \cup {x} /\ S \cup T = (S \cup W) \cup {x} /\ x \notin W /\ x \notin S BY <1>3
<1>12. \A y \in S \cup W : f[y] \in Int BY <1>7
<1>13. f[x] \in Int BY <1>3
<1> HIDE DEF W
<1> DEFINE V == S \cup W
<1>14. x \notin V /\ IsFiniteSet(V) /\ \A y \in V \cup {x} : f[y] \in Int BY <1>10, <1>11, <1>12, <1>13
<1> HIDE DEF V
<1>15. SumOver(f, V \cup {x}) = f[x] + SumOver(f, V) BY <1>14, SumAdd
<1>16. SumOver(f, W \cup {x}) = f[x] + SumOver(f, W) BY <1>9, <1>11, <1>12, <1>13, SumAdd
<1>17. SumOver(f, W) \in Int BY <1>9, <1>12, SumType
<1>18. SumOver(f, S \cup T) = f[x] + SumOver(f, V) /\ SumOver(f, V) = SumOver(f, S) + SumOver(f, W) BY <1>15, <1>11, <1>8 DEF V
<1>19. SumOver(f, T) = f[x] + SumOver(f, W) BY <1>16, <1>11
<1> HIDE DEF V
<1> QED BY <1>3, <1>4, <1>13, <1>17, <1>18, <1>19

\* A sum of naturals is a natural.
LEMMA SumNat ==
  ASSUME NEW S, IsFiniteSet(S), NEW f, \A x \in S : f[x] \in Nat
  PROVE  SumOver(f, S) \in Nat
<1> DEFINE Bad == {T \in SUBSET S : SumOver(f, T) \notin Nat}
<1> SUFFICES ASSUME Bad # {} PROVE FALSE OBVIOUS
<1>1. Bad \subseteq SUBSET S OBVIOUS
<1> HIDE DEF Bad
<1>2. PICK T \in Bad : \A X \in Bad : ~ (X \subseteq T /\ X # T) BY <1>1, FiniteMin
<1>3. T \in SUBSET S /\ SumOver(f, T) \notin Nat BY DEF Bad
<1>4. PICK x \in T : TRUE BY <1>3, SumEmpty
<1> DEFINE W == T \ {x}
<1>5. W \in SUBSET S /\ W \subseteq T /\ W # T BY <1>3
<1>6. SumOver(f, W) \in Nat BY <1>2, <1>5 DEF Bad
<1>7. IsFiniteSet(T) /\ (\A y \in T : f[y] \in Int) /\ f[x] \in Nat BY <1>3, FS_Subset
<1>8. SumOver(f, T) = f[x] + SumOver(f, W) BY <1>7, SumRemove
<1> QED BY <1>3, <1>6, <1>7, <1>8

\* A sum of naturals, split into a part and the rest.
LEMMA SumMonotone ==
  ASSUME NEW S, IsFiniteSet(S), NEW R \in SUBSET S, NEW f, \A x \in S : f[x] \in Nat
  PROVE  /\ SumOver(f, R) \in Nat /\ SumOver(f, S) \in Nat /\ SumOver(f, S \ R) \in Nat
         /\ SumOver(f, S) = SumOver(f, R) + SumOver(f, S \ R)
         /\ SumOver(f, R) <= SumOver(f, S)
<1> DEFINE T == S \ R
<1>1. IsFiniteSet(R) /\ IsFiniteSet(T) BY FS_Subset
<1>2. R \cup T = S /\ R \cap T = {} OBVIOUS
<1> HIDE DEF T
<1>3. SumOver(f, R \cup T) = SumOver(f, R) + SumOver(f, T) BY <1>1, <1>2, SumUnion
<1>4. SumOver(f, R) \in Nat /\ SumOver(f, T) \in Nat BY <1>1, <1>2, SumNat
<1> QED BY <1>2, <1>3, <1>4 DEF T

\* A sum depends only on the values summed.
LEMMA SumSame ==
  ASSUME NEW S, IsFiniteSet(S), NEW f, NEW g, \A x \in S : f[x] \in Int /\ g[x] = f[x]
  PROVE  SumOver(f, S) = SumOver(g, S)
<1> DEFINE Bad == {T \in SUBSET S : SumOver(f, T) # SumOver(g, T)}
<1> SUFFICES ASSUME Bad # {} PROVE FALSE OBVIOUS
<1>1. Bad \subseteq SUBSET S OBVIOUS
<1> HIDE DEF Bad
<1>2. PICK T \in Bad : \A X \in Bad : ~ (X \subseteq T /\ X # T) BY <1>1, FiniteMin
<1>3. T \in SUBSET S /\ SumOver(f, T) # SumOver(g, T) BY DEF Bad
<1>4. PICK x \in T : TRUE BY <1>3, SumEmpty
<1> DEFINE W == T \ {x}
<1>5. W \in SUBSET S /\ W \subseteq T /\ W # T BY <1>3
<1>6. SumOver(f, W) = SumOver(g, W) BY <1>2, <1>5 DEF Bad
<1>7. IsFiniteSet(T) /\ (\A y \in T : f[y] \in Int /\ g[y] \in Int) /\ f[x] = g[x] BY <1>3, FS_Subset
<1>8. SumOver(f, T) = f[x] + SumOver(f, W) BY <1>7, SumRemove
<1>9. SumOver(g, T) = g[x] + SumOver(g, W) BY <1>7, SumRemove
<1> QED BY <1>3, <1>6, <1>7, <1>8, <1>9

-----------------------------------------------------------------------------
(***************************************************************************)
(* Folds over sequences, as recursive functions over sets of indices.      *)
(***************************************************************************)
\* A nonempty set of indices has a greatest.
LEMMA MaxIn ==
  ASSUME NEW n \in Nat, NEW T \in SUBSET (1..n), T # {}
  PROVE  Max(T) \in T /\ \A k \in T : k <= Max(T)
<1> DEFINE Co == {n - k : k \in T}
<1>1. Co \subseteq Nat /\ Co # {}
  <2>1. \A k \in T : n - k \in Nat OBVIOUS
  <2>2. PICK k \in T : TRUE OBVIOUS
  <2> QED BY <2>1, <2>2
<1>2. PICK m \in Co : \A k \in Co : m <= k BY <1>1, LeastNat
<1>3. PICK x \in T : m = n - x BY <1>2
<1>4. \A k \in T : x >= k BY <1>2, <1>3
<1> QED BY <1>4 DEF Max

\* The last index of a prefix, and the prefix before it.
LEMMA MaxInterval ==
  ASSUME NEW n \in Nat, NEW k \in 1..n
  PROVE  Max(1..k) = k /\ (1..k) \ {k} = 1..(k-1)
<1>1. 1..k \in SUBSET (1..n) /\ 1..k # {} OBVIOUS
<1>2. Max(1..k) \in 1..k /\ \A j \in 1..k : j <= Max(1..k) BY <1>1, MaxIn
<1> QED BY <1>2

\* g folds H over every subset of D, w is a fold of H over 1..n step by step.
Folds(g, D, b, H) ==
  \A T \in SUBSET D : g[T] = IF T = {} THEN b ELSE H[<<Max(T), g[T \ {Max(T)}]>>]
FoldsWithin(g, D, V, b, H) ==
  /\ g[{}] = b
  /\ \A T \in SUBSET D : T # {} /\ g[T \ {Max(T)}] \in V => g[T] = H[<<Max(T), g[T \ {Max(T)}]>>]
FoldSteps(w, n, V, b, H, v) ==
  /\ w \in [0..n -> V]
  /\ w[0] = b
  /\ \A k \in 1..n : w[k] = H[<<k, w[k - 1]>>]
  /\ w[n] = v

\* A fold over the subsets of 1..n exists.
LEMMA FoldExists ==
  ASSUME NEW n \in Nat, NEW D, D = 1..n, NEW V, NEW b \in V, NEW H \in [D \X V -> V]
  PROVE  \E g \in [SUBSET D -> V] : Folds(g, D, b, H)
<1> DEFINE c == [T \in SUBSET D |-> Max(T)]
<1>1. IsFiniteSet(D) BY FS_Interval
<1>2. \A T \in SUBSET D : c[T] = Max(T) OBVIOUS
<1>3. \A T \in SUBSET D : T # {} => c[T] \in T BY MaxIn
<1> HIDE DEF c
<1>5. PICK g \in [SUBSET D -> V] : Recursion(g, D, b, c, H) BY <1>1, <1>3, RecursionExists
<1>6. \A T \in SUBSET D : g[T] = IF T = {} THEN b ELSE H[<<Max(T), g[T \ {Max(T)}]>>]
  BY <1>2, <1>5 DEF Recursion
<1> QED BY <1>6 DEF Folds

\* A fold over 1..n goes through the prefixes, one step per index.
LEMMA FoldPrefixes ==
  ASSUME NEW n \in Nat, NEW D, D = 1..n, NEW V, NEW b \in V, NEW H \in [D \X V -> V], NEW g,
         FoldsWithin(g, D, V, b, H)
  PROVE  \E w : FoldSteps(w, n, V, b, H, g[D])
<1> DEFINE w == [k \in 0..n |-> g[1..k]]
           Bad == {k \in 0..n : w[k] \notin V}
<1>1. w[0] = b
  <2>1. 1..0 = {} OBVIOUS
  <2> QED BY <2>1 DEF FoldsWithin
<1>2. ASSUME NEW k \in 1..n, w[k - 1] \in V PROVE w[k] = H[<<k, w[k - 1]>>]
  <2>1. Max(1..k) = k /\ (1..k) \ {k} = 1..(k-1) BY MaxInterval
  <2>0. k - 1 \in 0..n /\ k \in 0..n /\ 1 \in 1..k OBVIOUS
  <2>2. w[k - 1] = g[1..(k - 1)] /\ w[k] = g[1..k] BY <2>0
  <2>3. 1..k # {} BY <2>0
  <2>4. 1..k \in SUBSET (1..n) OBVIOUS
  <2> HIDE DEF w
  <2>5. g[(1..k) \ {Max(1..k)}] \in V BY <1>2, <2>1, <2>2
  <2>6. g[1..k] = H[<<Max(1..k), g[(1..k) \ {Max(1..k)}]>>] BY <2>3, <2>4, <2>5 DEF FoldsWithin
  <2> QED BY <2>1, <2>2, <2>6
<1>3. Bad = {}
  <2> SUFFICES ASSUME Bad # {} PROVE FALSE OBVIOUS
  <2>1. Bad \subseteq Nat OBVIOUS
  <2> HIDE DEF Bad, w
  <2>2. PICK k \in Bad : \A m \in Bad : k <= m BY <2>1, LeastNat
  <2>3. k \in 0..n /\ w[k] \notin V BY DEF Bad
  <2>4. k # 0 BY <2>3, <1>1
  <2>5. k \in 1..n /\ k - 1 \in 0..n /\ k - 1 \notin Bad BY <2>2, <2>3, <2>4
  <2>6. w[k - 1] \in V BY <2>5 DEF Bad
  <2>7. w[k] = H[<<k, w[k - 1]>>] BY <1>2, <2>5, <2>6
  <2> QED BY <2>3, <2>5, <2>6, <2>7
<1>4. w \in [0..n -> V] BY <1>3
<1>5. \A k \in 1..n : w[k] = H[<<k, w[k - 1]>>]
  <2> TAKE k \in 1..n
  <2>1. k - 1 \in 0..n OBVIOUS
  <2> HIDE DEF w
  <2> QED BY <1>2, <1>4, <2>1
<1>6. w[n] = g[1..n] OBVIOUS
<1> HIDE DEF w
<1> QED BY <1>1, <1>4, <1>5, <1>6 DEF FoldSteps

-----------------------------------------------------------------------------
\* One step of Walk, and Walk as the recursive function FoldLeft evaluates.
Taken(target, without, l, taken) ==
  IF l \notin without /\ target - SumOf(taken) >= Value[l] THEN taken \cup {l} ELSE taken
Walks(g, target, without, leaves) ==
  g = [T \in SUBSET DOMAIN leaves |->
         IF T = {} THEN {} ELSE Taken(target, without, leaves[Max(T)], g[T \ {Max(T)}])]

\* Walk as a recursive function over sets of places.
LEMMA WalkUnfolds ==
  ASSUME NEW target, NEW without, NEW leaves
  PROVE  Walk(target, without, leaves) = (CHOOSE g : Walks(g, target, without, leaves))[DOMAIN leaves]
BY DEF Walk, FoldLeft, MapThenFoldSet, Walks, Taken

\* The walk, one leaf after the other.
\* w[k] is what has been taken after k leaves.
WalkOf(w, target, without, leaves) ==
  /\ w \in [0..Len(leaves) -> SUBSET Leaf]
  /\ w[0] = {}
  /\ \A k \in DOMAIN leaves : w[k] = Taken(target, without, leaves[k], w[k - 1])
  /\ w[Len(leaves)] = Walk(target, without, leaves)

\* A walk takes the leaves one after the other.
LEMMA WalkIs ==
  ASSUME NEW n \in Nat, NEW leaves \in [1..n -> Leaf], NEW target, NEW without
  PROVE  /\ Len(leaves) = n /\ DOMAIN leaves = 1..n
         /\ \E w : WalkOf(w, target, without, leaves)
<1> DEFINE D == 1..n
           V == SUBSET Leaf
           b == {}
           H == [p \in D \X V |-> Taken(target, without, leaves[p[1]], p[2])]
<1>1. H \in [D \X V -> V] BY DEF Taken
<1>2. b \in V OBVIOUS
<1>3. \A k \in D, v \in V : H[<<k, v>>] = Taken(target, without, leaves[k], v) OBVIOUS
<1>0. D = 1..n OBVIOUS
<1> HIDE DEF D, V, H, b
<1>4. PICK f \in [SUBSET D -> V] :
Folds(f, D, b, H)
  BY <1>0, <1>1, <1>2, FoldExists
<1>5. ASSUME NEW T \in SUBSET D
      PROVE  f[T] = IF T = {} THEN {} ELSE Taken(target, without, leaves[Max(T)], f[T \ {Max(T)}])
  <2>1. CASE T = {} BY <1>4, <2>1 DEF b, Folds
  <2>2. CASE T # {}
    <3>1. Max(T) \in D BY <2>2, <1>0, MaxIn
    <3>2. f[T \ {Max(T)}] \in V OBVIOUS
    <3> QED BY <1>3, <1>4, <2>2, <3>1, <3>2 DEF Folds
  <2> QED BY <2>1, <2>2
<1>6. DOMAIN leaves = D BY <1>0
<1>7. Walks(f, target, without, leaves) BY <1>5, <1>6 DEF Walks
<1> DEFINE g == CHOOSE g : Walks(g, target, without, leaves)
<1>8. Walks(g, target, without, leaves) BY <1>7
<1>9. Walk(target, without, leaves) = g[D] BY <1>6, WalkUnfolds
<1> HIDE DEF g
<1>10. g[{}] = b BY <1>8 DEF Walks, b
<1>11. ASSUME NEW T \in SUBSET D, T # {}, g[T \ {Max(T)}] \in V
       PROVE  g[T] = H[<<Max(T), g[T \ {Max(T)}]>>]
  <2>1. Max(T) \in D BY <1>11, <1>0, MaxIn
  <2>2. g[T] = Taken(target, without, leaves[Max(T)], g[T \ {Max(T)}]) BY <1>6, <1>8, <1>11 DEF Walks
  <2> QED BY <1>3, <1>11, <2>1, <2>2
<1> HIDE DEF Taken
<1>15. FoldsWithin(g, D, V, b, H) BY <1>10, <1>11 DEF b, FoldsWithin
<1>12. PICK w : FoldSteps(w, n, V, b, H, g[D])
  BY <1>0, <1>1, <1>2, <1>15, FoldPrefixes
<1>13. \A k \in D : w[k - 1] \in V BY <1>0, <1>12 DEF FoldSteps
<1>14. \A k \in D : w[k] = Taken(target, without, leaves[k], w[k - 1]) BY <1>0, <1>3, <1>12, <1>13 DEF FoldSteps
<1>16. Len(leaves) = n OBVIOUS
<1> QED BY <1>0, <1>6, <1>9, <1>12, <1>14, <1>16 DEF V, b, FoldSteps, WalkOf

-----------------------------------------------------------------------------
(***************************************************************************)
(* Sorting.                                                                *)
(***************************************************************************)
\* R is total and transitive on S.
Orders(R, S) ==
  /\ \A x, y \in S : x # y => <<x, y>> \in R \/ <<y, x>> \in R
  /\ \A x, y, z \in S : <<x, y>> \in R /\ <<y, z>> \in R => <<x, z>> \in R

\* A finite set that is totally ordered has a last element.
LEMMA LastElement ==
  ASSUME NEW S, IsFiniteSet(S), S # {}, NEW R, Orders(R, S)
  PROVE  \E x \in S : \A y \in S : y # x => <<y, x>> \in R
<1> DEFINE Latest(T, x) == x \in T /\ \A y \in T : y # x => <<y, x>> \in R
           Bad == {T \in SUBSET S : T # {} /\ ~ \E x : Latest(T, x)}
<1> SUFFICES ASSUME Bad # {} PROVE FALSE OBVIOUS
<1>1. Bad \subseteq SUBSET S OBVIOUS
<1> HIDE DEF Bad
<1>2. PICK T \in Bad : \A X \in Bad : ~ (X \subseteq T /\ X # T) BY <1>1, FiniteMin
<1>3. T \in SUBSET S /\ T # {} /\ ~ \E x : Latest(T, x) BY DEF Bad
<1>4. PICK x \in T : TRUE BY <1>3
<1>7. \A W \in SUBSET T : W # T /\ W # {} => \E y : Latest(W, y)
  <2> HIDE DEF Latest
  <2> QED BY <1>2, <1>3 DEF Bad
<1> DEFINE W == T \ {x}
<1>5. CASE W = {} BY <1>3, <1>5
<1>6. CASE W # {}
  <2>1. W \in SUBSET S /\ W \subseteq T /\ W # T BY <1>3
  <2>2. PICK y : Latest(W, y)
    <3> HIDE DEF Latest, W
    <3> QED BY <1>7, <1>6, <2>1
  <2>3. CASE <<x, y>> \in R BY <1>3, <2>2, <2>3 DEF Orders
  <2>4. CASE <<x, y>> \notin R
    <3>1. <<y, x>> \in R BY <1>3, <2>2, <2>4 DEF Orders
    <3>2. Latest(T, x) BY <1>3, <2>2, <3>1 DEF Orders
    <3> QED BY <1>3, <3>2
  <2> QED BY <2>3, <2>4
<1> QED BY <1>5, <1>6

Sorted(s, R) == \A i, j \in DOMAIN s : i < j => <<s[i], s[j]>> \in R

\* A finite set that is totally ordered can be sorted.
LEMMA SortExists ==
  ASSUME NEW S, IsFiniteSet(S), NEW R, Orders(R, S)
  PROVE  \E s \in SetToSeqs(S) : Sorted(s, R)
<1> DEFINE Bad == {T \in SUBSET S : ~ \E s \in SetToSeqs(T) : Sorted(s, R)}
<1> SUFFICES ASSUME Bad # {} PROVE FALSE OBVIOUS
<1>1. Bad \subseteq SUBSET S OBVIOUS
<1> HIDE DEF Bad
<1>2. PICK T \in Bad : \A X \in Bad : ~ (X \subseteq T /\ X # T) BY <1>1, FiniteMin
<1>3. T \in SUBSET S /\ ~ \E s \in SetToSeqs(T) : Sorted(s, R) BY DEF Bad
<1>4. IsFiniteSet(T) BY <1>3, FS_Subset
<1>5. CASE T = {}
  <2>1. Cardinality(T) = 0 BY <1>5, FS_EmptySet
  <2> DEFINE s == [i \in 1..0 |-> 0]
  <2>2. s \in [1..Cardinality(T) -> T] /\ DOMAIN s = {} BY <2>1
  <2>3. s \in SetToSeqs(T) BY <2>1, <2>2 DEF SetToSeqs
  <2> QED BY <1>3, <2>2, <2>3 DEF Sorted
<1>6. CASE T # {}
  <2>0. Orders(R, T) BY <1>3 DEF Orders
  <2>1. PICK m \in T : \A y \in T : y # m => <<y, m>> \in R BY <1>4, <1>6, <2>0, LastElement
  <2> DEFINE W == T \ {m}
             k == Cardinality(W)
  <2>2. W \in SUBSET S /\ W \subseteq T /\ W # T BY <1>3
  <2>3. PICK s \in SetToSeqs(W) : Sorted(s, R) BY <1>2, <2>2 DEF Bad
  <2>4. IsFiniteSet(W) /\ Cardinality(T) = k + 1 /\ k \in Nat
    <3>1. IsFiniteSet(W) BY <1>4, FS_Subset
    <3>2. k \in Nat /\ Cardinality(T) \in Nat BY <1>4, <3>1, FS_CardinalityType
    <3>3. k = Cardinality(T) - 1 BY <1>4, FS_RemoveElement
    <3> QED BY <3>1, <3>2, <3>3
  <2>5. s \in [1..k -> W] /\ \A i, j \in 1..k : i # j => s[i] # s[j] BY DEF SetToSeqs
  <2> HIDE DEF W, k
  <2> DEFINE t == [i \in 1..(k + 1) |-> IF i = k + 1 THEN m ELSE s[i]]
  <2>6. \A i \in 1..(k + 1) : i # k + 1 => i \in 1..k BY <2>4
  <2>7. \A i \in 1..k : s[i] \in W /\ s[i] \in T /\ s[i] # m BY <2>5 DEF W
  <2>8. t \in [1..(k + 1) -> T] BY <2>6, <2>7
  <2>9. \A i, j \in 1..(k + 1) : i # j => t[i] # t[j] BY <2>5, <2>6, <2>7
  <2>10. \A i, j \in 1..(k + 1) : i < j => <<t[i], t[j]>> \in R
    <3> TAKE i, j \in 1..(k + 1)
    <3> HAVE i < j
    <3>1. i \in 1..k BY <2>4
    <3>2. CASE j = k + 1 BY <2>1, <2>7, <3>1, <3>2
    <3>3. CASE j # k + 1
      <4>1. j \in 1..k /\ DOMAIN s = 1..k BY <2>6, <3>3, <2>5
      <4>2. <<s[i], s[j]>> \in R BY <2>3, <3>1, <4>1 DEF Sorted
      <4> QED BY <3>1, <3>3, <4>2
    <3> QED BY <3>2, <3>3
  <2>11. t \in SetToSeqs(T)
    <3> HIDE DEF t
    <3> QED BY <2>4, <2>8, <2>9 DEF SetToSeqs
  <2>12. Sorted(t, R) BY <2>10 DEF Sorted
  <2> HIDE DEF t
  <2> QED BY <1>3, <2>11, <2>12
<1> QED BY <1>5, <1>6

-----------------------------------------------------------------------------
(***************************************************************************)
(* The worth of sets of leaves.                                            *)
(***************************************************************************)
\* The worth of leaves is a sum.
LEMMA SumIsOver == \A S : SumOf(S) = SumOver(Value, S)
BY DEF SumOf, SumOver

\* Sets of leaves are finite, and their values positive.
LEMMA Leaves ==
  ASSUME NEW S \in SUBSET Leaf
  PROVE  IsFiniteSet(S) /\ \A l \in S : Value[l] \in Nat /\ Value[l] > 0 /\ Value[l] \in Int
BY LeafSelectionAssumption, FS_Subset

\* The worth of a set of leaves, of one leaf more, and of a part.
LEMMA LeafSums ==
  ASSUME NEW S \in SUBSET Leaf
  PROVE  /\ SumOf(S) \in Nat
         /\ SumOf({}) = 0
         /\ \A l \in Leaf \ S : SumOf(S \cup {l}) = SumOf(S) + Value[l]
         /\ \A T \in SUBSET S : /\ SumOf(T) \in Nat
                                /\ SumOf(T) <= SumOf(S)
                                /\ SumOf(S) = SumOf(T) + SumOf(S \ T)
                                /\ SumOf(S \ T) \in Nat
<1>1. SumOf(S) \in Nat BY Leaves, SumNat, SumIsOver
<1>2. SumOf({}) = 0 BY SumEmpty, SumIsOver
<1>3. ASSUME NEW l \in Leaf \ S PROVE SumOf(S \cup {l}) = SumOf(S) + Value[l]
  <2>1. IsFiniteSet(S) /\ \A x \in S \cup {l} : Value[x] \in Int BY Leaves
  <2>2. SumOver(Value, S \cup {l}) = Value[l] + SumOver(Value, S) BY <2>1, SumAdd
  <2> QED BY <1>1, <2>1, <2>2, SumIsOver
<1>4. ASSUME NEW T \in SUBSET S
      PROVE SumOf(T) \in Nat /\ SumOf(T) <= SumOf(S) /\ SumOf(S) = SumOf(T) + SumOf(S \ T) /\ SumOf(S \ T) \in Nat
  <2>1. IsFiniteSet(S) /\ \A x \in S : Value[x] \in Nat BY Leaves
  <2>2. /\ SumOver(Value, T) \in Nat /\ SumOver(Value, S \ T) \in Nat
        /\ SumOver(Value, S) = SumOver(Value, T) + SumOver(Value, S \ T)
        /\ SumOver(Value, T) <= SumOver(Value, S)
    BY <2>1, SumMonotone
  <2> QED BY <2>2, SumIsOver
<1> QED BY <1>1, <1>2, <1>3, <1>4

-----------------------------------------------------------------------------
(***************************************************************************)
(* The inner loop of selectLeaves is greedy.                               *)
(***************************************************************************)
\* What the walk has taken: leaves it has met, worth no more than the target, and
\* never given back.
LEMMA WalkKeeps ==
  ASSUME NEW n \in Nat, NEW leaves \in [1..n -> Leaf], NEW target \in Nat, NEW without, NEW w,
         WalkOf(w, target, without, leaves), NEW k \in 0..n
  PROVE  /\ SumOf(w[k]) <= target
         /\ \A l \in w[k] : l \notin without /\ \E i \in 1..k : l = leaves[i]
         /\ \A m \in 0..k : w[m] \subseteq w[k]
<1> DEFINE Good(j) == /\ SumOf(w[j]) <= target
                      /\ \A l \in w[j] : l \notin without /\ \E i \in 1..j : l = leaves[i]
                      /\ \A m \in 0..j : w[m] \subseteq w[j]
           Bad == {j \in 0..n : ~ Good(j)}
<1> SUFFICES ASSUME Bad # {} PROVE FALSE OBVIOUS
<1>1. Bad \subseteq Nat OBVIOUS
<1>2. Len(leaves) = n /\ DOMAIN leaves = 1..n OBVIOUS
<1> HIDE DEF Bad
<1>3. PICK j \in Bad : \A m \in Bad : j <= m BY <1>1, LeastNat
<1>4. j \in 0..n /\ ~ Good(j) BY DEF Bad
<1>5. w \in [0..n -> SUBSET Leaf] /\ w[0] = {} BY <1>2 DEF WalkOf
<1>6. j # 0
  <2>1. SumOf(w[0]) = 0 BY <1>5, LeafSums
  <2>2. \A m \in 0..0 : w[m] = w[0] OBVIOUS
  <2>3. Good(0) BY <1>5, <2>1, <2>2
  <2> QED BY <1>4, <2>3
<1> DEFINE i == j - 1
           l == leaves[j]
<1>7. i \in 0..n /\ j \in 1..n /\ i + 1 = j /\ i \notin Bad BY <1>3, <1>4, <1>6
<1>8. Good(i)
  <2> HIDE DEF Good, i
  <2> QED BY <1>7 DEF Bad
<1>9. w[j] = Taken(target, without, l, w[i]) BY <1>2, <1>7 DEF WalkOf
<1>10. l \in Leaf /\ w[i] \in SUBSET Leaf BY <1>5, <1>7
<1>11. SumOf(w[j]) <= target /\ w[i] \subseteq w[j] /\ \A x \in w[j] : x \in w[i] \/ (x = l /\ l \notin without)
  <2>1. CASE l \notin without /\ target - SumOf(w[i]) >= Value[l]
    <3>1. w[j] = w[i] \cup {l} BY <1>9, <2>1 DEF Taken
    <3>2. CASE l \in w[i]
      <4>1. w[j] = w[i] BY <3>1, <3>2
      <4> QED BY <4>1, <1>8
    <3>3. CASE l \notin w[i]
      <4>1. SumOf(w[i] \cup {l}) = SumOf(w[i]) + Value[l] BY <1>10, <3>3, LeafSums
      <4>2. SumOf(w[i]) \in Nat /\ Value[l] \in Nat BY <1>10, LeafSums, LeafSelectionAssumption
      <4> QED BY <3>1, <4>1, <4>2, <2>1
    <3> QED BY <3>2, <3>3
  <2>2. CASE ~ (l \notin without /\ target - SumOf(w[i]) >= Value[l])
    <3>1. w[j] = w[i] BY <1>9, <2>2 DEF Taken
    <3> QED BY <3>1, <1>8
  <2> QED BY <2>1, <2>2
<1>12. \A x \in w[j] : x \notin without /\ \E m \in 1..j : x = leaves[m]
  <2> TAKE x \in w[j]
  <2>1. CASE x \in w[i] BY <1>7, <1>8, <2>1
  <2>2. CASE x = l /\ l \notin without BY <1>7, <2>2
  <2> QED BY <1>11, <2>1, <2>2
<1>13. \A m \in 0..j : w[m] \subseteq w[j]
  <2> TAKE m \in 0..j
  <2>1. CASE m = j BY <2>1
  <2>2. CASE m # j
    <3>1. m \in 0..i BY <1>7, <2>2
    <3> QED BY <1>8, <1>11, <3>1
  <2> QED BY <2>1, <2>2
<1> QED BY <1>4, <1>11, <1>12, <1>13

\* The leaves by descending value: each once, and all of them.
LEMMA DescendingIs ==
  ASSUME NEW S \in SUBSET Leaf, NEW leaves \in Descending(S)
  PROVE  /\ Cardinality(S) \in Nat
         /\ leaves \in [1..Cardinality(S) -> S]
         /\ leaves \in [1..Cardinality(S) -> Leaf]
         /\ \A i, j \in 1..Cardinality(S) : i < j => Value[leaves[i]] >= Value[leaves[j]]
         /\ \A i, j \in 1..Cardinality(S) : i # j => leaves[i] # leaves[j]
         /\ \A l \in S : \E i \in 1..Cardinality(S) : l = leaves[i]
<1> DEFINE n == Cardinality(S)
<1>1. IsFiniteSet(S) BY Leaves
<1>2. n \in Nat BY <1>1, FS_CardinalityType
<1>3. leaves \in [1..n -> S] /\ \A i, j \in 1..n : i # j => leaves[i] # leaves[j] BY DEF Descending, SetToSeqs
<1>4. \A i, j \in 1..n : i < j => Value[leaves[i]] >= Value[leaves[j]] BY <1>3 DEF Descending
<1> HIDE DEF n
<1>5. \A l \in S : \E i \in 1..n : l = leaves[i]
  <2>1. IsFiniteSet(1..n) /\ Cardinality(1..n) = n BY <1>2, FS_Interval
  <2>4. \A i, j \in 1..n : leaves[i] = leaves[j] => i = j BY <1>3
  <2>2. leaves \in Injection(1..n, S) BY <1>3, <2>4 DEF Injection, IsInjective
  <2>3. leaves \in Surjection(1..n, S) BY <1>1, <2>1, <2>2, FS_Injection DEF n
  <2> QED BY <2>3 DEF Surjection
<1>6. leaves \in [1..n -> Leaf] BY <1>3
<1> QED BY <1>2, <1>3, <1>4, <1>5, <1>6 DEF n

\* What the walk takes is greedy: a leaf it passed over did not fit.
LEMMA WalkIsGreedy ==
  ASSUME NEW S \in SUBSET Leaf, NEW leaves \in Descending(S), NEW target \in Nat, NEW without
  PROVE  IsGreedy(S \ without, target, Walk(target, without, leaves))
<1> DEFINE n == Cardinality(S)
           sel == Walk(target, without, leaves)
<1>1. /\ n \in Nat /\ leaves \in [1..n -> S] /\ leaves \in [1..n -> Leaf]
      /\ \A i, j \in 1..n : i < j => Value[leaves[i]] >= Value[leaves[j]]
      /\ \A l \in S : \E i \in 1..n : l = leaves[i]
  BY DescendingIs
<1> HIDE DEF n
<1>2. PICK w : WalkOf(w, target, without, leaves) BY <1>1, WalkIs
<1>3. Len(leaves) = n /\ DOMAIN leaves = 1..n BY <1>1
<1>4. w \in [0..n -> SUBSET Leaf] /\ w[n] = sel BY <1>2, <1>3 DEF WalkOf
<1> HIDE DEF sel
<1>5. n \in 0..n BY <1>1
<1>6. /\ SumOf(sel) <= target
      /\ \A l \in sel : l \notin without /\ \E i \in 1..n : l = leaves[i]
      /\ \A m \in 0..n : w[m] \subseteq sel
  BY <1>1, <1>2, <1>4, <1>5, WalkKeeps
<1>7. sel \subseteq S \ without BY <1>1, <1>6
<1>8. ASSUME NEW l \in (S \ without) \ sel
      PROVE  SumOf({k \in sel : Value[k] >= Value[l]}) + Value[l] > target
  <2>1. PICK j \in 1..n : l = leaves[j] BY <1>1
  <2> DEFINE i == j - 1
             above == {k \in sel : Value[k] >= Value[l]}
  <2>2. i \in 0..n /\ i < j /\ j \in 0..n BY <1>1
  <2>3. w[j] = Taken(target, without, l, w[i]) BY <1>2, <1>3, <2>1 DEF WalkOf
  <2>4. w[j] \subseteq sel /\ w[i] \subseteq sel BY <1>6, <2>2
  <2>5. target - SumOf(w[i]) < Value[l] \/ ~ (target - SumOf(w[i]) >= Value[l])
    BY <2>3, <2>4 DEF Taken
  <2>6. \A k \in w[i] : k \in above
    <3> TAKE k \in w[i]
    <3>1. PICK m \in 1..i : k = leaves[m] BY <1>1, <1>2, <2>2, WalkKeeps
    <3>2. m \in 1..n /\ m < j BY <1>1, <2>2
    <3>3. Value[k] >= Value[l] BY <1>1, <2>1, <3>1, <3>2
    <3> QED BY <2>4, <3>3
  <2>7. above \in SUBSET Leaf /\ w[i] \in SUBSET above BY <1>7, <2>6
  <2> HIDE DEF above
  <2>8. SumOf(w[i]) <= SumOf(above) /\ SumOf(w[i]) \in Nat /\ SumOf(above) \in Nat BY <2>7, LeafSums
  <2>9. Value[l] \in Nat BY LeafSelectionAssumption
  <2> QED BY <2>5, <2>8, <2>9 DEF above
<1> QED BY <1>6, <1>7, <1>8 DEF IsGreedy, sel

-----------------------------------------------------------------------------
(***************************************************************************)
(* determineLeavesToSwap gathers the smallest leaves.                      *)
(***************************************************************************)
\* One step of Gather, and Gather as the recursive function FoldLeft evaluates.
Gathered(target, l, taken) == IF SumOf(taken) >= target THEN taken ELSE taken \cup {l}
Gathers(g, target, leaves) ==
  g = [T \in SUBSET DOMAIN leaves |->
         IF T = {} THEN {} ELSE Gathered(target, leaves[Max(T)], g[T \ {Max(T)}])]
\* w[k] is what has been gathered after k leaves.
GatherOf(w, target, leaves) ==
  /\ w \in [0..Len(leaves) -> SUBSET Leaf]
  /\ w[0] = {}
  /\ \A k \in DOMAIN leaves : w[k] = Gathered(target, leaves[k], w[k - 1])
  /\ w[Len(leaves)] = Gather(target, leaves)

\* Gather as a recursive function over sets of places.
LEMMA GatherUnfolds ==
  ASSUME NEW target, NEW leaves
  PROVE  Gather(target, leaves) = (CHOOSE g : Gathers(g, target, leaves))[DOMAIN leaves]
BY DEF Gather, FoldLeft, MapThenFoldSet, Gathers, Gathered

\* The leaves are gathered one after the other.
LEMMA GatherIs ==
  ASSUME NEW n \in Nat, NEW leaves \in [1..n -> Leaf], NEW target
  PROVE  /\ Len(leaves) = n /\ DOMAIN leaves = 1..n
         /\ \E w : GatherOf(w, target, leaves)
<1> DEFINE D == 1..n
           V == SUBSET Leaf
           b == {}
           H == [p \in D \X V |-> Gathered(target, leaves[p[1]], p[2])]
<1>1. H \in [D \X V -> V] BY DEF Gathered
<1>2. b \in V OBVIOUS
<1>3. \A k \in D, v \in V : H[<<k, v>>] = Gathered(target, leaves[k], v) OBVIOUS
<1>0. D = 1..n OBVIOUS
<1> HIDE DEF D, V, H, b
<1>4. PICK f \in [SUBSET D -> V] :
Folds(f, D, b, H)
  BY <1>0, <1>1, <1>2, FoldExists
<1>5. ASSUME NEW T \in SUBSET D
      PROVE  f[T] = IF T = {} THEN {} ELSE Gathered(target, leaves[Max(T)], f[T \ {Max(T)}])
  <2>1. CASE T = {} BY <1>4, <2>1 DEF b, Folds
  <2>2. CASE T # {}
    <3>1. Max(T) \in D BY <2>2, <1>0, MaxIn
    <3>2. f[T \ {Max(T)}] \in V OBVIOUS
    <3> QED BY <1>3, <1>4, <2>2, <3>1, <3>2 DEF Folds
  <2> QED BY <2>1, <2>2
<1>6. DOMAIN leaves = D BY <1>0
<1>7. Gathers(f, target, leaves) BY <1>5, <1>6 DEF Gathers
<1> DEFINE g == CHOOSE g : Gathers(g, target, leaves)
<1>8. Gathers(g, target, leaves) BY <1>7
<1>9. Gather(target, leaves) = g[D] BY <1>6, GatherUnfolds
<1> HIDE DEF g
<1>10. g[{}] = b BY <1>8 DEF Gathers, b
<1>11. ASSUME NEW T \in SUBSET D, T # {}, g[T \ {Max(T)}] \in V
       PROVE  g[T] = H[<<Max(T), g[T \ {Max(T)}]>>]
  <2>1. Max(T) \in D BY <1>11, <1>0, MaxIn
  <2>2. g[T] = Gathered(target, leaves[Max(T)], g[T \ {Max(T)}]) BY <1>6, <1>8, <1>11 DEF Gathers
  <2> QED BY <1>3, <1>11, <2>1, <2>2
<1> HIDE DEF Gathered
<1>15. FoldsWithin(g, D, V, b, H) BY <1>10, <1>11 DEF b, FoldsWithin
<1>12. PICK w : FoldSteps(w, n, V, b, H, g[D])
  BY <1>0, <1>1, <1>2, <1>15, FoldPrefixes
<1>13. \A k \in D : w[k - 1] \in V BY <1>0, <1>12 DEF FoldSteps
<1>14. \A k \in D : w[k] = Gathered(target, leaves[k], w[k - 1]) BY <1>0, <1>3, <1>12, <1>13 DEF FoldSteps
<1>16. Len(leaves) = n OBVIOUS
<1> QED BY <1>0, <1>6, <1>9, <1>12, <1>14, <1>16 DEF V, b, FoldSteps, GatherOf

\* The first k leaves.
First(leaves, k) == {leaves[i] : i \in 1..k}

\* The first leaves are gathered, until they are enough and no longer.
LEMMA GatherStops ==
  ASSUME NEW n \in Nat, NEW leaves \in [1..n -> Leaf], NEW target \in Nat, NEW w,
         GatherOf(w, target, leaves), NEW k \in 0..n
  PROVE  \E m \in 0..k : /\ w[k] = First(leaves, m)
                         /\ m > 0 => SumOf(First(leaves, m - 1)) < target
                         /\ m < k => SumOf(First(leaves, m)) >= target
<1> DEFINE Stop(j, m) == /\ w[j] = First(leaves, m)
                         /\ m > 0 => SumOf(First(leaves, m - 1)) < target
                         /\ m < j => SumOf(First(leaves, m)) >= target
           Bad == {j \in 0..n : ~ \E m \in 0..j : Stop(j, m)}
<1> SUFFICES ASSUME Bad # {} PROVE FALSE OBVIOUS
<1>1. Bad \subseteq Nat OBVIOUS
<1>2. Len(leaves) = n /\ DOMAIN leaves = 1..n OBVIOUS
<1> HIDE DEF Bad
<1>3. PICK j \in Bad : \A m \in Bad : j <= m BY <1>1, LeastNat
<1>4. j \in 0..n /\ ~ \E m \in 0..j : Stop(j, m) BY DEF Bad
<1>5. w \in [0..n -> SUBSET Leaf] /\ w[0] = {} BY <1>2 DEF GatherOf
<1>6. j # 0
  <2>1. First(leaves, 0) = {} BY DEF First
  <2>2. Stop(0, 0) BY <1>5, <2>1
  <2>3. 0 \in 0..0 OBVIOUS
  <2> QED BY <1>4, <2>2, <2>3
<1> DEFINE i == j - 1
<1>7. i \in 0..n /\ j \in 1..n /\ i + 1 = j /\ i \notin Bad BY <1>3, <1>4, <1>6
<1>8. PICK m \in 0..i : Stop(i, m)
  <2> HIDE DEF Stop, i
  <2> QED BY <1>7 DEF Bad
<1>9. w[j] = Gathered(target, leaves[j], w[i]) BY <1>2, <1>7 DEF GatherOf
<1>10. CASE SumOf(w[i]) >= target
  <2>1. w[j] = w[i] BY <1>9, <1>10 DEF Gathered
  <2>2. m \in 0..j BY <1>7
  <2>3. Stop(j, m) BY <1>8, <1>10, <2>1
  <2> QED BY <1>4, <2>2, <2>3
<1>11. CASE ~ (SumOf(w[i]) >= target)
  <2>1. w[j] = w[i] \cup {leaves[j]} BY <1>9, <1>11 DEF Gathered
  <2>2. w[i] \in SUBSET Leaf BY <1>5, <1>7
  <2>3. SumOf(w[i]) < target BY <1>11, <2>2, LeafSums
  <2>4. m = i
    <3>1. m < i => SumOf(w[i]) >= target BY <1>8
    <3>2. m \in Nat /\ i \in Nat /\ m <= i BY <1>7
    <3> HIDE DEF i
    <3> QED BY <3>1, <3>2, <1>11
  <2>5. First(leaves, j) = First(leaves, i) \cup {leaves[j]}
    <3>1. 1..j = (1..i) \cup {j} BY <1>7
    <3> QED BY <3>1 DEF First
  <2>8. w[i] = First(leaves, i) BY <1>8, <2>4
  <2>9. w[j] = First(leaves, j) BY <2>1, <2>5, <2>8
  <2>10. j - 1 = i /\ SumOf(First(leaves, i)) < target BY <2>3, <2>8
  <2>11. SumOf(First(leaves, j - 1)) < target
    <3> HIDE DEF i
    <3> QED BY <2>10
  <2>6. Stop(j, j)
    <3> HIDE DEF i
    <3> QED BY <1>7, <2>9, <2>11
  <2>7. j \in 0..j BY <1>7
  <2> QED BY <1>4, <2>6, <2>7
<1> QED BY <1>10, <1>11

\* The leaves by ascending value: each once, and all of them.
LEMMA AscendingIs ==
  ASSUME NEW S \in SUBSET Leaf, NEW leaves \in Ascending(S)
  PROVE  /\ Cardinality(S) \in Nat
         /\ leaves \in [1..Cardinality(S) -> S]
         /\ leaves \in [1..Cardinality(S) -> Leaf]
         /\ \A i, j \in 1..Cardinality(S) : i < j => Value[leaves[i]] <= Value[leaves[j]]
         /\ \A i, j \in 1..Cardinality(S) : i # j => leaves[i] # leaves[j]
         /\ \A l \in S : \E i \in 1..Cardinality(S) : l = leaves[i]
<1> DEFINE n == Cardinality(S)
<1>1. IsFiniteSet(S) BY Leaves
<1>2. n \in Nat BY <1>1, FS_CardinalityType
<1>3. leaves \in [1..n -> S] /\ \A i, j \in 1..n : i # j => leaves[i] # leaves[j] BY DEF Ascending, SetToSeqs
<1>4. \A i, j \in 1..n : i < j => Value[leaves[i]] <= Value[leaves[j]] BY <1>3 DEF Ascending
<1> HIDE DEF n
<1>5. \A l \in S : \E i \in 1..n : l = leaves[i]
  <2>1. IsFiniteSet(1..n) /\ Cardinality(1..n) = n BY <1>2, FS_Interval
  <2>4. \A i, j \in 1..n : leaves[i] = leaves[j] => i = j BY <1>3
  <2>2. leaves \in Injection(1..n, S) BY <1>3, <2>4 DEF Injection, IsInjective
  <2>3. leaves \in Surjection(1..n, S) BY <1>1, <2>1, <2>2, FS_Injection DEF n
  <2> QED BY <2>3 DEF Surjection
<1>6. leaves \in [1..n -> Leaf] BY <1>3
<1> QED BY <1>2, <1>3, <1>4, <1>5, <1>6 DEF n

\* What is gathered are leaves to swap, or all there are.
LEMMA GatherIsEnough ==
  ASSUME NEW S \in SUBSET Leaf, NEW leaves \in Ascending(S), NEW target \in Nat
  PROVE  LET sel == Gather(target, leaves)
         IN  /\ sel \in SUBSET S
             /\ SumOf(sel) >= target => sel \in determineLeavesToSwap(S, target)
             /\ SumOf(sel) < target => sel = S
<1> DEFINE n == Cardinality(S)
           sel == Gather(target, leaves)
<1>1. /\ n \in Nat /\ leaves \in [1..n -> S] /\ leaves \in [1..n -> Leaf]
      /\ \A i, j \in 1..n : i < j => Value[leaves[i]] <= Value[leaves[j]]
      /\ \A i, j \in 1..n : i # j => leaves[i] # leaves[j]
      /\ \A l \in S : \E i \in 1..n : l = leaves[i]
  BY AscendingIs
<1> HIDE DEF n
<1>2. PICK w : GatherOf(w, target, leaves) BY <1>1, GatherIs
<1>3. Len(leaves) = n /\ DOMAIN leaves = 1..n BY <1>1
<1>4. w[n] = sel BY <1>2, <1>3 DEF GatherOf
<1> HIDE DEF sel
<1>5. n \in 0..n BY <1>1
<1>6. PICK m \in 0..n : /\ sel = First(leaves, m)
                        /\ m > 0 => SumOf(First(leaves, m - 1)) < target
                        /\ m < n => SumOf(First(leaves, m)) >= target
  BY <1>1, <1>2, <1>4, <1>5, GatherStops
<1>7. \A i \in 1..m : i \in 1..n BY <1>1
<1>8. sel \in SUBSET S BY <1>1, <1>6, <1>7 DEF First
<1>9. SumOf(sel) \in Nat BY <1>8, LeafSums
<1>10. SumOf(sel) < target => sel = S
  <2> SUFFICES ASSUME SumOf(sel) < target PROVE S \subseteq sel BY <1>8
  <2>1. m = n BY <1>1, <1>6, <1>9
  <2> QED BY <1>1, <1>6, <2>1 DEF First
<1>11. ASSUME NEW l \in sel, NEW k \in S \ sel PROVE Value[l] <= Value[k]
  <2>1. PICK i \in 1..m : l = leaves[i] BY <1>6 DEF First
  <2>2. PICK j \in 1..n : k = leaves[j] BY <1>1
  <2>3. j \notin 1..m BY <1>6, <2>2 DEF First
  <2>4. i < j /\ i \in 1..n BY <2>3, <1>7
  <2> QED BY <1>1, <2>1, <2>2, <2>4
<1>12. ASSUME NEW l \in sel, \A k \in sel : Value[k] <= Value[l] PROVE SumOf(sel \ {l}) < target
  <2>1. m > 0 /\ m \in 1..n
    <3>1. 1..0 = {} OBVIOUS
    <3>2. m # 0 BY <1>6, <3>1 DEF First
    <3> QED BY <3>2
  <2> DEFINE last == leaves[m]
             rest == First(leaves, m - 1)
  <2>2. last \in sel BY <1>6, <2>1 DEF First
  <2>3. Value[last] <= Value[l] BY <1>12, <2>2
  <2>4. rest = sel \ {last}
    <3>1. \A i \in 1..m : i \in 1..(m - 1) \/ i = m OBVIOUS
    <3>2. sel \subseteq rest \cup {last} BY <1>6, <3>1 DEF First
    <3>3. \A i \in 1..(m - 1) : i \in 1..m /\ i # m /\ i \in 1..n BY <1>1, <2>1
    <3>4. rest \subseteq sel BY <1>6, <3>3 DEF First
    <3>5. last \notin rest
      <4> SUFFICES ASSUME NEW i \in 1..(m - 1), leaves[i] = leaves[m] PROVE FALSE BY DEF First
      <4> QED BY <1>1, <2>1, <3>3
    <3> QED BY <3>2, <3>4, <3>5
  <2>5. sel \in SUBSET Leaf /\ {l} \in SUBSET sel /\ {last} \in SUBSET sel BY <1>8, <2>2
  <2>6. \A x \in sel : SumOf(sel) = Value[x] + SumOf(sel \ {x}) /\ SumOf(sel \ {x}) \in Nat
    <3> TAKE x \in sel
    <3> DEFINE less == sel \ {x}
    <3>1. less \in SUBSET Leaf /\ x \in Leaf \ less /\ less \cup {x} = sel BY <2>5
    <3> HIDE DEF less
    <3>2. SumOf(less \cup {x}) = SumOf(less) + Value[x] BY <3>1, LeafSums
    <3>3. SumOf(less) \in Nat BY <3>1, LeafSums
    <3>4. Value[x] \in Nat BY <3>1, LeafSelectionAssumption
    <3>5. SumOf(sel) = Value[x] + SumOf(less) BY <3>1, <3>2, <3>3, <3>4
    <3> QED BY <3>3, <3>5 DEF less
  <2>7. SumOf(rest) < target BY <1>6, <2>1
  <2>8. Value[l] \in Nat /\ Value[last] \in Nat BY <2>2, <2>5, LeafSelectionAssumption
  <2>9. SumOf(sel) = Value[last] + SumOf(rest) /\ SumOf(rest) \in Nat BY <2>2, <2>4, <2>6
  <2>10. SumOf(sel) = Value[l] + SumOf(sel \ {l}) /\ SumOf(sel \ {l}) \in Nat BY <2>6
  <2> QED BY <2>3, <2>7, <2>8, <2>9, <2>10
<1>13. SumOf(sel) >= target => sel \in determineLeavesToSwap(S, target)
  BY <1>8, <1>11, <1>12 DEF determineLeavesToSwap, IsLeavesToSwap
<1> QED BY <1>8, <1>10, <1>13 DEF sel

\* One value of the summed function changes.
LEMMA SumUpdate ==
  ASSUME NEW S, IsFiniteSet(S), NEW x \in S, NEW f, NEW g, \A y \in S : f[y] \in Int,
         g[x] \in Int, \A y \in S \ {x} : g[y] = f[y]
  PROVE  SumOver(g, S) = SumOver(f, S) - f[x] + g[x]
<1> DEFINE R == S \ {x}
<1>1. IsFiniteSet(R) /\ \A y \in R : f[y] \in Int /\ g[y] = f[y] BY FS_Subset
<1>2. \A y \in S : g[y] \in Int OBVIOUS
<1>3. SumOver(f, S) = f[x] + SumOver(f, R) BY SumRemove
<1>4. SumOver(g, S) = g[x] + SumOver(g, R) BY <1>2, SumRemove
<1> HIDE DEF R
<1>5. SumOver(f, R) = SumOver(g, R) BY <1>1, SumSame
<1>6. SumOver(f, R) \in Int BY <1>1, SumType
<1> QED BY <1>3, <1>4, <1>5, <1>6

\* A sum of smaller parts is smaller, and equal only when every part is.
LEMMA SumBelow ==
  ASSUME NEW S, IsFiniteSet(S), NEW f, NEW g, \A x \in S : f[x] \in Nat /\ g[x] \in Nat /\ f[x] <= g[x]
  PROVE  SumOver(f, S) <= SumOver(g, S)
<1> DEFINE Bad == {T \in SUBSET S : ~ (SumOver(f, T) <= SumOver(g, T))}
<1> SUFFICES ASSUME Bad # {} PROVE FALSE OBVIOUS
<1>1. Bad \subseteq SUBSET S OBVIOUS
<1> HIDE DEF Bad
<1>2. PICK T \in Bad : \A X \in Bad : ~ (X \subseteq T /\ X # T) BY <1>1, FiniteMin
<1>3. T \in SUBSET S /\ ~ (SumOver(f, T) <= SumOver(g, T)) BY DEF Bad
<1>4. PICK x \in T : TRUE BY <1>3, SumEmpty
<1> DEFINE W == T \ {x}
<1>5. W \in SUBSET S /\ W \subseteq T /\ W # T BY <1>3
<1>6. SumOver(f, W) <= SumOver(g, W) BY <1>2, <1>5 DEF Bad
<1>7. /\ IsFiniteSet(T) /\ (\A y \in T : f[y] \in Int /\ g[y] \in Int)
      /\ f[x] \in Nat /\ g[x] \in Nat /\ f[x] <= g[x]
  BY <1>3, FS_Subset
<1>8. SumOver(f, T) = f[x] + SumOver(f, W) BY <1>7, SumRemove
<1>9. SumOver(g, T) = g[x] + SumOver(g, W) BY <1>7, SumRemove
<1>10. IsFiniteSet(W) /\ (\A y \in W : f[y] \in Nat /\ g[y] \in Nat) BY <1>3, FS_Subset
<1> HIDE DEF W
<1>11. SumOver(f, W) \in Nat /\ SumOver(g, W) \in Nat BY <1>10, SumNat
<1> QED BY <1>3, <1>6, <1>7, <1>8, <1>9, <1>11

\* Of two equal sums with smaller parts in the first, the parts are equal.
LEMMA SumTight ==
  ASSUME NEW S, IsFiniteSet(S), NEW f, NEW g, \A x \in S : f[x] \in Nat /\ g[x] \in Nat /\ f[x] <= g[x],
         SumOver(f, S) = SumOver(g, S), NEW x \in S
  PROVE  f[x] = g[x]
<1> DEFINE R == S \ {x}
<1>1. IsFiniteSet(R) /\ \A y \in R : f[y] \in Nat /\ g[y] \in Nat /\ f[y] <= g[y] BY FS_Subset
<1>2. \A y \in S : f[y] \in Int /\ g[y] \in Int OBVIOUS
<1>3. SumOver(f, S) = f[x] + SumOver(f, R) BY <1>2, SumRemove
<1>4. SumOver(g, S) = g[x] + SumOver(g, R) BY <1>2, SumRemove
<1> HIDE DEF R
<1>5. SumOver(f, R) <= SumOver(g, R) BY <1>1, SumBelow
<1>6. SumOver(f, R) \in Nat /\ SumOver(g, R) \in Nat BY <1>1, SumNat
<1>7. f[x] \in Nat /\ g[x] \in Nat /\ f[x] <= g[x] OBVIOUS
<1>8. f[x] + SumOver(f, R) = g[x] + SumOver(g, R) BY <1>3, <1>4
<1> QED BY <1>5, <1>6, <1>7, <1>8

-----------------------------------------------------------------------------
(***************************************************************************)
(* Batches of leaves.                                                      *)
(***************************************************************************)
Batched(bs, T) == UNION {bs[i] : i \in T}
Worths(bs, D) == [i \in D |-> SumOf(bs[i])]
Disjoint(bs, D) == \A i, j \in D : i # j => bs[i] \cap bs[j] = {}

\* The worth of disjoint batches is the sum of their worths.
LEMMA BatchSum ==
  ASSUME NEW D, IsFiniteSet(D), NEW bs \in [D -> SUBSET Leaf], Disjoint(bs, D), NEW S \in SUBSET D
  PROVE  /\ \A i \in D : Worths(bs, D)[i] \in Nat
         /\ SumOf(Batched(bs, S)) = SumOver(Worths(bs, D), S)
<1> DEFINE f == Worths(bs, D)
           Bad == {T \in SUBSET S : SumOf(Batched(bs, T)) # SumOver(f, T)}
<1>0. \A i \in D : f[i] = SumOf(bs[i]) /\ f[i] \in Nat /\ f[i] \in Int BY LeafSums DEF Worths
<1> HIDE DEF f
<1> SUFFICES ASSUME Bad # {} PROVE FALSE BY <1>0 DEF f
<1>1. Bad \subseteq SUBSET S OBVIOUS
<1> HIDE DEF Bad
<1>2. IsFiniteSet(S) BY FS_Subset
<1>3. PICK T \in Bad : \A X \in Bad : ~ (X \subseteq T /\ X # T) BY <1>1, <1>2, FiniteMin
<1>4. T \in SUBSET S /\ SumOf(Batched(bs, T)) # SumOver(f, T) BY DEF Bad
<1>5. T # {}
  <2> SUFFICES ASSUME T = {} PROVE FALSE OBVIOUS
  <2>1. Batched(bs, T) = {} BY DEF Batched
  <2> QED BY <1>4, <2>1, SumEmpty, SumIsOver
<1>6. PICK x \in T : TRUE BY <1>5
<1> DEFINE W == T \ {x}
<1>7. W \in SUBSET S /\ W \subseteq T /\ W # T BY <1>4
<1>8. SumOf(Batched(bs, W)) = SumOver(f, W) BY <1>3, <1>7 DEF Bad
<1>9. IsFiniteSet(T) /\ (\A y \in T : f[y] \in Int) BY <1>0, <1>2, <1>4, FS_Subset
<1>10. SumOver(f, T) = f[x] + SumOver(f, W) BY <1>9, SumRemove
<1>11. IsFiniteSet(W) /\ \A y \in W : f[y] \in Nat BY <1>0, <1>7, <1>9, FS_Subset
<1>12. x \in D /\ \A y \in W : y \in D /\ y # x BY <1>4
<1>13. T = W \cup {x} OBVIOUS
<1> HIDE DEF W
<1>14. SumOver(f, W) \in Nat BY <1>11, SumNat
<1> DEFINE A == Batched(bs, W)
           B == bs[x]
<1>15. Batched(bs, T) = A \cup B BY <1>13 DEF Batched
<1>16. A \in SUBSET Leaf /\ B \in SUBSET Leaf /\ A \cap B = {}
  <2>1. \A y \in W : bs[y] \in SUBSET Leaf /\ bs[y] \cap B = {} BY <1>12 DEF Disjoint
  <2>2. B \in SUBSET Leaf BY <1>12
  <2> QED BY <2>1, <2>2 DEF Batched
<1>17. SumOf(B) = f[x] BY <1>0, <1>12
<1> HIDE DEF A, B
<1>18. SumOf(A \cup B) = SumOf(A) + SumOf(B)
  <2>1. IsFiniteSet(A) /\ IsFiniteSet(B) /\ \A y \in A \cup B : Value[y] \in Int BY <1>16, Leaves
  <2>2. SumOver(Value, A \cup B) = SumOver(Value, A) + SumOver(Value, B) BY <1>16, <2>1, SumUnion
  <2> QED BY <2>2, SumIsOver
<1>19. SumOf(A) \in Nat /\ f[x] \in Nat BY <1>16, LeafSums, <1>0, <1>12
<1>20. SumOf(A) = SumOver(f, W) BY <1>8 DEF A
<1> QED BY <1>4, <1>10, <1>14, <1>15, <1>17, <1>18, <1>19, <1>20

-----------------------------------------------------------------------------
(***************************************************************************)
(* The order in which the targets are served.                              *)
(***************************************************************************)
\* A sequence of a finite set holds every element once.
LEMMA SeqOfSet ==
  ASSUME NEW S, IsFiniteSet(S), NEW n, n = Cardinality(S), NEW s \in SetToSeqs(S)
  PROVE  /\ n \in Nat
         /\ s \in [1..n -> S]
         /\ DOMAIN s = 1..n
         /\ \A i, j \in 1..n : i # j => s[i] # s[j]
         /\ \A x \in S : \E i \in 1..n : x = s[i]
<1>1. n \in Nat BY FS_CardinalityType
<1>2. s \in [1..n -> S] /\ DOMAIN s = 1..n /\ \A i, j \in 1..n : i # j => s[i] # s[j] BY DEF SetToSeqs
<1>3. \A x \in S : \E i \in 1..n : x = s[i]
  <2>1. IsFiniteSet(1..n) /\ Cardinality(1..n) = n BY <1>1, FS_Interval
  <2>2. \A i, j \in 1..n : s[i] = s[j] => i = j BY <1>2
  <2>3. s \in Injection(1..n, S) BY <1>2, <2>2 DEF Injection, IsInjective
  <2>4. s \in Surjection(1..n, S) BY <2>1, <2>3, FS_Injection
  <2> QED BY <2>4 DEF Surjection
<1> QED BY <1>1, <1>2, <1>3

\* The first k places, and what Places is.
Firsts(p, k) == {p[m] : m \in 1..k}
Serves(p, amounts, n) ==
  /\ p \in [1..n -> 1..n]
  /\ \A i, j \in 1..n : i < j => ServedBefore(amounts, p[i], p[j])
  /\ \A i, j \in 1..n : i # j => p[i] # p[j]
  /\ \A i \in 1..n : \E k \in 1..n : i = p[k]

\* Places lists every target once, in the order they are served.
LEMMA PlacesIs ==
  ASSUME NEW n \in Nat, targets \in [1..n -> Nat]
  PROVE  DOMAIN targets = 1..n /\ Len(targets) = n /\ Serves(Places, targets, n)
<1>1. DOMAIN targets = 1..n /\ Len(targets) = n OBVIOUS
<1> DEFINE D == 1..n
           R == {q \in D \X D : ServedBefore(targets, q[1], q[2])}
<1>2. IsFiniteSet(D) /\ Cardinality(D) = n BY FS_Interval
<1>3. \A i, j \in D : <<i, j>> \in R <=> ServedBefore(targets, i, j) OBVIOUS
<1>4. \A i \in D : i \in Int /\ targets[i] \in Int OBVIOUS
<1> HIDE DEF D, R
<1>5. Orders(R, D)
  <2>1. ASSUME NEW x \in D, NEW y \in D, x # y PROVE <<x, y>> \in R \/ <<y, x>> \in R
    <3>1. x \in Int /\ y \in Int /\ targets[x] \in Int /\ targets[y] \in Int BY <1>4
    <3>2. x < y \/ y < x BY <2>1, <3>1
    <3>3. targets[x] < targets[y] \/ targets[y] < targets[x] \/ targets[x] = targets[y] BY <3>1
    <3>4. ServedBefore(targets, x, y) \/ ServedBefore(targets, y, x) BY <3>2, <3>3 DEF ServedBefore
    <3> QED BY <1>3, <3>4
  <2>2. ASSUME NEW x \in D, NEW y \in D, NEW z \in D, <<x, y>> \in R, <<y, z>> \in R
        PROVE  <<x, z>> \in R
    <3>1. ServedBefore(targets, x, y) /\ ServedBefore(targets, y, z) BY <1>3, <2>2
    <3>2. /\ x \in Int /\ y \in Int /\ z \in Int
          /\ targets[x] \in Int /\ targets[y] \in Int /\ targets[z] \in Int
      BY <1>4
    <3>3. ServedBefore(targets, x, z) BY <3>1, <3>2 DEF ServedBefore
    <3> QED BY <1>3, <3>3
  <2> QED BY <2>1, <2>2 DEF Orders
<1>6. PICK s \in SetToSeqs(D) : Sorted(s, R) BY <1>2, <1>5, SortExists
<1>7. \A t \in SetToSeqs(D) : t \in [1..n -> D] /\ DOMAIN t = 1..n BY <1>2, SeqOfSet
<1>8. \A i, j \in DOMAIN s : i < j => ServedBefore(targets, s[i], s[j]) BY <1>3, <1>6, <1>7 DEF Sorted
<1>9. Places \in SetToSeqs(D) /\ \A i, j \in DOMAIN Places : i < j => ServedBefore(targets, Places[i], Places[j])
  <2>1. DOMAIN targets = D BY <1>1 DEF D
  <2>2. Places = CHOOSE t \in SetToSeqs(D) : \A i, j \in DOMAIN t : i < j => ServedBefore(targets, t[i], t[j])
    BY <2>1 DEF Places
  <2> QED BY <1>6, <1>8, <2>2
<1> DEFINE p == Places
<1>10. p \in [1..n -> D] /\ DOMAIN p = 1..n BY <1>7, <1>9
<1>11. p \in SetToSeqs(D) /\ \A i, j \in 1..n : i < j => ServedBefore(targets, p[i], p[j]) BY <1>9, <1>10
<1> HIDE DEF p
<1>14. \A t \in SetToSeqs(D) : /\ \A i, j \in 1..n : i # j => t[i] # t[j]
                              /\ \A i \in D : \E k \in 1..n : i = t[k]
  <2> TAKE t \in SetToSeqs(D)
  <2>1. IsFiniteSet(D) /\ n = Cardinality(D) BY <1>2
  <2> QED BY <2>1, SeqOfSet
<1>12. (\A i, j \in 1..n : i # j => p[i] # p[j]) /\ \A i \in D : \E k \in 1..n : i = p[k]
  BY <1>11, <1>14
<1>13. Serves(p, targets, n) BY <1>10, <1>11, <1>12 DEF Serves, D
<1> QED BY <1>1, <1>13 DEF p

\* The targets served before one are those at earlier places.
EarlierPlaces(amounts, n, p, k) == {i \in 1..n : ServedBefore(amounts, i, p[k])} = Firsts(p, k - 1)

LEMMA ServedEarlier ==
  ASSUME NEW n \in Nat, NEW amounts \in [1..n -> Nat], NEW p, Serves(p, amounts, n), NEW k \in 1..n
  PROVE  EarlierPlaces(amounts, n, p, k)
<1>1. ASSUME NEW m \in 1..(k - 1) PROVE p[m] \in 1..n /\ ServedBefore(amounts, p[m], p[k])
  <2>1. m \in 1..n /\ m < k OBVIOUS
  <2> QED BY <2>1 DEF Serves
<1>2. ASSUME NEW i \in 1..n, ServedBefore(amounts, i, p[k]) PROVE \E m \in 1..(k - 1) : i = p[m]
  <2>1. PICK m \in 1..n : i = p[m] BY DEF Serves
  <2>2. p[k] \in 1..n BY DEF Serves
  <2>3. m < k
    <3> SUFFICES ASSUME ~ (m < k) PROVE FALSE OBVIOUS
    <3>1. m = k \/ k < m OBVIOUS
    <3>2. CASE m = k BY <1>2, <2>1, <3>2 DEF ServedBefore
    <3>3. CASE k < m
      <4>1. ServedBefore(amounts, p[k], i) BY <2>1, <3>3 DEF Serves
      <4> QED BY <1>2, <2>2, <4>1 DEF ServedBefore
    <3> QED BY <3>1, <3>2, <3>3
  <2> QED BY <2>1, <2>3
<1>3. {i \in 1..n : ServedBefore(amounts, i, p[k])} = Firsts(p, k - 1) BY <1>1, <1>2 DEF Firsts
<1> QED BY <1>3 DEF EarlierPlaces

\* A sum of zeros.
LEMMA SumZero ==
  ASSUME NEW S, IsFiniteSet(S), NEW f, \A x \in S : f[x] = 0
  PROVE  SumOver(f, S) = 0
<1> DEFINE z == [x \in S |-> 0]
<1>1. \A x \in S : z[x] = 0 OBVIOUS
<1> HIDE DEF z
<1>2. SumOver(f, S) \in Nat BY SumNat
<1> DEFINE Bad == {T \in SUBSET S : SumOver(f, T) # 0}
<1> SUFFICES ASSUME Bad # {} PROVE FALSE OBVIOUS
<1>3. Bad \subseteq SUBSET S OBVIOUS
<1> HIDE DEF Bad
<1>4. PICK T \in Bad : \A X \in Bad : ~ (X \subseteq T /\ X # T) BY <1>3, FiniteMin
<1>5. T \in SUBSET S /\ SumOver(f, T) # 0 BY DEF Bad
<1>6. PICK x \in T : TRUE BY <1>5, SumEmpty
<1> DEFINE W == T \ {x}
<1>7. W \in SUBSET S /\ W \subseteq T /\ W # T BY <1>5
<1>8. SumOver(f, W) = 0 BY <1>4, <1>7 DEF Bad
<1>9. IsFiniteSet(T) /\ (\A y \in T : f[y] \in Int) /\ f[x] = 0 BY <1>5, FS_Subset
<1>10. SumOver(f, T) = f[x] + SumOver(f, W) BY <1>9, SumRemove
<1> QED BY <1>5, <1>8, <1>9, <1>10

-----------------------------------------------------------------------------
(***************************************************************************)
(* The invariant of the loops.                                             *)
(***************************************************************************)
Targets == Len(targets)

\* Types, and the order of the leaves.
LType ==
  /\ avail \in SUBSET Leaf
  /\ Targets \in 1..MaxTargets
  /\ targets \in [1..Targets -> 1..MaxAmount]
  /\ order \in Descending(avail)
  /\ served \in 0..Targets
  /\ batches \in [1..Targets -> SUBSET avail]
  /\ used \in SUBSET avail
  /\ total \in Nat

\* The leaves of the first k targets served.
GivenTo(k) == Batched(batches, Firsts(Places, k))

\* Every target served so far has a greedy batch, the others have none.
Greedy ==
  \A k \in 1..Targets :
    IF k <= served THEN IsGreedy(avail \ GivenTo(k - 1), targets[Places[k]], batches[Places[k]])
                   ELSE batches[Places[k]] = {}

Accounts ==
  /\ result # "swap" => used = GivenTo(served)
  /\ total = SumOver(Worths(batches, 1..Targets), 1..Targets)

\* What each result means.
Returned ==
  /\ result \in {"none", "selection", "swap", "error"}
  /\ result # "none" => served = Targets
  /\ result = "selection" => total = TargetSum(targets)
  /\ result \in {"swap", "error"} => total # TargetSum(targets)
  /\ result = "swap" => used \in determineLeavesToSwap(avail, TargetSum(targets))
  /\ result = "error" => SumOf(avail) < TargetSum(targets)

LInv == LType /\ Greedy /\ Accounts /\ Returned

\* What type correctness says of the places.
LEMMA PlacesServe ==
  ASSUME LType
  PROVE  /\ Targets \in Nat /\ DOMAIN targets = 1..Targets /\ Len(targets) = Targets
         /\ targets \in [1..Targets -> Nat]
         /\ Serves(Places, targets, Targets)
<1> DEFINE n == Targets
<1>1. n \in Nat /\ targets \in [1..n -> Nat]
  <2>1. n \in Nat BY SelectionLoopsAssumption DEF LType
  <2>2. \A i \in 1..n : targets[i] \in Nat BY SelectionLoopsAssumption DEF LType
  <2>3. targets \in [1..n -> 1..MaxAmount] BY DEF LType
  <2> HIDE DEF n
  <2> QED BY <2>1, <2>2, <2>3
<1> HIDE DEF n
<1>2. DOMAIN targets = 1..n /\ Len(targets) = n /\ Serves(Places, targets, n) BY <1>1, PlacesIs
<1> QED BY <1>1, <1>2 DEF n

\* Initially no target is served.
LEMMA LInit == Init => LInv
<1> SUFFICES ASSUME Init PROVE LInv OBVIOUS
<1>1. PICK n \in 1..MaxTargets : targets \in [1..n -> 1..MaxAmount] BY DEF Init
<1>2. n \in Nat /\ Targets = n /\ DOMAIN targets = 1..n BY <1>1, SelectionLoopsAssumption DEF Targets
<1>3. avail \in SUBSET Leaf /\ order \in Descending(avail) /\ served = 0 /\ used = {} /\ total = 0
      /\ batches = [i \in 1..n |-> {}] /\ result = "none"
  BY <1>2 DEF Init
<1>4. LType BY <1>1, <1>2, <1>3 DEF LType
<1>5. Greedy
  <2>1. Serves(Places, targets, n) BY <1>2, <1>4, PlacesServe
  <2>2. \A k \in 1..n : Places[k] \in 1..n BY <2>1 DEF Serves
  <2>3. \A k \in 1..n : ~ (k <= served) BY <1>3
  <2> QED BY <1>2, <1>3, <2>2, <2>3 DEF Greedy
<1>6. Accounts
  <2>1. GivenTo(served) = {}
    <3>1. Firsts(Places, 0) = {} BY DEF Firsts
    <3> QED BY <1>3, <3>1 DEF GivenTo, Batched
  <2> DEFINE f == Worths(batches, 1..n)
             D == 1..n
  <2>2. IsFiniteSet(D) BY <1>2, FS_Interval
  <2>3. \A x \in D : f[x] = 0
    <3>1. {} \in SUBSET Leaf OBVIOUS
    <3>2. SumOf({}) = 0 BY <3>1, LeafSums
    <3> QED BY <1>3, <3>2 DEF Worths
  <2> HIDE DEF f, D
  <2>4. SumOver(f, D) = 0 BY <2>2, <2>3, SumZero
  <2> QED BY <1>2, <1>3, <2>1, <2>4 DEF Accounts, f, D
<1>7. Returned BY <1>3 DEF Returned
<1> QED BY <1>4, <1>5, <1>6, <1>7 DEF LInv

\* The leaves one step earlier and the last one's.
LEMMA BatchedNext ==
  ASSUME NEW p, NEW bs, NEW j \in Nat, NEW k, k = j + 1
  PROVE  Batched(bs, Firsts(p, k)) = Batched(bs, Firsts(p, j)) \cup bs[p[k]]
<1>1. 1..k = (1..j) \cup {k} OBVIOUS
<1>2. Firsts(p, k) = Firsts(p, j) \cup {p[k]} BY <1>1 DEF Firsts
<1> QED BY <1>2 DEF Batched

\* Serving a target adds a greedy batch of what is left.
LEMMA ServeKeepsInv ==
  ASSUME LInv, ServeTarget
  PROVE  LInv'
<1>0. LType /\ Greedy /\ Accounts /\ Returned BY DEF LInv
<1>n. PICK n : n = Targets OBVIOUS
<1>p. PICK p : p = Places OBVIOUS
<1>h. PICK h : h = served OBVIOUS
<1>k. PICK k : k = h + 1 OBVIOUS
<1>i. PICK i : i = p[k] OBVIOUS
<1> DEFINE nodes == Walk(targets[i], used, order)
<1>1. n \in Nat /\ DOMAIN targets = 1..n /\ Len(targets) = n /\ targets \in [1..n -> Nat] /\ Serves(p, targets, n)
  BY <1>0, <1>n, <1>p, PlacesServe
<1>2. /\ served < n /\ served' = k
      /\ batches' = [batches EXCEPT ![i] = nodes]
      /\ used' = used \cup nodes /\ total' = total + SumOf(nodes)
      /\ avail' = avail /\ targets' = targets /\ order' = order /\ result' = result
  BY <1>1, <1>p, <1>h, <1>k, <1>i DEF ServeTarget
<1>3. Targets' = n /\ Places' = p
  BY <1>n, <1>p, <1>2 DEF Targets, Places
<1>4. served \in 0..n /\ h \in Nat /\ k \in 1..n BY <1>0, <1>1, <1>n, <1>h, <1>k, <1>2 DEF LType
<1>5. i \in 1..n /\ p \in [1..n -> 1..n] /\ \A j, m \in 1..n : j # m => p[j] # p[m] BY <1>1, <1>4, <1>i DEF Serves
<1>6. result = "none"
  <2>1. result # "none" => served = n BY <1>0, <1>n DEF Returned
  <2>2. served \in Nat /\ served < n BY <1>2, <1>4
  <2> QED BY <2>1, <2>2
<1>7. used = GivenTo(h) BY <1>0, <1>6, <1>h DEF Accounts
<1>8. avail \in SUBSET Leaf /\ order \in Descending(avail) /\ used \in SUBSET avail
      /\ batches \in [1..n -> SUBSET avail] /\ total \in Nat
  BY <1>0, <1>n DEF LType
<1>9. targets[i] \in Nat BY <1>1, <1>5
<1> HIDE DEF nodes
<1>10. IsGreedy(avail \ used, targets[i], nodes) BY <1>8, <1>9, WalkIsGreedy DEF nodes
<1>11. nodes \in SUBSET avail /\ nodes \in SUBSET Leaf BY <1>8, <1>10 DEF IsGreedy
<1>12. SumOf(nodes) \in Nat BY <1>11, LeafSums
<1>13. batches' \in [1..n -> SUBSET avail] BY <1>2, <1>8, <1>11
<1>14. LType'
  <2>1. Targets' \in 1..MaxTargets /\ targets' \in [1..Targets' -> 1..MaxAmount]
    BY <1>0, <1>2, <1>3, <1>n DEF LType
  <2>2. served' \in 0..Targets' BY <1>2, <1>3, <1>4
  <2>3. used' \in SUBSET avail /\ total' \in Nat BY <1>2, <1>8, <1>11, <1>12
  <2> QED BY <1>2, <1>3, <1>8, <1>13, <2>1, <2>2, <2>3 DEF LType
<1>15. \A j \in 0..h : Firsts(p, j) \subseteq (1..n) \ {i}
  <2> TAKE j \in 0..h
  <2> SUFFICES ASSUME NEW m \in 1..j PROVE p[m] \in (1..n) \ {i} BY DEF Firsts
  <2>1. m \in 1..n /\ m # k BY <1>1, <1>4, <1>k
  <2> QED BY <1>4, <1>5, <1>i, <2>1
<1>16. \A j \in 0..h : GivenTo(j)' = GivenTo(j)
  <2> TAKE j \in 0..h
  <2> DEFINE T == Firsts(p, j)
  <2>1. T \subseteq (1..n) \ {i} BY <1>15
  <2>2. GivenTo(j)' = Batched(batches', T) /\ GivenTo(j) = Batched(batches, T) BY <1>3, <1>p DEF GivenTo
  <2> HIDE DEF T
  <2>3. \A m \in T : batches'[m] = batches[m] BY <1>2, <1>5, <1>8, <2>1
  <2> QED BY <2>2, <2>3 DEF Batched
<1>17. batches'[i] = nodes /\ \A m \in 1..n : m # i => batches'[m] = batches[m] BY <1>2, <1>5, <1>8
<1>18. Greedy'
  <2> SUFFICES ASSUME NEW j \in 1..n
      PROVE  IF j <= k THEN IsGreedy(avail \ GivenTo(j - 1)', targets[p[j]], batches'[p[j]])
                       ELSE batches'[p[j]] = {}
    BY <1>2, <1>3 DEF Greedy
  <2>1. IF j <= served THEN IsGreedy(avail \ GivenTo(j - 1), targets[p[j]], batches[p[j]]) ELSE batches[p[j]] = {}
    BY <1>0, <1>n, <1>p DEF Greedy
  <2>2. CASE j = k
    <3>0. j - 1 = h /\ h \in 0..h BY <1>4, <1>k, <2>2
    <3>1. GivenTo(j - 1)' = used BY <1>7, <1>16, <3>0
    <3>2. p[j] = i /\ batches'[i] = nodes /\ j <= k BY <1>4, <1>17, <1>i, <2>2
    <3>3. IsGreedy(avail \ GivenTo(j - 1)', targets[i], nodes) BY <1>10, <3>1
    <3> QED BY <3>2, <3>3
  <2>3. CASE j # k
    <3>1. p[j] \in 1..n /\ p[j] # i BY <1>4, <1>5, <1>i, <2>3
    <3>2. batches'[p[j]] = batches[p[j]] BY <1>17, <3>1
    <3>3. CASE j < k
      <4>1. j <= served /\ j - 1 \in 0..h /\ j <= k BY <1>4, <1>h, <1>k, <3>3
      <4>2. GivenTo(j - 1)' = GivenTo(j - 1) BY <1>16, <4>1
      <4> QED BY <2>1, <3>2, <4>1, <4>2
    <3>4. CASE ~ (j < k)
      <4>1. ~ (j <= served) /\ ~ (j <= k) BY <1>4, <1>h, <1>k, <2>3, <3>4
      <4> QED BY <2>1, <3>2, <4>1
    <3> QED BY <3>3, <3>4
  <2> QED BY <2>2, <2>3
<1>19. Accounts'
  <2>1. used' = GivenTo(served)'
    <3> DEFINE bs == batches'
    <3>1. GivenTo(k)' = Batched(bs, Firsts(p, k)) /\ GivenTo(h)' = Batched(bs, Firsts(p, h))
      BY <1>3, <1>p DEF GivenTo
    <3>2. GivenTo(h)' = used BY <1>4, <1>7, <1>16
    <3>3. bs[p[k]] = nodes BY <1>17, <1>i
    <3> HIDE DEF bs
    <3>4. Batched(bs, Firsts(p, k)) = Batched(bs, Firsts(p, h)) \cup bs[p[k]]
      BY <1>4, <1>k, BatchedNext
    <3>5. GivenTo(k)' = used \cup nodes BY <3>1, <3>2, <3>3, <3>4
    <3> QED BY <1>2, <3>5 DEF GivenTo
  <2> DEFINE f == Worths(batches, 1..n)
             g == Worths(batches', 1..n)
             D == 1..n
  <2>2. total = SumOver(f, D) BY <1>0, <1>n DEF Accounts
  <2>3. IsFiniteSet(D) BY <1>1, FS_Interval
  <2>4. \A y \in D : f[y] \in Int
    <3>1. \A y \in D : batches[y] \in SUBSET Leaf BY <1>8
    <3> QED BY <3>1, LeafSums DEF Worths
  <2>5. f[i] = 0
    <3>1. batches[i] = {}
      <4>1. ~ (k <= served) BY <1>4, <1>h, <1>k
      <4> QED BY <1>0, <1>4, <1>n, <1>p, <1>i, <4>1 DEF Greedy
    <3>2. {} \in SUBSET Leaf OBVIOUS
    <3>3. SumOf({}) = 0 BY <3>2, LeafSums
    <3> QED BY <1>5, <3>1, <3>3 DEF Worths
  <2>6. g[i] = SumOf(nodes) BY <1>5, <1>17 DEF Worths
  <2>7. \A y \in D \ {i} : g[y] = f[y] BY <1>17 DEF Worths
  <2>8. i \in D BY <1>5
  <2> HIDE DEF f, g, D
  <2>9. SumOver(g, D) = SumOver(f, D) - f[i] + g[i] BY <2>3, <2>4, <2>6, <2>7, <2>8, <1>12, SumUpdate
  <2>10. total' = SumOver(g, D) BY <1>2, <1>8, <1>12, <2>2, <2>5, <2>6, <2>9
  <2>11. Worths(batches, 1..Targets)' = g BY <1>3 DEF g, Worths
  <2> QED BY <1>3, <2>1, <2>10, <2>11 DEF Accounts, D
<1>20. Returned' BY <1>2, <1>6 DEF Returned
<1> QED BY <1>14, <1>18, <1>19, <1>20 DEF LInv

\* The targets' sum.
LEMMA TargetSumIs ==
  ASSUME LType
  PROVE  TargetSum(targets) = SumOver(targets, 1..Targets) /\ TargetSum(targets) \in Nat
<1> DEFINE n == Targets
           D == 1..n
<1>1. n \in Nat /\ DOMAIN targets = D /\ targets \in [1..n -> Nat] BY PlacesServe
<1>2. TargetSum(targets) = SumOver(targets, D) BY <1>1 DEF TargetSum, SumOver
<1>3. IsFiniteSet(D) BY <1>1, FS_Interval
<1>4. \A i \in D : targets[i] \in Nat BY <1>1
<1> HIDE DEF D
<1>5. SumOver(targets, D) \in Nat BY <1>3, <1>4, SumNat
<1> QED BY <1>2, <1>5 DEF D

\* Returning a selection changes the result only.
LEMMA ReturnKeepsInv ==
  ASSUME LInv, Return
  PROVE  LInv'
<1>1. UNCHANGED <<avail, targets, order, served, used, batches, total>> /\ result' = "selection"
      /\ served = Len(targets) /\ result = "none" /\ total = TargetSum(targets)
  BY DEF Return
<1>2. Targets' = Targets /\ Places' = Places BY <1>1 DEF Targets, Places
<1>3. LType /\ Greedy /\ Accounts /\ Returned BY DEF LInv
<1>4. LType' BY <1>1, <1>2, <1>3 DEF LType
<1>5. \A k : GivenTo(k)' = GivenTo(k) BY <1>1, <1>2 DEF GivenTo
<1>6. Greedy' BY <1>1, <1>2, <1>3, <1>5 DEF Greedy
<1>7. Accounts'
  <2>1. used = GivenTo(served) /\ GivenTo(served)' = GivenTo(served) BY <1>1, <1>2, <1>3 DEF Accounts, GivenTo
  <2>2. total = SumOver(Worths(batches, 1..Targets), 1..Targets) BY <1>3 DEF Accounts
  <2>3. SumOver(Worths(batches, 1..Targets), 1..Targets)' = SumOver(Worths(batches, 1..Targets), 1..Targets) BY <1>1, <1>2
  <2> QED BY <1>1, <2>1, <2>2, <2>3 DEF Accounts
<1>8. Returned' BY <1>1, <1>2 DEF Returned, Targets
<1> QED BY <1>4, <1>6, <1>7, <1>8 DEF LInv

\* Determining the leaves to swap replaces the used leaves by the gathered.
LEMMA SwapKeepsInv ==
  ASSUME LInv, DetermineLeavesToSwap
  PROVE  LInv'
<1>1. UNCHANGED <<avail, targets, order, served, batches, total>>
      /\ served = Len(targets) /\ result = "none" /\ total # TargetSum(targets)
  BY DEF DetermineLeavesToSwap
<1>t. PICK target : target = TargetSum(targets) OBVIOUS
<1>2. PICK leaves \in Ascending(avail) :
        IF SumOf(Gather(target, leaves)) < target
        THEN result' = "error" /\ UNCHANGED used
        ELSE result' = "swap" /\ used' = Gather(target, leaves)
  BY <1>t DEF DetermineLeavesToSwap
<1>3. Targets' = Targets /\ Places' = Places BY <1>1 DEF Targets, Places
<1>4. LType /\ Greedy /\ Accounts /\ Returned BY DEF LInv
<1>5. \A k : GivenTo(k)' = GivenTo(k) BY <1>1, <1>3 DEF GivenTo
<1>6. Greedy' BY <1>1, <1>3, <1>4, <1>5 DEF Greedy
<1>7. total' = SumOver(Worths(batches, 1..Targets), 1..Targets)' BY <1>1, <1>3, <1>4 DEF Accounts
<1>8. avail \in SUBSET Leaf BY <1>4 DEF LType
<1>9. target \in Nat BY <1>4, <1>t, TargetSumIs
<1> DEFINE nodes == Gather(target, leaves)
<1>10. /\ nodes \in SUBSET avail
       /\ SumOf(nodes) >= target => nodes \in determineLeavesToSwap(avail, target)
       /\ SumOf(nodes) < target => nodes = avail
  <2>1. LET sel == Gather(target, leaves)
        IN  /\ sel \in SUBSET avail
            /\ SumOf(sel) >= target => sel \in determineLeavesToSwap(avail, target)
            /\ SumOf(sel) < target => sel = avail
    BY <1>8, <1>9, GatherIsEnough
  <2> QED BY <2>1
<1> HIDE DEF nodes
<1>11. TargetSum(targets)' = target /\ served' = Targets' /\ total' # target
  BY <1>1, <1>3, <1>t DEF Targets
<1>12. IF SumOf(nodes) < target THEN result' = "error" /\ UNCHANGED used ELSE result' = "swap" /\ used' = nodes
  BY <1>2 DEF nodes
<1>13. CASE SumOf(nodes) < target
  <2>1. result' = "error" /\ used' = used BY <1>12, <1>13
  <2>2. LType' BY <1>1, <1>3, <1>4, <2>1 DEF LType
  <2>3. Accounts'
    <3>1. used = GivenTo(served) /\ GivenTo(served)' = GivenTo(served) BY <1>1, <1>3, <1>4 DEF Accounts, GivenTo
    <3> QED BY <1>7, <2>1, <3>1 DEF Accounts
  <2>4. SumOf(avail)' < TargetSum(targets)' BY <1>1, <1>10, <1>11, <1>13
  <2>5. Returned' BY <1>11, <2>1, <2>4 DEF Returned
  <2> QED BY <1>6, <2>2, <2>3, <2>5 DEF LInv
<1>14. CASE ~ (SumOf(nodes) < target)
  <2>1. result' = "swap" /\ used' = nodes BY <1>12, <1>14
  <2>2. nodes \in determineLeavesToSwap(avail, target)
    <3>2. SumOf(nodes) \in Nat BY <1>8, <1>10, LeafSums
    <3> QED BY <1>9, <1>10, <1>14, <3>2
  <2>3. nodes \in SUBSET avail BY <2>2 DEF determineLeavesToSwap
  <2>4. LType' BY <1>1, <1>3, <1>4, <2>1, <2>3 DEF LType
  <2>5. Accounts' BY <1>7, <2>1 DEF Accounts
  <2>6. used' \in determineLeavesToSwap(avail', TargetSum(targets)') BY <1>1, <1>11, <2>1, <2>2
  <2>7. Returned' BY <1>11, <2>1, <2>6 DEF Returned
  <2> QED BY <1>6, <2>4, <2>5, <2>7 DEF LInv
<1> QED BY <1>13, <1>14

\* The invariant of the loops: every target served has a greedy batch of what the
\* ones before it left, and the total is what the batches are worth.
THEOREM LoopInvariant == Spec => []LInv
<1>1. LInv /\ [Next]_vars => LInv'
  <2> SUFFICES ASSUME LInv, [Next]_vars PROVE LInv' OBVIOUS
  <2>1. CASE ServeTarget BY <2>1, ServeKeepsInv
  <2>2. CASE Return BY <2>2, ReturnKeepsInv
  <2>3. CASE DetermineLeavesToSwap BY <2>3, SwapKeepsInv
  <2>4. CASE UNCHANGED vars
    <3>1. UNCHANGED <<avail, targets, order, served, used, batches, total, result>> BY <2>4 DEF vars
    <3>2. Targets' = Targets /\ Places' = Places BY <3>1 DEF Targets, Places
    <3>3. LType /\ Greedy /\ Accounts /\ Returned BY DEF LInv
    <3>4. LType' BY <3>1, <3>2, <3>3 DEF LType
    <3>5. \A k : GivenTo(k)' = GivenTo(k) BY <3>1, <3>2 DEF GivenTo
    <3>6. Greedy' BY <3>1, <3>2, <3>3, <3>5 DEF Greedy
    <3>7. Accounts'
      <4>1. GivenTo(served)' = GivenTo(served) BY <3>1, <3>2 DEF GivenTo
      <4> QED BY <3>1, <3>2, <3>3, <4>1 DEF Accounts
    <3>8. Returned' BY <3>1, <3>2, <3>3 DEF Returned
    <3> QED BY <3>4, <3>6, <3>7, <3>8 DEF LInv
  <2> QED BY <2>1, <2>2, <2>3, <2>4 DEF Next
<1> QED BY LInit, <1>1, PTL DEF Spec

\* No leaf is in two batches.
LEMMA BatchesDisjoint ==
  ASSUME LInv
  PROVE  Disjoint(batches, 1..Targets)
<1>0. LType /\ Greedy BY DEF LInv
<1> DEFINE n == Targets
           p == Places
<1>1. n \in Nat /\ Serves(p, targets, n) BY <1>0, PlacesServe
<1>2. \A k \in 1..n : batches[p[k]] \subseteq avail \ GivenTo(k - 1)
  <2> TAKE k \in 1..n
  <2>1. IF k <= served THEN IsGreedy(avail \ GivenTo(k - 1), targets[p[k]], batches[p[k]]) ELSE batches[p[k]] = {}
    BY <1>0 DEF Greedy
  <2> QED BY <2>1 DEF IsGreedy
<1> HIDE DEF n, p
<1>3. ASSUME NEW k \in 1..n, NEW m \in 1..n, k < m PROVE batches[p[k]] \cap batches[p[m]] = {}
  <2>1. k \in 1..(m - 1) BY <1>1, <1>3
  <2>2. batches[p[k]] \subseteq GivenTo(m - 1) BY <2>1 DEF GivenTo, Batched, Firsts, p
  <2> QED BY <1>2, <2>2
<1>4. ASSUME NEW i \in 1..n, NEW j \in 1..n, i # j PROVE batches[i] \cap batches[j] = {}
  <2>1. PICK k \in 1..n : i = p[k] BY <1>1 DEF Serves
  <2>2. PICK m \in 1..n : j = p[m] BY <1>1 DEF Serves
  <2>3. k < m \/ m < k BY <1>1, <1>4, <2>1, <2>2
  <2>4. CASE k < m BY <1>3, <2>1, <2>2, <2>4
  <2>5. CASE m < k
    <3>1. batches[p[m]] \cap batches[p[k]] = {} BY <1>3, <2>5
    <3> QED BY <2>1, <2>2, <3>1
  <2> QED BY <2>3, <2>4, <2>5
<1> QED BY <1>4 DEF Disjoint, n

\* No batch is worth more than its target.
LEMMA BatchesFit ==
  ASSUME LInv
  PROVE  \A i \in 1..Targets : SumOf(batches[i]) \in Nat /\ SumOf(batches[i]) <= targets[i]
<1>0. LType /\ Greedy BY DEF LInv
<1> DEFINE n == Targets
           p == Places
<1>1. n \in Nat /\ Serves(p, targets, n) /\ targets \in [1..n -> Nat] BY <1>0, PlacesServe
<1>2. \A k \in 1..n : IF k <= served THEN IsGreedy(avail \ GivenTo(k - 1), targets[p[k]], batches[p[k]])
                                     ELSE batches[p[k]] = {}
  BY <1>0 DEF Greedy
<1>3. \A i \in 1..n : batches[i] \in SUBSET Leaf BY <1>0 DEF LType
<1> HIDE DEF n, p
<1> TAKE i \in 1..Targets
<1>4. i \in 1..n BY DEF n
<1>5. PICK k \in 1..n : i = p[k] BY <1>1, <1>4 DEF Serves
<1>6. SumOf(batches[i]) \in Nat BY <1>3, <1>4, LeafSums
<1>7. SumOf(batches[i]) <= targets[i]
  <2>1. CASE k <= served BY <1>2, <1>5, <2>1 DEF IsGreedy
  <2>2. CASE ~ (k <= served)
    <3>1. batches[i] = {} BY <1>2, <1>5, <2>2
    <3>2. SumOf(batches[i]) = 0 BY <1>3, <1>4, <3>1, LeafSums
    <3> QED BY <1>1, <1>4, <3>2
  <2> QED BY <2>1, <2>2
<1> QED BY <1>6, <1>7

\* A selection that selectLeaves returns pays every target exactly, with no leaf used
\* twice, although it compares the totals only.
THEOREM SelectionsAreExact == Spec => []ExactAndDisjoint
<1>1. LInv => ExactAndDisjoint
  <2> SUFFICES ASSUME LInv, result = "selection" PROVE ExactAndDisjoint BY DEF ExactAndDisjoint
  <2>0. LType /\ Accounts /\ Returned BY DEF LInv
  <2> DEFINE n == Targets
             D == 1..n
             f == Worths(batches, 1..n)
  <2>1. n \in Nat /\ DOMAIN targets = D /\ targets \in [1..n -> Nat] BY <2>0, PlacesServe
  <2>2. SumOver(f, D) = SumOver(targets, D) BY <2>0, TargetSumIs DEF Accounts, Returned
  <2>3. \A i \in D : f[i] = SumOf(batches[i]) BY DEF Worths
  <2>4. \A i \in D : f[i] \in Nat /\ targets[i] \in Nat /\ f[i] <= targets[i] BY <2>1, <2>3, BatchesFit
  <2>5. IsFiniteSet(D) BY <2>1, FS_Interval
  <2> HIDE DEF f, D
  <2>6. \A i \in D : f[i] = targets[i] BY <2>2, <2>4, <2>5, SumTight
  <2>7. \A i \in D : SumOf(batches[i]) = targets[i] BY <2>3, <2>6
  <2>8. \A i, j \in D : i # j => batches[i] \cap batches[j] = {} BY BatchesDisjoint DEF Disjoint, D
  <2> QED BY <2>1, <2>7, <2>8 DEF ExactAndDisjoint
<1> QED BY LoopInvariant, <1>1, PTL

-----------------------------------------------------------------------------
(***************************************************************************)
(* Powers of two, and leaves of such values.                               *)
(***************************************************************************)
\* The next power of two; SUBSET S has 2^Cardinality(S) members, which is all the
\* provers know of powers.
LEMMA PowerNext ==
  ASSUME NEW n \in Nat
  PROVE  2^n \in Nat /\ 2^n > 0 /\ 2^(n + 1) = 2 * 2^n
<1> DEFINE S == 1..n
           x == n + 1
           A == SUBSET S
           f == [U \in A |-> U \cup {x}]
           B == {U \cup {x} : U \in A}
<1>1. IsFiniteSet(S) /\ Cardinality(S) = n BY FS_Interval
<1>2. x \notin S OBVIOUS
<1>3. x = n + 1 OBVIOUS
<1> HIDE DEF S, x
<1>4. IsFiniteSet(A) /\ Cardinality(A) = 2^n BY <1>1, FS_SUBSET
<1>5. IsFiniteSet(S \cup {x}) /\ Cardinality(S \cup {x}) = n + 1 BY <1>1, <1>2, FS_AddElement
<1>6. Cardinality(SUBSET (S \cup {x})) = 2^(n + 1) BY <1>5, FS_SUBSET
<1>7. SUBSET (S \cup {x}) = A \cup B
  <2>1. ASSUME NEW U \in SUBSET (S \cup {x}) PROVE U \in A \cup B
    <3>1. CASE x \notin U BY <3>1
    <3>2. CASE x \in U
      <4>1. U \ {x} \in A /\ U = (U \ {x}) \cup {x} BY <3>2
      <4> QED BY <4>1
    <3> QED BY <3>1, <3>2
  <2> QED BY <2>1
<1>8. A \cap B = {} BY <1>2
<1>9. f \in Injection(A, B)
  <2>1. f \in [A -> B] OBVIOUS
  <2>2. ASSUME NEW U \in A, NEW W \in A, f[U] = f[W] PROVE U = W
    <3>1. U \cup {x} = W \cup {x} BY <2>2
    <3> QED BY <1>2, <3>1
  <2> QED BY <2>1, <2>2 DEF Injection, IsInjective
<1>10. f \in Surjection(A, B)
  <2>1. f \in [A -> B] OBVIOUS
  <2>2. \A W \in B : \E U \in A : f[U] = W OBVIOUS
  <2> QED BY <2>1, <2>2 DEF Surjection
<1>12. Cardinality(A) \in Nat /\ Cardinality(A) # 0
  <2>1. {} \in A OBVIOUS
  <2> QED BY <1>4, <2>1, FS_CardinalityType, FS_EmptySet
<1> HIDE DEF A, B, f
<1>11. IsFiniteSet(B) /\ Cardinality(B) = Cardinality(A) BY <1>4, <1>9, <1>10, FS_Surjection
<1>13. Cardinality(A \cup B) = Cardinality(A) + Cardinality(B) - Cardinality(A \cap B) BY <1>4, <1>11, FS_Union
<1>14. Cardinality(A \cap B) = 0 BY <1>8, FS_EmptySet
<1>15. Cardinality(A \cup B) = 2 * Cardinality(A) BY <1>11, <1>12, <1>13, <1>14
<1>16. 2^(n + 1) = Cardinality(A \cup B) BY <1>6, <1>7
<1>17. 2^(n + 1) = 2 * 2^n BY <1>4, <1>15, <1>16
<1>18. 2^n \in Nat /\ 2^n # 0 BY <1>4, <1>12
<1>19. \A k \in Nat : k # 0 => k > 0 OBVIOUS
<1> QED BY <1>17, <1>18, <1>19

\* d divides x.
Multiple(d, x) == \E q \in Nat : x = q * d

\* Products of naturals.
LEMMA Times ==
  ASSUME NEW x \in Nat, NEW y \in Nat, NEW d \in Nat
  PROVE  /\ x * d \in Nat
         /\ (x + y) * d = x * d + y * d
         /\ x <= y => x * d <= y * d
<1>1. x * d \in Nat /\ (x + y) * d = x * d + y * d OBVIOUS
<1>2. ASSUME x <= y PROVE x * d <= y * d
  <2>1. PICK e \in Nat : y = x + e
    <3>1. y - x \in Nat /\ y = x + (y - x) BY <1>2
    <3> QED BY <3>1
  <2>2. e * d \in Nat /\ (x + e) * d = x * d + e * d OBVIOUS
  <2> QED BY <1>1, <2>1, <2>2
<1> QED BY <1>1, <1>2

\* A power of two divides the higher ones.
LEMMA PowerDivides ==
  ASSUME NEW j \in Nat, NEW m \in Nat
  PROVE  Multiple(2^j, 2^(j + m))
<1> DEFINE Bad == {e \in Nat : ~ Multiple(2^j, 2^(j + e))}
<1> SUFFICES ASSUME Bad # {} PROVE FALSE OBVIOUS
<1>1. Bad \subseteq Nat OBVIOUS
<1> HIDE DEF Bad
<1>2. PICK e \in Bad : \A k \in Bad : e <= k BY <1>1, LeastNat
<1>3. e \in Nat /\ ~ Multiple(2^j, 2^(j + e)) BY DEF Bad
<1>4. 2^j \in Nat BY PowerNext
<1>5. e # 0
  <2> SUFFICES ASSUME e = 0 PROVE FALSE OBVIOUS
  <2>1. j + e = j OBVIOUS
  <2>2. 2^(j + e) = 1 * 2^j BY <1>4, <2>1
  <2> QED BY <1>3, <2>2 DEF Multiple
<1> DEFINE b == e - 1
<1>6. b \in Nat /\ e = b + 1 /\ b \notin Bad BY <1>2, <1>3, <1>5
<1> HIDE DEF b
<1>7. Multiple(2^j, 2^(j + b)) BY <1>6 DEF Bad
<1>8. PICK q \in Nat : 2^(j + b) = q * 2^j BY <1>7 DEF Multiple
<1> DEFINE c == j + b
<1>9. c \in Nat /\ j + e = c + 1 BY <1>6
<1>10. 2^c = q * 2^j BY <1>8
<1> HIDE DEF c
<1>11. 2^(c + 1) = 2 * 2^c BY <1>9, PowerNext
<1>12. 2^(j + e) = (2 * q) * 2^j
  <2> DEFINE d == 2^j
  <2>1. d \in Nat BY <1>4
  <2>2. 2^c = q * d BY <1>10
  <2> HIDE DEF d
  <2>3. 2 * (q * d) = (2 * q) * d BY <2>1
  <2>4. 2^(c + 1) = (2 * q) * d BY <1>11, <2>2, <2>3
  <2> QED BY <1>9, <2>4 DEF d
<1>13. 2 * q \in Nat OBVIOUS
<1> QED BY <1>3, <1>12, <1>13 DEF Multiple

\* Of two powers of two, the smaller divides the larger.
LEMMA PowersOrdered ==
  ASSUME NEW j \in Nat, NEW k \in Nat, 2^j <= 2^k
  PROVE  Multiple(2^j, 2^k)
<1>1. CASE j <= k
  <2>1. PICK m \in Nat : k = j + m
    <3>1. k - j \in Nat /\ k = j + (k - j) BY <1>1
    <3> QED BY <3>1
  <2> QED BY <2>1, PowerDivides
<1>2. CASE ~ (j <= k)
  <2>1. PICK m \in Nat : j = k + m
    <3>1. j - k \in Nat /\ j = k + (j - k) BY <1>2
    <3> QED BY <3>1
  <2>2. PICK q \in Nat : 2^j = q * 2^k
    <3>1. Multiple(2^k, 2^j) BY <2>1, PowerDivides
    <3> QED BY <3>1 DEF Multiple
  <2> DEFINE c == 2^k
             d == 2^j
  <2>3. c \in Nat /\ c > 0 /\ d \in Nat /\ d > 0 /\ d <= c /\ d = q * c BY <2>2, PowerNext
  <2> HIDE DEF c, d
  <2>4. q # 0 BY <2>3
  <2>5. ~ (2 <= q)
    <3> SUFFICES ASSUME 2 <= q PROVE FALSE OBVIOUS
    <3>1. 2 * c <= q * c BY <2>3, Times
    <3> QED BY <2>3, <3>1
  <2>6. q = 1 BY <2>4, <2>5
  <2>7. c = 1 * d BY <2>3, <2>6
  <2> QED BY <2>7 DEF Multiple, c, d
<1> QED BY <1>1, <1>2

\* A divisor of every leaf's value divides their worth.
LEMMA MultipleSum ==
  ASSUME NEW S \in SUBSET Leaf, NEW d \in Nat, \A l \in S : Multiple(d, Value[l])
  PROVE  Multiple(d, SumOf(S))
<1> DEFINE Bad == {T \in SUBSET S : ~ Multiple(d, SumOf(T))}
<1> SUFFICES ASSUME Bad # {} PROVE FALSE OBVIOUS
<1>1. Bad \subseteq SUBSET S OBVIOUS
<1> HIDE DEF Bad
<1>2. IsFiniteSet(S) BY Leaves
<1>3. PICK T \in Bad : \A X \in Bad : ~ (X \subseteq T /\ X # T) BY <1>1, <1>2, FiniteMin
<1>4. T \in SUBSET S /\ ~ Multiple(d, SumOf(T)) BY DEF Bad
<1>5. T # {}
  <2> SUFFICES ASSUME T = {} PROVE FALSE OBVIOUS
  <2>1. SumOf(T) = 0 * d BY LeafSums
  <2> QED BY <1>4, <2>1 DEF Multiple
<1>6. PICK l \in T : TRUE BY <1>5
<1> DEFINE W == T \ {l}
<1>7. W \in SUBSET S /\ W \subseteq T /\ W # T /\ W \in SUBSET Leaf /\ l \in Leaf \ W /\ T = W \cup {l} BY <1>4
<1> HIDE DEF W
<1>8. Multiple(d, SumOf(W)) BY <1>3, <1>7 DEF Bad
<1>9. PICK a \in Nat : SumOf(W) = a * d BY <1>8 DEF Multiple
<1>10. PICK b \in Nat : Value[l] = b * d BY <1>4 DEF Multiple
<1>11. SumOf(T) = SumOf(W) + Value[l] BY <1>7, LeafSums
<1>12. a + b \in Nat /\ SumOf(T) = (a + b) * d BY <1>9, <1>10, <1>11, Times
<1> QED BY <1>4, <1>12 DEF Multiple

\* A set of leaves has one of largest and one of smallest value.
LEMMA LargestLeaf ==
  ASSUME NEW S \in SUBSET Leaf, S # {}
  PROVE  /\ \E l \in S : \A k \in S : Value[k] <= Value[l]
         /\ \E l \in S : \A k \in S : Value[l] <= Value[k]
<1> DEFINE R == {q \in S \X S : Value[q[1]] <= Value[q[2]]}
           Q == {q \in S \X S : Value[q[2]] <= Value[q[1]]}
<1>1. IsFiniteSet(S) /\ \A l \in S : Value[l] \in Nat BY Leaves
<1>2. \A k, l \in S : (<<k, l>> \in R <=> Value[k] <= Value[l]) /\ (<<k, l>> \in Q <=> Value[l] <= Value[k]) OBVIOUS
<1> HIDE DEF R, Q
<1>3. Orders(R, S) BY <1>1, <1>2 DEF Orders
<1>4. Orders(Q, S) BY <1>1, <1>2 DEF Orders
<1>5. PICK l \in S : \A k \in S : k # l => <<k, l>> \in R BY <1>1, <1>3, LastElement
<1>6. PICK m \in S : \A k \in S : k # m => <<k, m>> \in Q BY <1>1, <1>4, LastElement
<1>7. \A k \in S : Value[k] <= Value[l]
  <2> TAKE k \in S
  <2>1. CASE k = l BY <1>1, <2>1
  <2>2. CASE k # l BY <1>2, <1>5, <2>2
  <2> QED BY <2>1, <2>2
<1>8. \A k \in S : Value[m] <= Value[k]
  <2> TAKE k \in S
  <2>1. CASE k = m BY <1>1, <2>1
  <2>2. CASE k # m BY <1>2, <1>6, <2>2
  <2> QED BY <2>1, <2>2
<1> QED BY <1>7, <1>8

PowerValues(S) == \A l \in S : \E k \in Nat : Value[l] = 2^k

\* Leaves of powers of two worth at least a larger one hold some that are worth
\* exactly as much.
LEMMA Fill ==
  ASSUME NEW S \in SUBSET Leaf, NEW l \in Leaf, PowerValues(S \cup {l}),
         \A k \in S : Value[k] <= Value[l], SumOf(S) >= Value[l]
  PROVE  \E X \in SUBSET S : SumOf(X) = Value[l]
<1> DEFINE v == Value[l]
           Enough == {X \in SUBSET S : SumOf(X) >= v}
<1>1. Enough \subseteq SUBSET S /\ Enough # {} OBVIOUS
<1>2. IsFiniteSet(S) BY Leaves
<1> HIDE DEF Enough
<1>3. PICK X \in Enough : \A Y \in Enough : ~ (Y \subseteq X /\ Y # X) BY <1>1, <1>2, FiniteMin
<1>4. X \in SUBSET S /\ X \in SUBSET Leaf /\ SumOf(X) >= v BY DEF Enough
<1>5. v \in Nat /\ v > 0 BY LeafSelectionAssumption
<1>6. X # {} BY <1>4, <1>5, LeafSums
<1>7. PICK m \in X : \A k \in X : Value[m] <= Value[k] BY <1>4, <1>6, LargestLeaf
<1> DEFINE d == Value[m]
           W == X \ {m}
<1>8. d \in Nat /\ d > 0 BY <1>4, LeafSelectionAssumption
<1>9. W \in SUBSET S /\ W \subseteq X /\ W # X /\ W \in SUBSET Leaf /\ m \in Leaf \ W /\ X = W \cup {m} BY <1>4
<1>10. SumOf(W) < v
  <2>1. W \notin Enough BY <1>3, <1>9
  <2>2. SumOf(W) \in Nat BY <1>9, LeafSums
  <2> QED BY <1>5, <1>9, <2>1, <2>2 DEF Enough
<1>11. SumOf(X) = SumOf(W) + d /\ SumOf(W) \in Nat
  <2> HIDE DEF W
  <2> QED BY <1>9, LeafSums
<1>12. \A k \in X \cup {l} : Multiple(d, Value[k])
  <2> TAKE k \in X \cup {l}
  <2>1. d <= Value[k] BY <1>4, <1>7
  <2>2. PICK a \in Nat : d = 2^a BY <1>4 DEF PowerValues
  <2>3. PICK b \in Nat : Value[k] = 2^b BY <1>4 DEF PowerValues
  <2> QED BY <2>1, <2>2, <2>3, PowersOrdered
<1>13. Multiple(d, SumOf(X))
  <2> HIDE DEF d
  <2> QED BY <1>4, <1>8, <1>12, MultipleSum
<1>14. Multiple(d, v) BY <1>12
<1>15. PICK a \in Nat : SumOf(X) = a * d BY <1>13 DEF Multiple
<1>16. PICK b \in Nat : v = b * d BY <1>14 DEF Multiple
<1> HIDE DEF d, W, v
<1>17. SumOf(X) = v
  <2> SUFFICES ASSUME SumOf(X) # v PROVE FALSE OBVIOUS
  <2>1. ~ (a <= b)
    <3> SUFFICES ASSUME a <= b PROVE FALSE OBVIOUS
    <3>1. a * d <= b * d BY <1>8, Times
    <3> QED BY <1>4, <1>5, <1>11, <1>8, <1>15, <1>16, <3>1
  <2>2. b + 1 <= a BY <2>1
  <2>3. (b + 1) * d <= a * d BY <1>8, <2>2, Times
  <2>4. (b + 1) * d = b * d + 1 * d BY <1>8, Times
  <2>5. 1 * d = d BY <1>8
  <2>6. v + d <= SumOf(X) BY <1>15, <1>16, <2>3, <2>4, <2>5
  <2> QED BY <1>5, <1>8, <1>10, <1>11, <2>6
<1> QED BY <1>4, <1>17 DEF v

-----------------------------------------------------------------------------
(***************************************************************************)
(* Exact payments, and the trades that turn one into the greedy one.       *)
(***************************************************************************)
\* Leaves exchanged for others of the same worth.
LEMMA SumSwapped ==
  ASSUME NEW S \in SUBSET Leaf, NEW X \in SUBSET S, NEW Y \in SUBSET Leaf, Y \cap S = {},
         SumOf(X) = SumOf(Y)
  PROVE  SumOf((S \ X) \cup Y) = SumOf(S)
<1> DEFINE R == S \ X
<1>1. SumOf(S) = SumOf(X) + SumOf(R) /\ SumOf(R) \in Nat /\ SumOf(X) \in Nat BY LeafSums
<1>2. R \in SUBSET Leaf /\ R \cap Y = {} OBVIOUS
<1> HIDE DEF R
<1>3. IsFiniteSet(R) /\ IsFiniteSet(Y) /\ \A l \in R \cup Y : Value[l] \in Int BY <1>2, Leaves
<1>4. SumOver(Value, R \cup Y) = SumOver(Value, R) + SumOver(Value, Y) BY <1>2, <1>3, SumUnion
<1>5. SumOf(R \cup Y) = SumOf(R) + SumOf(Y) BY <1>4, SumIsOver
<1>6. SumOf(R \cup Y) = SumOf(S) BY <1>1, <1>5
<1> QED BY <1>6 DEF R

\* The worth of one leaf.
LEMMA SumSingle ==
  ASSUME NEW l \in Leaf
  PROVE  SumOf({l}) = Value[l]
<1>1. {} \in SUBSET Leaf /\ l \in Leaf \ {} /\ {} \cup {l} = {l} OBVIOUS
<1>2. SumOf({} \cup {l}) = SumOf({}) + Value[l] /\ SumOf({}) = 0 BY <1>1, LeafSums
<1>3. Value[l] \in Nat BY LeafSelectionAssumption
<1> QED BY <1>1, <1>2, <1>3

\* The targets of T paid exactly with leaves of F, none used twice.
Exactly(A, F, T, amounts) ==
  /\ \A i \in T : A[i] \subseteq F /\ SumOf(A[i]) = amounts[i]
  /\ \A i, j \in T : i # j => A[i] \cap A[j] = {}

Traded(A, D, i, l, X) ==
  [j \in D |-> IF j = i THEN (A[i] \ X) \cup {l}
               ELSE IF l \in A[j] THEN (A[j] \ {l}) \cup X ELSE A[j]]

\* A leaf l given to i for leaves X of its own that are worth as much.
CanTrade(A, F, D, T, amounts, i, l, X) ==
  /\ F \in SUBSET Leaf /\ T \in SUBSET D /\ i \in T
  /\ A \in [D -> SUBSET Leaf] /\ Exactly(A, F, T, amounts)
  /\ l \in F \ A[i] /\ X \in SUBSET A[i] /\ SumOf(X) = Value[l]

\* After such a trade every target is still paid exactly.
LEMMA TradeIsExact ==
  ASSUME NEW A, NEW F, NEW D, NEW T, NEW amounts, NEW i, NEW l, NEW X,
         CanTrade(A, F, D, T, amounts, i, l, X)
  PROVE  /\ Traded(A, D, i, l, X) \in [D -> SUBSET Leaf]
         /\ Traded(A, D, i, l, X)[i] = (A[i] \ X) \cup {l}
         /\ Exactly(Traded(A, D, i, l, X), F, T, amounts)
<1> DEFINE E == Traded(A, D, i, l, X)
<1> USE DEF CanTrade
<1>1. A[i] \in SUBSET F /\ A[i] \in SUBSET Leaf /\ X \in SUBSET F /\ X \in SUBSET Leaf /\ l \in Leaf BY DEF Exactly
<1>2. E \in [D -> SUBSET Leaf]
  <2>1. \A j \in D : A[j] \in SUBSET Leaf OBVIOUS
  <2> QED BY <1>1, <2>1 DEF Traded
<1>3. /\ E[i] = (A[i] \ X) \cup {l}
      /\ \A j \in T : j # i => E[j] = IF l \in A[j] THEN (A[j] \ {l}) \cup X ELSE A[j]
  BY DEF Traded
<1> HIDE DEF E
<1>4. SumOf({l}) = Value[l] /\ {l} \in SUBSET Leaf BY <1>1, SumSingle
<1>5. ASSUME NEW j \in T PROVE E[j] \subseteq F /\ SumOf(E[j]) = amounts[j]
  <2>1. A[j] \in SUBSET F /\ A[j] \in SUBSET Leaf /\ SumOf(A[j]) = amounts[j] BY DEF Exactly
  <2>2. CASE j = i
    <3> DEFINE S == A[i]
               Y == {l}
    <3>1. S \in SUBSET Leaf /\ X \in SUBSET S /\ Y \in SUBSET Leaf /\ Y \cap S = {} /\ SumOf(X) = SumOf(Y)
      BY <1>1, <1>4
    <3>2. E[j] = (S \ X) \cup Y BY <1>3, <2>2
    <3>3. SumOf(S) = amounts[j] BY <2>1, <2>2
    <3>4. E[j] \subseteq F BY <1>1, <1>3, <2>2
    <3> HIDE DEF S, Y
    <3>5. SumOf((S \ X) \cup Y) = SumOf(S) BY <3>1, SumSwapped
    <3> QED BY <3>2, <3>3, <3>4, <3>5
  <2>3. CASE j # i /\ l \in A[j]
    <3> DEFINE S == A[j]
               Y == {l}
    <3>0. A[i] \cap A[j] = {} BY <2>3 DEF Exactly
    <3>1. S \in SUBSET Leaf /\ Y \in SUBSET S /\ X \cap S = {} /\ SumOf(Y) = SumOf(X)
      BY <1>4, <2>1, <2>3, <3>0
    <3>2. E[j] = (S \ Y) \cup X BY <1>3, <2>3
    <3>3. SumOf(S) = amounts[j] BY <2>1
    <3>4. E[j] \subseteq F BY <1>1, <1>3, <2>1, <2>3
    <3> HIDE DEF S, Y
    <3>5. SumOf((S \ Y) \cup X) = SumOf(S) BY <1>1, <3>1, SumSwapped
    <3> QED BY <3>2, <3>3, <3>4, <3>5
  <2>4. CASE j # i /\ l \notin A[j] BY <1>3, <2>1, <2>4
  <2> QED BY <2>2, <2>3, <2>4
<1>6. ASSUME NEW j \in T, NEW m \in T, j # m PROVE E[j] \cap E[m] = {}
  <2>1. \A g, h \in T : g # h => A[g] \cap A[h] = {} BY DEF Exactly
  <2>2. ASSUME NEW h \in T, h # i PROVE E[i] \cap E[h] = {}
    <3>1. A[i] \cap A[h] = {} BY <2>1, <2>2
    <3>2. CASE l \in A[h]
      <4>1. E[h] = (A[h] \ {l}) \cup X BY <1>3, <2>2, <3>2
      <4> QED BY <1>3, <3>1, <4>1
    <3>3. CASE l \notin A[h]
      <4>1. E[h] = A[h] BY <1>3, <2>2, <3>3
      <4> QED BY <1>3, <3>1, <3>3, <4>1
    <3> QED BY <3>2, <3>3
  <2>3. CASE j = i BY <1>6, <2>2, <2>3
  <2>4. CASE m = i
    <3>1. E[i] \cap E[j] = {} BY <1>6, <2>2, <2>4
    <3> QED BY <2>4, <3>1
  <2>5. CASE j # i /\ m # i
    <3>1. A[j] \cap A[m] = {} /\ A[i] \cap A[j] = {} /\ A[i] \cap A[m] = {} BY <1>6, <2>1, <2>5
    <3>2. E[j] = IF l \in A[j] THEN (A[j] \ {l}) \cup X ELSE A[j] BY <1>3, <2>5
    <3>3. E[m] = IF l \in A[m] THEN (A[m] \ {l}) \cup X ELSE A[m] BY <1>3, <2>5
    <3>4. CASE l \in A[j]
      <4>1. l \notin A[m] BY <3>1, <3>4
      <4> QED BY <3>1, <3>2, <3>3, <3>4, <4>1
    <3>5. CASE l \notin A[j] BY <3>1, <3>2, <3>3, <3>5
    <3> QED BY <3>4, <3>5
  <2> QED BY <2>3, <2>4, <2>5
<1> QED BY <1>2, <1>3, <1>5, <1>6 DEF Exactly, E

\* Leaves that pay the targets of T, and a greedy batch B for one of them.
CanServe(A, F, D, T, amounts, i, B) ==
  /\ F \in SUBSET Leaf /\ PowerValues(F) /\ T \in SUBSET D /\ i \in T
  /\ A \in [D -> SUBSET Leaf] /\ Exactly(A, F, T, amounts)
  /\ IsGreedy(F, amounts[i], B)

\* A greedy batch is part of some exact payment whenever there is one.
LEMMA GreedyIsExact ==
  ASSUME NEW A, NEW F, NEW D, NEW T, NEW amounts, NEW i, NEW B, CanServe(A, F, D, T, amounts, i, B)
  PROVE  \E C \in [D -> SUBSET Leaf] : Exactly(C, F, T, amounts) /\ C[i] = B
<1>0. /\ F \in SUBSET Leaf /\ PowerValues(F) /\ T \in SUBSET D /\ i \in T
      /\ A \in [D -> SUBSET Leaf] /\ Exactly(A, F, T, amounts)
      /\ IsGreedy(F, amounts[i], B)
  BY DEF CanServe
<1> USE <1>0
<1> DEFINE Paid(C) == C \in [D -> SUBSET Leaf] /\ Exactly(C, F, T, amounts)
           Left == {X \in SUBSET B : \E C : Paid(C) /\ X = B \ C[i]}
<1>1. B \in SUBSET F /\ B \in SUBSET Leaf /\ SumOf(B) <= amounts[i] BY DEF IsGreedy
<1>2. IsFiniteSet(B) BY <1>1, Leaves
<1>3. Left \subseteq SUBSET B /\ Left # {}
  <2>1. Paid(A) OBVIOUS
  <2>2. B \ A[i] \in Left BY <2>1
  <2> QED BY <2>2
<1> HIDE DEF Left
<1>4. PICK X \in Left : \A Y \in Left : ~ (Y \subseteq X /\ Y # X) BY <1>2, <1>3, FiniteMin
<1>5. PICK C : Paid(C) /\ X = B \ C[i] BY DEF Left
<1>6. C[i] \in SUBSET F /\ C[i] \in SUBSET Leaf /\ SumOf(C[i]) = amounts[i] BY <1>5 DEF Exactly
<1>7. SumOf(B) \in Nat /\ SumOf(C[i]) \in Nat BY <1>1, <1>6, LeafSums
\* A leaf of the payment that the batch lacks is not worth more than any it lacks.
<1>8. ASSUME NEW k \in C[i] \ B PROVE ~ ({m \in B : Value[m] >= Value[k]} \subseteq C[i])
  <2> DEFINE H == {m \in B : Value[m] >= Value[k]}
             S == C[i]
  <2> SUFFICES ASSUME H \subseteq S PROVE FALSE OBVIOUS
  <2>1. SumOf(H) + Value[k] > amounts[i] BY <1>6 DEF IsGreedy
  <2>2. H \cup {k} \in SUBSET S /\ H \in SUBSET Leaf /\ k \in Leaf \ H /\ S \in SUBSET Leaf BY <1>1, <1>6
  <2>3. SumOf(S) = amounts[i] BY <1>6
  <2> HIDE DEF H, S
  <2>4. SumOf(H \cup {k}) = SumOf(H) + Value[k] BY <2>2, LeafSums
  <2> DEFINE G == H \cup {k}
  <2>5. G \in SUBSET S BY <2>2
  <2> HIDE DEF G
  <2>6. SumOf(G) <= SumOf(S) /\ SumOf(G) \in Nat /\ SumOf(S) \in Nat BY <2>2, <2>5, LeafSums
  <2>7. SumOf(G) = SumOf(H) + Value[k] BY <2>4 DEF G
  <2> QED BY <2>1, <2>3, <2>6, <2>7
<1>9. CASE X = {}
  <2>1. B \subseteq C[i] BY <1>5, <1>9
  <2>2. C[i] \ B = {}
    <3> SUFFICES ASSUME NEW k \in C[i] \ B PROVE FALSE OBVIOUS
    <3>1. {m \in B : Value[m] >= Value[k]} \subseteq C[i] BY <2>1
    <3> QED BY <1>8, <3>1
  <2>3. C[i] = B BY <2>1, <2>2
  <2> QED BY <1>5, <2>3
<1>10. CASE X # {}
  <2>1. X \in SUBSET B /\ X \in SUBSET Leaf BY <1>1, <1>5
  <2>2. PICK l \in X : \A k \in X : Value[k] <= Value[l] BY <1>10, <2>1, LargestLeaf
  <2>3. l \in F \ C[i] /\ l \in Leaf /\ l \in B BY <1>1, <1>5
  <2> DEFINE R == C[i] \ B
             K == C[i] \cap B
  <2>4. R \in SUBSET Leaf /\ R \in SUBSET C[i] BY <1>6
  <2>5. \A k \in R : Value[k] <= Value[l]
    <3> SUFFICES ASSUME NEW k \in R, ~ (Value[k] <= Value[l]) PROVE FALSE OBVIOUS
    <3>1. Value[k] \in Nat /\ Value[l] \in Nat BY <2>3, <2>4, LeafSelectionAssumption
    <3>2. ASSUME NEW m \in B, Value[m] >= Value[k] PROVE m \in C[i]
      <4> SUFFICES ASSUME m \notin C[i] PROVE FALSE OBVIOUS
      <4>1. m \in X /\ Value[m] \in Nat BY <1>1, <1>5, LeafSelectionAssumption
      <4> QED BY <2>2, <3>1, <3>2, <4>1
    <3> QED BY <1>8, <3>2
  <2>6. SumOf(R) >= Value[l]
    <3> DEFINE S == C[i]
    <3>1. K \in SUBSET S /\ K \in SUBSET B /\ S \ K = R /\ B \ K = X /\ S \in SUBSET Leaf BY <1>1, <1>5, <1>6
    <3>2. SumOf(S) = amounts[i] BY <1>6
    <3>6. {l} \in SUBSET X OBVIOUS
    <3> HIDE DEF S, K, R
    <3>3. SumOf(S) = SumOf(K) + SumOf(R) /\ SumOf(K) \in Nat /\ SumOf(R) \in Nat BY <3>1, LeafSums
    <3>4. SumOf(B) = SumOf(K) + SumOf(X) /\ SumOf(X) \in Nat BY <1>1, <3>1, LeafSums
    <3>5. Value[l] <= SumOf(X)
      <4>1. SumOf({l}) <= SumOf(X) BY <2>1, <3>6, LeafSums
      <4> QED BY <2>3, <4>1, SumSingle
    <3>7. Value[l] \in Nat BY <2>3, LeafSelectionAssumption
    <3> QED BY <1>1, <1>7, <3>2, <3>3, <3>4, <3>5, <3>7
  <2>7. PowerValues(R \cup {l}) BY <1>1, <1>6, <2>3 DEF PowerValues
  <2>8. PICK Y \in SUBSET R : SumOf(Y) = Value[l]
    <3> HIDE DEF R
    <3> QED BY <2>3, <2>4, <2>5, <2>6, <2>7, Fill
  <2> DEFINE E == Traded(C, D, i, l, Y)
  <2>9. E \in [D -> SUBSET Leaf] /\ E[i] = (C[i] \ Y) \cup {l} /\ Exactly(E, F, T, amounts)
    <3>1. Y \in SUBSET C[i] /\ C \in [D -> SUBSET Leaf] /\ Exactly(C, F, T, amounts) BY <1>5
    <3>2. l \in F \ C[i] /\ SumOf(Y) = Value[l] BY <2>3, <2>8
    <3>3. CanTrade(C, F, D, T, amounts, i, l, Y) BY <3>1, <3>2 DEF CanTrade
    <3> HIDE DEF Paid, R, K
    <3> QED BY <3>3, TradeIsExact
  <2> HIDE DEF E
  <2>10. B \ E[i] = X \ {l} BY <1>5, <2>9
  <2>11. X \ {l} \in Left
    <3>1. X \ {l} \in SUBSET B BY <2>1
    <3>2. Paid(E) BY <2>9
    <3> HIDE DEF Paid
    <3> QED BY <2>10, <3>1, <3>2 DEF Left
  <2> QED BY <1>4, <2>11
<1> QED BY <1>9, <1>10

\* When some choice of leaves pays every target exactly, the batches do.
LEMMA ServingFinds ==
  ASSUME LInv, served = Targets, PowerValues(avail),
         NEW A \in [1..Targets -> SUBSET avail], Exactly(A, avail, 1..Targets, targets)
  PROVE  \A i \in 1..Targets : SumOf(batches[i]) = targets[i]
<1>0. LType /\ Greedy BY DEF LInv
<1>n. PICK n : n = Targets OBVIOUS
<1>p. PICK p : p = Places OBVIOUS
<1>d. PICK D : D = 1..n OBVIOUS
<1>1. n \in Nat /\ Serves(p, targets, n) /\ targets \in [D -> Nat] BY <1>0, <1>n, <1>p, <1>d, PlacesServe
<1>2. \A k \in 1..n : IsGreedy(avail \ GivenTo(k - 1), targets[p[k]], batches[p[k]])
  <2> TAKE k \in 1..n
  <2>1. k <= served BY <1>n, <1>1
  <2> QED BY <1>0, <1>n, <1>p, <2>1 DEF Greedy
<1>3. avail \in SUBSET Leaf BY <1>0 DEF LType
<1> DEFINE Later(h) == {p[m] : m \in (h + 1)..n}
           Pays(C, h) == C \in [D -> SUBSET Leaf] /\ Exactly(C, avail \ GivenTo(h), Later(h), targets)
           Bad == {h \in 0..n : ~ \E C : Pays(C, h)}
<1>4. \A h \in 0..n : Later(h) \subseteq D
  <2> SUFFICES ASSUME NEW h \in 0..n, NEW m \in (h + 1)..n PROVE p[m] \in D OBVIOUS
  <2>1. m \in 1..n OBVIOUS
  <2> QED BY <1>1, <1>d, <2>1 DEF Serves
<1>5. ASSUME NEW h \in 0..n, h < n, NEW C, Pays(C, h)
      PROVE  /\ SumOf(batches[p[h + 1]]) = targets[p[h + 1]]
             /\ \E E : Pays(E, h + 1)
  <2> DEFINE k == h + 1
             i == p[k]
             F == avail \ GivenTo(h)
             T == Later(h)
             B == batches[i]
  <2>1. k \in 1..n /\ k - 1 = h /\ h \in Nat BY <1>1, <1>5
  <2>2. IsGreedy(F, targets[i], B)
    <3>1. IsGreedy(avail \ GivenTo(k - 1), targets[p[k]], batches[p[k]]) BY <1>2, <2>1
    <3> QED BY <2>1, <3>1
  <2>3. i \in T /\ T \in SUBSET D
    <3>1. k \in (h + 1)..n BY <2>1
    <3> QED BY <1>4, <3>1
  <2>4. F \in SUBSET Leaf /\ PowerValues(F) BY <1>3 DEF PowerValues
  <2>5. C \in [D -> SUBSET Leaf] /\ Exactly(C, F, T, targets) BY <1>5
  <2> HIDE DEF F, T, i, k, B
  <2>6. PICK E \in [D -> SUBSET Leaf] : Exactly(E, F, T, targets) /\ E[i] = B
    <3>1. CanServe(C, F, D, T, targets, i, B) BY <2>2, <2>3, <2>4, <2>5 DEF CanServe
    <3> QED BY <3>1, GreedyIsExact
  <2>7. SumOf(B) = targets[i] BY <2>3, <2>6 DEF Exactly
  <2>8. GivenTo(k) = GivenTo(h) \cup B
    <3>1. k = h + 1 BY DEF k
    <3>2. Batched(batches, Firsts(p, k)) = Batched(batches, Firsts(p, h)) \cup batches[p[k]]
      BY <2>1, <3>1, BatchedNext
    <3> QED BY <1>p, <3>2 DEF GivenTo, B, i
  <2>9. Later(k) \subseteq T \ {i}
    <3> SUFFICES ASSUME NEW m \in (k + 1)..n PROVE p[m] \in T \ {i} OBVIOUS
    <3>1. m \in 1..n /\ m \in (h + 1)..n /\ m # k BY <2>1 DEF k
    <3>2. p[m] # p[k] BY <1>1, <2>1, <3>1 DEF Serves
    <3> QED BY <3>1, <3>2 DEF T, i
  <2>10. Exactly(E, avail \ GivenTo(k), Later(k), targets)
    <3> DEFINE W == Later(k)
    <3>1. W \subseteq T \ {i} BY <2>9
    <3> HIDE DEF W
    <3>2. \A j \in W : E[j] \subseteq F /\ SumOf(E[j]) = targets[j] /\ E[j] \cap B = {}
      BY <2>3, <2>6, <3>1 DEF Exactly
    <3>3. avail \ GivenTo(k) = F \ B BY <2>8 DEF F
    <3>4. \A j, m \in W : j # m => E[j] \cap E[m] = {} BY <2>6, <3>1 DEF Exactly
    <3>5. Exactly(E, F \ B, W, targets) BY <3>2, <3>4 DEF Exactly
    <3> QED BY <3>3, <3>5 DEF W
  <2>11. Pays(E, k) BY <2>6, <2>10
  <2> HIDE DEF Pays
  <2>12. \E Z : Pays(Z, k) BY <2>11
  <2> QED BY <2>7, <2>12 DEF k, i, B
<1>6. Bad = {}
  <2> SUFFICES ASSUME Bad # {} PROVE FALSE OBVIOUS
  <2>1. Bad \subseteq Nat OBVIOUS
  <2>2. Pays(A, 0)
    <3>1. GivenTo(0) = {}
      <4>1. Firsts(Places, 0) = {} BY DEF Firsts
      <4> QED BY <4>1 DEF GivenTo, Batched
    <3>2. Later(0) \subseteq 1..n
      <4>1. 0 \in 0..n BY <1>1
      <4> QED BY <1>4, <1>d, <4>1
    <3>3. A \in [D -> SUBSET Leaf] BY <1>3, <1>d, <1>n
    <3>4. Exactly(A, avail, 1..n, targets) BY <1>n
    <3>5. avail \ GivenTo(0) = avail BY <3>1
    <3> DEFINE W == Later(0)
    <3> HIDE DEF W
    <3>6. Exactly(A, avail, W, targets) BY <3>2, <3>4 DEF Exactly, W
    <3> QED BY <3>3, <3>5, <3>6 DEF W
  <2> HIDE DEF Bad, Pays
  <2>3. PICK h \in Bad : \A m \in Bad : h <= m BY <2>1, LeastNat
  <2>4. h \in 0..n /\ ~ \E C : Pays(C, h) BY DEF Bad
  <2>5. h # 0 BY <2>2, <2>4
  <2> DEFINE g == h - 1
  <2>6. g \in 0..n /\ g < n /\ g + 1 = h /\ g < h BY <1>1, <2>4, <2>5
  <2>7. g \notin Bad
    <3>1. \A m \in Bad : ~ (m < h) BY <2>1, <2>3
    <3> QED BY <2>6, <3>1
  <2> HIDE DEF g
  <2>8. PICK C : Pays(C, g) BY <2>6, <2>7 DEF Bad
  <2>9. \E E : Pays(E, g + 1) BY <1>5, <2>6, <2>8
  <2> QED BY <2>4, <2>6, <2>9
<1>7. ASSUME NEW k \in 1..n PROVE SumOf(batches[p[k]]) = targets[p[k]]
  <2> DEFINE h == k - 1
  <2>1. h \in 0..n /\ h < n /\ h + 1 = k BY <1>1
  <2> HIDE DEF Pays, h
  <2>2. PICK C : Pays(C, h) BY <1>6, <2>1
  <2>3. SumOf(batches[p[h + 1]]) = targets[p[h + 1]] BY <1>5, <2>1, <2>2
  <2> QED BY <2>1, <2>3
<1>8. \A i \in 1..n : \E k \in 1..n : i = p[k] BY <1>1 DEF Serves
<1> QED BY <1>7, <1>8, <1>n

\* There are finitely many targets.
LEMMA TargetsFinite ==
  ASSUME LType
  PROVE  IsFiniteSet(1..Targets)
<1>1. Targets \in Nat BY PlacesServe
<1> QED BY <1>1, FS_Interval

\* Leaves of power-of-two values are never swapped, and no error is thrown, when some
\* choice of them pays every target exactly.
THEOREM SwapsAreNeeded == Spec => []NoNeedlessSwap
<1>1. LInv => NoNeedlessSwap
  <2> SUFFICES ASSUME LInv, result \in {"swap", "error"}, \A l \in avail : Value[l] \in {2^k : k \in 0..MaxAmount},
                      NEW A \in [DOMAIN targets -> SUBSET avail],
                      \A i \in DOMAIN targets : SumOf(A[i]) = targets[i],
                      \A i, j \in DOMAIN targets : i # j => A[i] \cap A[j] = {}
               PROVE  FALSE
    BY DEF NoNeedlessSwap
  <2>0. LType /\ Accounts /\ Returned BY DEF LInv
  <2> DEFINE n == Targets
             D == 1..n
             f == Worths(batches, 1..n)
  <2>1. n \in Nat /\ DOMAIN targets = D /\ targets \in [1..n -> Nat] BY <2>0, PlacesServe
  <2>2. served = Targets /\ total # TargetSum(targets) BY <2>0 DEF Returned
  <2>3. PowerValues(avail) BY SelectionLoopsAssumption DEF PowerValues
  <2>4. A \in [1..Targets -> SUBSET avail] BY <2>1
  <2>5. Exactly(A, avail, 1..Targets, targets) BY <2>1, <2>4 DEF Exactly
  <2>6. \A i \in D : SumOf(batches[i]) = targets[i] BY <2>2, <2>3, <2>4, <2>5, ServingFinds
  <2>7. \A i \in D : targets[i] \in Int /\ f[i] = targets[i] BY <2>1, <2>6 DEF Worths
  <2>8. total = SumOver(f, D) BY <2>0 DEF Accounts
  <2>9. TargetSum(targets) = SumOver(targets, D) BY <2>0, TargetSumIs
  <2>10. IsFiniteSet(D) BY <2>0, TargetsFinite
  <2> HIDE DEF f, D
  <2>11. SumOver(targets, D) = SumOver(f, D) BY <2>7, <2>10, SumSame
  <2> QED BY <2>2, <2>8, <2>9, <2>11
<1> QED BY LoopInvariant, <1>1, PTL

-----------------------------------------------------------------------------
(***************************************************************************)
(* LeafSelection says what the loops return.                               *)
(***************************************************************************)
\* Where leaves of one value come in an order that favours the batch, the walk
\* takes the batch.
Favours(leaves, n, B, without) ==
  \A i, j \in 1..n :
    leaves[i] \in B /\ leaves[j] \notin B /\ leaves[j] \notin without /\ Value[leaves[i]] = Value[leaves[j]] => i < j

\* In such an order the walk takes the batch.
LEMMA WalkTakesGreedy ==
  ASSUME NEW S \in SUBSET Leaf, NEW leaves \in Descending(S), NEW target \in Nat, NEW without, NEW B,
         IsGreedy(S \ without, target, B), Favours(leaves, Cardinality(S), B, without)
  PROVE  Walk(target, without, leaves) = B
<1>n. PICK n : n = Cardinality(S) OBVIOUS
<1>1. /\ n \in Nat /\ leaves \in [1..n -> S] /\ leaves \in [1..n -> Leaf]
      /\ \A i, j \in 1..n : i < j => Value[leaves[i]] >= Value[leaves[j]]
      /\ \A l \in S : \E i \in 1..n : l = leaves[i]
  BY <1>n, DescendingIs
<1>2. Favours(leaves, n, B, without) BY <1>n
<1>3. PICK w : WalkOf(w, target, without, leaves) BY <1>1, WalkIs
<1>4. Len(leaves) = n /\ DOMAIN leaves = 1..n BY <1>1
<1>5. /\ w \in [0..n -> SUBSET Leaf] /\ w[0] = {} /\ w[n] = Walk(target, without, leaves)
      /\ \A k \in 1..n : w[k] = Taken(target, without, leaves[k], w[k - 1])
  BY <1>3, <1>4 DEF WalkOf
<1>6. B \in SUBSET S /\ B \in SUBSET Leaf /\ B \cap without = {} /\ SumOf(B) <= target /\ SumOf(B) \in Nat
  <2>1. B \in SUBSET S /\ B \in SUBSET Leaf /\ B \cap without = {} /\ SumOf(B) <= target BY DEF IsGreedy
  <2> QED BY <2>1, LeafSums
<1> DEFINE Bad == {k \in 0..n : w[k] # B \cap First(leaves, k)}
<1>7. Bad = {}
  <2> SUFFICES ASSUME Bad # {} PROVE FALSE OBVIOUS
  <2>1. Bad \subseteq Nat OBVIOUS
  <2> HIDE DEF Bad
  <2>2. PICK k \in Bad : \A m \in Bad : k <= m BY <2>1, LeastNat
  <2>3. k \in 0..n /\ w[k] # B \cap First(leaves, k) BY DEF Bad
  <2>4. k # 0
    <3>1. First(leaves, 0) = {} BY DEF First
    <3> QED BY <1>5, <2>3, <3>1
  <2> DEFINE h == k - 1
  <2>5. h \in 0..n /\ k \in 1..n /\ h + 1 = k /\ h < k BY <1>1, <2>3, <2>4
  <2>6. h \notin Bad
    <3>1. \A m \in Bad : ~ (m < k) BY <2>1, <2>2
    <3> QED BY <2>5, <3>1
  <2>13. k - 1 = h OBVIOUS
  <2> HIDE DEF h
  <2> DEFINE l == leaves[k]
             T == B \cap First(leaves, h)
  <2>7. w[h] = T BY <2>5, <2>6 DEF Bad
  <2>8. First(leaves, k) = First(leaves, h) \cup {l}
    <3>1. 1..k = (1..h) \cup {k} BY <2>5
    <3> QED BY <3>1 DEF First
  <2>9. w[k] = Taken(target, without, l, T) BY <1>5, <2>5, <2>7, <2>13
  <2>10. l \in S /\ l \in Leaf /\ T \in SUBSET B /\ T \in SUBSET Leaf /\ Value[l] \in Nat
    <3>1. l \in Leaf BY <1>1, <2>5
    <3> QED BY <1>1, <1>6, <2>5, <3>1, LeafSelectionAssumption
  <2>11. SumOf(T) \in Nat BY <2>10, LeafSums
  <2>12. CASE l \in B
    <3>1. CASE l \in T
      <4>1. w[k] = T BY <2>9, <3>1 DEF Taken
      <4>2. B \cap First(leaves, k) = T BY <2>8, <2>12, <3>1
      <4> QED BY <2>3, <4>1, <4>2
    <3>2. CASE l \notin T
      <4> DEFINE U == T \cup {l}
      <4>1. U \in SUBSET B /\ l \in Leaf \ T BY <2>10, <2>12, <3>2
      <4> HIDE DEF T, l
      <4>2. SumOf(U) = SumOf(T) + Value[l] BY <2>10, <4>1, LeafSums
      <4> HIDE DEF U
      <4>3. SumOf(U) <= SumOf(B) BY <1>6, <4>1, LeafSums
      <4>4. target - SumOf(T) >= Value[l] BY <1>6, <2>10, <2>11, <4>2, <4>3
      <4>5. w[k] = U BY <1>6, <2>9, <2>12, <4>4 DEF Taken, U
      <4>6. B \cap First(leaves, k) = U BY <2>8, <2>12 DEF T, U
      <4> QED BY <2>3, <4>5, <4>6
    <3> QED BY <3>1, <3>2
  <2>14. CASE l \notin B
    <3>1. B \cap First(leaves, k) = T BY <2>8, <2>14
    <3>2. CASE l \in without
      <4>1. w[k] = T BY <2>9, <3>2 DEF Taken
      <4> QED BY <2>3, <3>1, <4>1
    <3>3. CASE l \notin without
      <4> DEFINE H == {m \in B : Value[m] >= Value[l]}
      <4>1. SumOf(H) + Value[l] > target BY <2>10, <2>14, <3>3 DEF IsGreedy
      <4>2. H \subseteq T
        <5> SUFFICES ASSUME NEW m \in B, Value[m] >= Value[l] PROVE m \in First(leaves, h) OBVIOUS
        <5>1. PICK j \in 1..n : m = leaves[j] BY <1>1, <1>6
        <5>2. Value[m] \in Nat BY <1>6, LeafSelectionAssumption
        <5>3. j < k
          <6> SUFFICES ASSUME ~ (j < k) PROVE FALSE OBVIOUS
          <6>1. j # k BY <2>14, <5>1
          <6>2. k < j BY <1>1, <2>5, <6>1
          <6>3. Value[l] >= Value[m] BY <1>1, <2>5, <5>1, <6>2
          <6>4. Value[m] = Value[l] BY <2>10, <5>2, <6>3
          <6>5. leaves[j] \in B /\ leaves[k] \notin B /\ leaves[k] \notin without /\ Value[leaves[j]] = Value[leaves[k]]
            BY <2>14, <3>3, <5>1, <6>4
          <6> QED BY <1>2, <2>5, <6>5 DEF Favours
        <5>4. j \in 1..h BY <1>1, <2>5, <5>3
        <5> QED BY <5>1, <5>4 DEF First
      <4> HIDE DEF H, T, l
      <4>3. SumOf(H) <= SumOf(T) /\ SumOf(H) \in Nat BY <2>10, <4>2, LeafSums
      <4>4. ~ (target - SumOf(T) >= Value[l]) BY <2>10, <2>11, <4>1, <4>3
      <4>5. w[k] = T BY <2>9, <4>4 DEF Taken
      <4> QED BY <2>3, <3>1, <4>5
    <3> QED BY <3>2, <3>3
  <2> QED BY <2>12, <2>14
<1>8. w[n] = B \cap First(leaves, n)
  <2>1. n \in 0..n BY <1>1
  <2> QED BY <1>7, <2>1
<1>9. B \subseteq First(leaves, n) BY <1>1, <1>6 DEF First
<1> QED BY <1>5, <1>8, <1>9

\* The batches of a selection, in the order they were served.
LEMMA SelectionServes ==
  ASSUME LType, NEW bs \in selectLeaves(avail, targets), NEW k \in 1..Targets
  PROVE  /\ IsGreedy(avail \ Batched(bs, Firsts(Places, k - 1)), targets[Places[k]], bs[Places[k]])
         /\ Batched(bs, Firsts(Places, k - 1))
              = UNION {bs[j] : j \in {m \in DOMAIN targets : ServedBefore(targets, m, Places[k])}}
<1>n. PICK n : n = Targets OBVIOUS
<1>p. PICK p : p = Places OBVIOUS
<1>1. n \in Nat /\ DOMAIN targets = 1..n /\ targets \in [1..n -> Nat] /\ Serves(p, targets, n)
  BY <1>n, <1>p, PlacesServe
<1>2. k \in 1..n /\ p[k] \in 1..n BY <1>n, <1>1 DEF Serves
<1>3. {i \in 1..n : ServedBefore(targets, i, p[k])} = Firsts(p, k - 1)
  <2>1. EarlierPlaces(targets, n, p, k) BY <1>1, <1>2, ServedEarlier
  <2> QED BY <2>1 DEF EarlierPlaces
<1>4. Batched(bs, Firsts(p, k - 1)) = UNION {bs[j] : j \in {m \in DOMAIN targets : ServedBefore(targets, m, p[k])}}
  BY <1>1, <1>3 DEF Batched
<1>5. IsSelection(avail, targets, bs) BY DEF selectLeaves
<1>6. IsGreedy(avail \ UNION {bs[j] : j \in {m \in DOMAIN targets : ServedBefore(targets, m, p[k])}}, targets[p[k]], bs[p[k]])
  BY <1>1, <1>2, <1>5 DEF IsSelection
<1> QED BY <1>p, <1>4, <1>6

\* Every selection is what the loops return for some order of the leaves: those of
\* one value in the order of the batches they are in.
LEMMA SelectionIsWalked ==
  ASSUME LType
  PROVE  SelectionIsLoop
<1> SUFFICES ASSUME NEW bs \in selectLeaves(avail, targets)
    PROVE  \E leaves \in Descending(avail) :
             \A i \in DOMAIN targets :
               bs[i] = Walk(targets[i], UNION {bs[j] : j \in {k \in DOMAIN targets : ServedBefore(targets, k, i)}}, leaves)
  BY DEF SelectionIsLoop
<1>n. PICK n : n = Targets OBVIOUS
<1>p. PICK p : p = Places OBVIOUS
<1>S. PICK S : S = avail OBVIOUS
<1>1. n \in Nat /\ DOMAIN targets = 1..n /\ targets \in [1..n -> Nat] /\ Serves(p, targets, n)
  BY <1>n, <1>p, PlacesServe
<1>2. S \in SUBSET Leaf BY <1>S DEF LType
<1> DEFINE Given(k) == Batched(bs, Firsts(p, k - 1))
<1>3. \A k \in 1..n : /\ IsGreedy(S \ Given(k), targets[p[k]], bs[p[k]])
                      /\ Given(k) = UNION {bs[j] : j \in {m \in DOMAIN targets : ServedBefore(targets, m, p[k])}}
  <2> TAKE k \in 1..n
  <2>1. k \in 1..Targets BY <1>n
  <2>2. /\ IsGreedy(avail \ Batched(bs, Firsts(Places, k - 1)), targets[Places[k]], bs[Places[k]])
        /\ Batched(bs, Firsts(Places, k - 1))
              = UNION {bs[j] : j \in {m \in DOMAIN targets : ServedBefore(targets, m, Places[k])}}
    BY <2>1, SelectionServes
  <2> QED BY <1>p, <1>S, <2>2
<1>4. \A k, r \in 1..n : r < k => bs[p[r]] \subseteq Given(k)
  <2> SUFFICES ASSUME NEW k \in 1..n, NEW r \in 1..n, r < k PROVE bs[p[r]] \subseteq Given(k) OBVIOUS
  <2>1. r \in 1..(k - 1) OBVIOUS
  <2> QED BY <2>1 DEF Batched, Firsts
<1> HIDE DEF Given
<1>5. \A k, r \in 1..n : r < k => bs[p[r]] \cap bs[p[k]] = {} BY <1>3, <1>4 DEF IsGreedy
<1> DEFINE rank == [l \in Leaf |-> IF \E k \in 1..n : l \in bs[p[k]] THEN CHOOSE k \in 1..n : l \in bs[p[k]] ELSE n + 1]
<1>6. \A l \in Leaf :
        \/ rank[l] \in 1..n /\ l \in bs[p[rank[l]]]
        \/ rank[l] = n + 1 /\ \A k \in 1..n : l \notin bs[p[k]]
  OBVIOUS
<1> HIDE DEF rank
<1>7. \A l \in Leaf : rank[l] \in Nat BY <1>1, <1>6
<1>8. ASSUME NEW k \in 1..n, NEW l \in Leaf, l \in bs[p[k]] PROVE rank[l] = k
  <2>1. rank[l] \in 1..n /\ l \in bs[p[rank[l]]] BY <1>6, <1>8
  <2>2. rank[l] < k \/ rank[l] = k \/ k < rank[l] BY <1>1, <2>1
  <2> QED BY <1>5, <1>8, <2>1, <2>2
<1>9. ASSUME NEW k \in 1..n, NEW l \in Leaf, l \notin bs[p[k]], l \notin Given(k) PROVE k < rank[l]
  <2>1. CASE rank[l] = n + 1 BY <1>1, <2>1
  <2>2. CASE rank[l] \in 1..n /\ l \in bs[p[rank[l]]]
    <3>1. rank[l] # k BY <1>9, <2>2
    <3>2. ~ (rank[l] < k) BY <1>4, <1>9, <2>2
    <3> QED BY <1>1, <2>2, <3>1, <3>2
  <2> QED BY <1>6, <2>1, <2>2
<1> DEFINE R == {q \in S \X S : Value[q[1]] > Value[q[2]] \/ (Value[q[1]] = Value[q[2]] /\ rank[q[1]] <= rank[q[2]])}
<1>10. \A l, m \in S :
         <<l, m>> \in R <=> Value[l] > Value[m] \/ (Value[l] = Value[m] /\ rank[l] <= rank[m])
  OBVIOUS
<1> HIDE DEF R
<1>11. \A l \in S : Value[l] \in Nat /\ rank[l] \in Nat BY <1>2, <1>7, LeafSelectionAssumption
<1>12. Orders(R, S)
  <2>1. ASSUME NEW x \in S, NEW y \in S PROVE <<x, y>> \in R \/ <<y, x>> \in R BY <1>10, <1>11
  <2>2. ASSUME NEW x \in S, NEW y \in S, NEW z \in S, <<x, y>> \in R, <<y, z>> \in R PROVE <<x, z>> \in R
    BY <1>10, <1>11, <2>2
  <2> QED BY <2>1, <2>2 DEF Orders
<1>13. IsFiniteSet(S) BY <1>2, Leaves
<1>14. PICK leaves \in SetToSeqs(S) : Sorted(leaves, R) BY <1>12, <1>13, SortExists
<1>c. PICK c : c = Cardinality(S) OBVIOUS
<1>15. /\ c \in Nat /\ leaves \in [1..c -> S] /\ DOMAIN leaves = 1..c BY <1>c, <1>13, SeqOfSet
<1>16. \A i, j \in 1..c : i < j => <<leaves[i], leaves[j]>> \in R BY <1>14, <1>15 DEF Sorted
<1>17. leaves \in Descending(S)
  <2>1. \A i, j \in 1..c : i < j => Value[leaves[i]] >= Value[leaves[j]]
    <3> SUFFICES ASSUME NEW i \in 1..c, NEW j \in 1..c, i < j PROVE Value[leaves[i]] >= Value[leaves[j]] OBVIOUS
    <3>1. leaves[i] \in S /\ leaves[j] \in S /\ <<leaves[i], leaves[j]>> \in R BY <1>15, <1>16
    <3> QED BY <1>10, <1>11, <3>1
  <2> QED BY <1>15, <2>1 DEF Descending
<1>18. ASSUME NEW k \in 1..n PROVE Walk(targets[p[k]], Given(k), leaves) = bs[p[k]]
  <2>b. PICK B : B = bs[p[k]] OBVIOUS
  <2>w. PICK without : without = Given(k) OBVIOUS
  <2>1. IsGreedy(S \ without, targets[p[k]], B) BY <1>3, <2>b, <2>w
  <2>2. targets[p[k]] \in Nat BY <1>1 DEF Serves
  <2>3. Favours(leaves, c, B, without)
    <3> SUFFICES ASSUME NEW i \in 1..c, NEW j \in 1..c, leaves[i] \in B, leaves[j] \notin B, leaves[j] \notin without,
                        Value[leaves[i]] = Value[leaves[j]], ~ (i < j)
                 PROVE  FALSE
      BY DEF Favours
    <3>1. leaves[i] \in S /\ leaves[j] \in S /\ leaves[i] \in Leaf /\ leaves[j] \in Leaf BY <1>2, <1>15
    <3>2. rank[leaves[i]] = k BY <1>8, <2>b, <3>1
    <3>3. k < rank[leaves[j]] BY <1>9, <2>b, <2>w, <3>1
    <3>4. i # j OBVIOUS
    <3>5. j < i BY <1>15, <3>4
    <3>6. <<leaves[j], leaves[i]>> \in R BY <1>16, <3>5
    <3> QED BY <1>10, <1>11, <3>1, <3>2, <3>3, <3>6
  <2>4. Walk(targets[p[k]], without, leaves) = B BY <1>2, <1>17, <1>c, <2>1, <2>2, <2>3, WalkTakesGreedy
  <2> QED BY <2>b, <2>w, <2>4
<1>19. \A i \in 1..n : bs[i] = Walk(targets[i], UNION {bs[j] : j \in {k \in DOMAIN targets : ServedBefore(targets, k, i)}}, leaves)
  <2> TAKE i \in 1..n
  <2>1. PICK k \in 1..n : i = p[k] BY <1>1 DEF Serves
  <2>2. Given(k) = UNION {bs[j] : j \in {m \in DOMAIN targets : ServedBefore(targets, m, i)}} BY <1>3, <2>1
  <2> QED BY <1>18, <2>1, <2>2
<1> QED BY <1>S, <1>1, <1>17, <1>19

\* The batches of the loops are a selection, and the totals say whether it is found.
LEMMA LoopSelects ==
  ASSUME LInv, served = Targets
  PROVE  LoopIsSelection
<1>0. LType /\ Greedy /\ Accounts BY DEF LInv
<1>n. PICK n : n = Targets OBVIOUS
<1>p. PICK p : p = Places OBVIOUS
<1>1. n \in Nat /\ DOMAIN targets = 1..n /\ targets \in [1..n -> Nat] /\ Serves(p, targets, n)
  BY <1>0, <1>n, <1>p, PlacesServe
<1>2. batches \in [1..n -> SUBSET avail] /\ avail \in SUBSET Leaf BY <1>0, <1>n DEF LType
<1>3. IsSelection(avail, targets, batches)
  <2> SUFFICES ASSUME NEW i \in 1..n
      PROVE IsGreedy(avail \ UNION {batches[j] : j \in {m \in DOMAIN targets : ServedBefore(targets, m, i)}},
                     targets[i], batches[i])
    BY <1>1 DEF IsSelection
  <2>1. PICK k \in 1..n : i = p[k] BY <1>1 DEF Serves
  <2>2. k <= served BY <1>1, <1>n
  <2>3. IsGreedy(avail \ GivenTo(k - 1), targets[i], batches[i]) BY <1>0, <1>n, <1>p, <2>1, <2>2 DEF Greedy
  <2>4. {m \in 1..n : ServedBefore(targets, m, i)} = Firsts(p, k - 1)
    <3>1. n \in Nat /\ targets \in [1..n -> Nat] /\ Serves(p, targets, n) BY <1>1
    <3>2. EarlierPlaces(targets, n, p, k) BY ONLY k \in 1..n, <3>1, ServedEarlier
    <3> QED BY <2>1, <3>2 DEF EarlierPlaces
  <2>5. GivenTo(k - 1) = UNION {batches[j] : j \in {m \in DOMAIN targets : ServedBefore(targets, m, i)}}
    BY <1>1, <1>p, <2>4 DEF GivenTo, Batched
  <2> QED BY <2>3, <2>5
<1>4. batches \in selectLeaves(avail, targets) BY <1>1, <1>2, <1>3 DEF selectLeaves
<1>5. SumOf(Flat(batches)) = total
  <2> DEFINE D == 1..n
             f == Worths(batches, 1..n)
  <2>1. Flat(batches) = Batched(batches, D) BY <1>2 DEF Flat, Batched
  <2>2. total = SumOver(f, D) BY <1>0, <1>n DEF Accounts
  <2>3. Disjoint(batches, 1..n) BY <1>n, BatchesDisjoint
  <2>4. batches \in [1..n -> SUBSET Leaf] BY <1>2
  <2>5. IsFiniteSet(D) BY <1>1, FS_Interval
  <2>7. f = Worths(batches, D) OBVIOUS
  <2> HIDE DEF f, D
  <2>6. SumOf(Batched(batches, D)) = SumOver(f, D) BY <2>3, <2>4, <2>5, <2>7, BatchSum DEF D
  <2> QED BY <2>1, <2>2, <2>6
<1> QED BY <1>4, <1>5 DEF LoopIsSelection, Found

\* selectLeaves and determineLeavesToSwap return what LeafSelection says of them,
\* and every selection is returned for some order of the leaves.
THEOREM LoopsReturnSelections == Spec => []LoopsAgree
<1>1. LInv => LoopsAgree
  <2> SUFFICES ASSUME LInv PROVE LoopsAgree OBVIOUS
  <2>0. LType /\ Returned BY DEF LInv
  <2>1. served = Len(targets) => LoopIsSelection /\ SelectionIsLoop
    BY <2>0, LoopSelects, SelectionIsWalked DEF Targets
  <2> QED BY <2>0, <2>1 DEF LoopsAgree, Returned
<1> QED BY LoopInvariant, <1>1, PTL

-----------------------------------------------------------------------------
(***************************************************************************)
(* Sorting: a list in order has the same amounts, each as often.           *)
(***************************************************************************)
\* p is an order of 1..n.
Permutes(p, n) ==
  /\ p \in [1..n -> 1..n]
  /\ \A i, j \in 1..n : i # j => p[i] # p[j]
  /\ \A x \in 1..n : \E i \in 1..n : x = p[i]

\* The first k of an order are k places.
LEMMA FirstsCounted ==
  ASSUME NEW n \in Nat, NEW p, Permutes(p, n), NEW k \in 0..n
  PROVE  IsFiniteSet(Firsts(p, k)) /\ Cardinality(Firsts(p, k)) = k
<1> DEFINE Bad == {m \in 0..n : ~ (IsFiniteSet(Firsts(p, m)) /\ Cardinality(Firsts(p, m)) = m)}
<1> SUFFICES ASSUME Bad # {} PROVE FALSE OBVIOUS
<1>1. Bad \subseteq Nat OBVIOUS
<1> HIDE DEF Bad
<1>2. PICK m \in Bad : \A j \in Bad : m <= j BY <1>1, LeastNat
<1>3. m \in 0..n /\ ~ (IsFiniteSet(Firsts(p, m)) /\ Cardinality(Firsts(p, m)) = m) BY DEF Bad
<1>4. CASE m = 0
  <2>1. Firsts(p, m) = {} BY <1>4 DEF Firsts
  <2> QED BY <1>3, <1>4, <2>1, FS_EmptySet
<1>5. CASE m # 0
  <2> DEFINE j == m - 1
  <2>1. j \in 0..n /\ j < m /\ m = j + 1 /\ m \in 1..n BY <1>3, <1>5
  <2> HIDE DEF j
  <2>2. IsFiniteSet(Firsts(p, j)) /\ Cardinality(Firsts(p, j)) = j BY <1>2, <2>1 DEF Bad
  <2>3. Firsts(p, m) = Firsts(p, j) \cup {p[m]}
    <3>1. 1..m = (1..j) \cup {m} BY <2>1
    <3> QED BY <3>1 DEF Firsts
  <2>4. p[m] \notin Firsts(p, j)
    <3>1. \A i \in 1..j : i \in 1..n /\ i # m BY <2>1
    <3> QED BY <2>1, <3>1 DEF Firsts, Permutes
  <2>5. IsFiniteSet(Firsts(p, m)) /\ Cardinality(Firsts(p, m)) = j + 1 BY <2>2, <2>3, <2>4, FS_AddElement
  <2> QED BY <1>3, <2>1, <2>5
<1> QED BY <1>4, <1>5

\* Sorting is an order of the places in which the amounts ascend.
LEMMA AscendingIsOrder ==
  ASSUME NEW n \in Nat, NEW s \in [1..n -> Int]
  PROVE  \E p : /\ Permutes(p, n)
                /\ ascending(s) = [k \in 1..n |-> s[p[k]]]
                /\ \A i, j \in 1..n : i < j => s[p[i]] <= s[p[j]]
<1> DEFINE Before(i, j) == s[i] < s[j] \/ (s[i] = s[j] /\ i <= j)
           R == {e \in (1..n) \X (1..n) : Before(e[1], e[2])}
<1>1. IsFiniteSet(1..n) /\ Cardinality(1..n) = n BY FS_Interval
<1>2. \A i, j \in 1..n : <<i, j>> \in R <=> Before(i, j) OBVIOUS
<1>3. Orders(R, 1..n)
  <2>1. \A x, y \in 1..n : x # y => Before(x, y) \/ Before(y, x) OBVIOUS
  <2>2. \A x, y, z \in 1..n : Before(x, y) /\ Before(y, z) => Before(x, z) OBVIOUS
  <2> HIDE DEF Before, R
  <2> QED BY <1>2, <2>1, <2>2 DEF Orders
<1>4. \A i \in 1..n : Before(i, i) OBVIOUS
<1>5. \A i, j \in 1..n : Before(i, j) /\ Before(j, i) => i = j OBVIOUS
<1>6. \A i, j \in 1..n : Before(i, j) => s[i] <= s[j] OBVIOUS
<1> HIDE DEF R
<1>7. PICK p \in SetToSeqs(1..n) : Sorted(p, R) BY <1>1, <1>3, SortExists
<1>8. Permutes(p, n) /\ DOMAIN p = 1..n BY <1>1, <1>7, SeqOfSet DEF Permutes
<1>9. \A i, j \in 1..n : i < j => Before(p[i], p[j])
  <2>1. \A i, j \in 1..n : p[i] \in 1..n BY <1>8 DEF Permutes
  <2> HIDE DEF Before
  <2> QED BY <1>2, <1>7, <1>8, <2>1 DEF Sorted
<1> DEFINE place == [j \in 1..n |-> Cardinality({i \in 1..n : Before(i, j)})]
<1>10. ASSUME NEW k \in 1..n PROVE place[p[k]] = k
  <2>1. p[k] \in 1..n BY <1>8 DEF Permutes
  <2>2. {i \in 1..n : Before(i, p[k])} = Firsts(p, k)
    <3> HIDE DEF Before
    <3>1. ASSUME NEW i \in 1..n, Before(i, p[k]) PROVE i \in Firsts(p, k)
      <4>1. PICK m \in 1..n : i = p[m] BY <1>8 DEF Permutes
      <4>2. CASE m <= k
        <5>1. m \in 1..k BY <4>2
        <5> QED BY <4>1, <5>1 DEF Firsts
      <4>3. CASE m > k
        <5>1. Before(p[k], p[m]) BY <1>9, <4>3
        <5>2. p[k] = p[m] BY <1>5, <2>1, <3>1, <4>1, <5>1
        <5> QED BY <4>3, <5>2, <1>8 DEF Permutes
      <4> QED BY <4>2, <4>3
    <3>2. ASSUME NEW m \in 1..k PROVE p[m] \in 1..n /\ Before(p[m], p[k])
      <4>1. m \in 1..n OBVIOUS
      <4>2. p[m] \in 1..n BY <1>8, <4>1 DEF Permutes
      <4>3. CASE m = k BY <1>4, <2>1, <4>3
      <4>4. CASE m # k
        <5>1. m < k BY <4>4
        <5> QED BY <1>9, <4>1, <4>2, <5>1
      <4> QED BY <4>2, <4>3, <4>4
    <3> QED BY <3>1, <3>2 DEF Firsts
  <2>3. k \in 0..n OBVIOUS
  <2>4. Cardinality(Firsts(p, k)) = k BY <1>8, <2>3, FirstsCounted
  <2> HIDE DEF Before
  <2> QED BY <2>1, <2>2, <2>4
<1>11. DOMAIN s = 1..n OBVIOUS
<1>12. ascending(s) = [k \in 1..n |-> s[CHOOSE j \in 1..n : place[j] = k]] BY <1>11 DEF ascending
<1> HIDE DEF place
<1>13. ASSUME NEW k \in 1..n PROVE (CHOOSE j \in 1..n : place[j] = k) = p[k]
  <2>1. p[k] \in 1..n /\ place[p[k]] = k BY <1>8, <1>10 DEF Permutes
  <2>2. ASSUME NEW j \in 1..n, place[j] = k PROVE j = p[k]
    <3>1. PICK m \in 1..n : j = p[m] BY <1>8 DEF Permutes
    <3> QED BY <1>10, <2>2, <3>1
  <2> QED BY <2>1, <2>2
<1>14. ascending(s) = [k \in 1..n |-> s[p[k]]] BY <1>12, <1>13
<1>15. \A i, j \in 1..n : i < j => s[p[i]] <= s[p[j]]
  <2>1. \A i \in 1..n : p[i] \in 1..n BY <1>8 DEF Permutes
  <2> HIDE DEF Before
  <2> QED BY <1>6, <1>9, <2>1
<1> QED BY <1>8, <1>14, <1>15

\* A sum over chosen places.
LEMMA SumPicked ==
  ASSUME NEW S, IsFiniteSet(S), NEW r, NEW f, NEW g,
         \A i \in S : g[i] = f[r[i]] /\ f[r[i]] \in Int,
         \A i, j \in S : i # j => r[i] # r[j]
  PROVE  IsFiniteSet({r[i] : i \in S}) /\ SumOver(g, S) = SumOver(f, {r[i] : i \in S})
<1> DEFINE Img(T) == {r[i] : i \in T}
           Bad == {T \in SUBSET S : ~ (IsFiniteSet(Img(T)) /\ SumOver(g, T) = SumOver(f, Img(T)))}
<1> SUFFICES ASSUME Bad # {} PROVE FALSE OBVIOUS
<1>1. Bad \subseteq SUBSET S OBVIOUS
<1> HIDE DEF Bad
<1>2. PICK T \in Bad : \A X \in Bad : ~ (X \subseteq T /\ X # T) BY <1>1, FiniteMin
<1>3. T \in SUBSET S /\ ~ (IsFiniteSet(Img(T)) /\ SumOver(g, T) = SumOver(f, Img(T))) BY DEF Bad
<1>4. IsFiniteSet(T) BY <1>3, FS_Subset
<1>5. CASE T = {}
  <2>1. Img(T) = {} BY <1>5
  <2> QED BY <1>3, <1>5, <2>1, SumEmpty, FS_EmptySet
<1>6. CASE T # {}
  <2>1. PICK x \in T : TRUE BY <1>6
  <2> DEFINE U == T \ {x}
  <2>2. U \in SUBSET S /\ U \subseteq T /\ U # T BY <1>3, <2>1
  <2>3. IsFiniteSet(Img(U)) /\ SumOver(g, U) = SumOver(f, Img(U)) BY <1>2, <2>2 DEF Bad
  <2>4. Img(T) = Img(U) \cup {r[x]} BY <2>1
  <2>5. r[x] \notin Img(U) BY <1>3, <2>1
  <2>6. \A y \in T : g[y] \in Int BY <1>3
  <2>7. SumOver(g, T) = g[x] + SumOver(g, U) BY <1>4, <2>1, <2>6, SumRemove
  <2>8. \A y \in Img(U) \cup {r[x]} : f[y] \in Int BY <1>3, <2>1
  <2> HIDE DEF Img, U
  <2>9. SumOver(f, Img(U) \cup {r[x]}) = f[r[x]] + SumOver(f, Img(U)) BY <2>3, <2>5, <2>8, SumAdd
  <2>10. IsFiniteSet(Img(T)) BY <2>3, <2>4, FS_AddElement
  <2>11. g[x] = f[r[x]] BY <1>3, <2>1
  <2> QED BY <1>3, <2>3, <2>4, <2>7, <2>9, <2>10, <2>11
<1> QED BY <1>5, <1>6

-----------------------------------------------------------------------------
(***************************************************************************)
(* Totals of lists, what is picked from a list, and its prefixes.          *)
(***************************************************************************)
\* A total is the sum over the places.
LEMMA TotalIs == \A s : Total(s) = SumOver(s, DOMAIN s)
BY DEF Total, SumOver

\* t has the elements of s that r picks, each once.
Picks(t, m, s, n, r) ==
  /\ t \in [1..m -> Int] /\ s \in [1..n -> Int]
  /\ \A i \in 1..m : r[i] \in 1..n /\ t[i] = s[r[i]]
  /\ \A i, j \in 1..m : i # j => r[i] # r[j]

\* The lesser of two.
LEMMA MinOfTwo ==
  ASSUME NEW a \in Int, NEW b \in Int
  PROVE  Min({a, b}) = IF a <= b THEN a ELSE b
BY DEF Min

\* What is picked is there as often, and is worth the places it is picked from.
LEMMA PicksCount ==
  ASSUME NEW m \in Nat, NEW n \in Nat, NEW t, NEW s, NEW r, Picks(t, m, s, n, r)
  PROVE  /\ \A v : Count(t, v) <= Count(s, v)
         /\ Total(t) = SumOver(s, {r[i] : i \in 1..m})
<1>1. DOMAIN t = 1..m /\ DOMAIN s = 1..n BY DEF Picks
<1>2. IsFiniteSet(1..m) /\ IsFiniteSet(1..n) BY FS_Interval
<1>3. ASSUME NEW v PROVE Count(t, v) <= Count(s, v)
  <2> DEFINE A == {i \in 1..m : t[i] = v}
             B == {i \in 1..n : s[i] = v}
             h == [i \in A |-> r[i]]
  <2>1. IsFiniteSet(B) BY <1>2, FS_Subset
  <2>4. \A i \in A : r[i] \in B BY DEF Picks
  <2>5. \A i, j \in A : r[i] = r[j] => i = j BY DEF Picks
  <2> HIDE DEF A, B
  <2>6. h \in [A -> B] BY <2>4
  <2>7. \A i, j \in A : h[i] = h[j] => i = j BY <2>5
  <2>2. h \in Injection(A, B)
    <3> HIDE DEF h
    <3> QED BY <2>6, <2>7 DEF Injection, IsInjective
  <2> HIDE DEF h
  <2>3. Cardinality(A) <= Cardinality(B) BY <2>1, <2>2, FS_Injection
  <2> QED BY <1>1, <2>3 DEF Count, A, B
<1>4. Total(t) = SumOver(s, {r[i] : i \in 1..m})
  <2> DEFINE S == 1..m
  <2>1. \A i \in S : t[i] = s[r[i]] /\ s[r[i]] \in Int BY DEF Picks
  <2>2. \A i, j \in S : i # j => r[i] # r[j] BY DEF Picks
  <2>4. IsFiniteSet(S) BY <1>2
  <2> HIDE DEF S
  <2>5. SumOver(t, S) = SumOver(s, {r[i] : i \in S}) BY <2>1, <2>2, <2>4, SumPicked
  <2>3. SumOver(t, 1..m) = SumOver(s, {r[i] : i \in 1..m}) BY <2>5 DEF S
  <2> QED BY <1>1, <2>3, TotalIs
<1> QED BY <1>3, <1>4

\* m amounts after the first a.
Window(s, a, m) == [i \in 1..m |-> s[a + i]]

\* A prefix, as a function.
LEMMA PrefixIs ==
  ASSUME NEW n \in Nat, NEW s \in [1..n -> Int], NEW k \in 0..n
  PROVE  /\ SubSeq(s, 1, k) = [i \in 1..k |-> s[i]]
         /\ SubSeq(s, 1, k) \in [1..k -> Int]
         /\ Len(SubSeq(s, 1, k)) = k
         /\ Total(SubSeq(s, 1, k)) = SumOver(s, 1..k)
         /\ Total(SubSeq(s, 1, k)) \in Int
<1>1. \A i \in 1..k : s[i] \in Int OBVIOUS
<1>2. /\ SubSeq(s, 1, k) \in Seq(Int)
      /\ Len(SubSeq(s, 1, k)) = IF 1 <= k THEN k - 1 + 1 ELSE 0
      /\ \A i \in 1..(k - 1 + 1) : SubSeq(s, 1, k)[i] = s[1 + i - 1]
  BY <1>1, SubSeqProperties
<1>8. Len(SubSeq(s, 1, k)) = k /\ \A i \in 1..k : SubSeq(s, 1, k)[i] = s[i] BY <1>2
<1>3. SubSeq(s, 1, k) = [i \in 1..k |-> s[i]] BY <1>2, <1>8
<1> DEFINE t == SubSeq(s, 1, k)
           D == 1..k
<1>4. IsFiniteSet(D) BY FS_Interval
<1>5. \A i \in D : s[i] \in Int /\ t[i] = s[i] BY <1>1, <1>3
<1>6. DOMAIN t = D BY <1>3
<1> HIDE DEF t, D
<1>7. SumOver(s, D) = SumOver(t, D) /\ SumOver(s, D) \in Int BY <1>4, <1>5, SumSame, SumType
<1>9. SubSeq(s, 1, k) \in [1..k -> Int] BY <1>1, <1>3
<1>10. Total(t) = SumOver(s, D) BY <1>6, <1>7, TotalIs
<1> QED BY <1>3, <1>7, <1>8, <1>9, <1>10 DEF t, D

\* A prefix adds up to the sum over its places.
PrefixAddsUp(s, k) == Total(SubSeq(s, 1, k)) = SumOver(s, 1..k)

LEMMA PrefixSums ==
  ASSUME NEW n \in Nat, NEW s \in [1..n -> Int], NEW k \in 0..n
  PROVE  PrefixAddsUp(s, k)
<1>1. Total(SubSeq(s, 1, k)) = SumOver(s, 1..k) BY PrefixIs
<1> QED BY <1>1 DEF PrefixAddsUp

\* Of the prefixes of z of up to m amounts, SmallestPrefix returns one that pays, or
\* nothing because none does.
FirstToPay(z, amount, limit, m) ==
  \/ /\ SmallestPrefix(z, amount, limit) = Insufficient
     /\ \A k \in 1..m : Total(SubSeq(z, 1, k)) < amount
  \/ \E k \in 1..m : /\ SmallestPrefix(z, amount, limit) = SubSeq(z, 1, k)
                     /\ Total(SubSeq(z, 1, k)) >= amount
                     /\ SmallestPrefix(z, amount, limit) # Insufficient

\* SmallestPrefix: the first of the prefixes that pays, if there is one.
LEMMA PrefixPays ==
  ASSUME NEW n \in Nat, NEW z \in [1..n -> Int], NEW amount \in Int, NEW limit \in Nat \ {0},
         NEW m, m = Min({limit, n})
  PROVE  /\ m \in 0..n /\ m <= limit /\ (m = limit \/ m = n)
         /\ FirstToPay(z, amount, limit, m)
<1>1. Len(z) = n /\ m = IF limit <= n THEN limit ELSE n BY MinOfTwo
<1>6. m \in 0..n /\ m <= limit /\ (m = limit \/ m = n) /\ m \in Nat BY <1>1
<1> DEFINE enough == {k \in 1..m : Total(SubSeq(z, 1, k)) >= amount}
<1>2. SmallestPrefix(z, amount, limit) = IF enough = {} THEN Insufficient ELSE SubSeq(z, 1, Min(enough))
  BY <1>1 DEF SmallestPrefix
<1>3. \A k \in 1..m : Total(SubSeq(z, 1, k)) \in Int
  <2> TAKE k \in 1..m
  <2> QED BY <1>1, PrefixIs
<1>4. CASE enough = {}
  <2>1. ASSUME NEW k \in 1..m PROVE Total(SubSeq(z, 1, k)) < amount
    <3>1. ~ (Total(SubSeq(z, 1, k)) >= amount) BY <1>4
    <3>2. Total(SubSeq(z, 1, k)) \in Int BY <1>3
    <3> PICK x \in Int : x = Total(SubSeq(z, 1, k)) BY <3>2
    <3> QED BY <3>1
  <2> QED BY <1>2, <1>4, <1>6, <2>1 DEF FirstToPay
<1>5. CASE enough # {}
  <2> DEFINE k == Min(enough)
  <2>1. enough \subseteq Nat BY <1>1
  <2>2. k \in enough
    <3> HIDE DEF enough
    <3>1. PICK j \in enough : \A i \in enough : j <= i BY <1>5, <2>1, LeastNat
    <3> QED BY <3>1 DEF Min
  <2>3. k \in 1..m /\ Total(SubSeq(z, 1, k)) >= amount BY <2>2
  <2> HIDE DEF k
  <2>4. Len(SubSeq(z, 1, k)) = k BY <1>1, <2>3, PrefixIs
  <2>5. SubSeq(z, 1, k) # <<>>
    <3>1. k # 0 BY <2>3
    <3> PICK t : t = SubSeq(z, 1, k) OBVIOUS
    <3>2. Len(t) # 0 BY <2>4, <3>1
    <3> QED BY <3>2
  <2>6. SmallestPrefix(z, amount, limit) = SubSeq(z, 1, k) BY <1>2, <1>5 DEF k
  <2> QED BY <1>6, <2>3, <2>5, <2>6 DEF Insufficient, FirstToPay
<1> QED BY <1>4, <1>5

-----------------------------------------------------------------------------
(***************************************************************************)
(* selectTokenOutputs: the exchanges of smaller outputs for larger ones.   *)
(***************************************************************************)
\* A sequence of amounts is a function.
LEMMA SeqIsFunction ==
  ASSUME NEW s, NEW m \in Nat
  PROVE  s \in [1..m -> Int] <=> s \in Seq(Int) /\ Len(s) = m
<1>1. ASSUME s \in [1..m -> Int] PROVE s \in Seq(Int) /\ Len(s) = m BY <1>1
<1>2. ASSUME s \in Seq(Int), Len(s) = m PROVE s \in [1..m -> Int] BY <1>2, LenProperties
<1> QED BY <1>1, <1>2

\* Leaving the first and adding another at the end.
Shifted(u, s, x) == u = Append(Tail(s), x)
LEMMA ShiftIs ==
  ASSUME NEW m \in Nat \ {0}, NEW s \in [1..m -> Int]
  PROVE  \A x \in Int : \A u : Shifted(u, s, x) =>
           u \in [1..m -> Int] /\ u[m] = x /\ \A i \in 1..m : i # m => u[i] = s[i + 1]
<1> SUFFICES ASSUME NEW x \in Int, NEW u, Shifted(u, s, x)
             PROVE  u \in [1..m -> Int] /\ u[m] = x /\ \A i \in 1..m : i # m => u[i] = s[i + 1]
  OBVIOUS
<1>1. s \in Seq(Int) /\ Len(s) = m BY SeqIsFunction
<1>2. s # <<>> BY <1>1
<1> PICK t : t = Tail(s) OBVIOUS
<1>3. t \in Seq(Int) /\ Len(t) = m - 1 /\ \A i \in 1..(m - 1) : t[i] = s[i + 1] BY <1>1, <1>2
<1>8. u = Append(t, x) BY DEF Shifted
<1>4. u \in Seq(Int) /\ Len(u) = m BY <1>3, <1>8
<1>5. u[m] = x /\ \A i \in 1..(m - 1) : u[i] = t[i] BY <1>3, <1>8
<1>6. u \in [1..m -> Int] BY <1>4, SeqIsFunction
<1>7. \A i \in 1..m : i # m => i \in 1..(m - 1) OBVIOUS
<1> QED BY <1>3, <1>5, <1>6, <1>7

\* One step of Exchanged, and the exchanges as the recursive function FoldLeft evaluates.
Exchange(selected, output, amount) ==
  IF Total(selected) < amount THEN Append(Tail(selected), output) ELSE selected
Exchanges(g, amount, small, large) ==
  g = [T \in SUBSET DOMAIN large |->
         IF T = {} THEN small ELSE Exchange(g[T \ {Max(T)}], large[Max(T)], amount)]

\* Replaced as a recursive function over sets of places.
LEMMA ReplacedUnfolds ==
  ASSUME NEW small, NEW large, NEW amount
  PROVE  Replaced(small, large, amount) = (CHOOSE g : Exchanges(g, amount, small, large))[DOMAIN large]
BY DEF Replaced, FoldLeft, MapThenFoldSet, Exchanges, Exchange

\* w[k] is what is chosen after k exchanges.
ExchangesOf(w, amount, small, large, m) ==
  /\ w \in [0..Len(large) -> [1..m -> Int]]
  /\ w[0] = small
  /\ \A k \in DOMAIN large : w[k] = Exchange(w[k - 1], large[k], amount)
  /\ w[Len(large)] = Replaced(small, large, amount)

\* The exchanges are made one after the other.
LEMMA ExchangesAre ==
  ASSUME NEW n \in Nat, NEW large \in [1..n -> Int], NEW m \in Nat \ {0}, NEW small \in [1..m -> Int],
         NEW amount \in Int
  PROVE  /\ Len(large) = n /\ DOMAIN large = 1..n
         /\ \E w : ExchangesOf(w, amount, small, large, m)
<1> DEFINE D == 1..n
           V == [1..m -> Int]
           b == small
           H == [p \in D \X V |-> Exchange(p[2], large[p[1]], amount)]
<1>1. H \in [D \X V -> V]
  <2>1. ASSUME NEW sel \in V, NEW x \in Int PROVE Exchange(sel, x, amount) \in V
    <3>1. Shifted(Append(Tail(sel), x), sel, x) BY DEF Shifted
    <3>4. Append(Tail(sel), x) \in V BY <3>1, ShiftIs
    <3> QED BY <3>4 DEF Exchange
  <2>2. \A p \in D \X V : p[2] \in V /\ large[p[1]] \in Int OBVIOUS
  <2> HIDE DEF V, D
  <2> QED BY <2>1, <2>2
<1>2. b \in V OBVIOUS
<1>3. \A k \in D, v \in V : H[<<k, v>>] = Exchange(v, large[k], amount) OBVIOUS
<1>0. D = 1..n OBVIOUS
<1> HIDE DEF D, V, H, b
<1>4. PICK f \in [SUBSET D -> V] : Folds(f, D, b, H)
  BY <1>0, <1>1, <1>2, FoldExists
<1>5. ASSUME NEW T \in SUBSET D
      PROVE  f[T] = IF T = {} THEN small ELSE Exchange(f[T \ {Max(T)}], large[Max(T)], amount)
  <2>1. CASE T = {} BY <1>4, <2>1 DEF b, Folds
  <2>2. CASE T # {}
    <3>1. Max(T) \in D BY <2>2, <1>0, MaxIn
    <3>2. f[T \ {Max(T)}] \in V OBVIOUS
    <3> QED BY <1>3, <1>4, <2>2, <3>1, <3>2 DEF Folds
  <2> QED BY <2>1, <2>2
<1>6. DOMAIN large = D BY <1>0
<1>7. Exchanges(f, amount, small, large) BY <1>5, <1>6 DEF Exchanges
<1> DEFINE g == CHOOSE g : Exchanges(g, amount, small, large)
<1>8. Exchanges(g, amount, small, large) BY <1>7
<1>9. Replaced(small, large, amount) = g[D] BY <1>6, ReplacedUnfolds
<1> HIDE DEF g
<1>10. g[{}] = b BY <1>8 DEF Exchanges, b
<1>11. ASSUME NEW T \in SUBSET D, T # {}, g[T \ {Max(T)}] \in V
       PROVE  g[T] = H[<<Max(T), g[T \ {Max(T)}]>>]
  <2>1. Max(T) \in D BY <1>11, <1>0, MaxIn
  <2>2. g[T] = Exchange(g[T \ {Max(T)}], large[Max(T)], amount) BY <1>6, <1>8, <1>11 DEF Exchanges
  <2> QED BY <1>3, <1>11, <2>1, <2>2
<1>15. FoldsWithin(g, D, V, b, H) BY <1>10, <1>11 DEF FoldsWithin
<1>12. PICK w : FoldSteps(w, n, V, b, H, g[D])
  BY <1>0, <1>1, <1>2, <1>15, FoldPrefixes
<1>13. \A k \in D : w[k - 1] \in V BY <1>0, <1>12 DEF FoldSteps
<1>14. \A k \in D : w[k] = Exchange(w[k - 1], large[k], amount) BY <1>0, <1>3, <1>12, <1>13 DEF FoldSteps
<1>16. Len(large) = n OBVIOUS
<1> QED BY <1>0, <1>6, <1>9, <1>12, <1>14, <1>16 DEF V, b, FoldSteps, ExchangesOf

\* The outputs in the order in which Exchanged takes them: the first limit of them, then
\* the others from the largest.
TakenFrom(limit, n) == [j \in 1..n |-> IF j <= limit THEN j ELSE n - (j - limit) + 1]
InTurn(a, limit, n) == [j \in 1..n |-> a[TakenFrom(limit, n)[j]]]
ChosenPlaces(limit, n, k) == [i \in 1..limit |-> TakenFrom(limit, n)[k + i]]
ChosenAfter(a, limit, n, k) == Window(InTurn(a, limit, n), k, limit)

\* A choice is limit of the outputs, each once.
LEMMA ChosenIs ==
  ASSUME NEW n \in Nat, NEW a \in [1..n -> Int], NEW limit \in Nat \ {0}, limit < n,
         NEW k \in 0..(n - limit)
  PROVE  /\ ChosenAfter(a, limit, n, k) \in [1..limit -> Int]
         /\ Len(ChosenAfter(a, limit, n, k)) = limit
         /\ Picks(ChosenAfter(a, limit, n, k), limit, a, n, ChosenPlaces(limit, n, k))
         /\ Total(ChosenAfter(a, limit, n, k)) \in Int
<1>1. \A i \in 1..limit : k + i \in 1..n OBVIOUS
<1>2. \A j \in 1..n : TakenFrom(limit, n)[j] \in 1..n BY DEF TakenFrom
<1>3. \A i, j \in 1..n : i # j => TakenFrom(limit, n)[i] # TakenFrom(limit, n)[j] BY DEF TakenFrom
<1>4. \A i \in 1..limit : ChosenAfter(a, limit, n, k)[i] = a[TakenFrom(limit, n)[k + i]]
  BY <1>1 DEF ChosenAfter, Window, InTurn
<1>5. ChosenAfter(a, limit, n, k) \in [1..limit -> Int]
  <2>1. \A i \in 1..limit : a[TakenFrom(limit, n)[k + i]] \in Int BY <1>1, <1>2
  <2> QED BY <1>1, <2>1 DEF ChosenAfter, Window, InTurn
<1>6. \A i, j \in 1..limit : i # j => k + i # k + j OBVIOUS
<1>7. Total(ChosenAfter(a, limit, n, k)) \in Int
  <2> DEFINE D == 1..limit
             t == ChosenAfter(a, limit, n, k)
  <2>1. IsFiniteSet(D) BY FS_Interval
  <2>2. DOMAIN t = D /\ \A i \in D : t[i] \in Int BY <1>5
  <2> HIDE DEF D, t
  <2> QED BY <2>1, <2>2, SumType, TotalIs DEF t
<1>8. Len(ChosenAfter(a, limit, n, k)) = limit BY <1>5
<1>9. \A i, j \in 1..limit : i # j => TakenFrom(limit, n)[k + i] # TakenFrom(limit, n)[k + j]
  BY <1>1, <1>3, <1>6
<1> DEFINE f == [i \in 1..limit |-> TakenFrom(limit, n)[k + i]]
<1>10. \A i \in 1..limit : f[i] \in 1..n BY <1>1, <1>2
<1>11. \A i \in 1..limit : ChosenAfter(a, limit, n, k)[i] = a[f[i]] BY <1>4
<1>12. \A i, j \in 1..limit : i # j => f[i] # f[j] BY <1>9
<1>13. Picks(ChosenAfter(a, limit, n, k), limit, a, n, f)
  <2> HIDE DEF f
  <2> QED BY <1>5, <1>10, <1>11, <1>12 DEF Picks
<1> QED BY <1>5, <1>7, <1>8, <1>13 DEF ChosenPlaces

\* An exchange moves on by one place.
LEMMA ChosenNext ==
  ASSUME NEW n \in Nat, NEW a \in [1..n -> Int], NEW limit \in Nat \ {0}, limit < n,
         NEW j \in 0..(n - limit), NEW k \in 0..(n - limit), k = j + 1
  PROVE  Append(Tail(ChosenAfter(a, limit, n, j)), a[n - k + 1]) = ChosenAfter(a, limit, n, k)
<1> DEFINE s == ChosenAfter(a, limit, n, j)
           t == ChosenAfter(a, limit, n, k)
           x == a[n - k + 1]
<1>1. s \in [1..limit -> Int] /\ t \in [1..limit -> Int] BY ChosenIs
<1>4. \A i \in 1..limit : s[i] = InTurn(a, limit, n)[j + i] /\ t[i] = InTurn(a, limit, n)[k + i]
  BY DEF ChosenAfter, Window
<1>2. x \in Int OBVIOUS
<1>3. InTurn(a, limit, n)[k + limit] = x
  <2>1. k + limit \in 1..n /\ k + limit > limit /\ n - ((k + limit) - limit) + 1 = n - k + 1 OBVIOUS
  <2> QED BY <2>1 DEF InTurn, TakenFrom
<1> HIDE DEF s, t, x
<1>5. PICK u : u = Append(Tail(s), x) OBVIOUS
<1>6. u \in [1..limit -> Int] /\ u[limit] = x /\ \A i \in 1..limit : i # limit => u[i] = s[i + 1]
  <2>1. Shifted(u, s, x) BY <1>5 DEF Shifted
  <2>2. \A y \in Int : \A v : Shifted(v, s, y) =>
          v \in [1..limit -> Int] /\ v[limit] = y /\ \A i \in 1..limit : i # limit => v[i] = s[i + 1]
    BY <1>1, ShiftIs
  <2> QED BY <1>2, <2>1, <2>2
<1>7. ASSUME NEW i \in 1..limit PROVE u[i] = t[i]
  <2>1. CASE i = limit BY <1>3, <1>4, <1>6, <2>1
  <2>2. CASE i # limit
    <3>1. i + 1 \in 1..limit /\ j + (i + 1) = k + i BY <2>2
    <3> QED BY <1>4, <1>6, <2>2, <3>1
  <2> QED BY <2>1, <2>2
<1>9. u = t BY <1>1, <1>6, <1>7
<1> QED BY <1>5, <1>9 DEF s, t, x

\* What Exchanged starts from.
LEMMA ExchangeStarts ==
  ASSUME NEW n \in Nat, NEW a \in [1..n -> Int], NEW limit \in Nat \ {0}, limit < n, NEW L, L = n - limit
  PROVE  /\ L \in Nat /\ L > 0
         /\ SubSeq(a, 1, Min({limit, Len(a)})) = ChosenAfter(a, limit, n, 0)
         /\ Reverse(SubSeq(a, limit + 1, Len(a))) \in [1..L -> Int]
         /\ \A k \in 1..L : Reverse(SubSeq(a, limit + 1, Len(a)))[k] = a[n - k + 1]
<1>1. L \in Nat /\ L > 0 /\ limit + L = n OBVIOUS
<1>2. Len(a) = n /\ Min({limit, Len(a)}) = limit BY MinOfTwo
<1>3. SubSeq(a, 1, limit) = ChosenAfter(a, limit, n, 0)
  <2>1. SubSeq(a, 1, limit) = [i \in 1..limit |-> a[i]] BY PrefixIs
  <2>2. \A i \in 1..limit : InTurn(a, limit, n)[0 + i] = a[i]
    <3>1. \A i \in 1..limit : 0 + i = i /\ i \in 1..n OBVIOUS
    <3> QED BY <3>1 DEF InTurn, TakenFrom
  <2> QED BY <2>1, <2>2 DEF ChosenAfter, Window
<1>4. \A i \in (limit + 1)..n : a[i] \in Int OBVIOUS
<1> DEFINE t == SubSeq(a, limit + 1, n)
<1>5. t \in Seq(Int) /\ Len(t) = L /\ \A i \in 1..L : t[i] = a[limit + i]
  <2>1. /\ t \in Seq(Int)
        /\ Len(t) = IF limit + 1 <= n THEN n - (limit + 1) + 1 ELSE 0
        /\ \A i \in 1..(n - (limit + 1) + 1) : t[i] = a[(limit + 1) + i - 1]
    BY <1>4, SubSeqProperties
  <2>2. n - (limit + 1) + 1 = L OBVIOUS
  <2>3. \A i \in 1..L : (limit + 1) + i - 1 = limit + i OBVIOUS
  <2> QED BY <2>1, <2>2, <2>3
<1> HIDE DEF t
<1>6. Reverse(t) = [k \in 1..L |-> t[(L - k) + 1]] BY <1>5 DEF Reverse
<1>7. \A k \in 1..L : (L - k) + 1 \in 1..L /\ limit + ((L - k) + 1) = n - k + 1 BY <1>1
<1>8. \A k \in 1..L : t[(L - k) + 1] = a[n - k + 1] BY <1>5, <1>7
<1>9. \A k \in 1..L : a[n - k + 1] \in Int BY <1>1
<1>10. Reverse(t) \in [1..L -> Int] /\ \A k \in 1..L : Reverse(t)[k] = a[n - k + 1]
  BY <1>6, <1>8, <1>9
<1>11. Reverse(SubSeq(a, limit + 1, Len(a))) = Reverse(t) BY <1>2 DEF t
<1>12. SubSeq(a, 1, Min({limit, Len(a)})) = ChosenAfter(a, limit, n, 0) BY <1>2, <1>3
<1> QED BY <1>1, <1>10, <1>11, <1>12

\* The same of the choices that Exchanged goes through.
FirstChoiceToPay(a, amount, limit, n) ==
  \/ \E k \in 0..(n - limit) : /\ Exchanged(a, amount, limit) = ChosenAfter(a, limit, n, k)
                               /\ Total(ChosenAfter(a, limit, n, k)) >= amount
  \/ /\ Exchanged(a, amount, limit) = Insufficient
     /\ \A k \in 0..(n - limit) : Total(ChosenAfter(a, limit, n, k)) < amount

\* Exchanged returns the first of the choices it goes through that pays, or nothing
\* because none does.
LEMMA ExchangedPays ==
  ASSUME NEW n \in Nat, NEW a \in [1..n -> Int], NEW limit \in Nat \ {0}, limit < n,
         NEW amount \in Int
  PROVE  FirstChoiceToPay(a, amount, limit, n)
<1> DEFINE L == n - limit
           small == SubSeq(a, 1, Min({limit, Len(a)}))
           large == Reverse(SubSeq(a, limit + 1, Len(a)))
           chosen == Replaced(small, large, amount)
           C(k) == ChosenAfter(a, limit, n, k)
<1>1. /\ L \in Nat /\ L > 0 /\ small = C(0)
      /\ large \in [1..L -> Int] /\ \A k \in 1..L : large[k] = a[n - k + 1]
  BY ExchangeStarts
<1>2. \A k \in 0..L : C(k) \in [1..limit -> Int] /\ Total(C(k)) \in Int BY ChosenIs
<1>3. \A j \in 0..L, k \in 0..L : k = j + 1 => Append(Tail(C(j)), a[n - k + 1]) = C(k) BY ChosenNext
<1>4. Exchanged(a, amount, limit) = IF Total(chosen) < amount THEN Insufficient ELSE chosen
  BY DEF Exchanged
<1>13. 0 \in 0..L BY <1>1
<1>5. small \in [1..limit -> Int]
  <2> HIDE DEF L, small, C
  <2> QED BY <1>1, <1>2, <1>13
<1> HIDE DEF L, small, large, C
<1>6. /\ Len(large) = L /\ DOMAIN large = 1..L
      /\ \E w : ExchangesOf(w, amount, small, large, limit)
  BY <1>1, <1>5, ExchangesAre
<1> HIDE DEF chosen
<1>7. PICK w : ExchangesOf(w, amount, small, large, limit) BY <1>6
<1> DEFINE Short(k) == \A i \in 0..L : i < k => Total(C(i)) < amount
           Good(k) == \/ Short(k) /\ w[k] = C(k)
                      \/ \E j \in 0..L : w[k] = C(j) /\ Total(C(j)) >= amount
           Bad == {k \in 0..L : ~ Good(k)}
<1>8. Bad = {}
  <2> SUFFICES ASSUME Bad # {} PROVE FALSE OBVIOUS
  <2>1. Bad \subseteq Nat BY <1>1
  <2> HIDE DEF Bad
  <2>2. PICK k \in Bad : \A m \in Bad : k <= m BY <2>1, LeastNat
  <2>3. k \in 0..L /\ ~ Good(k) BY DEF Bad
  <2>4. k # 0
    <3>1. Short(0) BY <1>1
    <3>2. w[0] = C(0) BY <1>1, <1>7 DEF ExchangesOf
    <3> QED BY <2>3, <3>1, <3>2
  <2> DEFINE j == k - 1
  <2>5. j \in 0..L /\ k \in 1..L /\ k = j + 1 /\ j < k BY <1>1, <2>3, <2>4
  <2>6. w[k] = Exchange(w[j], large[k], amount) BY <1>6, <1>7, <2>5 DEF ExchangesOf
  <2> HIDE DEF j
  <2>7. j \notin Bad BY <2>1, <2>2, <2>5
  <2>8. Good(j) BY <2>5, <2>7 DEF Bad
  <2>9. CASE \E i \in 0..L : w[j] = C(i) /\ Total(C(i)) >= amount
    <3>1. PICK i \in 0..L : w[j] = C(i) /\ Total(C(i)) >= amount BY <2>9
    <3>2. Total(C(i)) \in Int BY <1>2
    <3>3. w[k] = C(i)
      <4>1. ~ (Total(w[j]) < amount) BY <3>1, <3>2
      <4> QED BY <2>6, <3>1, <4>1 DEF Exchange
    <3> QED BY <2>3, <3>1, <3>3
  <2>10. CASE Short(j) /\ w[j] = C(j)
    <3>1. CASE Total(C(j)) < amount
      <4>1. w[k] = C(k)
        <5>1. w[k] = Append(Tail(C(j)), large[k]) BY <2>6, <2>10, <3>1 DEF Exchange
        <5> QED BY <1>1, <1>3, <2>5, <5>1
      <4>2. Short(k)
        <5>1. \A i \in 0..L : i < k => i < j \/ i = j BY <2>5
        <5> QED BY <2>10, <3>1, <5>1
      <4> QED BY <2>3, <4>1, <4>2
    <3>2. CASE ~ (Total(C(j)) < amount)
      <4>1. Total(C(j)) \in Int BY <1>2, <2>5
      <4>2. Total(C(j)) >= amount BY <3>2, <4>1
      <4>3. w[k] = C(j) BY <2>6, <2>10, <3>2 DEF Exchange
      <4> QED BY <2>3, <2>5, <4>2, <4>3
    <3> QED BY <3>1, <3>2
  <2> QED BY <2>8, <2>9, <2>10
<1>9. L \in 0..L /\ Good(L)
  <2> HIDE DEF Good
  <2>1. \A k \in 0..L : Good(k) BY <1>8
  <2> QED BY <1>1, <2>1
<1>10. w[L] = chosen BY <1>6, <1>7 DEF ExchangesOf, chosen
<1>11. CASE \E j \in 0..L : w[L] = C(j) /\ Total(C(j)) >= amount
  <2>1. PICK j \in 0..L : w[L] = C(j) /\ Total(C(j)) >= amount BY <1>11
  <2>2. ~ (Total(chosen) < amount) BY <1>2, <1>10, <2>1
  <2>3. Exchanged(a, amount, limit) = C(j) BY <1>4, <1>10, <2>1, <2>2
  <2> QED BY <2>1, <2>3 DEF C, L, FirstChoiceToPay
<1>12. CASE Short(L) /\ w[L] = C(L)
  <2>1. CASE Total(C(L)) < amount
    <3>1. Exchanged(a, amount, limit) = Insufficient BY <1>4, <1>10, <1>12, <2>1
    <3>2. \A i \in 0..L : i < L \/ i = L BY <1>1
    <3>3. \A i \in 0..L : Total(C(i)) < amount BY <1>12, <2>1, <3>2
    <3> QED BY <3>1, <3>3 DEF C, L, FirstChoiceToPay
  <2>2. CASE ~ (Total(C(L)) < amount)
    <3>1. Total(C(L)) >= amount BY <1>2, <1>9, <2>2
    <3>2. Exchanged(a, amount, limit) = C(L) BY <1>4, <1>10, <1>12, <2>2
    <3> QED BY <1>9, <3>1, <3>2 DEF C, L, FirstChoiceToPay
  <2> QED BY <2>1, <2>2
<1> QED BY <1>9, <1>11, <1>12

-----------------------------------------------------------------------------
(***************************************************************************)
(* selectTokenOutputs: what it returns pays, or nothing does.              *)
(***************************************************************************)
\* What is picked of what is picked is picked.
LEMMA PicksCompose ==
  ASSUME NEW m \in Nat, NEW n \in Nat, NEW u, NEW t, NEW s, NEW r, NEW q,
         Picks(u, m, t, n, r), Picks(t, n, s, n, q)
  PROVE  Picks(u, m, s, n, [i \in 1..m |-> q[r[i]]])
BY DEF Picks

\* A prefix of what is picked is picked.
LEMMA PrefixPicks ==
  ASSUME NEW n \in Nat, NEW t, NEW s, NEW r, Picks(t, n, s, n, r), NEW k \in 0..n
  PROVE  Picks(SubSeq(t, 1, k), k, s, n, r)
<1>1. t \in [1..n -> Int] BY DEF Picks
<1>2. SubSeq(t, 1, k) = [i \in 1..k |-> t[i]] /\ SubSeq(t, 1, k) \in [1..k -> Int] BY <1>1, PrefixIs
<1>3. \A i \in 1..k : i \in 1..n OBVIOUS
<1> QED BY <1>2, <1>3 DEF Picks

\* Sorting picks every amount once.
LEMMA SortingPicks ==
  ASSUME NEW n \in Nat, NEW s \in [1..n -> Nat]
  PROVE  /\ ascending(s) \in [1..n -> Nat] /\ descending(s) \in [1..n -> Nat]
         /\ \A i \in 1..n : descending(s)[i] = ascending(s)[n - i + 1]
         /\ \A i, j \in 1..n : i < j => ascending(s)[i] <= ascending(s)[j]
         /\ \E p : Picks(ascending(s), n, s, n, p) /\ Permutes(p, n)
         /\ \E q : Picks(descending(s), n, s, n, q)
         /\ Total(ascending(s)) = Total(s) /\ Total(descending(s)) = Total(s) /\ Total(s) \in Nat
<1> DEFINE a == ascending(s)
           z == descending(s)
<1>0. s \in [1..n -> Int] OBVIOUS
<1>1. PICK p : /\ Permutes(p, n)
               /\ a = [k \in 1..n |-> s[p[k]]]
               /\ \A i, j \in 1..n : i < j => s[p[i]] <= s[p[j]]
  BY <1>0, AscendingIsOrder
<1>2. a \in [1..n -> Nat] /\ a \in [1..n -> Int]
  <2>1. \A k \in 1..n : p[k] \in 1..n BY <1>1 DEF Permutes
  <2>2. \A k \in 1..n : s[p[k]] \in Nat /\ s[p[k]] \in Int BY <2>1
  <2> HIDE DEF a
  <2> QED BY <1>1, <2>2
<1>3. Picks(a, n, s, n, p) BY <1>0, <1>1, <1>2 DEF Picks, Permutes
<1>4. z = [i \in 1..n |-> a[(n - i) + 1]]
  <2> HIDE DEF a
  <2>1. Len(a) = n BY <1>2
  <2> QED BY <2>1 DEF descending, Reverse, a
<1> HIDE DEF a, z
<1> DEFINE r == [i \in 1..n |-> n - i + 1]
<1>5. z \in [1..n -> Nat] /\ z \in [1..n -> Int] /\ \A i \in 1..n : z[i] = a[n - i + 1] BY <1>2, <1>4
<1>6. Picks(z, n, a, n, r) BY <1>2, <1>5 DEF Picks
<1>7. Picks(z, n, s, n, [i \in 1..n |-> p[r[i]]])
  <2> HIDE DEF r
  <2> QED BY <1>3, <1>6, PicksCompose
<1>8. {p[i] : i \in 1..n} = 1..n BY <1>1 DEF Permutes
<1>9. DOMAIN s = 1..n OBVIOUS
<1>10. Total(a) = Total(s)
  <2>1. Total(a) = SumOver(s, {p[i] : i \in 1..n}) BY <1>3, PicksCount
  <2> QED BY <1>8, <1>9, <2>1, TotalIs
<1>11. DOMAIN a = 1..n BY <1>2
<1>12. {r[i] : i \in 1..n} = 1..n
  <2>1. \A x \in 1..n : n - x + 1 \in 1..n /\ x = r[n - x + 1] OBVIOUS
  <2>2. \A i \in 1..n : r[i] \in 1..n OBVIOUS
  <2> HIDE DEF r
  <2> QED BY <2>1, <2>2
<1>13. Total(z) = Total(a)
  <2> HIDE DEF r
  <2>1. Total(z) = SumOver(a, {r[i] : i \in 1..n}) BY <1>6, PicksCount
  <2> QED BY <1>11, <1>12, <2>1, TotalIs
<1>14. Total(s) \in Nat
  <2> DEFINE D == 1..n
  <2>1. IsFiniteSet(D) BY FS_Interval
  <2>2. \A i \in D : s[i] \in Nat OBVIOUS
  <2>3. DOMAIN s = D OBVIOUS
  <2> HIDE DEF D
  <2> QED BY <2>1, <2>2, <2>3, SumNat, TotalIs
<1>15. \A i, j \in 1..n : i < j => a[i] <= a[j] BY <1>1
<1> QED BY <1>1, <1>2, <1>3, <1>5, <1>7, <1>10, <1>13, <1>14, <1>15 DEF a, z

\* What a selection is to be.
Pays(selected, outputs, amount, limit) ==
  /\ selected # Insufficient
  /\ Total(selected) >= amount
  /\ Len(selected) <= limit
  /\ \A v : Count(selected, v) <= Count(outputs, v)

\* Amounts that are picked, few enough and worth enough, are such a selection.
LEMMA PickedPays ==
  ASSUME NEW m \in Nat, NEW n \in Nat, NEW t, NEW s, NEW r, Picks(t, m, s, n, r),
         NEW limit \in Nat, m <= limit, NEW amount \in Nat \ {0}, Total(t) >= amount
  PROVE  Pays(t, s, amount, limit)
<1>1. Len(t) = m BY DEF Picks
<1>2. t # <<>>
  <2> SUFFICES ASSUME t = <<>> PROVE FALSE OBVIOUS
  <2>1. DOMAIN t = {} OBVIOUS
  <2>2. Total(t) = 0 BY <2>1, SumEmpty, TotalIs
  <2> QED BY <2>2
<1>3. \A v : Count(t, v) <= Count(s, v) BY PicksCount
<1> QED BY <1>1, <1>2, <1>3 DEF Pays, Insufficient

\* The largest amounts: worth what any window at the top of the ascending order is.
LEMMA TopIs ==
  ASSUME NEW n \in Nat, NEW s \in [1..n -> Nat], NEW limit \in Nat \ {0}, limit < n
  PROVE  \E k \in 0..(n - limit) :
           Total(ChosenAfter(ascending(s), limit, n, k)) = Total(SubSeq(descending(s), 1, limit))
<1> DEFINE a == ascending(s)
           z == descending(s)
           k == IF limit <= n - limit THEN limit ELSE n - limit
           T == (n - limit + 1)..n
           I == 1..limit
<1>1. a \in [1..n -> Int] /\ z \in [1..n -> Int] /\ \A i \in 1..n : z[i] = a[n - i + 1] BY SortingPicks
<1>2. k \in 0..(n - limit) OBVIOUS
<1> DEFINE u == ChosenAfter(a, limit, n, k)
           r == [i \in I |-> TakenFrom(limit, n)[k + i]]
           v == SubSeq(z, 1, limit)
           q == [i \in I |-> n - i + 1]
<1>3. Picks(u, limit, a, n, r)
  <2> HIDE DEF a, k, u
  <2>1. Picks(ChosenAfter(a, limit, n, k), limit, a, n, ChosenPlaces(limit, n, k))
    BY <1>1, <1>2, ChosenIs
  <2> QED BY <2>1 DEF u, ChosenPlaces
<1>4. {r[i] : i \in I} = T
  <2>1. \A i \in I : k + i \in 1..n OBVIOUS
  <2>2. \A i \in I : TakenFrom(limit, n)[k + i] = IF k + i <= limit THEN k + i ELSE n - ((k + i) - limit) + 1
    BY <2>1 DEF TakenFrom
  <2>3. \A i \in I : r[i] \in T BY <2>2
  <2>4. ASSUME NEW x \in T PROVE \E i \in I : r[i] = x
    <3>1. CASE x <= limit
      <4>1. k = n - limit BY <3>1
      <4>2. x - k \in I /\ k + (x - k) = x BY <4>1, <3>1
      <4> QED BY <2>2, <3>1, <4>2
    <3>2. CASE x > limit
      <4> DEFINE i == n - x + 1 + limit - k
      <4>1. i \in I /\ k + i > limit /\ n - ((k + i) - limit) + 1 = x BY <3>2
      <4> HIDE DEF i, k
      <4>2. k + i \in Int BY <2>1, <4>1
      <4>3. r[i] = x BY <2>2, <4>1, <4>2
      <4> QED BY <4>1, <4>3
    <3> QED BY <3>1, <3>2
  <2> HIDE DEF r, T, I
  <2> QED BY <2>3, <2>4
<1>5. Picks(v, limit, a, n, q)
  <2> HIDE DEF a, z
  <2>1. limit \in 0..n OBVIOUS
  <2>2. v = [i \in 1..limit |-> z[i]] /\ v \in [1..limit -> Int] BY <1>1, <2>1, PrefixIs
  <2>3. \A i \in 1..limit : i \in 1..n /\ q[i] = n - i + 1 /\ q[i] \in 1..n OBVIOUS
  <2>4. \A i, j \in 1..limit : i # j => q[i] # q[j] OBVIOUS
  <2> HIDE DEF v, q
  <2> QED BY <1>1, <2>2, <2>3, <2>4 DEF Picks
<1>6. {q[i] : i \in I} = T
  <2>1. \A i \in I : q[i] \in T OBVIOUS
  <2>2. \A x \in T : n - x + 1 \in I /\ q[n - x + 1] = x OBVIOUS
  <2> HIDE DEF q, T, I
  <2> QED BY <2>1, <2>2
<1> HIDE DEF a, z, k, T, u, r, v, q
<1>7. Total(u) = SumOver(a, T) BY <1>3, <1>4, PicksCount
<1>8. Total(v) = SumOver(a, T) BY <1>5, <1>6, PicksCount
<1> QED BY <1>2, <1>7, <1>8 DEF a, z, u, v

\* selectTokenOutputs returns a selection that pays, or nothing because the largest
\* outputs do not.
LEMMA TokensSelected ==
  ASSUME NEW n \in Nat, NEW s \in [1..n -> Nat], NEW amount \in Nat \ {0}, NEW limit \in Nat \ {0},
         NEW strategy, NEW selected, selected = selectTokenOutputs(s, amount, strategy, limit),
         NEW m, m = Min({limit, n})
  PROVE  \/ Pays(selected, s, amount, limit)
         \/ selected = Insufficient /\ Total(SubSeq(descending(s), 1, m)) < amount
<1> DEFINE a == ascending(s)
           z == descending(s)
<1>1. /\ a \in [1..n -> Int] /\ z \in [1..n -> Int] /\ z \in [1..n -> Nat]
      /\ Total(a) = Total(s) /\ Total(z) = Total(s) /\ Total(s) \in Nat
  BY SortingPicks
<1>2. PICK p : Picks(a, n, s, n, p) BY SortingPicks
<1>3. PICK q : Picks(z, n, s, n, q) BY SortingPicks
<1>4. Len(s) = n /\ DOMAIN s = 1..n /\ m = (IF limit <= n THEN limit ELSE n) BY MinOfTwo
<1>5. m \in 0..n /\ m <= limit /\ (m = limit \/ m = n) BY <1>4
<1>6. selected = IF amount <= 0 \/ Total(s) < amount THEN Insufficient
                 ELSE IF amount \in ToSet(s) THEN <<amount>>
                 ELSE IF strategy = "LARGE_FIRST" THEN SmallestPrefix(z, amount, limit)
                 ELSE IF SmallestPrefix(a, amount, limit) # Insufficient
                      THEN SmallestPrefix(a, amount, limit) ELSE Exchanged(a, amount, limit)
  BY DEF selectTokenOutputs
<1>7. \A k \in 0..n : k <= limit => \A t, r : Picks(t, n, s, n, r) /\ Total(SubSeq(t, 1, k)) >= amount
                                                => Pays(SubSeq(t, 1, k), s, amount, limit)
  <2> TAKE k \in 0..n
  <2> HAVE k <= limit
  <2> TAKE t, r
  <2> HAVE Picks(t, n, s, n, r) /\ Total(SubSeq(t, 1, k)) >= amount
  <2>1. Picks(SubSeq(t, 1, k), k, s, n, r) BY PrefixPicks
  <2> QED BY <2>1, PickedPays
<1> HIDE DEF a, z
<1>8. CASE Total(s) < amount
  <2> DEFINE D == 1..n
             R == 1..m
  <2>1. IsFiniteSet(D) /\ R \in SUBSET D /\ \A x \in D : z[x] \in Nat
    <3>1. IsFiniteSet(D) BY FS_Interval
    <3> QED BY <1>1, <1>5, <3>1
  <2>2. DOMAIN z = D BY <1>1
  <2>3. Total(SubSeq(z, 1, m)) = SumOver(z, R)
    <3>1. z \in [1..n -> Int] /\ m \in 0..n BY <1>1, <1>5
    <3>2. PrefixAddsUp(z, m) BY ONLY n \in Nat, <3>1, PrefixSums
    <3> QED BY <3>2 DEF PrefixAddsUp
  <2> HIDE DEF D, R
  <2>4. SumOver(z, R) <= SumOver(z, D) /\ SumOver(z, R) \in Nat BY <2>1, SumMonotone
  <2>5. Total(z) = SumOver(z, D) BY <2>2, TotalIs
  <2>6. Total(SubSeq(z, 1, m)) < amount BY <1>1, <1>8, <2>3, <2>4, <2>5
  <2>7. selected = Insufficient BY <1>6, <1>8
  <2> QED BY <2>6, <2>7 DEF z
<1>9. CASE ~ (Total(s) < amount) /\ amount \in ToSet(s)
  <2>1. PICK i \in 1..n : amount = s[i] BY <1>4, <1>9 DEF ToSet
  <2>2. selected = <<amount>> BY <1>6, <1>9
  <2> DEFINE t == <<amount>>
             r == [j \in 1..1 |-> i]
             one == 1
  <2>3. Picks(t, one, s, n, r)
    <3>1. t \in [1..1 -> Int] /\ s \in [1..n -> Int] OBVIOUS
    <3>2. \A j \in 1..1 : r[j] = i /\ t[j] = amount OBVIOUS
    <3>3. \A j, k \in 1..1 : j = k OBVIOUS
    <3> HIDE DEF t, r
    <3> QED BY <2>1, <3>1, <3>2, <3>3 DEF Picks
  <2>4. {r[j] : j \in 1..one} = {i} OBVIOUS
  <2>5. one \in Nat /\ one <= limit OBVIOUS
  <2> HIDE DEF t, r, one
  <2>6. Total(t) = SumOver(s, {r[j] : j \in 1..one}) BY <2>3, <2>5, PicksCount
  <2>7. SumOver(s, {i}) = s[i]
    <3>1. IsFiniteSet({i}) /\ \A x \in {i} : s[x] \in Int
      <4>1. IsFiniteSet({i}) BY FS_Singleton
      <4>2. s[i] \in Int OBVIOUS
      <4> QED BY <4>1, <4>2
    <3> DEFINE E == {i} \ {i}
    <3>2. SumOver(s, {i}) = s[i] + SumOver(s, E) BY <3>1, SumRemove
    <3>3. E = {} OBVIOUS
    <3> HIDE DEF E
    <3>4. s[i] \in Int OBVIOUS
    <3> QED BY <3>2, <3>3, <3>4, SumEmpty
  <2>8. Total(t) = s[i] BY <2>4, <2>6, <2>7
  <2>10. Total(t) >= amount BY <2>1, <2>8
  <2>9. Pays(t, s, amount, limit) BY <2>3, <2>5, <2>10, PickedPays
  <2> QED BY <2>2, <2>9 DEF t
<1>10. CASE ~ (Total(s) < amount) /\ amount \notin ToSet(s) /\ strategy = "LARGE_FIRST"
  <2>1. selected = SmallestPrefix(z, amount, limit) BY <1>6, <1>10
  <2>2. m # 0
    <3> SUFFICES ASSUME n = 0 PROVE FALSE BY <1>5
    <3>1. DOMAIN s = {} BY <1>4
    <3> QED BY <1>1, <1>10, <3>1, SumEmpty, TotalIs
  <2>6. FirstToPay(z, amount, limit, m) BY <1>1, PrefixPays
  <2>3. \/ /\ SmallestPrefix(z, amount, limit) = Insufficient
           /\ \A k \in 1..m : Total(SubSeq(z, 1, k)) < amount
        \/ \E k \in 1..m : /\ SmallestPrefix(z, amount, limit) = SubSeq(z, 1, k)
                           /\ Total(SubSeq(z, 1, k)) >= amount
    BY <2>6 DEF FirstToPay
  <2>4. CASE \E k \in 1..m : SmallestPrefix(z, amount, limit) = SubSeq(z, 1, k)
                             /\ Total(SubSeq(z, 1, k)) >= amount
    <3>1. PICK k \in 1..m : SmallestPrefix(z, amount, limit) = SubSeq(z, 1, k)
                            /\ Total(SubSeq(z, 1, k)) >= amount
      BY <2>4
    <3>2. k \in 0..n /\ k <= limit BY <1>5
    <3>3. Pays(SubSeq(z, 1, k), s, amount, limit) BY <1>3, <1>7, <3>1, <3>2
    <3> QED BY <2>1, <3>1, <3>3
  <2>5. CASE SmallestPrefix(z, amount, limit) = Insufficient
             /\ \A k \in 1..m : Total(SubSeq(z, 1, k)) < amount
    <3>1. m \in 1..m BY <1>5, <2>2
    <3> QED BY <2>1, <2>5, <3>1 DEF z
  <2> QED BY <2>3, <2>4, <2>5
<1>11. CASE ~ (Total(s) < amount) /\ amount \notin ToSet(s) /\ strategy # "LARGE_FIRST"
  <2>1. selected = IF SmallestPrefix(a, amount, limit) # Insufficient
                   THEN SmallestPrefix(a, amount, limit) ELSE Exchanged(a, amount, limit)
    BY <1>6, <1>11
  <2>2. m # 0
    <3> SUFFICES ASSUME n = 0 PROVE FALSE BY <1>5
    <3>1. DOMAIN s = {} BY <1>4
    <3> QED BY <1>1, <1>11, <3>1, SumEmpty, TotalIs
  <2>6. FirstToPay(a, amount, limit, m) BY <1>1, PrefixPays
  <2>3. \/ /\ SmallestPrefix(a, amount, limit) = Insufficient
           /\ \A k \in 1..m : Total(SubSeq(a, 1, k)) < amount
        \/ \E k \in 1..m : /\ SmallestPrefix(a, amount, limit) = SubSeq(a, 1, k)
                           /\ Total(SubSeq(a, 1, k)) >= amount
                           /\ SmallestPrefix(a, amount, limit) # Insufficient
    BY <2>6 DEF FirstToPay
  <2>4. CASE \E k \in 1..m : SmallestPrefix(a, amount, limit) = SubSeq(a, 1, k)
                             /\ Total(SubSeq(a, 1, k)) >= amount
                             /\ SmallestPrefix(a, amount, limit) # Insufficient
    <3>1. PICK k \in 1..m : SmallestPrefix(a, amount, limit) = SubSeq(a, 1, k)
                            /\ Total(SubSeq(a, 1, k)) >= amount
                            /\ SmallestPrefix(a, amount, limit) # Insufficient
      BY <2>4
    <3>2. k \in 0..n /\ k <= limit BY <1>5
    <3>3. Pays(SubSeq(a, 1, k), s, amount, limit) BY <1>2, <1>7, <3>1, <3>2
    <3> QED BY <2>1, <3>1, <3>3
  <2>5. CASE SmallestPrefix(a, amount, limit) = Insufficient
             /\ \A k \in 1..m : Total(SubSeq(a, 1, k)) < amount
    <3>1. selected = Exchanged(a, amount, limit) BY <2>1, <2>5
    <3>2. m \in 1..m BY <1>5, <2>2
    <3>3. limit < n
      <4> SUFFICES ASSUME n <= limit PROVE FALSE OBVIOUS
      <4>1. m = n BY <1>4
      <4>2. n \in 0..n /\ DOMAIN a = 1..n BY <1>1
      <4>3. Total(SubSeq(a, 1, n)) = Total(a)
        <5>1. a \in [1..n -> Int] BY <1>1
        <5>2. PrefixAddsUp(a, n) BY ONLY n \in Nat, <4>2, <5>1, PrefixSums
        <5>3. Total(SubSeq(a, 1, n)) = SumOver(a, 1..n) BY <5>2 DEF PrefixAddsUp
        <5>4. Total(a) = SumOver(a, DOMAIN a) BY TotalIs
        <5> QED BY <4>2, <5>3, <5>4
      <4> QED BY <1>1, <1>11, <2>5, <3>2, <4>1, <4>3
    <3>4. m = limit BY <1>4, <3>3
    <3>5. CASE \E k \in 0..(n - limit) : /\ Exchanged(a, amount, limit) = ChosenAfter(a, limit, n, k)
                                         /\ Total(ChosenAfter(a, limit, n, k)) >= amount
      <4>1. PICK k \in 0..(n - limit) : /\ Exchanged(a, amount, limit) = ChosenAfter(a, limit, n, k)
                                        /\ Total(ChosenAfter(a, limit, n, k)) >= amount
        BY <3>5
      <4> DEFINE r == ChosenPlaces(limit, n, k)
      <4>2. Picks(ChosenAfter(a, limit, n, k), limit, a, n, r) BY <1>1, <3>3, ChosenIs
      <4> HIDE DEF r
      <4>3. Picks(ChosenAfter(a, limit, n, k), limit, s, n, [i \in 1..limit |-> p[r[i]]])
        BY <1>2, <4>2, PicksCompose
      <4>4. Pays(ChosenAfter(a, limit, n, k), s, amount, limit) BY <4>1, <4>3, PickedPays
      <4> QED BY <3>1, <4>1, <4>4
    <3>6. CASE /\ Exchanged(a, amount, limit) = Insufficient
               /\ \A k \in 0..(n - limit) : Total(ChosenAfter(a, limit, n, k)) < amount
      <4>1. PICK k \in 0..(n - limit) :
              Total(ChosenAfter(a, limit, n, k)) = Total(SubSeq(z, 1, limit))
        BY <3>3, TopIs DEF a, z
      <4>2. Total(SubSeq(z, 1, limit)) < amount BY <3>6, <4>1
      <4> QED BY <3>1, <3>4, <3>6, <4>2 DEF z
    <3>7. FirstChoiceToPay(a, amount, limit, n)
      <4>1. a \in [1..n -> Int] /\ amount \in Int BY <1>1
      <4> QED BY <3>3, <4>1, ExchangedPays
    <3> QED BY <3>5, <3>6, <3>7 DEF FirstChoiceToPay
  <2> QED BY <2>3, <2>4, <2>5
<1> QED BY <1>8, <1>9, <1>10, <1>11

\* Every selection of token outputs suffices.
LEMMA TokensSuffice ==
  ASSUME NEW n \in Nat, NEW s \in [1..n -> Nat], NEW amount \in Nat \ {0}, NEW limit \in Nat \ {0},
         NEW strategy
  PROVE  SelectionSuffices(s, amount, strategy, limit)
<1> DEFINE selected == selectTokenOutputs(s, amount, strategy, limit)
<1>1. Len(s) = n OBVIOUS
<1>2. \/ Pays(selected, s, amount, limit)
      \/ selected = Insufficient /\ Total(SubSeq(descending(s), 1, Min({limit, n}))) < amount
  BY TokensSelected
<1> HIDE DEF selected
<1>5. CASE Pays(selected, s, amount, limit)
  BY <1>5 DEF selected, SelectionSuffices, Pays
<1>6. CASE selected = Insufficient /\ Total(SubSeq(descending(s), 1, Min({limit, n}))) < amount
  BY <1>1, <1>6 DEF selected, SelectionSuffices
<1> QED BY <1>2, <1>5, <1>6

-----------------------------------------------------------------------------
(***************************************************************************)
(* Lists of amounts as inputs, and the selection of outputs from them.     *)
(***************************************************************************)
\* Any list of amounts.
WalletOK == \E n \in Nat : wallet \in [1..n -> Nat \ {0}]

\* It is one from the start.
LEMMA WalletInit == MCInit => WalletOK
<1> SUFFICES ASSUME MCInit PROVE WalletOK OBVIOUS
<1>1. wallet \in Wallets BY DEF MCInit
<1>2. \/ \E n \in 0..MaxFew : wallet \in Lists(Few, n)
      \/ \E n \in 0..MaxMany : wallet \in Lists(Many, n)
  BY <1>1 DEF Wallets
<1>3. ASSUME NEW n \in Nat, wallet \in [1..n -> Few] \cup [1..n -> Many] PROVE wallet \in [1..n -> Nat \ {0}]
  BY <1>3, ListsAssumption
<1>4. CASE \E n \in 0..MaxFew : wallet \in Lists(Few, n)
  <2>1. PICK n \in 0..MaxFew : wallet \in [1..n -> Few] BY <1>4 DEF Lists
  <2>2. n \in Nat BY ListsAssumption
  <2> QED BY <1>3, <2>1, <2>2 DEF WalletOK
<1>5. CASE \E n \in 0..MaxMany : wallet \in Lists(Many, n)
  <2>1. PICK n \in 0..MaxMany : wallet \in [1..n -> Many] BY <1>5 DEF Lists
  <2>2. n \in Nat BY ListsAssumption
  <2> QED BY <1>3, <2>1, <2>2 DEF WalletOK
<1> QED BY <1>2, <1>4, <1>5

\* The input stays a list of amounts: no step of the loops or of a renewal changes it.
THEOREM WalletInvariant == MCSpec => []WalletOK
<1>1. ASSUME WalletOK, [MCNext]_<<vars, wallet, timelockVars>> PROVE WalletOK'
  <2>1. wallet' = wallet BY <1>1 DEF MCNext
  <2> QED BY <1>1, <2>1 DEF WalletOK
<1> QED BY WalletInit, <1>1, PTL DEF MCSpec

\* What is selected from it suffices.
LEMMA WalletSuffices == WalletOK => SelectionsSuffice
<1> SUFFICES ASSUME WalletOK PROVE SelectionsSuffice OBVIOUS
<1>1. PICK n \in Nat : wallet \in [1..n -> Nat \ {0}] /\ wallet \in [1..n -> Nat] BY DEF WalletOK
<1>2. Total(wallet) \in Nat BY <1>1, SortingPicks
<1> SUFFICES ASSUME NEW limit \in Limits, NEW strategy \in {"SMALL_FIRST", "LARGE_FIRST"},
                    NEW amount \in 1..(Total(wallet) + 1)
             PROVE  SelectionSuffices(wallet, amount, strategy, limit)
  BY DEF SelectionsSuffice
<1>3. limit \in Nat \ {0} /\ amount \in Nat \ {0} BY <1>2, ListsAssumption
<1> QED BY <1>1, <1>3, TokensSuffice

\* selectTokenOutputs returns outputs of the wallet, no more than the limit, that pay
\* the amount, or throws because even the largest outputs within the limit would not.
THEOREM TokensArePaid == MCSpec => []SelectionsSuffice
BY WalletInvariant, WalletSuffices, PTL

-----------------------------------------------------------------------------
(***************************************************************************)
(* requestLeavesSwap: batches of leaves, and the targets assigned to them. *)
(***************************************************************************)
\* Amounts of targets, and the places of D at which s has v.
Positive == Nat \ {0}
Matching(s, v, D) == {i \in D : s[i] = v}

\* Totals and counts are numbers.
LEMMA SeqTotal ==
  ASSUME NEW s \in Seq(Nat)
  PROVE  /\ Total(s) \in Nat
         /\ \A v : Count(s, v) \in Nat
<1> DEFINE D == 1..Len(s)
<1>1. DOMAIN s = D /\ \A i \in D : s[i] \in Nat BY LenProperties
<1>2. IsFiniteSet(D) BY LenProperties, FS_Interval
<1> HIDE DEF D
<1>3. Total(s) \in Nat BY <1>1, <1>2, SumNat, TotalIs
<1>4. ASSUME NEW v PROVE Count(s, v) \in Nat
  <2> DEFINE E == {i \in D : s[i] = v}
  <2>1. IsFiniteSet(E) BY <1>2, FS_Subset
  <2> HIDE DEF E
  <2>2. Cardinality(E) \in Nat BY <2>1, FS_CardinalityType
  <2> QED BY <1>1, <2>2 DEF E, Count
<1> QED BY <1>3, <1>4

\* One amount more.
Appended(u, s, x) == u = Append(s, x)
LEMMA AppendCounts ==
  ASSUME NEW s \in Seq(Nat), NEW x \in Nat, NEW u, Appended(u, s, x)
  PROVE  /\ Total(u) = Total(s) + x
         /\ \A v : Count(u, v) = Count(s, v) + IF x = v THEN 1 ELSE 0
<1> DEFINE m == Len(s)
           D == 1..m
           E == 1..(m + 1)
           last == m + 1
<1>1. m \in Nat /\ DOMAIN s = D /\ (\A i \in D : s[i] \in Nat) BY LenProperties
<1>2. u \in Seq(Nat) /\ Len(u) = m + 1 /\ (\A i \in D : u[i] = s[i]) /\ u[last] = x
  BY DEF Appended
<1>3. DOMAIN u = E BY <1>2, LenProperties
<1>4. IsFiniteSet(D) BY <1>1, FS_Interval
<1>5. last \notin D /\ E = D \cup {last} BY <1>1
<1> HIDE DEF m, D, E, last
<1>6. \A i \in D : s[i] \in Int /\ u[i] = s[i] BY <1>1, <1>2
<1>7. SumOver(s, D) = SumOver(u, D) BY <1>4, <1>6, SumSame
<1>8. \A i \in D \cup {last} : u[i] \in Int BY <1>2, <1>6
<1>9. SumOver(u, D \cup {last}) = u[last] + SumOver(u, D) BY <1>4, <1>5, <1>8, SumAdd
<1>10. SumOver(s, D) \in Int BY <1>4, <1>6, SumType
<1>11. Total(u) = Total(s) + x BY <1>1, <1>2, <1>3, <1>5, <1>7, <1>9, <1>10, TotalIs
<1>12. ASSUME NEW v PROVE Count(u, v) = Count(s, v) + IF x = v THEN 1 ELSE 0
  <2> DEFINE A == Matching(s, v, D)
             B == Matching(u, v, E)
  <2>1. IsFiniteSet(A) BY <1>4, FS_Subset DEF Matching
  <2>2. last \notin A BY <1>5 DEF Matching
  <2>3. CASE x = v
    <3>1. B = A \cup {last} BY <1>2, <1>5, <1>6, <2>3 DEF Matching
    <3> HIDE DEF A, B
    <3>2. Cardinality(B) = Cardinality(A) + 1 BY <2>1, <2>2, <3>1, FS_AddElement
    <3> QED BY <1>1, <1>3, <2>3, <3>2 DEF Count, A, B, Matching
  <2>4. CASE x # v
    <3>1. B = A BY <1>2, <1>5, <1>6, <2>4 DEF Matching
    <3> HIDE DEF A, B
    <3>2. Cardinality(A) \in Nat BY <2>1, FS_CardinalityType
    <3>3. Count(s, v) = Cardinality(A) /\ Count(u, v) = Cardinality(A)
      BY <1>1, <1>3, <3>1 DEF Count, A, B, Matching
    <3> QED BY <2>4, <3>2, <3>3
  <2> QED BY <2>3, <2>4
<1> QED BY <1>11, <1>12

\* A batch has at most size leaves.
LEMMA BatchIs ==
  ASSUME NEW n \in Nat, NEW s \in [1..n -> Nat], NEW size \in Nat \ {0}, NEW k \in DOMAIN leafBatches(s, size)
  PROVE  /\ leafBatches(s, size)[k] \in Seq(Nat)
         /\ Len(leafBatches(s, size)[k]) <= size
<1> DEFINE z == descending(s)
<1>1. z \in [1..n -> Nat] BY SortingPicks
<1>2. Len(z) = n BY <1>1
<1> HIDE DEF z
<1>3. leafBatches(s, size) = [j \in 1..((n + size - 1) \div size) |->
                               SubSeq(z, (j - 1) * size + 1, Min({j * size, n}))]
  BY <1>2 DEF leafBatches, z
<1>4. k \in 1..((n + size - 1) \div size) BY <1>3
<1>5. (n + size - 1) \div size \in Int OBVIOUS
<1>6. k - 1 \in Nat /\ k \in Nat BY <1>4, <1>5
<1>7. (k - 1) * size \in Nat /\ k * size = (k - 1) * size + size
  <2> DEFINE j == k - 1
  <2>1. j \in Nat /\ k = j + 1 /\ size \in Nat /\ 1 \in Nat BY <1>6
  <2> HIDE DEF j
  <2>2. j * size \in Nat /\ (j + 1) * size = j * size + 1 * size BY <2>1, Times
  <2> QED BY <2>1, <2>2 DEF j
<1> DEFINE o == (k - 1) * size
           e == Min({k * size, n})
           t == SubSeq(z, o + 1, e)
<1>8. e = IF k * size <= n THEN k * size ELSE n
  <2>1. k * size \in Int /\ n \in Int BY <1>7
  <2> QED BY <2>1, MinOfTwo
<1>9. o \in Nat /\ e \in Int /\ e <= o + size /\ e <= n BY <1>7, <1>8
<1>10. leafBatches(s, size)[k] = t BY <1>3, <1>4
<1> HIDE DEF o, e
<1>11. \A i \in (o + 1)..e : z[i] \in Nat
  <2>1. \A i \in (o + 1)..e : i \in 1..n BY <1>9
  <2> QED BY <1>1, <2>1
<1>12. o + 1 \in Int BY <1>9
<1>13. t \in Seq(Nat) /\ Len(t) = IF o + 1 <= e THEN e - (o + 1) + 1 ELSE 0
  BY <1>9, <1>11, <1>12, SubSeqProperties
<1>14. Len(t) <= size BY <1>9, <1>13
<1> QED BY <1>10, <1>13, <1>14

\* Functions on the first numbers are lists.
LEMMA FunctionIsSeq ==
  ASSUME NEW S, NEW n \in Nat, NEW s \in [1..n -> S]
  PROVE  s \in Seq(S)
OBVIOUS

\* Sorting keeps how often an amount is there.
LEMMA SortingCounts ==
  ASSUME NEW n \in Nat, NEW s \in [1..n -> Nat]
  PROVE  \A v : Count(descending(s), v) = Count(s, v) /\ Count(ascending(s), v) = Count(s, v)
<1> DEFINE a == ascending(s)
           z == descending(s)
           r == [i \in 1..n |-> n - i + 1]
<1>1. /\ a \in [1..n -> Nat] /\ z \in [1..n -> Nat]
      /\ \A i \in 1..n : z[i] = a[n - i + 1]
      /\ \E p : Picks(a, n, s, n, p) /\ Permutes(p, n)
  BY SortingPicks
<1>2. PICK p : Picks(a, n, s, n, p) /\ Permutes(p, n) BY <1>1
<1> HIDE DEF a, z
<1>3. a \in [1..n -> Int] /\ z \in [1..n -> Int] BY <1>1
<1>4. Picks(z, n, a, n, r) BY <1>1, <1>3 DEF Picks
<1>5. Picks(a, n, z, n, r)
  <2>1. \A i \in 1..n : r[i] \in 1..n /\ n - r[i] + 1 = i OBVIOUS
  <2>2. \A i \in 1..n : a[i] = z[r[i]] BY <1>1, <2>1
  <2>3. \A i, j \in 1..n : i # j => r[i] # r[j] OBVIOUS
  <2> HIDE DEF r
  <2> QED BY <1>3, <2>1, <2>2, <2>3 DEF Picks
<1> DEFINE q == [x \in 1..n |-> CHOOSE i \in 1..n : x = p[i]]
<1>6. Picks(s, n, a, n, q)
  <2>1. \A x \in 1..n : q[x] \in 1..n /\ x = p[q[x]]
    <3>1. \A x \in 1..n : \E i \in 1..n : x = p[i] BY <1>2 DEF Permutes
    <3> QED BY <3>1
  <2> HIDE DEF q
  <2>2. \A x \in 1..n : s[x] = a[q[x]] BY <1>2, <2>1 DEF Picks
  <2>3. \A x, y \in 1..n : x # y => q[x] # q[y] BY <2>1
  <2>4. s \in [1..n -> Int] OBVIOUS
  <2> QED BY <1>3, <2>1, <2>2, <2>3, <2>4 DEF Picks
<1> HIDE DEF r, q
<1>7. \A v : Count(a, v) <= Count(s, v) BY <1>2, PicksCount
<1>8. \A v : Count(s, v) <= Count(a, v) BY <1>6, PicksCount
<1>9. \A v : Count(z, v) <= Count(a, v) BY <1>4, PicksCount
<1>10. \A v : Count(a, v) <= Count(z, v) BY <1>5, PicksCount
<1>11. a \in Seq(Nat) /\ s \in Seq(Nat) /\ z \in Seq(Nat)
  <2>1. a \in [1..n -> Nat] /\ s \in [1..n -> Nat] /\ z \in [1..n -> Nat] BY <1>1
  <2> QED BY ONLY n \in Nat, <2>1, FunctionIsSeq
<1>12. \A v : Count(a, v) \in Nat /\ Count(s, v) \in Nat /\ Count(z, v) \in Nat BY <1>11, SeqTotal
<1>13. ASSUME NEW v PROVE Count(z, v) = Count(s, v) /\ Count(a, v) = Count(s, v)
  <2>1. Count(a, v) \in Nat /\ Count(s, v) \in Nat /\ Count(z, v) \in Nat BY <1>12
  <2>2. /\ Count(a, v) <= Count(s, v) /\ Count(s, v) <= Count(a, v)
        /\ Count(z, v) <= Count(a, v) /\ Count(a, v) <= Count(z, v)
    BY <1>7, <1>8, <1>9, <1>10
  <2> QED BY <2>1, <2>2
<1> QED BY <1>13 DEF a, z

\* The assignments as the recursive function FoldLeft evaluates.
Assignments(g, chunks, z) ==
  g = [T \in SUBSET DOMAIN z |->
         IF T = {} THEN [k \in DOMAIN chunks |-> <<>>]
         ELSE Assign(g[T \ {Max(T)}], z[Max(T)], chunks)]

\* distributeTargetAmounts as a recursive function over sets of places.
LEMMA DistributeUnfolds ==
  ASSUME NEW targetAmounts, NEW chunks, NEW z, z = descending(targetAmounts)
  PROVE  distributeTargetAmounts(targetAmounts, chunks)
           = (CHOOSE g : Assignments(g, chunks, z))[DOMAIN z]
BY DEF distributeTargetAmounts, FoldLeft, MapThenFoldSet, Assignments

\* A target is given to a batch that has enough left, or the request is refused.
Given(next, given, x, chunks, K) ==
  \/ next = Unassigned
  \/ /\ given \in [1..K -> Seq(Positive)]
     /\ \E k \in 1..K : /\ Total(chunks[k]) - Total(given[k]) >= x
                        /\ next = [given EXCEPT ![k] = Append(given[k], x)]

\* Assign does that.
LEMMA AssignIs ==
  ASSUME NEW K \in Int, NEW chunks, DOMAIN chunks = 1..K,
         NEW given \in [1..K -> Seq(Positive)] \cup {Unassigned}, NEW x \in Positive
  PROVE  Given(Assign(given, x, chunks), given, x, chunks, K)
<1> DEFINE fits == {k \in 1..K : Total(chunks[k]) - Total(given[k]) >= x}
           k == Min(fits)
<1>1. CASE given = Unassigned BY <1>1 DEF Assign, Given
<1>2. CASE given # Unassigned /\ fits = {}
  <2>1. FirstFit(x, chunks, given) = NoBatch BY <1>2 DEF FirstFit
  <2> QED BY <1>2, <2>1 DEF Assign, Given
<1>3. CASE given # Unassigned /\ fits # {}
  <2>1. fits \subseteq Nat OBVIOUS
  <2>2. k \in fits
    <3> HIDE DEF fits
    <3>1. PICK j \in fits : \A i \in fits : j <= i BY <1>3, <2>1, LeastNat
    <3> QED BY <3>1 DEF Min
  <2>3. FirstFit(x, chunks, given) = k BY <1>3 DEF FirstFit
  <2>4. k \in 1..K /\ Total(chunks[k]) - Total(given[k]) >= x BY <2>2
  <2> HIDE DEF k
  <2>5. k # NoBatch BY <2>4 DEF NoBatch
  <2>6. Assign(given, x, chunks) = [given EXCEPT ![k] = Append(given[k], x)] BY <1>3, <2>3, <2>5 DEF Assign
  <2> QED BY <1>3, <2>4, <2>6 DEF Given
<1> QED BY <1>1, <1>2, <1>3

\* w[i] is what the batches have been given after i targets.
AssignmentsOf(w, chunks, z, K, given) ==
  /\ w \in [0..Len(z) -> [1..K -> Seq(Positive)] \cup {Unassigned}]
  /\ w[0] = [k \in 1..K |-> <<>>]
  /\ \A i \in DOMAIN z : w[i] = Assign(w[i - 1], z[i], chunks)
  /\ w[Len(z)] = given

\* The targets are assigned one after the other.
LEMMA AssignmentsAre ==
  ASSUME NEW n \in Nat, NEW targetAmounts, NEW z \in [1..n -> Positive], z = descending(targetAmounts),
         NEW K \in Int, NEW chunks, DOMAIN chunks = 1..K
  PROVE  \E w : AssignmentsOf(w, chunks, z, K, distributeTargetAmounts(targetAmounts, chunks))
<1> DEFINE D == 1..n
           V == [1..K -> Seq(Positive)] \cup {Unassigned}
           b == [k \in 1..K |-> <<>>]
           H == [p \in D \X V |-> Assign(p[2], z[p[1]], chunks)]
<1>1. H \in [D \X V -> V]
  <2>1. ASSUME NEW g \in V, NEW x \in Positive PROVE Assign(g, x, chunks) \in V
    <3>1. Given(Assign(g, x, chunks), g, x, chunks, K) BY AssignIs
    <3>2. CASE Assign(g, x, chunks) = Unassigned BY <3>2
    <3>3. ASSUME g \in [1..K -> Seq(Positive)], NEW k \in 1..K,
                 Assign(g, x, chunks) = [g EXCEPT ![k] = Append(g[k], x)]
          PROVE  Assign(g, x, chunks) \in V
      <4>1. Append(g[k], x) \in Seq(Positive) BY <3>3
      <4> QED BY <3>3, <4>1
    <3> QED BY <3>1, <3>2, <3>3 DEF Given
  <2>2. \A p \in D \X V : p[2] \in V /\ z[p[1]] \in Positive OBVIOUS
  <2> HIDE DEF V, D
  <2> QED BY <2>1, <2>2
<1>2. b \in V
  <2>1. <<>> \in Seq(Positive) OBVIOUS
  <2> QED BY <2>1
<1>3. \A k \in D, v \in V : H[<<k, v>>] = Assign(v, z[k], chunks) OBVIOUS
<1>0. D = 1..n OBVIOUS
<1> HIDE DEF D, V, H, b
<1>4. PICK f \in [SUBSET D -> V] : Folds(f, D, b, H)
  BY <1>0, <1>1, <1>2, FoldExists
<1>5. ASSUME NEW T \in SUBSET D
      PROVE  f[T] = IF T = {} THEN b ELSE Assign(f[T \ {Max(T)}], z[Max(T)], chunks)
  <2>1. CASE T = {} BY <1>4, <2>1 DEF Folds
  <2>2. CASE T # {}
    <3>1. Max(T) \in D BY <2>2, <1>0, MaxIn
    <3>2. f[T \ {Max(T)}] \in V OBVIOUS
    <3> QED BY <1>3, <1>4, <2>2, <3>1, <3>2 DEF Folds
  <2> QED BY <2>1, <2>2
<1>6. DOMAIN z = D /\ b = [k \in DOMAIN chunks |-> <<>>] BY <1>0 DEF b
<1>7. Assignments(f, chunks, z) BY <1>5, <1>6 DEF Assignments
<1> DEFINE g == CHOOSE g : Assignments(g, chunks, z)
<1>8. Assignments(g, chunks, z) BY <1>7
<1>9. distributeTargetAmounts(targetAmounts, chunks) = g[D] BY <1>6, DistributeUnfolds
<1> HIDE DEF g
<1>10. g[{}] = b BY <1>6, <1>8 DEF Assignments
<1>11. ASSUME NEW T \in SUBSET D, T # {}, g[T \ {Max(T)}] \in V
       PROVE  g[T] = H[<<Max(T), g[T \ {Max(T)}]>>]
  <2>1. Max(T) \in D BY <1>11, <1>0, MaxIn
  <2>2. g[T] = Assign(g[T \ {Max(T)}], z[Max(T)], chunks) BY <1>6, <1>8, <1>11 DEF Assignments
  <2> QED BY <1>3, <1>11, <2>1, <2>2
<1>15. FoldsWithin(g, D, V, b, H) BY <1>10, <1>11 DEF FoldsWithin
<1>12. PICK w : FoldSteps(w, n, V, b, H, g[D])
  BY <1>0, <1>1, <1>2, <1>15, FoldPrefixes
<1>13. \A k \in D : w[k - 1] \in V BY <1>0, <1>12 DEF FoldSteps
<1>14. \A k \in D : w[k] = Assign(w[k - 1], z[k], chunks) BY <1>0, <1>3, <1>12, <1>13 DEF FoldSteps
<1>16. Len(z) = n OBVIOUS
<1> QED BY <1>0, <1>6, <1>9, <1>12, <1>14, <1>16 DEF V, b, FoldSteps, AssignmentsOf

\* How often the batches have been given v.
Counts(given, K, v) == [k \in 1..K |-> Count(given[k], v)]

\* After i targets: no batch has more than it is worth, and the batches have what
\* was assigned.
Assigned(given, chunks, z, K, i) ==
  /\ given \in [1..K -> Seq(Positive)]
  /\ \A k \in 1..K : Total(given[k]) <= Total(chunks[k])
  /\ \A v : SumOver(Counts(given, K, v), 1..K) = Cardinality(Matching(z, v, 1..i))

\* It holds when nothing is assigned.
LEMMA NoneAssigned ==
  ASSUME NEW K \in Int, NEW chunks, \A k \in 1..K : Total(chunks[k]) \in Nat, NEW z
  PROVE  Assigned([k \in 1..K |-> <<>>], chunks, z, K, 0)
<1> DEFINE b == [k \in 1..K |-> <<>>]
           e == <<>>
<1>1. b \in [1..K -> Seq(Positive)]
  <2>1. <<>> \in Seq(Positive) OBVIOUS
  <2> QED BY <2>1
<1>2. DOMAIN e = {} OBVIOUS
<1>3. \A k \in 1..K : b[k] = e OBVIOUS
<1> HIDE DEF b, e
<1>4. Total(e) = 0 BY <1>2, SumEmpty, TotalIs
<1>5. \A k \in 1..K : Total(b[k]) <= Total(chunks[k]) BY <1>3, <1>4
<1>6. ASSUME NEW v PROVE SumOver(Counts(b, K, v), 1..K) = Cardinality(Matching(z, v, 1..0))
  <2> DEFINE D == 1..K
             c == Counts(b, K, v)
  <2>1. Count(e, v) = 0
    <3>1. {i \in DOMAIN e : e[i] = v} = {} BY <1>2
    <3> QED BY <3>1, FS_EmptySet DEF Count
  <2>2. \A k \in D : c[k] = 0 BY <1>3, <2>1 DEF Counts
  <2>3. IsFiniteSet(D) BY FS_Interval
  <2> HIDE DEF c, D
  <2>4. SumOver(c, D) = 0 BY <2>2, <2>3, SumZero
  <2>5. Matching(z, v, 1..0) = {} BY DEF Matching
  <2> QED BY <2>4, <2>5, FS_EmptySet DEF c, D
<1> QED BY <1>1, <1>5, <1>6 DEF b, Assigned

\* It holds after one more target.
LEMMA OneAssigned ==
  ASSUME NEW n \in Nat, NEW z \in [1..n -> Positive], NEW i \in 1..n, NEW j, j = i - 1,
         NEW K \in Int, NEW chunks, \A k \in 1..K : Total(chunks[k]) \in Nat,
         NEW given, Assigned(given, chunks, z, K, j), NEW next, Given(next, given, z[i], chunks, K)
  PROVE  next = Unassigned \/ Assigned(next, chunks, z, K, i)
<1> SUFFICES ASSUME next # Unassigned PROVE Assigned(next, chunks, z, K, i) OBVIOUS
<1> DEFINE x == z[i]
           D == 1..K
<1>0. x \in Positive OBVIOUS
<1> HIDE DEF x
<1>1. given \in [D -> Seq(Positive)] /\ \A k \in D : Total(given[k]) <= Total(chunks[k]) BY DEF Assigned
<1>2. PICK k \in D : /\ Total(chunks[k]) - Total(given[k]) >= x
                     /\ next = [given EXCEPT ![k] = Append(given[k], x)]
  BY DEF Given, x
<1>3. IsFiniteSet(D) BY FS_Interval
<1>14. \A l \in D : Total(chunks[l]) \in Nat OBVIOUS
<1> HIDE DEF D
<1>4. Appended(next[k], given[k], x) BY <1>1, <1>2 DEF Appended
<1>5. \A l \in D : l # k => next[l] = given[l] BY <1>1, <1>2
<1>6. next \in [D -> Seq(Positive)]
  <2>1. Append(given[k], x) \in Seq(Positive)
    <3>1. given[k] \in Seq(Positive) BY <1>1
    <3> QED BY <1>0, <3>1
  <2> QED BY <1>1, <1>2, <2>1
<1>7. \A l \in D : given[l] \in Seq(Nat)
  <2>1. ASSUME NEW s \in Seq(Positive) PROVE s \in Seq(Nat)
    <3>1. Len(s) \in Nat /\ s \in [1..Len(s) -> Positive] BY LenProperties
    <3>2. s \in [1..Len(s) -> Nat] BY <3>1 DEF Positive
    <3> QED BY <3>1, <3>2
  <2> QED BY <1>1, <2>1
<1>8. x \in Nat BY <1>0 DEF Positive
<1>9. given[k] \in Seq(Nat) BY <1>7
<1>10. /\ Total(next[k]) = Total(given[k]) + x
       /\ \A v : Count(next[k], v) = Count(given[k], v) + IF x = v THEN 1 ELSE 0
  BY <1>4, <1>8, <1>9, AppendCounts
<1>11. \A l \in D : Total(given[l]) \in Nat /\ \A v : Count(given[l], v) \in Nat BY <1>7, SeqTotal
<1>12. ASSUME NEW l \in D PROVE Total(next[l]) <= Total(chunks[l])
  <2>1. CASE l = k
    <3>1. Total(given[k]) \in Nat /\ Total(chunks[k]) \in Nat BY <1>11, <1>14
    <3> QED BY <1>2, <1>8, <1>10, <2>1, <3>1
  <2>2. CASE l # k BY <1>1, <1>5, <2>2
  <2> QED BY <2>1, <2>2
<1>13. ASSUME NEW v PROVE SumOver(Counts(next, K, v), D) = Cardinality(Matching(z, v, 1..i))
  <2> DEFINE c == Counts(given, K, v)
             d == Counts(next, K, v)
             A == Matching(z, v, 1..j)
             B == Matching(z, v, 1..i)
             one == IF x = v THEN 1 ELSE 0
  <2>1. \A l \in D : c[l] = Count(given[l], v) /\ d[l] = Count(next[l], v) BY DEF Counts, D
  <2>2. \A l \in D : c[l] \in Int
    <3>1. \A l \in D : Count(given[l], v) \in Nat BY <1>11
    <3>2. \A l \in D : c[l] \in Nat BY <2>1, <3>1
    <3> HIDE DEF c
    <3> QED BY <3>2
  <2>3. c[k] \in Int /\ d[k] = c[k] + one
    <3>1. Count(next[k], v) = Count(given[k], v) + one BY <1>10
    <3> QED BY <2>1, <2>2, <3>1
  <2>4. \A l \in D \ {k} : d[l] = c[l] BY <1>5, <2>1
  <2>5. SumOver(c, D) = Cardinality(A) BY DEF Assigned, D
  <2>6. one \in Int OBVIOUS
  <2>7. 1..i = (1..j) \cup {i} /\ i \notin 1..j OBVIOUS
  <2>8. IsFiniteSet(A)
    <3> DEFINE E == 1..j
    <3>1. IsFiniteSet(E) BY FS_Interval
    <3> HIDE DEF E
    <3>2. IsFiniteSet(Matching(z, v, E)) BY <3>1, FS_Subset DEF Matching
    <3> QED BY <3>2 DEF E
  <2>9. Cardinality(B) = Cardinality(A) + one
    <3>1. i \notin A BY <2>7 DEF Matching
    <3>2. Cardinality(A) \in Nat BY <2>8, FS_CardinalityType
    <3>3. CASE x = v
      <4>1. B = A \cup {i} BY <2>7, <3>3 DEF Matching, x
      <4> HIDE DEF A, B
      <4>2. Cardinality(B) = Cardinality(A) + 1 BY <2>8, <3>1, <4>1, FS_AddElement
      <4> QED BY <3>3, <4>2
    <3>4. CASE x # v
      <4>1. B = A BY <2>7, <3>4 DEF Matching, x
      <4> HIDE DEF A, B
      <4>2. one = 0 BY <3>4
      <4> QED BY <3>2, <4>1, <4>2
    <3> QED BY <3>3, <3>4
  <2> HIDE DEF c, d, A, B, one
  <2>10. d[k] \in Int BY <2>3, <2>6
  <2>11. SumOver(d, D) = SumOver(c, D) - c[k] + d[k] BY <1>3, <2>2, <2>4, <2>10, SumUpdate
  <2>12. SumOver(c, D) \in Int BY <1>3, <2>2, SumType
  <2>13. SumOver(d, D) = Cardinality(B) BY <2>3, <2>5, <2>6, <2>9, <2>11, <2>12
  <2> QED BY <2>13 DEF d, B
<1> QED BY <1>6, <1>12, <1>13 DEF D, Assigned

\* What distributeTargetAmounts returns.
LEMMA DistributeIs ==
  ASSUME NEW n \in Nat, NEW targetAmounts \in [1..n -> Positive], NEW z, z = descending(targetAmounts),
         NEW K \in Int, NEW chunks, DOMAIN chunks = 1..K, \A k \in 1..K : Total(chunks[k]) \in Nat,
         NEW given, given = distributeTargetAmounts(targetAmounts, chunks)
  PROVE  given = Unassigned \/ Assigned(given, chunks, z, K, n)
<1>1. targetAmounts \in [1..n -> Nat] BY DEF Positive
<1>2. z \in [1..n -> Positive]
  <2>1. z \in [1..n -> Nat] /\ \E q : Picks(z, n, targetAmounts, n, q) BY <1>1, SortingPicks
  <2>2. \A i \in 1..n : z[i] \in Positive BY <2>1 DEF Picks
  <2> QED BY <2>1, <2>2
<1>3. PICK w : AssignmentsOf(w, chunks, z, K, given) BY <1>2, AssignmentsAre
<1>4. Len(z) = n /\ DOMAIN z = 1..n BY <1>2
<1>5. /\ w \in [0..n -> [1..K -> Seq(Positive)] \cup {Unassigned}]
      /\ w[0] = [k \in 1..K |-> <<>>]
      /\ \A i \in 1..n : w[i] = Assign(w[i - 1], z[i], chunks)
      /\ w[n] = given
  BY <1>3, <1>4 DEF AssignmentsOf
<1> DEFINE Good(i) == w[i] = Unassigned \/ Assigned(w[i], chunks, z, K, i)
           Bad == {i \in 0..n : ~ Good(i)}
<1>6. Good(0) BY <1>5, NoneAssigned
<1>7. ASSUME NEW i \in 1..n, Good(i - 1) PROVE Good(i)
  <2> DEFINE j == i - 1
             g == w[j]
             h == w[i]
             x == z[i]
  <2>1. j \in 0..n /\ x \in Positive BY <1>2
  <2>2. g \in [1..K -> Seq(Positive)] \cup {Unassigned} BY <1>5, <2>1
  <2>3. h = Assign(g, x, chunks) BY <1>5
  <2>4. g = Unassigned \/ Assigned(g, chunks, z, K, j) BY <1>7
  <2>5. j = i - 1 OBVIOUS
  <2>8. x = z[i] OBVIOUS
  <2> HIDE DEF j, g, h, x
  <2>6. CASE g = Unassigned BY <2>3, <2>6 DEF Assign, h
  <2>7. CASE Assigned(g, chunks, z, K, j)
    <3>1. Given(h, g, x, chunks, K) BY <2>1, <2>2, <2>3, AssignIs
    <3>2. Given(h, g, z[i], chunks, K) BY <2>8, <3>1
    <3>3. h = Unassigned \/ Assigned(h, chunks, z, K, i) BY <1>2, <2>5, <2>7, <3>2, OneAssigned
    <3> QED BY <3>3 DEF h
  <2> QED BY <2>4, <2>6, <2>7
<1>8. Bad = {}
  <2> SUFFICES ASSUME Bad # {} PROVE FALSE OBVIOUS
  <2>1. Bad \subseteq Nat OBVIOUS
  <2> HIDE DEF Bad, Good
  <2>2. PICK k \in Bad : \A m \in Bad : k <= m BY <2>1, LeastNat
  <2>3. k \in 0..n /\ ~ Good(k) BY <2>2 DEF Bad
  <2>4. k # 0 BY <2>3, <1>6
  <2>5. k \in 1..n /\ k - 1 \in 0..n /\ k - 1 \notin Bad BY <2>2, <2>3, <2>4
  <2>6. Good(k - 1) BY <2>5 DEF Bad
  <2> QED BY <1>7, <2>3, <2>5, <2>6
<1>9. Good(n)
  <2>1. n \in 0..n OBVIOUS
  <2> HIDE DEF Good
  <2> QED BY <1>8, <2>1
<1> QED BY <1>5, <1>9

\* A request that is split is valid batch by batch.
LEMMA SplitIsValid ==
  ASSUME NEW n \in Nat, NEW s \in [1..n -> Nat], NEW m \in Nat, NEW targetAmounts \in [1..m -> Positive],
         NEW size \in Nat \ {0}
  PROVE  BatchesAreValid(s, targetAmounts, size)
<1> DEFINE chunks == leafBatches(s, size)
           given == distributeTargetAmounts(targetAmounts, chunks)
           z == descending(targetAmounts)
           paid == UNION {ToSet(amounts) : amounts \in ToSet(given)}
           K == (n + size - 1) \div size
<1>1. K \in Int OBVIOUS
<1>2. DOMAIN chunks = 1..K
  <2>1. descending(s) \in [1..n -> Nat] BY SortingPicks
  <2>2. Len(descending(s)) = n BY <2>1
  <2> QED BY <2>2 DEF leafBatches
<1>3. \A k \in 1..K : chunks[k] \in Seq(Nat) /\ Len(chunks[k]) <= size BY <1>2, BatchIs
<1> HIDE DEF chunks, given, K, z
<1>4. \A k \in 1..K : Total(chunks[k]) \in Nat BY <1>3, SeqTotal
<1>5. z = descending(targetAmounts) /\ given = distributeTargetAmounts(targetAmounts, chunks)
  BY DEF z, given
<1>6. given = Unassigned \/ Assigned(given, chunks, z, K, m)
  BY <1>1, <1>2, <1>4, <1>5, DistributeIs
<1> SUFFICES ASSUME given # Unassigned
             PROVE  /\ \A k \in DOMAIN chunks : given[k] # <<>> => validateSwapInputs(chunks[k], given[k], size)
                    /\ \A v \in ToSet(targetAmounts) \cup paid :
                         Total([k \in DOMAIN given |-> Count(given[k], v)]) = Count(targetAmounts, v)
  BY DEF BatchesAreValid, chunks, given
<1>7. /\ given \in [1..K -> Seq(Positive)]
      /\ \A k \in 1..K : Total(given[k]) <= Total(chunks[k])
      /\ \A v : SumOver(Counts(given, K, v), 1..K) = Cardinality(Matching(z, v, 1..m))
  BY <1>6 DEF Assigned
<1>8. ASSUME NEW k \in DOMAIN chunks, given[k] # <<>>
      PROVE  validateSwapInputs(chunks[k], given[k], size)
  <2>1. k \in 1..K BY <1>2
  <2>2. \A i \in DOMAIN given[k] : given[k][i] > 0
    <3>1. given[k] \in Seq(Positive) BY <1>7, <2>1
    <3>2. given[k] \in [1..Len(given[k]) -> Positive] BY <3>1, LenProperties
    <3>3. \A i \in DOMAIN given[k] : given[k][i] \in Positive BY <3>2
    <3> QED BY <3>3 DEF Positive
  <2>3. Len(chunks[k]) \in Nat BY <1>3, <2>1, LenProperties
  <2>4. ~ (Len(chunks[k]) > size) BY <1>3, <2>1, <2>3
  <2>5. Total(given[k]) <= Total(chunks[k]) BY <1>7, <2>1
  <2> QED BY <1>8, <2>2, <2>4, <2>5 DEF validateSwapInputs
<1>9. ASSUME NEW v PROVE Total([k \in DOMAIN given |-> Count(given[k], v)]) = Count(targetAmounts, v)
  <2>1. [k \in DOMAIN given |-> Count(given[k], v)] = Counts(given, K, v) BY <1>7 DEF Counts
  <2>2. DOMAIN Counts(given, K, v) = 1..K BY DEF Counts
  <2>3. Total(Counts(given, K, v)) = SumOver(Counts(given, K, v), 1..K) BY <2>2, TotalIs
  <2>4. targetAmounts \in [1..m -> Nat] BY DEF Positive
  <2>5. z \in [1..m -> Nat] BY <1>5, <2>4, SortingPicks
  <2>6. DOMAIN z = 1..m BY <2>5
  <2>7. Count(z, v) = Cardinality(Matching(z, v, 1..m)) BY <2>6 DEF Count, Matching
  <2>8. Count(z, v) = Count(targetAmounts, v) BY <1>5, <2>4, SortingCounts
  <2> QED BY <1>7, <2>1, <2>3, <2>7, <2>8
<1> QED BY <1>8, <1>9

\* Every request for the leaves of the wallet is.
LEMMA WalletSplits == WalletOK => SplitsAreValid
<1> SUFFICES ASSUME WalletOK PROVE SplitsAreValid OBVIOUS
<1>1. PICK n \in Nat : wallet \in [1..n -> Nat \ {0}] /\ wallet \in [1..n -> Nat] BY DEF WalletOK
<1> SUFFICES ASSUME NEW limit \in Limits,
                    NEW targetAmounts \in UNION {[1..m -> Many] : m \in 1..3}
             PROVE  BatchesAreValid(wallet, targetAmounts, limit)
  BY DEF SplitsAreValid
<1>2. PICK m \in 1..3 : targetAmounts \in [1..m -> Many] OBVIOUS
<1>3. targetAmounts \in [1..m -> Positive] BY <1>2, ListsAssumption DEF Positive
<1>4. limit \in Nat \ {0} /\ m \in Nat BY ListsAssumption
<1> QED BY <1>1, <1>3, <1>4, SplitIsValid

\* requestLeavesSwap splits a request so that no batch fails its own validation after
\* another was swapped, and together the batches pay every target.
THEOREM SplitsAreSound == MCSpec => []SplitsAreValid
BY WalletInvariant, WalletSplits, PTL

-----------------------------------------------------------------------------
(***************************************************************************)
(* Counting in lists.                                                      *)
(***************************************************************************)
\* A sum of equal numbers.
LEMMA SumConstant ==
  ASSUME NEW S, IsFiniteSet(S), NEW c \in Nat, NEW f, \A x \in S : f[x] = c
  PROVE  Cardinality(S) \in Nat /\ SumOver(f, S) = Cardinality(S) * c
<1> DEFINE Bad == {T \in SUBSET S : ~ (Cardinality(T) \in Nat /\ SumOver(f, T) = Cardinality(T) * c)}
<1> SUFFICES ASSUME Bad # {} PROVE FALSE OBVIOUS
<1>1. Bad \subseteq SUBSET S OBVIOUS
<1> HIDE DEF Bad
<1>2. PICK T \in Bad : \A X \in Bad : ~ (X \subseteq T /\ X # T) BY <1>1, FiniteMin
<1>3. T \in SUBSET S /\ ~ (Cardinality(T) \in Nat /\ SumOver(f, T) = Cardinality(T) * c) BY DEF Bad
<1>4. IsFiniteSet(T) BY <1>3, FS_Subset
<1>5. CASE T = {}
  <2>1. Cardinality(T) = 0 /\ SumOver(f, T) = 0 BY <1>5, FS_EmptySet, SumEmpty
  <2> QED BY <1>3, <2>1
<1>6. CASE T # {}
  <2>1. PICK x \in T : TRUE BY <1>6
  <2> DEFINE U == T \ {x}
             k == Cardinality(U)
  <2>2. U \in SUBSET S /\ U \subseteq T /\ U # T /\ x \notin U /\ T = U \cup {x} BY <1>3, <2>1
  <2>3. k \in Nat /\ SumOver(f, U) = k * c BY <1>2, <2>2 DEF Bad
  <2>4. IsFiniteSet(U) BY <1>4, FS_Subset
  <2>5. \A y \in T : f[y] \in Int BY <1>3
  <2>6. SumOver(f, T) = f[x] + SumOver(f, U) BY <1>4, <2>1, <2>5, SumRemove
  <2>7. f[x] = c BY <1>3, <2>1
  <2> HIDE DEF U
  <2>8. Cardinality(T) = k + 1 BY <2>2, <2>4, FS_AddElement
  <2> HIDE DEF k
  <2>9. k * c \in Nat /\ (k + 1) * c = k * c + 1 * c BY <2>3, Times
  <2>10. SumOver(f, T) = (k + 1) * c BY <2>3, <2>6, <2>7, <2>9
  <2> QED BY <1>3, <2>3, <2>8, <2>10
<1> QED BY <1>5, <1>6

\* Where s has v.
Ind(s, v) == [i \in DOMAIN s |-> IF s[i] = v THEN 1 ELSE 0]

\* A count is a total.
LEMMA CountIsTotal ==
  ASSUME NEW s \in Seq(Nat)
  PROVE  \A v : Ind(s, v) \in Seq(Nat) /\ Count(s, v) = Total(Ind(s, v))
<1> SUFFICES ASSUME NEW v PROVE Ind(s, v) \in Seq(Nat) /\ Count(s, v) = Total(Ind(s, v)) OBVIOUS
<1> DEFINE D == 1..Len(s)
           A == {i \in D : s[i] = v}
           f == Ind(s, v)
           one == 1
           zero == 0
<1>1. DOMAIN s = D /\ Len(s) \in Nat BY LenProperties
<1>2. IsFiniteSet(D) BY <1>1, FS_Interval
<1>3. f \in [1..Len(s) -> Nat] BY <1>1 DEF Ind
<1>4. f \in Seq(Nat) BY <1>1, <1>3
<1>5. DOMAIN f = D BY <1>1 DEF Ind
<1>6. (\A i \in A : f[i] = one) /\ (\A i \in D \ A : f[i] = zero) /\ A \in SUBSET D BY <1>1 DEF Ind
<1>7. \A i \in D : f[i] \in Nat BY <1>3
<1>8. one \in Nat /\ zero \in Nat OBVIOUS
<1>9. Count(s, v) = Cardinality(A) BY <1>1 DEF Count
<1> HIDE DEF D, A, f, one, zero
<1>10. IsFiniteSet(A) /\ IsFiniteSet(D \ A) BY <1>2, <1>6, FS_Subset
<1>11. /\ SumOver(f, A) \in Nat /\ SumOver(f, D \ A) \in Nat
       /\ SumOver(f, D) = SumOver(f, A) + SumOver(f, D \ A)
  BY <1>2, <1>6, <1>7, SumMonotone
<1>12. Cardinality(A) \in Nat /\ SumOver(f, A) = Cardinality(A) * one BY <1>6, <1>8, <1>10, SumConstant
<1>13. SumOver(f, D \ A) = 0 BY <1>6, <1>10, SumZero DEF zero
<1>14. SumOver(f, D) = Cardinality(A) BY <1>11, <1>12, <1>13 DEF one
<1>15. Total(f) = SumOver(f, D) BY <1>5, TotalIs
<1> QED BY <1>4, <1>9, <1>14, <1>15 DEF f

\* One list after another.
Joined(u, s, t) == u = s \o t
\* It is worth what both are.
LEMMA JoinTotal ==
  ASSUME NEW s \in Seq(Nat), NEW t \in Seq(Nat), NEW u, Joined(u, s, t)
  PROVE  u \in Seq(Nat) /\ Total(u) = Total(s) + Total(t)
<1> DEFINE m == Len(s)
           n == Len(t)
           D == 1..(m + n)
           R == 1..m
           N == 1..n
           r == [i \in N |-> m + i]
<1>1. m \in Nat /\ n \in Nat /\ DOMAIN s = R /\ DOMAIN t = N /\ s \in [R -> Nat] /\ t \in [N -> Nat]
  BY LenProperties
<1>2. u \in Seq(Nat) /\ Len(u) = m + n /\ (\A i \in R : u[i] = s[i]) /\ (\A i \in N : u[m + i] = t[i])
  <2>1. u = s \o t BY DEF Joined
  <2>2. Len(s \o t) = m + n /\ s \o t \in Seq(Nat) BY LenProperties
  <2>3. \A i \in R : (s \o t)[i] = s[i] BY <1>1
  <2>4. \A i \in N : (s \o t)[m + i] = t[i] BY <1>1
  <2> QED BY <2>1, <2>2, <2>3, <2>4
<1>3. DOMAIN u = D /\ \A i \in D : u[i] \in Nat BY <1>2, LenProperties
<1>4. IsFiniteSet(D) /\ IsFiniteSet(N) /\ IsFiniteSet(R) BY <1>1, FS_Interval
<1>5. R \in SUBSET D BY <1>1
<1>6. \A i \in N : r[i] \in D BY <1>1
<1>7. \A i \in N : t[i] = u[r[i]] /\ u[r[i]] \in Int BY <1>1, <1>2
<1>8. \A i, j \in N : i # j => r[i] # r[j] BY <1>1
<1>9. {r[i] : i \in N} = D \ R
  <2>1. \A i \in N : r[i] \in D /\ r[i] \notin R BY <1>1
  <2>2. \A x \in D \ R : x - m \in N /\ x = r[x - m] BY <1>1
  <2> HIDE DEF r, D, N, R
  <2> QED BY <2>1, <2>2
<1> HIDE DEF D, R, N, r, m, n
<1>14. IsFiniteSet(N) BY <1>4
<1>15. SumOver(t, N) = SumOver(u, {r[i] : i \in N}) BY <1>7, <1>8, <1>14, SumPicked
<1>10. SumOver(t, N) = SumOver(u, D \ R) BY <1>9, <1>15
<1>11. /\ SumOver(u, R) \in Nat /\ SumOver(u, D \ R) \in Nat
       /\ SumOver(u, D) = SumOver(u, R) + SumOver(u, D \ R)
  BY <1>3, <1>4, <1>5, SumMonotone
<1>12. \A i \in R : s[i] \in Int /\ u[i] = s[i] BY <1>1, <1>2
<1>13. SumOver(s, R) = SumOver(u, R) BY <1>4, <1>12, SumSame
<1> QED BY <1>1, <1>2, <1>3, <1>10, <1>11, <1>13, TotalIs

\* Joined lists have as many of each amount as both.
LEMMA JoinCounts ==
  ASSUME NEW s \in Seq(Nat), NEW t \in Seq(Nat), NEW u, Joined(u, s, t)
  PROVE  \A v : Count(u, v) = Count(s, v) + Count(t, v)
<1> SUFFICES ASSUME NEW v PROVE Count(u, v) = Count(s, v) + Count(t, v) OBVIOUS
<1> DEFINE m == Len(s)
           n == Len(t)
           f == Ind(s, v)
           g == Ind(t, v)
           h == Ind(u, v)
<1>1. m \in Nat /\ n \in Nat /\ DOMAIN s = 1..m /\ DOMAIN t = 1..n BY LenProperties
<1>2. u \in Seq(Nat) BY JoinTotal
<1>3. f \in Seq(Nat) /\ g \in Seq(Nat) /\ h \in Seq(Nat) BY <1>2, CountIsTotal
<1>4. DOMAIN f = 1..m /\ DOMAIN g = 1..n BY <1>1 DEF Ind
<1>5. Len(f) = m /\ Len(g) = n BY <1>1, <1>3, <1>4, LenProperties
<1>6. Len(u) = m + n /\ DOMAIN u = 1..(m + n) BY <1>1 DEF Joined
<1>7. DOMAIN h = 1..(m + n) BY <1>6 DEF Ind
<1>8. \A i \in 1..(m + n) : u[i] = IF i <= m THEN s[i] ELSE t[i - m] BY <1>1 DEF Joined
<1>9. \A i \in 1..(m + n) : h[i] = IF i <= m THEN f[i] ELSE g[i - m]
  <2>1. \A i \in 1..(m + n) : h[i] = IF u[i] = v THEN 1 ELSE 0 BY <1>6 DEF Ind
  <2>2. \A i \in 1..m : f[i] = IF s[i] = v THEN 1 ELSE 0 BY <1>1 DEF Ind
  <2>3. \A i \in 1..n : g[i] = IF t[i] = v THEN 1 ELSE 0 BY <1>1 DEF Ind
  <2> HIDE DEF f, g, h
  <2> TAKE i \in 1..(m + n)
  <2>4. CASE i <= m
    <3>1. i \in 1..m BY <2>4
    <3> QED BY <1>8, <2>1, <2>2, <2>4, <3>1
  <2>5. CASE ~ (i <= m)
    <3>1. i - m \in 1..n BY <1>1, <2>5
    <3> QED BY <1>8, <2>1, <2>3, <2>5, <3>1
  <2> QED BY <2>4, <2>5
<1>10. h = f \o g
  <2> HIDE DEF f, g, h, m, n
  <2>0. PICK w : w = f \o g OBVIOUS
  <2>1. w \in Seq(Nat) /\ Len(w) = m + n BY <1>3, <1>5, <2>0, ConcatProperties
  <2>2. \A i \in 1..(m + n) : w[i] = IF i <= m THEN f[i] ELSE g[i - m] BY <1>3, <1>5, <2>0, ConcatProperties
  <2>3. DOMAIN w = 1..(m + n) /\ w \in [1..(m + n) -> Nat] BY <2>1, LenProperties
  <2>4. h \in [1..(m + n) -> Nat] BY <1>3, <1>7, LenProperties
  <2>6. \A i \in 1..(m + n) : w[i] = h[i] BY <1>9, <2>2
  <2> DEFINE E == 1..(m + n)
  <2>7. w \in [E -> Nat] /\ h \in [E -> Nat] /\ \A i \in E : w[i] = h[i] BY <2>3, <2>4, <2>6
  <2> HIDE DEF E
  <2>5. w = h BY <2>7
  <2> QED BY <2>0, <2>5
<1> HIDE DEF f, g, h
<1>11. Total(h) = Total(f) + Total(g) BY <1>3, <1>10, JoinTotal DEF Joined
<1>12. Count(s, v) = Total(f) /\ Count(t, v) = Total(g) /\ Count(u, v) = Total(h)
  BY <1>2, CountIsTotal DEF f, g, h
<1> QED BY <1>11, <1>12

\* Copies of an amount.
LEMMA CopiesAre ==
  ASSUME NEW n \in Nat, NEW v \in Nat
  PROVE  Copies(n, v) \in [1..n -> {v}] /\ Total(Copies(n, v)) = n * v
<1> DEFINE D == 1..n
           f == Copies(n, v)
<1>1. IsFiniteSet(D) /\ Cardinality(D) = n BY FS_Interval
<1>2. DOMAIN f = D /\ \A i \in D : f[i] = v BY DEF Copies
<1>3. f \in [1..n -> {v}] BY DEF Copies
<1> HIDE DEF D, f
<1>4. SumOver(f, D) = n * v BY <1>1, <1>2, SumConstant
<1> QED BY <1>2, <1>3, <1>4, TotalIs DEF f

-----------------------------------------------------------------------------
(***************************************************************************)
(* greedyLeaves.                                                           *)
(***************************************************************************)
\* The denominations are positive, and one of them is 1.
LEMMA DenominationsAre ==
  /\ DENOMINATIONS \in [1..28 -> Positive] /\ Len(DENOMINATIONS) = 28
  /\ ToSet(DENOMINATIONS) \subseteq Positive /\ 1 \in ToSet(DENOMINATIONS)
<1>1. ASSUME NEW i \in 1..28 PROVE DENOMINATIONS[i] \in Positive /\ DENOMINATIONS[i] = 2^(i - 1)
  <2> DEFINE j == i - 1
  <2>1. j \in Nat /\ DENOMINATIONS[i] = 2^j BY DEF DENOMINATIONS
  <2> HIDE DEF j
  <2>2. 2^j \in Nat /\ 2^j > 0 BY <2>1, PowerNext
  <2> QED BY <2>1, <2>2 DEF Positive, j
<1>2. DOMAIN DENOMINATIONS = 1..28 BY DEF DENOMINATIONS
<1>3. DENOMINATIONS \in [1..28 -> Positive]
  <2>1. DENOMINATIONS = [i \in 1..28 |-> DENOMINATIONS[i]] BY DEF DENOMINATIONS
  <2> QED BY <1>1, <2>1
<1>4. 2^0 = 1
  <2> DEFINE E == {} \ {0}
  <2>0. E = {} OBVIOUS
  <2> HIDE DEF E
  <2>1. IsFiniteSet(E) /\ Cardinality(E) = 0 BY <2>0, FS_EmptySet
  <2>2. Cardinality(SUBSET E) = 2^0 BY <2>1, FS_SUBSET
  <2>3. SUBSET E = {E} BY <2>0
  <2>4. Cardinality({E}) = 1 BY FS_Singleton
  <2> QED BY <2>2, <2>3, <2>4
<1>5. DENOMINATIONS[1] = 1
  <2>1. 1 \in 1..28 /\ 1 - 1 = 0 OBVIOUS
  <2> QED BY <1>1, <1>4, <2>1
<1>6. 1 \in ToSet(DENOMINATIONS)
  <2>1. 1 \in 1..28 OBVIOUS
  <2> QED BY <1>2, <1>5, <2>1 DEF ToSet
<1>7. ToSet(DENOMINATIONS) \subseteq Positive BY <1>1, <1>2 DEF ToSet
<1>8. Len(DENOMINATIONS) = 28 BY <1>3
<1> QED BY <1>3, <1>6, <1>7, <1>8

\* The largest denomination within an amount is positive.
LEMMA LargestIs ==
  ASSUME NEW a \in Positive
  PROVE  largest(a) \in 1..a /\ largest(a) \in Positive
<1> DEFINE T == {d \in ToSet(DENOMINATIONS) : d <= a}
<1>1. a \in Nat /\ a >= 1 BY DEF Positive
<1>2. T \in SUBSET (1..a) BY <1>1, DenominationsAre DEF Positive
<1>3. T # {}
  <2>1. 1 \in T BY <1>1, DenominationsAre
  <2> QED BY <2>1
<1> HIDE DEF T
<1>4. Max(T) \in T BY <1>1, <1>2, <1>3, MaxIn
<1>5. largest(a) = Max(T) BY DEF largest, T
<1>6. largest(a) \in 1..a BY <1>2, <1>4, <1>5
<1> QED BY <1>1, <1>6 DEF Positive

\* f is greedyLeaves up to n.
Greedily(f, n) ==
  /\ f \in [0..n -> Seq(Positive)]
  /\ \A a \in 0..n : f[a] = IF a = 0 THEN <<>> ELSE Append(f[a - largest(a)], largest(a))

\* There is one such function: two of them agree where both are defined.
LEMMA GreedilyUnique ==
  ASSUME NEW m \in Nat, NEW n \in Nat, NEW f, NEW g, Greedily(f, m), Greedily(g, n),
         NEW a \in Nat, a <= m, a <= n
  PROVE  f[a] = g[a]
<1> DEFINE Bad == {x \in 0..a : f[x] # g[x]}
<1> SUFFICES ASSUME Bad # {} PROVE FALSE OBVIOUS
<1>1. Bad \subseteq Nat OBVIOUS
<1> HIDE DEF Bad
<1>2. PICK x \in Bad : \A y \in Bad : x <= y BY <1>1, LeastNat
<1>3. x \in 0..a /\ f[x] # g[x] BY DEF Bad
<1>4. x \in 0..m /\ x \in 0..n /\ 0 \in 0..m /\ 0 \in 0..n BY <1>3
<1>5. CASE x = 0
  <2>1. f[0] = <<>> /\ g[0] = <<>> BY <1>4 DEF Greedily
  <2> QED BY <1>3, <1>5, <2>1
<1>6. CASE x # 0
  <2>1. x \in Positive BY <1>3, <1>6 DEF Positive
  <2>2. largest(x) \in 1..x BY <2>1, LargestIs
  <2> DEFINE y == x - largest(x)
  <2>3. y \in 0..a /\ y < x BY <1>3, <2>2
  <2>4. y \notin Bad BY <1>2, <1>3, <2>3
  <2>5. f[y] = g[y] BY <2>3, <2>4 DEF Bad
  <2>6. f[x] = Append(f[y], largest(x)) /\ g[x] = Append(g[y], largest(x)) BY <1>4, <1>6 DEF Greedily
  <2> QED BY <1>3, <2>5, <2>6
<1> QED BY <1>5, <1>6

\* There is one for every n.
LEMMA GreedilyExists ==
  ASSUME NEW n \in Nat
  PROVE  \E f : Greedily(f, n)
<1> DEFINE Bad == {m \in Nat : ~ \E f : Greedily(f, m)}
<1> SUFFICES ASSUME Bad # {} PROVE FALSE OBVIOUS
<1>1. Bad \subseteq Nat OBVIOUS
<1> HIDE DEF Bad
<1>2. PICK m \in Bad : \A k \in Bad : m <= k BY <1>1, LeastNat
<1>3. m \in Nat /\ ~ \E f : Greedily(f, m) BY DEF Bad
<1>4. CASE m = 0
  <2> DEFINE f == [a \in 0..0 |-> <<>>]
  <2>1. <<>> \in Seq(Positive) OBVIOUS
  <2>2. f \in [0..0 -> Seq(Positive)] BY <2>1
  <2>3. \A a \in 0..0 : a = 0 /\ f[a] = <<>> OBVIOUS
  <2> HIDE DEF f
  <2>4. Greedily(f, 0) BY <2>2, <2>3 DEF Greedily
  <2> QED BY <1>3, <1>4, <2>4
<1>5. CASE m # 0
  <2> DEFINE k == m - 1
  <2>1. k \in Nat /\ k < m /\ m = k + 1 /\ m \in Positive BY <1>3, <1>5 DEF Positive
  <2>2. PICK g : Greedily(g, k) BY <1>2, <2>1 DEF Bad
  <2> HIDE DEF k
  <2>3. g \in [0..k -> Seq(Positive)] BY <2>2 DEF Greedily
  <2> DEFINE last == Append(g[m - largest(m)], largest(m))
             f == [a \in 0..m |-> IF a = m THEN last ELSE g[a]]
  <2>4. largest(m) \in 1..m /\ largest(m) \in Positive BY <2>1, LargestIs
  <2>5. m - largest(m) \in 0..k BY <2>1, <2>4
  <2>6. last \in Seq(Positive)
    <3>1. g[m - largest(m)] \in Seq(Positive) BY <2>3, <2>5
    <3> QED BY <2>4, <3>1
  <2>7. \A a \in 0..k : f[a] = g[a] BY <2>1
  <2>8. f[m] = last BY <2>1
  <2>9. f \in [0..m -> Seq(Positive)]
    <3>1. \A a \in 0..m : a # m => a \in 0..k BY <2>1
    <3> HIDE DEF last
    <3> QED BY <2>3, <2>6, <3>1
  <2> HIDE DEF f
  <2>10. ASSUME NEW a \in 0..m
         PROVE  f[a] = IF a = 0 THEN <<>> ELSE Append(f[a - largest(a)], largest(a))
    <3>1. CASE a = m
      <4>1. a # 0 /\ f[a] = last BY <2>1, <2>8, <3>1 DEF Positive
      <4>2. f[m - largest(m)] = g[m - largest(m)] BY <2>5, <2>7
      <4> QED BY <3>1, <4>1, <4>2
    <3>2. CASE a # m
      <4>1. a \in 0..k BY <2>1, <3>2
      <4>2. f[a] = g[a] BY <2>7, <4>1
      <4>3. g[a] = IF a = 0 THEN <<>> ELSE Append(g[a - largest(a)], largest(a)) BY <2>2, <4>1 DEF Greedily
      <4>4. CASE a = 0 BY <4>2, <4>3, <4>4
      <4>5. CASE a # 0
        <5>1. a \in Positive BY <4>5 DEF Positive
        <5>2. largest(a) \in 1..a BY <5>1, LargestIs
        <5>3. a - largest(a) \in 0..k BY <2>1, <4>1, <5>2
        <5> QED BY <2>7, <4>2, <4>3, <4>5, <5>3
      <4> QED BY <4>4, <4>5
    <3> QED BY <3>1, <3>2
  <2>11. Greedily(f, m) BY <2>9, <2>10 DEF Greedily
  <2> QED BY <1>3, <2>11
<1> QED BY <1>4, <1>5

\* g is greedyLeaves for every amount, as it is defined.
Greed(g) == g = [a \in Nat |-> IF a = 0 THEN <<>> ELSE Append(g[a - largest(a)], largest(a))]

\* greedyLeaves is chosen to be that.
LEMMA GreedUnfolds == greedyLeaves = CHOOSE g : Greed(g)
BY DEF greedyLeaves, Greed

\* What greedyLeaves computes.
LEMMA GreedyUnfolds ==
  /\ greedyLeaves \in [Nat -> Seq(Positive)]
  /\ greedyLeaves[0] = <<>>
  /\ \A a \in Positive : greedyLeaves[a] = Append(greedyLeaves[a - largest(a)], largest(a))
<1> DEFINE L(n) == CHOOSE f : Greedily(f, n)
           F == [a \in Nat |-> L(a)[a]]
<1>1. \A n \in Nat : Greedily(L(n), n) BY GreedilyExists
<1> HIDE DEF L
<1>2. \A a \in Nat : L(a)[a] \in Seq(Positive)
  <2> TAKE a \in Nat
  <2>1. a \in 0..a OBVIOUS
  <2> QED BY <1>1, <2>1 DEF Greedily
<1>3. F \in [Nat -> Seq(Positive)] BY <1>2
<1>4. ASSUME NEW a \in Nat
      PROVE  F[a] = IF a = 0 THEN <<>> ELSE Append(F[a - largest(a)], largest(a))
  <2>1. a \in 0..a OBVIOUS
  <2>2. L(a)[a] = IF a = 0 THEN <<>> ELSE Append(L(a)[a - largest(a)], largest(a))
    BY <1>1, <2>1 DEF Greedily
  <2>3. CASE a = 0 BY <2>2, <2>3
  <2>4. CASE a # 0
    <3>1. a \in Positive BY <2>4 DEF Positive
    <3>2. largest(a) \in 1..a BY <3>1, LargestIs
    <3> DEFINE b == a - largest(a)
    <3>3. b \in Nat /\ b <= a /\ b <= b BY <3>2
    <3> HIDE DEF b
    <3>4. L(a)[b] = L(b)[b] BY <1>1, <3>3, GreedilyUnique
    <3>5. F[b] = L(b)[b] /\ F[a] = L(a)[a] BY <3>3
    <3> QED BY <2>2, <2>4, <3>4, <3>5 DEF b
  <2> QED BY <2>3, <2>4
<1> HIDE DEF F
<1>5. Greed(F)
  <2>1. DOMAIN F = Nat /\ F = [a \in Nat |-> F[a]] BY <1>3
  <2> QED BY <1>4, <2>1 DEF Greed
<1>6. Greed(greedyLeaves) BY <1>5, GreedUnfolds
<1> DEFINE G == greedyLeaves
<1>7. DOMAIN G = Nat BY <1>6 DEF Greed
<1>8. \A a \in Nat : G[a] = IF a = 0 THEN <<>> ELSE Append(G[a - largest(a)], largest(a))
  BY <1>6 DEF Greed
<1> HIDE DEF G
<1>9. \A a \in Nat : G[a] \in Seq(Positive)
  <2> DEFINE Bad == {x \in Nat : G[x] \notin Seq(Positive)}
  <2> SUFFICES ASSUME Bad # {} PROVE FALSE OBVIOUS
  <2>1. Bad \subseteq Nat OBVIOUS
  <2> HIDE DEF Bad
  <2>2. PICK x \in Bad : \A y \in Bad : x <= y BY <2>1, LeastNat
  <2>3. x \in Nat /\ G[x] \notin Seq(Positive) BY DEF Bad
  <2>4. CASE x = 0
    <3>1. <<>> \in Seq(Positive) OBVIOUS
    <3> QED BY <1>8, <2>3, <2>4, <3>1
  <2>5. CASE x # 0
    <3>1. x \in Positive BY <2>3, <2>5 DEF Positive
    <3>2. largest(x) \in 1..x /\ largest(x) \in Positive BY <3>1, LargestIs
    <3> DEFINE y == x - largest(x)
    <3>3. y \in Nat /\ y < x BY <2>3, <3>2
    <3>4. G[y] \in Seq(Positive) BY <2>2, <2>3, <3>3 DEF Bad
    <3>5. G[x] = Append(G[y], largest(x)) BY <1>8, <2>3, <2>5
    <3> HIDE DEF y
    <3>6. Append(G[y], largest(x)) \in Seq(Positive) BY <3>2, <3>4
    <3> QED BY <2>3, <3>5, <3>6
  <2> QED BY <2>4, <2>5
<1>10. G \in [Nat -> Seq(Positive)]
  <2>1. G = [a \in Nat |-> G[a]] BY <1>6, <1>7 DEF Greed, G
  <2> QED BY <1>9, <2>1
<1>11. \A a \in Positive : a \in Nat /\ a # 0 BY DEF Positive
<1>12. 0 \in Nat OBVIOUS
<1> QED BY <1>8, <1>10, <1>11, <1>12 DEF G

\* Lists of positive amounts are lists of naturals.
LEMMA PositiveSeq == Seq(Positive) \subseteq Seq(Nat)
<1> SUFFICES ASSUME NEW s \in Seq(Positive) PROVE s \in Seq(Nat) OBVIOUS
<1>1. Len(s) \in Nat /\ s \in [1..Len(s) -> Positive] BY LenProperties
<1>2. s \in [1..Len(s) -> Nat] BY <1>1 DEF Positive
<1> QED BY <1>1, <1>2

\* greedyLeaves pays the amount.
LEMMA GreedyIs ==
  ASSUME NEW amount \in Nat
  PROVE  /\ greedyLeaves[amount] \in Seq(Positive) /\ greedyLeaves[amount] \in Seq(Nat)
         /\ Total(greedyLeaves[amount]) = amount
<1> DEFINE Bad == {x \in Nat : Total(greedyLeaves[x]) # x}
<1>0. greedyLeaves[amount] \in Seq(Positive) BY GreedyUnfolds
<1> SUFFICES ASSUME Bad # {} PROVE FALSE BY <1>0, PositiveSeq
<1>1. Bad \subseteq Nat OBVIOUS
<1> HIDE DEF Bad
<1>2. PICK x \in Bad : \A y \in Bad : x <= y BY <1>1, LeastNat
<1>3. x \in Nat /\ Total(greedyLeaves[x]) # x BY DEF Bad
<1>4. CASE x = 0
  <2> DEFINE e == <<>>
  <2>1. DOMAIN e = {} OBVIOUS
  <2>2. greedyLeaves[x] = e BY <1>4, GreedyUnfolds
  <2> HIDE DEF e
  <2>3. Total(e) = 0 BY <2>1, SumEmpty, TotalIs
  <2> QED BY <1>3, <1>4, <2>2, <2>3
<1>5. CASE x # 0
  <2>1. x \in Positive BY <1>3, <1>5 DEF Positive
  <2> DEFINE d == largest(x)
             y == x - d
             s == greedyLeaves[y]
             t == greedyLeaves[x]
  <2>2. d \in 1..x /\ d \in Nat BY <2>1, LargestIs
  <2>3. y \in Nat /\ y < x /\ x = y + d BY <1>3, <2>2
  <2>4. t = Append(s, d) BY <2>1, GreedyUnfolds
  <2>5. Total(s) = y BY <1>2, <1>3, <2>3 DEF Bad
  <2> HIDE DEF d, y
  <2>6. s \in Seq(Nat) BY <2>3, GreedyUnfolds, PositiveSeq
  <2>9. Total(t) # x BY <1>3
  <2> HIDE DEF s, t
  <2>7. Total(t) = Total(s) + d BY <2>2, <2>4, <2>6, AppendCounts DEF Appended
  <2> QED BY <2>3, <2>5, <2>7, <2>9
<1> QED BY <1>4, <1>5

-----------------------------------------------------------------------------
(***************************************************************************)
(* swapMinimizingLeaves.                                                   *)
(***************************************************************************)
\* One step of few, and few as the recursive function FoldLeft evaluates.
FewMore(leaves, d, amount, multiplicity) ==
  leaves \o Copies(Min({multiplicity, (amount - Total(leaves)) \div d}), d)
FewSteps(g, amount, multiplicity, z) ==
  g = [T \in SUBSET DOMAIN z |->
         IF T = {} THEN <<>> ELSE FewMore(g[T \ {Max(T)}], z[Max(T)], amount, multiplicity)]

\* few is that function's value.
LEMMA FewUnfolds ==
  ASSUME NEW amount, NEW multiplicity, NEW z,
         z = SubSeq(DENOMINATIONS, 1, Cardinality({i \in 1..28 : DENOMINATIONS[i] <= amount}))
  PROVE  few(amount, multiplicity) = (CHOOSE g : FewSteps(g, amount, multiplicity, z))[DOMAIN z]
BY DEF few, FoldLeft, MapThenFoldSet, FewSteps, FewMore

\* Whole parts.
LEMMA Quotient ==
  ASSUME NEW r \in Nat, NEW d \in Positive
  PROVE  r \div d \in Nat /\ (r \div d) * d <= r
BY DEF Positive

\* Copies are added only as far as the amount goes.
LEMMA FewKeeps ==
  ASSUME NEW amount \in Nat, NEW multiplicity \in Nat, NEW s \in Seq(Positive), Total(s) <= amount,
         NEW d \in Positive
  PROVE  /\ FewMore(s, d, amount, multiplicity) \in Seq(Positive)
         /\ Total(FewMore(s, d, amount, multiplicity)) <= amount
<1> DEFINE r == amount - Total(s)
           q == r \div d
           c == Min({multiplicity, q})
           t == Copies(c, d)
           u == FewMore(s, d, amount, multiplicity)
<1>1. s \in Seq(Nat) BY PositiveSeq
<1>2. Total(s) \in Nat BY <1>1, SeqTotal
<1>3. r \in Nat BY <1>2
<1>4. q \in Nat /\ q * d <= r BY <1>3, Quotient
<1>5. d \in Nat BY DEF Positive
<1> HIDE DEF q
<1>6. c \in Nat /\ c <= q
  <2>1. multiplicity \in Int /\ q \in Int BY <1>4
  <2>2. c = IF multiplicity <= q THEN multiplicity ELSE q BY <2>1, MinOfTwo
  <2> QED BY <1>4, <2>2
<1>8. u = s \o t BY DEF FewMore, q
<1> HIDE DEF c
<1>7. c * d <= q * d /\ c * d \in Nat /\ q * d \in Nat BY <1>4, <1>5, <1>6, Times
<1>9. t \in [1..c -> {d}] /\ Total(t) = c * d BY <1>5, <1>6, CopiesAre
<1> HIDE DEF u, t
<1>10. t \in [1..c -> Positive] BY <1>9
<1>11. t \in Seq(Positive) BY <1>6, <1>10
<1>12. u \in Seq(Positive) BY <1>8, <1>11
<1>13. t \in Seq(Nat) BY <1>11, PositiveSeq
<1>14. Total(u) = Total(s) + Total(t) BY <1>1, <1>8, <1>13, JoinTotal DEF Joined
<1>15. Total(s) + c * d <= amount BY <1>2, <1>4, <1>7
<1> QED BY <1>9, <1>12, <1>14, <1>15 DEF u

\* What few takes is worth no more than the amount.
FewEnd(s, amount) == s \in Seq(Positive) /\ Total(s) <= amount
LEMMA FewIs ==
  ASSUME NEW amount \in Nat, NEW multiplicity \in Nat
  PROVE  FewEnd(few(amount, multiplicity), amount)
<1> DEFINE n == Cardinality({i \in 1..28 : DENOMINATIONS[i] <= amount})
           z == SubSeq(DENOMINATIONS, 1, n)
           D == 1..n
           V == {s \in Seq(Positive) : Total(s) <= amount}
           b == <<>>
           H == [p \in D \X V |-> FewMore(p[2], z[p[1]], amount, multiplicity)]
<1>0. n \in 0..28
  <2> DEFINE A == {i \in 1..28 : DENOMINATIONS[i] <= amount}
             m == 28
             B == 1..m
  <2>3. m \in Nat OBVIOUS
  <2> HIDE DEF m
  <2>1. IsFiniteSet(B) /\ Cardinality(B) = m BY <2>3, FS_Interval
  <2>2. A \subseteq B BY DEF m
  <2> HIDE DEF A, B
  <2>5. Cardinality(A) <= Cardinality(B) /\ IsFiniteSet(A) BY <2>1, <2>2, FS_Subset
  <2>4. Cardinality(A) \in Nat BY <2>5, FS_CardinalityType
  <2> QED BY <2>1, <2>4, <2>5 DEF A, m
<1>1. n \in Nat BY <1>0
<1> HIDE DEF n
<1>2. z \in [1..n -> Positive]
  <2> DEFINE Den == DENOMINATIONS
  <2>1. Den \in [1..28 -> Positive] BY DenominationsAre
  <2> HIDE DEF Den
  <2>2. \A i \in 1..28 : Den[i] \in Int BY <2>1 DEF Positive
  <2>3. Den \in [1..28 -> Int] BY <2>1, <2>2
  <2>4. SubSeq(Den, 1, n) = [i \in 1..n |-> Den[i]] BY <1>0, <2>3, PrefixIs
  <2>5. \A i \in 1..n : i \in 1..28 BY <1>0
  <2> QED BY <2>1, <2>4, <2>5 DEF Den
<1>3. few(amount, multiplicity) = (CHOOSE g : FewSteps(g, amount, multiplicity, z))[DOMAIN z]
  BY FewUnfolds DEF n
<1> HIDE DEF z
<1>4. D = 1..n /\ DOMAIN z = D BY <1>2
<1>5. \A p \in D \X V : p[2] \in V /\ z[p[1]] \in Positive BY <1>2
<1>6. H \in [D \X V -> V]
  <2>1. ASSUME NEW s \in V, NEW d \in Positive PROVE FewMore(s, d, amount, multiplicity) \in V
    BY <2>1, FewKeeps
  <2> HIDE DEF V, D
  <2> QED BY <2>1, <1>5
<1>7. b \in V
  <2>1. DOMAIN b = {} /\ b \in Seq(Positive) OBVIOUS
  <2> HIDE DEF b
  <2>2. Total(b) = 0 BY <2>1, SumEmpty, TotalIs
  <2> QED BY <2>1, <2>2
<1>8. \A k \in D, v \in V : H[<<k, v>>] = FewMore(v, z[k], amount, multiplicity) OBVIOUS
<1>9. b = <<>> OBVIOUS
<1> HIDE DEF D, V, H, b
<1>10. PICK f \in [SUBSET D -> V] : Folds(f, D, b, H) BY <1>1, <1>4, <1>6, <1>7, FoldExists
<1>11. ASSUME NEW T \in SUBSET D
       PROVE  f[T] = IF T = {} THEN b ELSE FewMore(f[T \ {Max(T)}], z[Max(T)], amount, multiplicity)
  <2>1. CASE T = {} BY <1>10, <2>1 DEF Folds
  <2>2. CASE T # {}
    <3>1. Max(T) \in D BY <2>2, <1>1, <1>4, MaxIn
    <3>2. f[T \ {Max(T)}] \in V BY <1>10
    <3> QED BY <1>8, <1>10, <2>2, <3>1, <3>2 DEF Folds
  <2> QED BY <2>1, <2>2
<1>12. FewSteps(f, amount, multiplicity, z) BY <1>4, <1>9, <1>10, <1>11 DEF FewSteps
<1> DEFINE g == CHOOSE g : FewSteps(g, amount, multiplicity, z)
<1>13. FewSteps(g, amount, multiplicity, z) BY <1>12
<1>14. few(amount, multiplicity) = g[D] BY <1>3, <1>4
<1> HIDE DEF g
<1>15. g[{}] = b BY <1>9, <1>13 DEF FewSteps
<1>16. ASSUME NEW T \in SUBSET D, T # {}, g[T \ {Max(T)}] \in V
       PROVE  g[T] = H[<<Max(T), g[T \ {Max(T)}]>>]
  <2>1. Max(T) \in D BY <1>1, <1>4, <1>16, MaxIn
  <2>2. g[T] = FewMore(g[T \ {Max(T)}], z[Max(T)], amount, multiplicity) BY <1>4, <1>13, <1>16 DEF FewSteps
  <2> QED BY <1>8, <1>16, <2>1, <2>2
<1>17. FoldsWithin(g, D, V, b, H) BY <1>15, <1>16 DEF FoldsWithin
<1>18. PICK w : FoldSteps(w, n, V, b, H, g[D]) BY <1>1, <1>4, <1>6, <1>7, <1>17, FoldPrefixes
<1>19. g[D] \in V
  <2>1. n \in 0..n BY <1>1
  <2> QED BY <1>18, <2>1 DEF FoldSteps
<1> QED BY <1>14, <1>19 DEF V, FewEnd

\* Sorting a list of positive amounts.
LEMMA SortedPositive ==
  ASSUME NEW s \in Seq(Positive)
  PROVE  /\ ascending(s) \in Seq(Positive)
         /\ Len(ascending(s)) = Len(s)
         /\ Total(ascending(s)) = Total(s)
         /\ \A v : Count(ascending(s), v) = Count(s, v)
<1> DEFINE n == Len(s)
           a == ascending(s)
<1>1. n \in Nat /\ s \in [1..n -> Positive] BY LenProperties
<1> HIDE DEF n
<1>2. s \in [1..n -> Nat] BY <1>1 DEF Positive
<1>3. a \in [1..n -> Nat] /\ Total(a) = Total(s) BY <1>1, <1>2, SortingPicks
<1>4. \A v : Count(a, v) = Count(s, v) BY <1>1, <1>2, SortingCounts
<1>5. PICK p : Picks(a, n, s, n, p) BY <1>1, <1>2, SortingPicks
<1> HIDE DEF a
<1>6. \A i \in 1..n : a[i] \in Positive BY <1>1, <1>5 DEF Picks
<1>7. a \in [1..n -> Positive] BY <1>3, <1>6
<1>8. a \in Seq(Positive) /\ Len(a) = n BY <1>1, <1>7
<1> QED BY <1>3, <1>4, <1>8 DEF a, n

\* The optimal leaves are worth the amount.
LEMMA OptimalIs ==
  ASSUME NEW amount \in Nat, NEW multiplicity \in Nat
  PROVE  /\ swapMinimizingLeaves(amount, multiplicity) \in Seq(Positive)
         /\ Total(swapMinimizingLeaves(amount, multiplicity)) = amount
<1> DEFINE s == few(amount, multiplicity)
           r == amount - Total(s)
           t == greedyLeaves[r]
           u == s \o t
<1>1. s \in Seq(Positive) /\ Total(s) <= amount BY FewIs DEF FewEnd
<1>2. s \in Seq(Nat) BY <1>1, PositiveSeq
<1>3. Total(s) \in Nat BY <1>2, SeqTotal
<1>4. r \in Nat BY <1>1, <1>3
<1>5. t \in Seq(Positive) /\ t \in Seq(Nat) /\ Total(t) = r BY <1>4, GreedyIs
<1>6. swapMinimizingLeaves(amount, multiplicity) = ascending(u) BY DEF swapMinimizingLeaves
<1> HIDE DEF s, t
<1>7. u \in Seq(Positive) BY <1>1, <1>5
<1>8. Total(u) = Total(s) + Total(t) BY <1>2, <1>5, JoinTotal DEF Joined
<1>9. Total(u) = amount BY <1>3, <1>5, <1>8
<1> QED BY <1>6, <1>7, <1>9, SortedPositive

-----------------------------------------------------------------------------
(***************************************************************************)
(* Plans: what they take and what they return.                             *)
(***************************************************************************)
\* The empty list.
LEMMA NoneCounts ==
  /\ <<>> \in Seq(Positive) /\ <<>> \in Seq(Nat) /\ Total(<<>>) = 0
  /\ \A v : Count(<<>>, v) = 0
<1> DEFINE b == <<>>
<1>1. DOMAIN b = {} /\ b \in Seq(Positive) /\ b \in Seq(Nat) OBVIOUS
<1> HIDE DEF b
<1>2. Total(b) = 0 BY <1>1, SumEmpty, TotalIs
<1>3. ASSUME NEW v PROVE Count(b, v) = 0
  <2>1. {i \in DOMAIN b : b[i] = v} = {} BY <1>1
  <2> QED BY <2>1, FS_EmptySet DEF Count
<1> QED BY <1>1, <1>2, <1>3 DEF b

\* A prefix and the next element.
LEMMA PrefixNext ==
  ASSUME NEW a \in Seq(Positive)
  PROVE  /\ SubSeq(a, 1, 0) = <<>>
         /\ SubSeq(a, 1, Len(a)) = a
         /\ \A i \in 1..Len(a) : /\ a[i] \in Positive
                                 /\ SubSeq(a, 1, i - 1) \in Seq(Positive)
                                 /\ Len(SubSeq(a, 1, i - 1)) = i - 1
                                 /\ SubSeq(a, 1, i) = Append(SubSeq(a, 1, i - 1), a[i])
<1> DEFINE n == Len(a)
<1>1. n \in Nat /\ a \in [1..n -> Positive] BY LenProperties
<1> HIDE DEF n
<1>2. \A i \in 0..n : /\ SubSeq(a, 1, i) \in Seq(Positive)
                      /\ Len(SubSeq(a, 1, i)) = i
                      /\ \A j \in 1..i : SubSeq(a, 1, i)[j] = a[j]
  <2> TAKE i \in 0..n
  <2>1. \A j \in 1..i : a[j] \in Positive BY <1>1
  <2>2. /\ SubSeq(a, 1, i) \in Seq(Positive)
        /\ Len(SubSeq(a, 1, i)) = IF 1 <= i THEN i - 1 + 1 ELSE 0
        /\ \A j \in 1..(i - 1 + 1) : SubSeq(a, 1, i)[j] = a[1 + j - 1]
    BY <2>1, SubSeqProperties
  <2> QED BY <1>1, <2>2
<1>3. SubSeq(a, 1, 0) = <<>>
  <2> PICK s : s = SubSeq(a, 1, 0) OBVIOUS
  <2>1. 0 \in 0..n BY <1>1
  <2>2. s \in Seq(Positive) /\ Len(s) = 0 BY <1>2, <2>1
  <2> QED BY <2>2
<1>4. SubSeq(a, 1, n) = a
  <2> PICK s : s = SubSeq(a, 1, n) OBVIOUS
  <2>1. n \in 0..n BY <1>1
  <2>2. s \in Seq(Positive) /\ Len(s) = n /\ \A j \in 1..n : s[j] = a[j] BY <1>2, <2>1
  <2>3. s \in [1..n -> Positive] BY <2>2, LenProperties
  <2> QED BY <1>1, <2>2, <2>3
<1>5. ASSUME NEW i \in 1..n PROVE SubSeq(a, 1, i) = Append(SubSeq(a, 1, i - 1), a[i])
  <2> PICK s : s = SubSeq(a, 1, i) OBVIOUS
  <2> PICK t : t = SubSeq(a, 1, i - 1) OBVIOUS
  <2>1. i \in 0..n /\ i - 1 \in 0..n /\ a[i] \in Positive BY <1>1
  <2>2. s \in Seq(Positive) /\ Len(s) = i /\ \A j \in 1..i : s[j] = a[j] BY <1>2, <2>1
  <2>3. t \in Seq(Positive) /\ Len(t) = i - 1 /\ \A j \in 1..(i - 1) : t[j] = a[j] BY <1>2, <2>1
  <2> PICK u : u = Append(t, a[i]) OBVIOUS
  <2>4. u \in Seq(Positive) /\ Len(u) = i /\ u[i] = a[i] /\ \A j \in 1..(i - 1) : u[j] = t[j] BY <2>1, <2>3
  <2>5. s \in [1..i -> Positive] /\ u \in [1..i -> Positive] BY <2>2, <2>4, LenProperties
  <2>6. \A j \in 1..i : s[j] = u[j]
    <3> TAKE j \in 1..i
    <3>1. CASE j = i BY <2>2, <2>4, <3>1
    <3>2. CASE j # i
      <4>1. j \in 1..(i - 1) BY <3>2
      <4> QED BY <2>2, <2>3, <2>4, <4>1
    <3> QED BY <3>1, <3>2
  <2> DEFINE J == 1..i
  <2>7. s \in [J -> Positive] /\ u \in [J -> Positive] /\ \A j \in J : s[j] = u[j] BY <2>5, <2>6
  <2> HIDE DEF J
  <2>8. s = u BY <2>7
  <2> QED BY <2>8
<1>6. \A i \in 1..n : i - 1 \in 0..n BY <1>1
<1> QED BY <1>1, <1>2, <1>3, <1>4, <1>5, <1>6 DEF n

\* The elements of one list after another.
LEMMA JoinedIs ==
  ASSUME NEW S, NEW s \in Seq(S), NEW t \in Seq(S), NEW u, Joined(u, s, t)
  PROVE  /\ u \in Seq(S) /\ Len(u) = Len(s) + Len(t)
         /\ \A i \in 1..(Len(s) + Len(t)) : u[i] = IF i <= Len(s) THEN s[i] ELSE t[i - Len(s)]
<1>1. u = s \o t BY DEF Joined
<1> QED BY <1>1, ConcatProperties

\* The first element and the others.
LEMMA HeadTail ==
  ASSUME NEW s \in Seq(Positive), s # <<>>
  PROVE  /\ Head(s) \in Positive /\ Tail(s) \in Seq(Positive) /\ Len(Tail(s)) = Len(s) - 1
         /\ Total(s) = Head(s) + Total(Tail(s))
         /\ \A v : Count(s, v) = Count(Tail(s), v) + IF Head(s) = v THEN 1 ELSE 0
<1>19. PICK t : t = Tail(s) OBVIOUS
<1>20. PICK h : h = Head(s) OBVIOUS
<1> DEFINE e == <<>>
           o == Append(e, h)
           n == Len(s)
<1>1. n \in Nat /\ n > 0 BY LenProperties
<1>2. h \in Positive /\ t \in Seq(Positive) /\ Len(t) = n - 1 BY <1>19, <1>20
<1>3. \A i \in 1..(n - 1) : t[i] = s[i + 1] BY <1>19
<1>4. o \in Seq(Positive) /\ Len(o) = 1 /\ o[1] = h BY <1>2
<1>5. e \in Seq(Nat) /\ h \in Nat /\ Total(e) = 0 /\ \A v : Count(e, v) = 0 BY <1>2, NoneCounts DEF Positive
<1>14. Appended(o, e, h) BY DEF Appended
<1> HIDE DEF e, o
<1>15. Total(o) = Total(e) + h /\ \A v : Count(o, v) = Count(e, v) + IF h = v THEN 1 ELSE 0
  BY <1>5, <1>14, AppendCounts
<1>6. Total(o) = 0 + h /\ \A v : Count(o, v) = 0 + IF h = v THEN 1 ELSE 0
  BY <1>5, <1>15
<1>7. s = o \o t
  <2>3. PICK u : u = o \o t OBVIOUS
  <2>5. Joined(u, o, t) BY <2>3 DEF Joined
  <2>11. o \in Seq(Positive) /\ t \in Seq(Positive) BY <1>2, <1>4
  <2>6. /\ u \in Seq(Positive) /\ Len(u) = Len(o) + Len(t)
        /\ \A i \in 1..(Len(o) + Len(t)) : u[i] = IF i <= Len(o) THEN o[i] ELSE t[i - Len(o)]
    BY ONLY <2>5, <2>11, JoinedIs
  <2>9. Len(o) = 1 /\ Len(o) + Len(t) = n BY <1>1, <1>2, <1>4
  <2>1. u \in Seq(Positive) /\ Len(u) = n BY <2>6, <2>9
  <2>2. \A i \in 1..n : u[i] = IF i <= 1 THEN o[i] ELSE t[i - 1] BY <2>6, <2>9
  <2>10. \A i \in 1..n : s[i] = u[i]
    <3> TAKE i \in 1..n
    <3>1. CASE i = 1
      <4>1. h = s[1] BY <1>20
      <4> QED BY <1>4, <2>2, <3>1, <4>1
    <3>2. CASE i # 1
      <4>1. i - 1 \in 1..(n - 1) /\ ~ (i <= 1) BY <3>2
      <4>2. t[i - 1] = s[i - 1 + 1] BY <1>3, <4>1
      <4> QED BY <2>2, <4>1, <4>2
    <3> QED BY <3>1, <3>2
  <2>4. s \in [1..n -> Positive] /\ u \in [1..n -> Positive] BY <2>1, LenProperties
  <2> DEFINE J == 1..n
  <2>7. s \in [J -> Positive] /\ u \in [J -> Positive] /\ \A j \in J : s[j] = u[j] BY <2>4, <2>10
  <2> HIDE DEF J
  <2>8. s = u BY <2>7
  <2> QED BY <2>3, <2>8
<1>8. o \in Seq(Nat) /\ t \in Seq(Nat) BY <1>2, <1>4, PositiveSeq
<1>16. Joined(s, o, t) BY <1>7 DEF Joined
<1>9. Total(s) = Total(o) + Total(t) BY <1>8, <1>16, JoinTotal
<1>17. o \in Seq(Nat) BY <1>8
<1>18. t \in Seq(Nat) BY <1>8
<1>10. \A v : Count(s, v) = Count(o, v) + Count(t, v) BY <1>16, <1>17, <1>18, JoinCounts
<1>11. \A v : Count(t, v) \in Nat BY <1>8, SeqTotal
<1>12. ASSUME NEW v PROVE Count(s, v) = Count(t, v) + IF h = v THEN 1 ELSE 0
  <2>1. Count(t, v) \in Nat BY <1>11
  <2>2. Count(s, v) = Count(o, v) + Count(t, v) BY <1>10
  <2>3. Count(o, v) = IF h = v THEN 1 ELSE 0 BY <1>6
  <2> QED BY <2>1, <2>2, <2>3
<1>13. Total(s) = h + Total(t) BY <1>5, <1>6, <1>9
<1> QED BY <1>2, <1>12, <1>13, <1>19, <1>20

-----------------------------------------------------------------------------
\* Swaps of equal sides of at most limit leaves, and what a plan takes and returns of v.
Swaps(limit) ==
  {p \in [inLeaves : Seq(Positive), outLeaves : Seq(Positive)] :
     Total(p.inLeaves) = Total(p.outLeaves) /\ Len(p.inLeaves) <= limit}
Side(plan, side, v) == [k \in DOMAIN plan |-> Count(plan[k][side], v)]

\* What a plan takes and returns are numbers.
LEMMA PlanNumbers ==
  ASSUME NEW limit, NEW plan \in Seq(Swaps(limit)), NEW side \in {"inLeaves", "outLeaves"}, NEW v
  PROVE  /\ Side(plan, side, v) \in Seq(Nat) /\ Len(Side(plan, side, v)) = Len(plan)
         /\ Total(Side(plan, side, v)) \in Nat
<1>1. Len(plan) \in Nat /\ DOMAIN plan = 1..Len(plan) BY LenProperties
<1>2. ASSUME NEW k \in DOMAIN plan PROVE Count(plan[k][side], v) \in Nat
  <2>1. plan[k] \in Swaps(limit) BY <1>1
  <2>2. plan[k][side] \in Seq(Positive) BY <2>1 DEF Swaps
  <2> QED BY <2>2, PositiveSeq, SeqTotal
<1>3. Side(plan, side, v) \in [1..Len(plan) -> Nat] BY <1>1, <1>2 DEF Side
<1>4. Side(plan, side, v) \in Seq(Nat) /\ Len(Side(plan, side, v)) = Len(plan) BY <1>1, <1>3
<1> QED BY <1>4, SeqTotal

\* Plans joined take and return what both do.
LEMMA PlansJoin ==
  ASSUME NEW limit, NEW p \in Seq(Swaps(limit)), NEW q \in Seq(Swaps(limit)),
         NEW side \in {"inLeaves", "outLeaves"}, NEW v
  PROVE  Total(Side(p \o q, side, v)) = Total(Side(p, side, v)) + Total(Side(q, side, v))
<1> DEFINE m == Len(p)
           n == Len(q)
           f == Side(p, side, v)
           g == Side(q, side, v)
           h == Side(p \o q, side, v)
           w == f \o g
<1>0. m \in Nat /\ n \in Nat BY LenProperties
<1>1. p \o q \in Seq(Swaps(limit)) /\ Len(p \o q) = m + n OBVIOUS
<1>2. f \in Seq(Nat) /\ g \in Seq(Nat) /\ h \in Seq(Nat) /\ Len(f) = m /\ Len(g) = n /\ Len(h) = m + n
  BY <1>1, PlanNumbers
<1>3. \A i \in 1..(m + n) : (p \o q)[i] = IF i <= m THEN p[i] ELSE q[i - m] BY <1>1
<1>4. DOMAIN p = 1..m /\ DOMAIN q = 1..n /\ DOMAIN (p \o q) = 1..(m + n) BY <1>1, LenProperties
<1>5. \A i \in 1..(m + n) : h[i] = IF i <= m THEN f[i] ELSE g[i - m]
  <2>1. \A i \in 1..(m + n) : h[i] = Count((p \o q)[i][side], v) BY <1>4 DEF Side
  <2>2. \A i \in 1..m : f[i] = Count(p[i][side], v) BY <1>4 DEF Side
  <2>3. \A i \in 1..n : g[i] = Count(q[i][side], v) BY <1>4 DEF Side
  <2> HIDE DEF f, g, h, m, n
  <2> TAKE i \in 1..(m + n)
  <2>4. CASE i <= m
    <3>1. i \in 1..m BY <2>4
    <3> QED BY <1>3, <2>1, <2>2, <2>4, <3>1
  <2>5. CASE ~ (i <= m)
    <3>1. i - m \in 1..n BY <1>0, <2>5
    <3> QED BY <1>3, <2>1, <2>3, <2>5, <3>1
  <2> QED BY <2>4, <2>5
<1> HIDE DEF f, g, h, m, n
<1>6. w \in Seq(Nat) /\ Len(w) = m + n BY <1>2, ConcatProperties
<1>7. \A i \in 1..(m + n) : w[i] = IF i <= m THEN f[i] ELSE g[i - m] BY <1>2, ConcatProperties
<1> HIDE DEF w
<1>8. w \in [1..(m + n) -> Nat] /\ h \in [1..(m + n) -> Nat] BY <1>2, <1>6, LenProperties
<1>9. \A i \in 1..(m + n) : w[i] = h[i] BY <1>5, <1>7
<1> DEFINE J == 1..(m + n)
<1>10. w \in [J -> Nat] /\ h \in [J -> Nat] /\ \A j \in J : w[j] = h[j] BY <1>8, <1>9
<1> HIDE DEF J
<1>11. w = h BY <1>10
<1>12. Total(h) = Total(f) + Total(g) BY <1>2, <1>11, JoinTotal DEF Joined, w
<1> QED BY <1>12 DEF f, g, h

\* A plan of one swap.
LEMMA PlanOfOne ==
  ASSUME NEW limit, NEW x \in Swaps(limit), NEW side \in {"inLeaves", "outLeaves"}, NEW v
  PROVE  <<x>> \in Seq(Swaps(limit)) /\ Total(Side(<<x>>, side, v)) = Count(x[side], v)
<1> DEFINE c == Count(x[side], v)
           e == <<>>
           f == Side(<<x>>, side, v)
           a == Append(e, c)
<1>1. x[side] \in Seq(Positive) BY DEF Swaps
<1>2. c \in Nat BY <1>1, PositiveSeq, SeqTotal
<1>3. <<x>> \in Seq(Swaps(limit)) OBVIOUS
<1>4. f = a
  <2>1. DOMAIN <<x>> = 1..1 /\ <<x>>[1] = x OBVIOUS
  <2>2. f = [k \in 1..1 |-> c] BY <2>1 DEF Side
  <2> HIDE DEF f
  <2>3. a = [k \in 1..1 |-> c] BY <1>2
  <2> QED BY <2>2, <2>3
<1>5. e \in Seq(Nat) /\ Total(e) = 0 BY NoneCounts
<1>7. Appended(a, e, c) BY DEF Appended
<1> HIDE DEF c, e, a
<1>6. Total(a) = 0 + c BY <1>2, <1>5, <1>7, AppendCounts
<1> QED BY <1>2, <1>3, <1>4, <1>6 DEF c

\* Spent and Gained are what a plan takes and returns.
LEMMA SpentIs ==
  \A plan, v : /\ Spent(plan, v) = Total(Side(plan, "inLeaves", v))
               /\ Gained(plan, v) = Total(Side(plan, "outLeaves", v))
BY DEF Spent, Gained, Side

-----------------------------------------------------------------------------
(***************************************************************************)
(* The plans for unilateral exits.                                         *)
(***************************************************************************)
\* A plan with one swap more.
PlanMore(q, plan, x, limit) ==
  /\ q \in Seq(Swaps(limit))
  /\ \A v : /\ Spent(q, v) = Spent(plan, v) + Count(x.inLeaves, v)
            /\ Gained(q, v) = Gained(plan, v) + Count(x.outLeaves, v)
\* A plan with a swap appended is that.
LEMMA SwapAppended ==
  ASSUME NEW limit, NEW plan \in Seq(Swaps(limit)), NEW x \in Swaps(limit)
  PROVE  PlanMore(Append(plan, x), plan, x, limit)
<1> DEFINE o == <<x>>
           q == Append(plan, x)
<1>1. q = plan \o o /\ q \in Seq(Swaps(limit)) OBVIOUS
<1>2. \A v : /\ o \in Seq(Swaps(limit))
             /\ Total(Side(o, "inLeaves", v)) = Count(x.inLeaves, v)
             /\ Total(Side(o, "outLeaves", v)) = Count(x.outLeaves, v)
  BY PlanOfOne
<1>3. o \in Seq(Swaps(limit)) OBVIOUS
<1> HIDE DEF o, q
<1>4. \A v : /\ Total(Side(q, "inLeaves", v)) = Total(Side(plan, "inLeaves", v)) + Total(Side(o, "inLeaves", v))
             /\ Total(Side(q, "outLeaves", v)) = Total(Side(plan, "outLeaves", v)) + Total(Side(o, "outLeaves", v))
  BY <1>1, <1>3, PlansJoin
<1>5. \A v : /\ Spent(q, v) = Spent(plan, v) + Count(x.inLeaves, v)
             /\ Gained(q, v) = Gained(plan, v) + Count(x.outLeaves, v)
  BY <1>2, <1>4, SpentIs
<1> QED BY <1>1, <1>5 DEF PlanMore, q

\* No plan.
LEMMA NoPlan ==
  ASSUME NEW limit
  PROVE  <<>> \in Seq(Swaps(limit)) /\ \A v : Spent(<<>>, v) = 0 /\ Gained(<<>>, v) = 0
<1> DEFINE e == <<>>
<1>1. e \in Seq(Swaps(limit)) /\ DOMAIN e = {} OBVIOUS
<1>2. \A v, side : Side(e, side, v) = e BY DEF Side
<1>3. Total(e) = 0 BY NoneCounts
<1> HIDE DEF e
<1>4. \A v : Spent(e, v) = 0 /\ Gained(e, v) = 0 BY <1>2, <1>3, SpentIs
<1> QED BY <1>1, <1>4 DEF e

-----------------------------------------------------------------------------
\* A batch that is not yet as long as the limit, and the swaps so far.
Unclosed(limit) == [batch : Seq(Positive), swaps : Seq(Swaps(limit))]
ExitStates(limit) == {s \in Unclosed(limit) : Len(s.batch) < limit}

\* A batch closed.
ClosedAs(c, s, limit) ==
  /\ c \in ExitStates(limit) /\ c.batch = <<>>
  /\ \A v : /\ Spent(c.swaps, v) <= Spent(s.swaps, v) + Count(s.batch, v)
            /\ Spent(c.swaps, v) \in Nat /\ Gained(c.swaps, v) \in Nat
            /\ Count(s.batch, v) - Spent(c.swaps, v) + Gained(c.swaps, v)
                 = Count(greedyLeaves[Total(s.batch)], v) - Spent(s.swaps, v) + Gained(s.swaps, v)

\* CloseExit closes it so, whether its swap would change anything or not.
LEMMA CloseExitIs ==
  ASSUME NEW limit \in Nat \ {0}, NEW s \in Unclosed(limit), Len(s.batch) <= limit
  PROVE  ClosedAs(CloseExit(s), s, limit)
<1> DEFINE b == s.batch
           p == s.swaps
           target == greedyLeaves[Total(b)]
           x == Swap(b, target)
           c == CloseExit(s)
           q == c.swaps
<1>1. b \in Seq(Positive) /\ p \in Seq(Swaps(limit)) BY DEF Unclosed
<1>2. b \in Seq(Nat) BY <1>1, PositiveSeq
<1>3. Total(b) \in Nat BY <1>2, SeqTotal
<1>4. target \in Seq(Positive) /\ target \in Seq(Nat) /\ Total(target) = Total(b) BY <1>3, GreedyIs
<1>5. x \in Swaps(limit) /\ x.inLeaves = b /\ x.outLeaves = target BY <1>1, <1>4 DEF Swaps, Swap
<1>6. c.batch = <<>> /\ q = IF target = b THEN p ELSE Append(p, x) BY DEF CloseExit
<1>7. c = [batch |-> <<>>, swaps |-> q] BY DEF CloseExit
<1> HIDE DEF x, c, q, target, b, p
<1>8. \A v : Count(b, v) \in Nat /\ Count(target, v) \in Nat BY <1>2, <1>4, SeqTotal
<1>9. \A v : Spent(p, v) \in Nat /\ Gained(p, v) \in Nat BY <1>1, PlanNumbers, SpentIs
<1> DEFINE Good == /\ q \in Seq(Swaps(limit))
                   /\ \A v : /\ Spent(q, v) <= Spent(p, v) + Count(b, v)
                             /\ Spent(q, v) \in Nat /\ Gained(q, v) \in Nat
                             /\ Count(b, v) - Spent(q, v) + Gained(q, v)
                                  = Count(target, v) - Spent(p, v) + Gained(p, v)
<1>10. ASSUME target = b PROVE Good
  <2>1. q = p BY <1>6, <1>10
  <2>4. ASSUME NEW v
        PROVE  /\ Spent(q, v) <= Spent(p, v) + Count(b, v)
               /\ Spent(q, v) \in Nat /\ Gained(q, v) \in Nat
               /\ Count(b, v) - Spent(q, v) + Gained(q, v) = Count(target, v) - Spent(p, v) + Gained(p, v)
    <3>1. Spent(q, v) = Spent(p, v) /\ Gained(q, v) = Gained(p, v) /\ Count(b, v) = Count(target, v)
      BY <1>10, <2>1
    <3>2. Count(b, v) \in Nat /\ Count(target, v) \in Nat /\ Spent(p, v) \in Nat /\ Gained(p, v) \in Nat
      BY <1>8, <1>9
    <3> QED BY <3>1, <3>2
  <2>5. q \in Seq(Swaps(limit)) BY <1>1, <2>1
  <2> QED BY <2>4, <2>5
<1>11. ASSUME target # b PROVE Good
  <2>1. q = Append(p, x) BY <1>6, <1>11
  <2>2. PlanMore(q, p, x, limit) BY <1>1, <1>5, <2>1, SwapAppended
  <2>3. q \in Seq(Swaps(limit)) BY <2>2 DEF PlanMore
  <2>4. ASSUME NEW v
        PROVE  /\ Spent(q, v) <= Spent(p, v) + Count(b, v)
               /\ Spent(q, v) \in Nat /\ Gained(q, v) \in Nat
               /\ Count(b, v) - Spent(q, v) + Gained(q, v) = Count(target, v) - Spent(p, v) + Gained(p, v)
    <3>1. Spent(q, v) = Spent(p, v) + Count(b, v) /\ Gained(q, v) = Gained(p, v) + Count(target, v)
      BY <1>5, <2>2 DEF PlanMore
    <3>2. Count(b, v) \in Nat /\ Count(target, v) \in Nat /\ Spent(p, v) \in Nat /\ Gained(p, v) \in Nat
      BY <1>8, <1>9
    <3> QED BY <3>1, <3>2
  <2> QED BY <2>3, <2>4
<1>12. Good BY <1>10, <1>11
<1> DEFINE e == <<>>
<1>13. e \in Seq(Positive) /\ Len(e) < limit OBVIOUS
<1>14. c.batch = e /\ c = [batch |-> e, swaps |-> q] BY <1>6, <1>7
<1> HIDE DEF e
<1>15. c \in ExitStates(limit) BY <1>12, <1>13, <1>14 DEF ExitStates, Unclosed
<1> HIDE DEF Good
<1>16. c.batch = <<>> BY <1>6
<1> QED BY <1>12, <1>15, <1>16 DEF ClosedAs, Good, c, q, target, b, p

\* One leaf more.
PushedAs(t, s, x, limit) ==
  /\ t \in ExitStates(limit)
  /\ \A v : /\ Spent(t.swaps, v) \in Nat
            /\ Spent(t.swaps, v) + Count(t.batch, v)
                 <= Spent(s.swaps, v) + Count(s.batch, v) + IF x = v THEN 1 ELSE 0

\* PushExit does that, and leaves a batch shorter than the limit.
LEMMA PushExitIs ==
  ASSUME NEW limit \in Nat \ {0}, NEW s \in ExitStates(limit), NEW x \in Positive
  PROVE  PushedAs(PushExit(s, x, limit), s, x, limit)
<1> DEFINE b == Append(s.batch, x)
           m == [batch |-> b, swaps |-> s.swaps]
           t == PushExit(s, x, limit)
<1>1. s.batch \in Seq(Positive) /\ s.swaps \in Seq(Swaps(limit)) /\ Len(s.batch) < limit
  BY DEF ExitStates, Unclosed
<1>2. b \in Seq(Positive) /\ Len(b) = Len(s.batch) + 1 /\ Len(s.batch) \in Nat BY <1>1
<1>3. s.batch \in Seq(Nat) /\ b \in Seq(Nat) /\ x \in Nat BY <1>1, <1>2, PositiveSeq DEF Positive
<1>14. Appended(b, s.batch, x) BY DEF Appended
<1>6. m.batch = b /\ m.swaps = s.swaps OBVIOUS
<1>15. t = IF Len(b) >= limit \/ Len(greedyLeaves[Total(b)]) >= limit THEN CloseExit(m) ELSE m
  BY DEF PushExit
<1>16. m \in Unclosed(limit) BY <1>1, <1>2 DEF Unclosed
<1> HIDE DEF b, m, t
<1>4. \A v : Count(b, v) = Count(s.batch, v) + IF x = v THEN 1 ELSE 0 BY <1>3, <1>14, AppendCounts
<1>5. Len(m.batch) <= limit BY <1>1, <1>2, <1>6
<1>7. \A v : Count(b, v) \in Nat /\ Count(s.batch, v) \in Nat BY <1>3, SeqTotal
<1>8. \A v : Spent(s.swaps, v) \in Nat BY <1>1, PlanNumbers, SpentIs
<1>9. CASE t = CloseExit(m)
  <2>1. ClosedAs(t, m, limit) BY <1>5, <1>9, <1>16, CloseExitIs
  <2>2. t \in ExitStates(limit) /\ t.batch = <<>> BY <2>1 DEF ClosedAs
  <2>3. ASSUME NEW v
        PROVE  /\ Spent(t.swaps, v) \in Nat
               /\ Spent(t.swaps, v) + Count(t.batch, v)
                    <= Spent(s.swaps, v) + Count(s.batch, v) + IF x = v THEN 1 ELSE 0
    <3>1. Spent(t.swaps, v) \in Nat /\ Spent(t.swaps, v) <= Spent(s.swaps, v) + Count(b, v)
      BY <1>6, <2>1 DEF ClosedAs
    <3>2. Count(t.batch, v) = 0 BY <2>2, NoneCounts
    <3>3. Count(b, v) = Count(s.batch, v) + IF x = v THEN 1 ELSE 0 BY <1>4
    <3>4. Count(b, v) \in Nat /\ Count(s.batch, v) \in Nat /\ Spent(s.swaps, v) \in Nat BY <1>7, <1>8
    <3> QED BY <3>1, <3>2, <3>3, <3>4
  <2> QED BY <2>2, <2>3 DEF PushedAs, t
<1>10. CASE t = m /\ ~ (Len(b) >= limit)
  <2>1. t \in ExitStates(limit) BY <1>2, <1>6, <1>10, <1>16 DEF ExitStates
  <2>3. ASSUME NEW v
        PROVE  /\ Spent(t.swaps, v) \in Nat
               /\ Spent(t.swaps, v) + Count(t.batch, v)
                    <= Spent(s.swaps, v) + Count(s.batch, v) + IF x = v THEN 1 ELSE 0
    <3>1. t.swaps = s.swaps /\ t.batch = b BY <1>6, <1>10
    <3>3. Count(b, v) = Count(s.batch, v) + IF x = v THEN 1 ELSE 0 BY <1>4
    <3>4. Count(b, v) \in Nat /\ Count(s.batch, v) \in Nat /\ Spent(s.swaps, v) \in Nat BY <1>7, <1>8
    <3> QED BY <3>1, <3>3, <3>4
  <2> QED BY <2>1, <2>3 DEF PushedAs, t
<1> QED BY <1>9, <1>10, <1>15

\* A leaf more without a cut.
LEMMA PushExitUncut ==
  ASSUME NEW limit, NEW s, NEW x, NEW b, Appended(b, s.batch, x),
         Len(b) < limit, Len(greedyLeaves[Total(b)]) < limit, Len(b) \in Nat, limit \in Nat,
         Len(greedyLeaves[Total(b)]) \in Nat
  PROVE  PushExit(s, x, limit).batch = b /\ PushExit(s, x, limit).swaps = s.swaps
<1>1. b = Append(s.batch, x) BY DEF Appended
<1>2. ~ (Len(b) >= limit) /\ ~ (Len(greedyLeaves[Total(b)]) >= limit) OBVIOUS
<1>3. PushExit(s, x, limit) = [batch |-> b, swaps |-> s.swaps] BY <1>1, <1>2 DEF PushExit
<1> QED BY <1>3

\* The batches as the recursive function FoldLeft evaluates.
ExitSteps(g, a, limit) ==
  g = [T \in SUBSET DOMAIN a |->
         IF T = {} THEN [batch |-> <<>>, swaps |-> <<>>]
         ELSE PushExit(g[T \ {Max(T)}], a[Max(T)], limit)]

\* maximizeUnilateralExit is that function's value, closed.
LEMMA ExitUnfolds ==
  ASSUME NEW leaves, NEW limit, NEW a, a = ascending(leaves)
  PROVE  maximizeUnilateralExit(leaves, limit)
           = CloseExit((CHOOSE g : ExitSteps(g, a, limit))[DOMAIN a]).swaps
BY DEF maximizeUnilateralExit, FoldLeft, MapThenFoldSet, ExitSteps

\* w[i] is the state after i leaves.
ExitsOf(w, a, limit, plan) ==
  /\ w \in [0..Len(a) -> ExitStates(limit)]
  /\ w[0] = [batch |-> <<>>, swaps |-> <<>>]
  /\ \A i \in 1..Len(a) : w[i] = PushExit(w[i - 1], a[i], limit)
  /\ plan = CloseExit(w[Len(a)]).swaps

\* There are such states, and the plan is what they end in.
LEMMA ExitsAre ==
  ASSUME NEW n \in Nat, NEW leaves, NEW z \in [1..n -> Positive], z = ascending(leaves),
         NEW limit \in Nat \ {0}
  PROVE  \E w : ExitsOf(w, z, limit, maximizeUnilateralExit(leaves, limit))
<1> DEFINE D == 1..n
           V == ExitStates(limit)
           b == [batch |-> <<>>, swaps |-> <<>>]
           H == [p \in D \X V |-> PushExit(p[2], z[p[1]], limit)]
<1>1. H \in [D \X V -> V]
  <2>1. ASSUME NEW s \in V, NEW x \in Positive PROVE PushExit(s, x, limit) \in V
    BY PushExitIs DEF PushedAs
  <2>2. \A p \in D \X V : p[2] \in V /\ z[p[1]] \in Positive OBVIOUS
  <2> HIDE DEF V, D
  <2> QED BY <2>1, <2>2
<1>2. b \in V
  <2> DEFINE e == <<>>
  <2>1. e \in Seq(Positive) /\ e \in Seq(Swaps(limit)) /\ Len(e) < limit OBVIOUS
  <2>2. b = [batch |-> e, swaps |-> e] OBVIOUS
  <2> HIDE DEF e, b
  <2> QED BY <2>1, <2>2 DEF ExitStates, Unclosed
<1>3. \A k \in D, v \in V : H[<<k, v>>] = PushExit(v, z[k], limit) OBVIOUS
<1>0. D = 1..n OBVIOUS
<1>19. b = [batch |-> <<>>, swaps |-> <<>>] OBVIOUS
<1> HIDE DEF D, V, H, b
<1>4. PICK f \in [SUBSET D -> V] : Folds(f, D, b, H)
  BY <1>0, <1>1, <1>2, FoldExists
<1>5. ASSUME NEW T \in SUBSET D
      PROVE  f[T] = IF T = {} THEN b ELSE PushExit(f[T \ {Max(T)}], z[Max(T)], limit)
  <2>1. CASE T = {} BY <1>4, <2>1 DEF Folds
  <2>2. CASE T # {}
    <3>1. Max(T) \in D BY <2>2, <1>0, MaxIn
    <3>2. f[T \ {Max(T)}] \in V BY <1>4
    <3> QED BY <1>3, <1>4, <2>2, <3>1, <3>2 DEF Folds
  <2> QED BY <2>1, <2>2
<1>6. DOMAIN z = D BY <1>0
<1>7. ExitSteps(f, z, limit) BY <1>4, <1>5, <1>6, <1>19 DEF ExitSteps
<1> DEFINE g == CHOOSE g : ExitSteps(g, z, limit)
<1>8. ExitSteps(g, z, limit) BY <1>7
<1>9. maximizeUnilateralExit(leaves, limit) = CloseExit(g[D]).swaps BY <1>6, ExitUnfolds
<1> HIDE DEF g
<1>10. g[{}] = b BY <1>8, <1>19 DEF ExitSteps
<1>11. ASSUME NEW T \in SUBSET D, T # {}, g[T \ {Max(T)}] \in V
       PROVE  g[T] = H[<<Max(T), g[T \ {Max(T)}]>>]
  <2>1. Max(T) \in D BY <1>11, <1>0, MaxIn
  <2>2. g[T] = PushExit(g[T \ {Max(T)}], z[Max(T)], limit) BY <1>6, <1>8, <1>11 DEF ExitSteps
  <2> QED BY <1>3, <1>11, <2>1, <2>2
<1>15. FoldsWithin(g, D, V, b, H) BY <1>10, <1>11 DEF FoldsWithin
<1>12. PICK w : FoldSteps(w, n, V, b, H, g[D])
  BY <1>0, <1>1, <1>2, <1>15, FoldPrefixes
<1>13. \A k \in D : w[k - 1] \in V BY <1>0, <1>12 DEF FoldSteps
<1>14. \A k \in D : w[k] = PushExit(w[k - 1], z[k], limit) BY <1>0, <1>3, <1>12, <1>13 DEF FoldSteps
<1>16. Len(z) = n OBVIOUS
<1> QED BY <1>0, <1>9, <1>12, <1>14, <1>16, <1>19 DEF V, FoldSteps, ExitsOf

\* What a plan does for leaves: swaps of equal sides within the limit, of leaves there are;
\* and when nothing is cut, what is left is the optimal leaves.
PlanServes(plan, leaves, optimal, limit) ==
  /\ plan \in Seq(Swaps(limit))
  /\ \A v : Spent(plan, v) <= Count(leaves, v)
PlanArrives(plan, leaves, optimal) ==
  \A v : Count(leaves, v) - Spent(plan, v) + Gained(plan, v) = Count(optimal, v)

\* The batches of an exit have no more than the leaves so far.
LEMMA ExitSpends ==
  ASSUME NEW n \in Nat, NEW a \in Seq(Positive), Len(a) = n, NEW limit \in Nat \ {0}, NEW w, NEW plan,
         ExitsOf(w, a, limit, plan)
  PROVE  \A i \in 0..n : \A v : Spent(w[i].swaps, v) + Count(w[i].batch, v) <= Count(SubSeq(a, 1, i), v)
<1> DEFINE Good(i) == \A v : Spent(w[i].swaps, v) + Count(w[i].batch, v) <= Count(SubSeq(a, 1, i), v)
           Bad == {i \in 0..n : ~ Good(i)}
<1> SUFFICES ASSUME Bad # {} PROVE FALSE OBVIOUS
<1>1. Bad \subseteq Nat OBVIOUS
<1> HIDE DEF Bad
<1>2. PICK i \in Bad : \A j \in Bad : i <= j BY <1>1, LeastNat
<1>3. i \in 0..n /\ ~ Good(i) BY DEF Bad
<1>4. CASE i = 0
  <2>1. w[0] = [batch |-> <<>>, swaps |-> <<>>] BY DEF ExitsOf
  <2>2. w[0].batch = <<>> /\ w[0].swaps = <<>> BY <2>1
  <2>3. SubSeq(a, 1, 0) = <<>> BY PrefixNext
  <2>4. \A v : Spent(w[0].swaps, v) = 0 BY <2>2, NoPlan
  <2>5. \A v : Count(w[0].batch, v) = 0 /\ Count(SubSeq(a, 1, 0), v) = 0 BY <2>2, <2>3, NoneCounts
  <2> QED BY <1>3, <1>4, <2>4, <2>5
<1>5. CASE i # 0
  <2>1. i \in 1..n /\ i - 1 \in 0..n /\ i - 1 \notin Bad BY <1>2, <1>3, <1>5
  <2>2. Good(i - 1) BY <2>1 DEF Bad
  <2>3. a[i] \in Positive BY <2>1, PrefixNext
  <2>4. w[i - 1] \in ExitStates(limit) /\ w[i] = PushExit(w[i - 1], a[i], limit) BY <2>1 DEF ExitsOf
  <2>5. PushedAs(w[i], w[i - 1], a[i], limit) BY <2>3, <2>4, PushExitIs
  <2> DEFINE p == SubSeq(a, 1, i - 1)
             q == SubSeq(a, 1, i)
             x == a[i]
  <2>6. p \in Seq(Positive) /\ Appended(q, p, x) BY <2>1, PrefixNext DEF Appended
  <2>7. p \in Seq(Nat) /\ x \in Nat BY <2>3, <2>6, PositiveSeq DEF Positive
  <2>8. \A v : Spent(w[i - 1].swaps, v) + Count(w[i - 1].batch, v) <= Count(p, v) BY <2>2
  <2>9. \A v : Spent(w[i].swaps, v) + Count(w[i].batch, v)
                 <= Spent(w[i - 1].swaps, v) + Count(w[i - 1].batch, v) + IF x = v THEN 1 ELSE 0
    BY <2>5 DEF PushedAs
  <2>14. w[i] \in ExitStates(limit) BY <2>5 DEF PushedAs
  <2>15. \A j \in {i, i - 1} : w[j].batch \in Seq(Nat) /\ w[j].swaps \in Seq(Swaps(limit))
    BY <2>4, <2>14, PositiveSeq DEF ExitStates, Unclosed
  <2>16. \A j \in {i, i - 1} : \A v : Count(w[j].batch, v) \in Nat /\ Spent(w[j].swaps, v) \in Nat
    BY <2>15, SeqTotal, PlanNumbers, SpentIs
  <2> HIDE DEF p, q, x
  <2>10. \A v : Count(q, v) = Count(p, v) + IF x = v THEN 1 ELSE 0 BY <2>6, <2>7, AppendCounts
  <2>11. \A v : Count(p, v) \in Nat BY <2>7, SeqTotal
  <2>12. ASSUME NEW v PROVE Spent(w[i].swaps, v) + Count(w[i].batch, v) <= Count(q, v)
    <3>1. /\ Count(w[i].batch, v) \in Nat /\ Spent(w[i].swaps, v) \in Nat
          /\ Count(w[i - 1].batch, v) \in Nat /\ Spent(w[i - 1].swaps, v) \in Nat /\ Count(p, v) \in Nat
      BY <2>11, <2>16
    <3>2. /\ Spent(w[i - 1].swaps, v) + Count(w[i - 1].batch, v) <= Count(p, v)
          /\ Count(q, v) = Count(p, v) + IF x = v THEN 1 ELSE 0
          /\ Spent(w[i].swaps, v) + Count(w[i].batch, v)
                 <= Spent(w[i - 1].swaps, v) + Count(w[i - 1].batch, v) + IF x = v THEN 1 ELSE 0
      BY <2>8, <2>9, <2>10
    <3> QED BY <3>1, <3>2
  <2> QED BY <1>3, <2>12 DEF q
<1> QED BY <1>4, <1>5

\* When nothing is cut, the batch is what was taken so far.
LEMMA ExitUncut ==
  ASSUME NEW n \in Nat, NEW a \in Seq(Positive), Len(a) = n, NEW limit \in Nat \ {0}, NEW w, NEW plan,
         ExitsOf(w, a, limit, plan),
         \A i \in 1..n : i < limit /\ Len(greedyLeaves[Total(SubSeq(a, 1, i))]) < limit
  PROVE  \A i \in 0..n : w[i].batch = SubSeq(a, 1, i) /\ w[i].swaps = <<>>
<1> DEFINE Bad == {i \in 0..n : ~ (w[i].batch = SubSeq(a, 1, i) /\ w[i].swaps = <<>>)}
<1> SUFFICES ASSUME Bad # {} PROVE FALSE OBVIOUS
<1>1. Bad \subseteq Nat OBVIOUS
<1> HIDE DEF Bad
<1>2. PICK i \in Bad : \A j \in Bad : i <= j BY <1>1, LeastNat
<1>3. i \in 0..n /\ ~ (w[i].batch = SubSeq(a, 1, i) /\ w[i].swaps = <<>>) BY DEF Bad
<1>4. CASE i = 0
  <2>1. w[0] = [batch |-> <<>>, swaps |-> <<>>] BY DEF ExitsOf
  <2>2. w[0].batch = <<>> /\ w[0].swaps = <<>> BY <2>1
  <2>3. SubSeq(a, 1, 0) = <<>> BY PrefixNext
  <2> QED BY <1>3, <1>4, <2>2, <2>3
<1>5. CASE i # 0
  <2>1. i \in 1..n /\ i - 1 \in 0..n /\ i - 1 \notin Bad BY <1>2, <1>3, <1>5
  <2>2. w[i - 1].batch = SubSeq(a, 1, i - 1) /\ w[i - 1].swaps = <<>> BY <2>1 DEF Bad
  <2>4. w[i] = PushExit(w[i - 1], a[i], limit) BY <2>1 DEF ExitsOf
  <2> DEFINE q == SubSeq(a, 1, i)
  <2>5. /\ a[i] \in Positive /\ SubSeq(a, 1, i - 1) \in Seq(Positive) /\ Len(SubSeq(a, 1, i - 1)) = i - 1
        /\ q = Append(SubSeq(a, 1, i - 1), a[i])
    BY <2>1, PrefixNext
  <2>6. Appended(q, w[i - 1].batch, a[i]) BY <2>2, <2>5 DEF Appended
  <2>7. q \in Seq(Positive) /\ Len(q) = i
    <3> HIDE DEF q
    <3>3. PICK p : p = SubSeq(a, 1, i - 1) OBVIOUS
    <3>1. p \in Seq(Positive) /\ Len(p) = i - 1 /\ q = Append(p, a[i]) BY <2>5, <3>3
    <3> QED BY <2>1, <2>5, <3>1
  <2>8. i < limit /\ Len(greedyLeaves[Total(q)]) < limit BY <2>1
  <2> HIDE DEF q
  <2>9. q \in Seq(Nat) BY <2>7, PositiveSeq
  <2>10. Total(q) \in Nat BY <2>9, SeqTotal
  <2>11. greedyLeaves[Total(q)] \in Seq(Positive) BY <2>10, GreedyIs
  <2>12. Len(greedyLeaves[Total(q)]) \in Nat /\ Len(q) \in Nat /\ limit \in Nat /\ Len(q) < limit
    BY <2>7, <2>8, <2>11, LenProperties
  <2> DEFINE s == w[i - 1]
             x == a[i]
  <2>14. Appended(q, s.batch, x) BY <2>6
  <2>15. w[i] = PushExit(s, x, limit) /\ s.swaps = w[i - 1].swaps BY <2>4
  <2> HIDE DEF s, x
  <2>16. PushExit(s, x, limit).batch = q /\ PushExit(s, x, limit).swaps = s.swaps
    BY <2>8, <2>12, <2>14, PushExitUncut
  <2>13. w[i].batch = q /\ w[i].swaps = w[i - 1].swaps BY <2>15, <2>16
  <2> QED BY <1>3, <2>2, <2>13 DEF q
<1> QED BY <1>4, <1>5

\* The plans for unilateral exits.
ExitCuts(a, n, limit) ==
  \E i \in 1..n : ~ (i < limit /\ Len(greedyLeaves[Total(SubSeq(a, 1, i))]) < limit)
\* They serve, and arrive unless a batch is cut.
LEMMA ExitPlanIs ==
  ASSUME NEW leaves \in Seq(Positive), NEW limit \in Nat \ {0}
  PROVE  /\ PlanServes(maximizeUnilateralExit(leaves, limit), leaves, greedyLeaves[Total(leaves)], limit)
         /\ \/ ExitCuts(ascending(leaves), Len(leaves), limit)
            \/ PlanArrives(maximizeUnilateralExit(leaves, limit), leaves, greedyLeaves[Total(leaves)])
<1> DEFINE a == ascending(leaves)
           n == Len(leaves)
           plan == maximizeUnilateralExit(leaves, limit)
<1>1. a \in Seq(Positive) /\ Len(a) = n /\ Total(a) = Total(leaves) /\ \A v : Count(a, v) = Count(leaves, v)
  BY SortedPositive
<1>2. n \in Nat BY LenProperties
<1>3. a \in [1..n -> Positive] BY <1>1, LenProperties
<1>4. PICK w : ExitsOf(w, a, limit, plan) BY <1>2, <1>3, ExitsAre
<1> HIDE DEF a, n, plan
<1> DEFINE s == w[n]
<1>5. s \in ExitStates(limit) /\ plan = CloseExit(s).swaps
  <2>1. n \in 0..n BY <1>2
  <2> QED BY <1>1, <1>4, <2>1 DEF ExitsOf
<1>6. \A v : Spent(s.swaps, v) + Count(s.batch, v) <= Count(SubSeq(a, 1, n), v)
  <2>1. n \in 0..n BY <1>2
  <2> QED BY <1>1, <1>2, <1>4, <2>1, ExitSpends
<1>7. SubSeq(a, 1, n) = a BY <1>1, PrefixNext
<1>8. s \in Unclosed(limit) /\ Len(s.batch) <= limit
  <2>1. s \in Unclosed(limit) /\ Len(s.batch) < limit BY <1>5 DEF ExitStates
  <2>2. s.batch \in Seq(Positive) BY <2>1 DEF Unclosed
  <2>3. Len(s.batch) \in Nat BY <2>2, LenProperties
  <2> QED BY <2>1, <2>3
<1> DEFINE c == CloseExit(s)
<1>9. ClosedAs(c, s, limit) BY <1>8, CloseExitIs
<1>10. c.swaps = plan BY <1>5
<1>11. s.batch \in Seq(Nat) /\ s.swaps \in Seq(Swaps(limit)) BY <1>8, PositiveSeq DEF Unclosed
<1>12. \A v : Count(s.batch, v) \in Nat /\ Spent(s.swaps, v) \in Nat BY <1>11, SeqTotal, PlanNumbers, SpentIs
<1> HIDE DEF c, s
<1>13. plan \in Seq(Swaps(limit)) BY <1>9, <1>10 DEF ClosedAs, ExitStates, Unclosed
<1>19. leaves \in Seq(Nat) BY PositiveSeq
<1>14. \A v : Count(leaves, v) \in Nat BY <1>19, SeqTotal
<1>15. ASSUME NEW v PROVE Spent(plan, v) <= Count(leaves, v)
  <2>1. Spent(plan, v) <= Spent(s.swaps, v) + Count(s.batch, v) /\ Spent(plan, v) \in Nat
    BY <1>9, <1>10 DEF ClosedAs
  <2>2. Spent(s.swaps, v) + Count(s.batch, v) <= Count(leaves, v) BY <1>1, <1>6, <1>7
  <2>3. Count(s.batch, v) \in Nat /\ Spent(s.swaps, v) \in Nat /\ Count(leaves, v) \in Nat BY <1>12, <1>14
  <2> QED BY <2>1, <2>2, <2>3
<1>16. ASSUME ~ ExitCuts(a, n, limit)
       PROVE  PlanArrives(plan, leaves, greedyLeaves[Total(leaves)])
  <2>1. \A i \in 1..n : i < limit /\ Len(greedyLeaves[Total(SubSeq(a, 1, i))]) < limit
    BY <1>16 DEF ExitCuts
  <2>2. \A i \in 0..n : w[i].batch = SubSeq(a, 1, i) /\ w[i].swaps = <<>>
    BY <1>1, <1>2, <1>4, <2>1, ExitUncut
  <2>3. n \in 0..n BY <1>2
  <2>4. s.batch = a /\ s.swaps = <<>> BY <1>7, <2>2, <2>3 DEF s
  <2>5. \A v : Spent(s.swaps, v) = 0 /\ Gained(s.swaps, v) = 0 BY <2>4, NoPlan
  <2> DEFINE optimal == greedyLeaves[Total(leaves)]
  <2>6. optimal = greedyLeaves[Total(s.batch)] BY <1>1, <2>4
  <2>7. Total(leaves) \in Nat BY <1>19, SeqTotal
  <2>8. optimal \in Seq(Nat) BY <2>7, GreedyIs
  <2> HIDE DEF optimal
  <2>9. \A v : Count(optimal, v) \in Nat BY <2>8, SeqTotal
  <2>10. ASSUME NEW v PROVE Count(leaves, v) - Spent(plan, v) + Gained(plan, v) = Count(optimal, v)
    <3>1. Count(s.batch, v) - Spent(plan, v) + Gained(plan, v)
            = Count(optimal, v) - Spent(s.swaps, v) + Gained(s.swaps, v)
      BY <1>9, <1>10, <2>6 DEF ClosedAs
    <3>2. Spent(s.swaps, v) = 0 /\ Gained(s.swaps, v) = 0 /\ Count(optimal, v) \in Nat BY <2>5, <2>9
    <3>3. Count(s.batch, v) = Count(leaves, v) BY <1>1, <2>4
    <3> QED BY <3>1, <3>2, <3>3
  <2> QED BY <2>10 DEF PlanArrives, optimal
<1> QED BY <1>13, <1>15, <1>16 DEF PlanServes, a, n, plan

-----------------------------------------------------------------------------
(***************************************************************************)
(* Leaves left over, and leaves missing.                                   *)
(***************************************************************************)
\* What an amount contributes to a total.
Worth(s, W) == [v \in W |-> Count(s, v) * v]

\* The places of some amounts.
Having(s, W) == {i \in DOMAIN s : s[i] \in W}
\* A total is the sum over the amounts of what each contributes.
LEMMA TotalByAmounts ==
  ASSUME NEW s \in Seq(Nat), NEW W, IsFiniteSet(W), W \subseteq Nat
  PROVE  SumOver(s, Having(s, W)) = SumOver(Worth(s, W), W)
<1> DEFINE D == DOMAIN s
           f == Worth(s, W)
           Bad == {X \in SUBSET W : SumOver(s, Having(s, X)) # SumOver(f, X)}
<1> SUFFICES ASSUME Bad # {} PROVE FALSE OBVIOUS
<1>1. Bad \subseteq SUBSET W OBVIOUS
<1> HIDE DEF Bad, f, D
<1>9. IsFiniteSet(W) OBVIOUS
<1>10. Bad # {} OBVIOUS
<1>2. PICK X \in Bad : \A Y \in Bad : ~ (Y \subseteq X /\ Y # X) BY ONLY <1>1, <1>9, <1>10, FiniteMin
<1>3. X \in SUBSET W /\ SumOver(s, Having(s, X)) # SumOver(f, X) BY DEF Bad, f
<1>4. IsFiniteSet(X) /\ IsFiniteSet(D)
  <2>1. IsFiniteSet(X) BY <1>3, FS_Subset
  <2>2. IsFiniteSet(D) BY LenProperties, FS_Interval DEF D
  <2> QED BY <2>1, <2>2
<1>5. \A v \in W : f[v] = Count(s, v) * v /\ Count(s, v) \in Nat /\ f[v] \in Int
  <2>1. \A v : Count(s, v) \in Nat BY SeqTotal
  <2>2. \A v \in W : f[v] = Count(s, v) * v BY DEF Worth, f
  <2>3. ASSUME NEW v \in W PROVE Count(s, v) * v \in Int
    <3> DEFINE c == Count(s, v)
    <3>1. c \in Nat /\ v \in Nat BY <2>1
    <3> HIDE DEF c
    <3>2. c * v \in Nat BY <3>1, Times
    <3> QED BY <3>2 DEF c
  <2> QED BY <2>1, <2>2, <2>3
<1>6. \A i \in D : s[i] \in Nat BY LenProperties DEF D
<1>7. CASE X = {}
  <2>1. Having(s, X) = {} BY <1>7 DEF Having
  <2> QED BY <1>3, <1>7, <2>1, SumEmpty
<1>8. CASE X # {}
  <2>1. PICK v \in X : TRUE BY <1>8
  <2> DEFINE Y == X \ {v}
             A == Having(s, Y)
             B == Matching(s, v, D)
             E == Having(s, X)
  <2>2. Y \in SUBSET W /\ Y \subseteq X /\ Y # X /\ v \notin Y /\ X = Y \cup {v} /\ v \in W /\ v \in Nat
    BY <1>3, <2>1
  <2>3. SumOver(s, A) = SumOver(f, Y) BY <1>2, <2>2 DEF Bad, f
  <2>4. A \in SUBSET E /\ E \ A = B /\ E \subseteq D BY <2>2 DEF Having, Matching, D
  <2>5. \A i \in B : s[i] = v BY DEF Matching
  <2>6. Cardinality(B) = Count(s, v) BY DEF Matching, Count, D
  <2> HIDE DEF A, B, E
  <2>7. IsFiniteSet(E) BY <1>4, <2>4, FS_Subset
  <2>8. IsFiniteSet(B) BY <2>4, <2>7, FS_Subset
  <2>9. \A i \in E : s[i] \in Nat BY <1>6, <2>4
  <2>10. SumOver(s, E) = SumOver(s, A) + SumOver(s, E \ A) /\ SumOver(s, A) \in Nat /\ SumOver(s, E \ A) \in Nat
    BY <2>4, <2>7, <2>9, SumMonotone
  <2>11. SumOver(s, B) = Cardinality(B) * v BY <2>2, <2>5, <2>8, SumConstant
  <2>17. SumOver(s, B) = f[v] BY <1>5, <2>2, <2>6, <2>11
  <2> HIDE DEF Y
  <2>12. SumOver(s, E) = SumOver(f, Y) + f[v] /\ SumOver(f, Y) \in Nat /\ f[v] \in Nat
    BY <2>3, <2>4, <2>10, <2>17
  <2>13. IsFiniteSet(Y) BY <1>4, <2>2, FS_Subset
  <2>14. \A y \in Y \cup {v} : f[y] \in Int BY <1>3, <1>5, <2>2
  <2>15. SumOver(f, Y \cup {v}) = f[v] + SumOver(f, Y) BY <2>2, <2>13, <2>14, SumAdd
  <2>16. SumOver(s, E) = SumOver(f, X) BY <2>2, <2>12, <2>15
  <2> QED BY <1>3, <2>16 DEF E
<1> QED BY <1>7, <1>8

\* Lists with as many of each amount are worth the same.
LEMMA SameAmounts ==
  ASSUME NEW s \in Seq(Nat), NEW t \in Seq(Nat), \A v : Count(s, v) = Count(t, v)
  PROVE  Total(s) = Total(t)
<1> DEFINE W == ToSet(s) \cup ToSet(t)
<1>1. ASSUME NEW u \in Seq(Nat)
      PROVE  /\ IsFiniteSet(ToSet(u)) /\ ToSet(u) \subseteq Nat
             /\ \A X : ToSet(u) \subseteq X => Having(u, X) = DOMAIN u
  <2>1. DOMAIN u = 1..Len(u) /\ Len(u) \in Nat /\ \A i \in DOMAIN u : u[i] \in Nat BY LenProperties
  <2>2. IsFiniteSet(DOMAIN u) BY <2>1, FS_Interval
  <2>3. ToSet(u) = {u[i] : i \in DOMAIN u} BY DEF ToSet
  <2>4. IsFiniteSet(ToSet(u))
    <3> DEFINE D == DOMAIN u
               f == [i \in D |-> u[i]]
               R == {u[i] : i \in D}
    <3>1. f \in Surjection(D, R) BY DEF Surjection
    <3>2. IsFiniteSet(D) BY <2>2
    <3> HIDE DEF D, f, R
    <3>3. IsFiniteSet(R) BY <3>1, <3>2, FS_Surjection
    <3> QED BY <2>3, <3>3 DEF R, D
  <2>5. ToSet(u) \subseteq Nat BY <2>1, <2>3
  <2>6. \A X : ToSet(u) \subseteq X => Having(u, X) = DOMAIN u BY <2>3 DEF Having
  <2> QED BY <2>4, <2>5, <2>6
<1>2. IsFiniteSet(W) /\ W \subseteq Nat /\ Having(s, W) = DOMAIN s /\ Having(t, W) = DOMAIN t
  <2>1. IsFiniteSet(ToSet(s)) /\ IsFiniteSet(ToSet(t)) BY <1>1
  <2>2. IsFiniteSet(W) BY <2>1, FS_Union
  <2> QED BY <1>1, <2>2
<1> HIDE DEF W
<1>3. Worth(s, W) = Worth(t, W) BY DEF Worth
<1>4. SumOver(s, Having(s, W)) = SumOver(Worth(s, W), W) BY <1>2, TotalByAmounts
<1>5. SumOver(t, Having(t, W)) = SumOver(Worth(t, W), W) BY <1>2, TotalByAmounts
<1> QED BY <1>2, <1>3, <1>4, <1>5, TotalIs

\* One step of Surplus, and Surplus as the recursive function FoldLeft evaluates.
SurplusMore(flat, v, a, b) ==
  IF Count(flat, v) < Count(a, v) - Count(b, v) THEN Append(flat, v) ELSE flat
SurplusSteps(g, a, b, z) ==
  g = [T \in SUBSET DOMAIN z |->
         IF T = {} THEN <<>> ELSE SurplusMore(g[T \ {Max(T)}], z[Max(T)], a, b)]

\* Surplus is that function's value.
LEMMA SurplusUnfolds ==
  ASSUME NEW a, NEW b, NEW z, z = ascending(a)
  PROVE  Surplus(a, b) = (CHOOSE g : SurplusSteps(g, a, b, z))[DOMAIN z]
BY DEF Surplus, FoldLeft, MapThenFoldSet, SurplusSteps, SurplusMore

\* w[i] is the list after i amounts.
SurplusOf(w, a, b, z, list) ==
  /\ w \in [0..Len(z) -> Seq(Positive)]
  /\ w[0] = <<>>
  /\ \A i \in 1..Len(z) : w[i] = SurplusMore(w[i - 1], z[i], a, b)
  /\ list = w[Len(z)]

\* There are such lists, and Surplus is the last.
LEMMA SurplusesAre ==
  ASSUME NEW n \in Nat, NEW a, NEW z \in [1..n -> Positive], z = ascending(a), NEW c
  PROVE  \E w : SurplusOf(w, a, c, z, Surplus(a, c))
<1> DEFINE D == 1..n
           V == Seq(Positive)
           b == <<>>
           H == [p \in D \X V |-> SurplusMore(p[2], z[p[1]], a, c)]
<1>1. H \in [D \X V -> V]
  <2>1. ASSUME NEW s \in V, NEW x \in Positive PROVE SurplusMore(s, x, a, c) \in V
    <3>1. Append(s, x) \in Seq(Positive) OBVIOUS
    <3> QED BY <3>1 DEF SurplusMore
  <2>2. \A p \in D \X V : p[2] \in V /\ z[p[1]] \in Positive OBVIOUS
  <2> HIDE DEF V, D
  <2> QED BY <2>1, <2>2
<1>2. b \in V OBVIOUS
<1>3. \A k \in D, v \in V : H[<<k, v>>] = SurplusMore(v, z[k], a, c) OBVIOUS
<1>0. D = 1..n OBVIOUS
<1>19. b = <<>> OBVIOUS
<1>6. DOMAIN z = D BY <1>0
<1>16. Len(z) = n OBVIOUS
<1> HIDE DEF D, V, H, b
<1>4. PICK f \in [SUBSET D -> V] : Folds(f, D, b, H)
  BY <1>0, <1>1, <1>2, FoldExists
<1>5. ASSUME NEW T \in SUBSET D
      PROVE  f[T] = IF T = {} THEN b ELSE SurplusMore(f[T \ {Max(T)}], z[Max(T)], a, c)
  <2>1. CASE T = {} BY <1>4, <2>1 DEF Folds
  <2>2. CASE T # {}
    <3>1. Max(T) \in D BY <2>2, <1>0, MaxIn
    <3>2. f[T \ {Max(T)}] \in V BY <1>4
    <3> QED BY <1>3, <1>4, <2>2, <3>1, <3>2 DEF Folds
  <2> QED BY <2>1, <2>2
<1>7. SurplusSteps(f, a, c, z) BY <1>4, <1>5, <1>6, <1>19 DEF SurplusSteps
<1> DEFINE g == CHOOSE g : SurplusSteps(g, a, c, z)
<1>8. SurplusSteps(g, a, c, z) BY <1>7
<1>9. Surplus(a, c) = g[D] BY <1>6, SurplusUnfolds
<1> HIDE DEF g
<1>10. g[{}] = b BY <1>8, <1>19 DEF SurplusSteps
<1>11. ASSUME NEW T \in SUBSET D, T # {}, g[T \ {Max(T)}] \in V
       PROVE  g[T] = H[<<Max(T), g[T \ {Max(T)}]>>]
  <2>1. Max(T) \in D BY <1>11, <1>0, MaxIn
  <2>2. g[T] = SurplusMore(g[T \ {Max(T)}], z[Max(T)], a, c) BY <1>6, <1>8, <1>11 DEF SurplusSteps
  <2> QED BY <1>3, <1>11, <2>1, <2>2
<1>15. FoldsWithin(g, D, V, b, H) BY <1>10, <1>11 DEF FoldsWithin
<1>12. PICK w : FoldSteps(w, n, V, b, H, g[D])
  BY <1>0, <1>1, <1>2, <1>15, FoldPrefixes
<1>13. \A k \in D : w[k - 1] \in V BY <1>0, <1>12 DEF FoldSteps
<1>14. \A k \in D : w[k] = SurplusMore(w[k - 1], z[k], a, c) BY <1>0, <1>3, <1>12, <1>13 DEF FoldSteps
<1> QED BY <1>0, <1>9, <1>12, <1>14, <1>16, <1>19 DEF V, FoldSteps, SurplusOf

\* As many of v as there are in p, but no more than m.
UpTo(q, p, v, m) ==
  /\ Count(q, v) <= Count(p, v) /\ Count(q, v) <= m
  /\ Count(q, v) = Count(p, v) \/ Count(q, v) = m
\* How many more of v there are in a than in b.
Excess(a, b, v) == IF Count(a, v) >= Count(b, v) THEN Count(a, v) - Count(b, v) ELSE 0

\* After i amounts the list has as many of each as there were, up to the excess.
LEMMA SurplusCounts ==
  ASSUME NEW n \in Nat, NEW a \in Seq(Nat), NEW b \in Seq(Nat), NEW z \in Seq(Positive), Len(z) = n,
         NEW w, NEW list, SurplusOf(w, a, b, z, list)
  PROVE  \A i \in 0..n : \A v : UpTo(w[i], SubSeq(z, 1, i), v, Excess(a, b, v))
<1> DEFINE Good(i) == \A v : UpTo(w[i], SubSeq(z, 1, i), v, Excess(a, b, v))
           Bad == {i \in 0..n : ~ Good(i)}
<1> SUFFICES ASSUME Bad # {} PROVE FALSE OBVIOUS
<1>1. Bad \subseteq Nat OBVIOUS
<1> HIDE DEF Bad
<1>2. PICK i \in Bad : \A j \in Bad : i <= j BY <1>1, LeastNat
<1>3. i \in 0..n /\ ~ Good(i) BY DEF Bad
<1>6. \A v : Count(a, v) \in Nat /\ Count(b, v) \in Nat BY SeqTotal
<1>7. \A v : Excess(a, b, v) \in Nat BY <1>6 DEF Excess
<1>4. CASE i = 0
  <2>1. w[0] = <<>> BY DEF SurplusOf
  <2>3. SubSeq(z, 1, 0) = <<>> BY PrefixNext
  <2>4. \A v : Count(w[0], v) = 0 /\ Count(SubSeq(z, 1, 0), v) = 0 BY <2>1, <2>3, NoneCounts
  <2>5. Good(0) BY <1>7, <2>4 DEF UpTo
  <2> QED BY <1>3, <1>4, <2>5
<1>5. CASE i # 0
  <2>1. i \in 1..n /\ i - 1 \in 0..n /\ i - 1 \notin Bad BY <1>2, <1>3, <1>5
  <2>2. Good(i - 1) BY <2>1 DEF Bad
  <2> DEFINE p == SubSeq(z, 1, i - 1)
             q == SubSeq(z, 1, i)
             x == z[i]
             s == w[i - 1]
             t == w[i]
             grown == Append(s, x)
  <2>3. x \in Positive /\ p \in Seq(Positive) /\ Appended(q, p, x) BY <2>1, PrefixNext DEF Appended
  <2>4. s \in Seq(Positive) /\ t = SurplusMore(s, x, a, b) BY <2>1 DEF SurplusOf
  <2>5. \A v : UpTo(s, p, v, Excess(a, b, v)) BY <2>2
  <2>6. Appended(grown, s, x) BY DEF Appended
  <2>7. t = IF Count(s, x) < Count(a, x) - Count(b, x) THEN grown ELSE s BY <2>4 DEF SurplusMore
  <2> HIDE DEF p, q, x, s, t, grown
  <2>8. p \in Seq(Nat) /\ s \in Seq(Nat) /\ x \in Nat BY <2>3, <2>4, PositiveSeq DEF Positive
  <2>9. \A v : Count(q, v) = Count(p, v) + IF x = v THEN 1 ELSE 0 BY <2>3, <2>8, AppendCounts
  <2>10. \A v : Count(grown, v) = Count(s, v) + IF x = v THEN 1 ELSE 0 BY <2>6, <2>8, AppendCounts
  <2>11. \A v : Count(p, v) \in Nat /\ Count(s, v) \in Nat BY <2>8, SeqTotal
  <2>12. ASSUME NEW v PROVE UpTo(t, q, v, Excess(a, b, v))
    <3> DEFINE cp == Count(p, v)
               cs == Count(s, v)
               m == Excess(a, b, v)
               d == Count(a, v) - Count(b, v)
    <3>1. cp \in Nat /\ cs \in Nat /\ m \in Nat BY <1>7, <2>11
    <3>2. cs <= cp /\ cs <= m /\ (cs = cp \/ cs = m) BY <2>5 DEF UpTo
    <3>3. Count(q, v) = cp + IF x = v THEN 1 ELSE 0 BY <2>9
    <3>4. Count(grown, v) = cs + IF x = v THEN 1 ELSE 0 BY <2>10
    <3>5. d \in Int /\ cs \in Nat /\ (cs < d <=> cs < m)
      <4>1. Count(a, v) \in Nat /\ Count(b, v) \in Nat /\ cs \in Nat BY <1>6, <2>11
      <4> QED BY <4>1 DEF Excess
    <3>6. CASE x # v
      <4>1. Count(t, v) = cs BY <2>7, <3>1, <3>4, <3>6
      <4>2. Count(q, v) = cp BY <3>1, <3>3, <3>6
      <4> HIDE DEF cs, cp, m, d
      <4> QED BY <3>1, <3>2, <4>1, <4>2 DEF UpTo, m
    <3>7. CASE x = v /\ cs < d
      <4>1. t = grown BY <2>7, <3>7
      <4>2. Count(t, v) = cs + 1 BY <3>4, <3>7, <4>1
      <4>3. Count(q, v) = cp + 1 BY <3>3, <3>7
      <4>4. cs < m BY <3>5, <3>7
      <4> HIDE DEF cs, cp, m, d
      <4>5. Count(t, v) <= Count(q, v) /\ Count(t, v) <= m /\ (Count(t, v) = Count(q, v) \/ Count(t, v) = m)
        BY <3>1, <3>2, <4>2, <4>3, <4>4
      <4> QED BY <4>5 DEF UpTo, m
    <3>8. CASE x = v /\ ~ (cs < d)
      <4>1. t = s BY <2>7, <3>8
      <4>2. Count(t, v) = cs BY <4>1
      <4>3. Count(q, v) = cp + 1 BY <3>3, <3>8
      <4>4. ~ (cs < m) BY <3>5, <3>8
      <4> HIDE DEF cs, cp, m, d
      <4>5. Count(t, v) <= Count(q, v) /\ Count(t, v) <= m /\ (Count(t, v) = Count(q, v) \/ Count(t, v) = m)
        BY <3>1, <3>2, <4>2, <4>3, <4>4
      <4> QED BY <4>5 DEF UpTo, m
    <3> QED BY <3>6, <3>7, <3>8
  <2>13. Good(i) BY <2>12 DEF q, t
  <2> QED BY <1>3, <2>13
<1> QED BY <1>4, <1>5

\* What Surplus computes.
LEMMA SurplusIs ==
  ASSUME NEW a \in Seq(Positive), NEW b \in Seq(Positive)
  PROVE  Surplus(a, b) \in Seq(Positive) /\ \A v : Count(Surplus(a, b), v) = Excess(a, b, v)
<1> DEFINE n == Len(a)
           z == ascending(a)
           s == Surplus(a, b)
<1>1. z \in Seq(Positive) /\ Len(z) = n /\ \A v : Count(z, v) = Count(a, v) BY SortedPositive
<1>2. n \in Nat BY LenProperties
<1>3. z \in [1..n -> Positive] BY <1>1, LenProperties
<1>4. PICK w : SurplusOf(w, a, b, z, s) BY <1>2, <1>3, SurplusesAre
<1>5. a \in Seq(Nat) /\ b \in Seq(Nat) BY PositiveSeq
<1> HIDE DEF z, s, n
<1>6. n \in 0..n BY <1>2
<1>7. s \in Seq(Positive) /\ s = w[n] BY <1>1, <1>4, <1>6 DEF SurplusOf
<1>8. SubSeq(z, 1, n) = z BY <1>1, PrefixNext
<1>9. \A v : UpTo(s, z, v, Excess(a, b, v)) BY <1>1, <1>2, <1>4, <1>5, <1>6, <1>7, <1>8, SurplusCounts
<1>10. \A v : Count(a, v) \in Nat /\ Count(b, v) \in Nat BY <1>5, SeqTotal
<1>11. ASSUME NEW v PROVE Count(s, v) = Excess(a, b, v)
  <2>1. Count(a, v) \in Nat /\ Count(b, v) \in Nat BY <1>10
  <2>2. Excess(a, b, v) \in Nat /\ Excess(a, b, v) <= Count(a, v) BY <2>1 DEF Excess
  <2>3. Count(z, v) = Count(a, v) BY <1>1
  <2>4. UpTo(s, z, v, Excess(a, b, v)) BY <1>9
  <2> HIDE DEF s
  <2> QED BY <2>1, <2>2, <2>3, <2>4 DEF UpTo
<1> QED BY <1>7, <1>11 DEF s

\* What each list has more than the other, when they are worth the same.
LEMMA SurplusesEqual ==
  ASSUME NEW a \in Seq(Positive), NEW b \in Seq(Positive), Total(a) = Total(b)
  PROVE  Total(Surplus(a, b)) = Total(Surplus(b, a))
<1> DEFINE s == Surplus(a, b)
           t == Surplus(b, a)
           p == s \o b
           q == t \o a
<1>1. s \in Seq(Positive) /\ t \in Seq(Positive) BY SurplusIs
<1>2. s \in Seq(Nat) /\ t \in Seq(Nat) /\ a \in Seq(Nat) /\ b \in Seq(Nat) BY <1>1, PositiveSeq
<1>3. \A v : Count(s, v) = Excess(a, b, v) BY SurplusIs
<1>4. \A v : Count(t, v) = Excess(b, a, v) BY SurplusIs
<1>5. Joined(p, s, b) /\ Joined(q, t, a) BY DEF Joined
<1> HIDE DEF s, t, p, q
<1>6. p \in Seq(Nat) /\ Total(p) = Total(s) + Total(b) BY <1>2, <1>5, JoinTotal
<1>7. q \in Seq(Nat) /\ Total(q) = Total(t) + Total(a) BY <1>2, <1>5, JoinTotal
<1>8. \A v : Count(p, v) = Count(s, v) + Count(b, v) BY <1>2, <1>5, JoinCounts
<1>9. \A v : Count(q, v) = Count(t, v) + Count(a, v) BY <1>2, <1>5, JoinCounts
<1>10. \A v : Count(a, v) \in Nat /\ Count(b, v) \in Nat BY <1>2, SeqTotal
<1>11. ASSUME NEW v PROVE Count(p, v) = Count(q, v)
  <2>1. Count(a, v) \in Nat /\ Count(b, v) \in Nat BY <1>10
  <2>2. Count(p, v) = Excess(a, b, v) + Count(b, v) BY <1>3, <1>8
  <2>3. Count(q, v) = Excess(b, a, v) + Count(a, v) BY <1>4, <1>9
  <2> QED BY <2>1, <2>2, <2>3 DEF Excess
<1>12. Total(p) = Total(q) BY <1>6, <1>7, <1>11, SameAmounts
<1>13. Total(s) \in Nat /\ Total(t) \in Nat /\ Total(a) \in Nat BY <1>2, SeqTotal
<1> QED BY <1>6, <1>7, <1>12, <1>13 DEF s, t

-----------------------------------------------------------------------------
(***************************************************************************)
(* Chunks and pairs of batches.                                            *)
(***************************************************************************)
\* A prefix, in two parts.
LEMMA PrefixSplit ==
  ASSUME NEW s \in Seq(Positive), NEW i \in Nat, NEW j \in Nat, i <= j, j <= Len(s)
  PROVE  /\ Joined(SubSeq(s, 1, j), SubSeq(s, 1, i), SubSeq(s, i + 1, j))
         /\ SubSeq(s, 1, j) \in Seq(Positive) /\ SubSeq(s, 1, i) \in Seq(Positive)
         /\ SubSeq(s, i + 1, j) \in Seq(Positive) /\ Len(SubSeq(s, i + 1, j)) = j - i
<1>1. PICK p : p = SubSeq(s, 1, i) OBVIOUS
<1>2. PICK q : q = SubSeq(s, i + 1, j) OBVIOUS
<1>3. PICK u : u = SubSeq(s, 1, j) OBVIOUS
<1>0. \A k \in 1..j : s[k] \in Positive
  <2>1. Len(s) \in Nat /\ s \in [1..Len(s) -> Positive] BY LenProperties
  <2> QED BY <2>1
<1>4. p \in Seq(Positive) /\ Len(p) = i /\ \A k \in 1..i : p[k] = s[k]
  <2>1. \A k \in 1..i : s[k] \in Positive BY <1>0
  <2>2. /\ p \in Seq(Positive)
        /\ Len(p) = IF 1 <= i THEN i - 1 + 1 ELSE 0
        /\ \A k \in 1..(i - 1 + 1) : p[k] = s[1 + k - 1]
    BY <1>1, <2>1, SubSeqProperties
  <2> QED BY <2>2
<1>5. u \in Seq(Positive) /\ Len(u) = j /\ \A k \in 1..j : u[k] = s[k]
  <2>2. /\ u \in Seq(Positive)
        /\ Len(u) = IF 1 <= j THEN j - 1 + 1 ELSE 0
        /\ \A k \in 1..(j - 1 + 1) : u[k] = s[1 + k - 1]
    BY <1>3, <1>0, SubSeqProperties
  <2> QED BY <2>2
<1>6. q \in Seq(Positive) /\ Len(q) = j - i /\ \A k \in 1..(j - i) : q[k] = s[i + k]
  <2> DEFINE m == i + 1
  <2>1. m \in Int /\ \A k \in m..j : s[k] \in Positive BY <1>0
  <2>3. q = SubSeq(s, m, j) BY <1>2
  <2> HIDE DEF m
  <2>2. /\ q \in Seq(Positive)
        /\ Len(q) = IF m <= j THEN j - m + 1 ELSE 0
        /\ \A k \in 1..(j - m + 1) : q[k] = s[m + k - 1]
    BY <2>1, <2>3, SubSeqProperties
  <2> QED BY <2>2 DEF m
<1>9. u = p \o q
  <2>1. PICK w : w = p \o q OBVIOUS
  <2>2. Joined(w, p, q) BY <2>1 DEF Joined
  <2>10. p \in Seq(Positive) /\ q \in Seq(Positive) BY <1>4, <1>6
  <2>3. /\ w \in Seq(Positive) /\ Len(w) = Len(p) + Len(q)
        /\ \A k \in 1..(Len(p) + Len(q)) : w[k] = IF k <= Len(p) THEN p[k] ELSE q[k - Len(p)]
    BY <2>2, <2>10, JoinedIs
  <2>4. Len(p) = i /\ Len(p) + Len(q) = j BY <1>4, <1>6
  <2>5. w \in Seq(Positive) /\ Len(w) = j /\ \A k \in 1..j : w[k] = IF k <= i THEN p[k] ELSE q[k - i]
    BY <2>3, <2>4
  <2>6. \A k \in 1..j : w[k] = u[k]
    <3> TAKE k \in 1..j
    <3>1. CASE k <= i
      <4>1. k \in 1..i BY <3>1
      <4> QED BY <1>4, <1>5, <2>5, <3>1, <4>1
    <3>2. CASE ~ (k <= i)
      <4>1. k - i \in 1..(j - i) /\ i + (k - i) = k BY <3>2
      <4> QED BY <1>5, <1>6, <2>5, <3>2, <4>1
    <3> QED BY <3>1, <3>2
  <2>7. w \in [1..j -> Positive] /\ u \in [1..j -> Positive] BY <1>5, <2>5, LenProperties
  <2> DEFINE J == 1..j
  <2>8. w \in [J -> Positive] /\ u \in [J -> Positive] /\ \A k \in J : w[k] = u[k] BY <2>6, <2>7
  <2> HIDE DEF J
  <2>9. w = u BY <2>8
  <2> QED BY <2>1, <2>9
<1> QED BY <1>1, <1>2, <1>3, <1>4, <1>5, <1>6, <1>9 DEF Joined

\* What a prefix has.
LEMMA PrefixHas ==
  ASSUME NEW s \in Seq(Positive), NEW i \in Nat, i <= Len(s)
  PROVE  /\ SubSeq(s, 1, i) \in Seq(Positive) /\ Total(SubSeq(s, 1, i)) <= Total(s)
         /\ \A v : Count(SubSeq(s, 1, i), v) <= Count(s, v)
<1> DEFINE n == Len(s)
           p == SubSeq(s, 1, i)
           q == SubSeq(s, i + 1, n)
<1>1. n \in Nat /\ i <= n BY LenProperties
<1>2. SubSeq(s, 1, n) = s BY PrefixNext
<1> HIDE DEF n
<1>11. n <= Len(s) BY <1>1 DEF n
<1>12. Joined(SubSeq(s, 1, n), p, q) /\ p \in Seq(Positive) /\ q \in Seq(Positive)
  BY <1>1, <1>11, PrefixSplit
<1> HIDE DEF p, q
<1>3. Joined(s, p, q) /\ p \in Seq(Positive) /\ q \in Seq(Positive) BY <1>2, <1>12 DEF n
<1>4. p \in Seq(Nat) /\ q \in Seq(Nat) BY <1>3, PositiveSeq
<1>5. Total(s) = Total(p) + Total(q) BY <1>3, <1>4, JoinTotal
<1>6. \A v : Count(s, v) = Count(p, v) + Count(q, v) BY <1>3, <1>4, JoinCounts
<1>7. Total(p) \in Nat /\ Total(q) \in Nat BY <1>4, SeqTotal
<1>8. \A v : Count(p, v) \in Nat /\ Count(q, v) \in Nat BY <1>4, SeqTotal
<1>9. \A v : Count(p, v) <= Count(s, v)
  <2> TAKE v
  <2>1. Count(s, v) = Count(p, v) + Count(q, v) BY <1>6
  <2>2. Count(p, v) \in Nat /\ Count(q, v) \in Nat BY <1>8
  <2> QED BY <2>1, <2>2
<1>10. Total(p) <= Total(s) BY <1>5, <1>7
<1> QED BY <1>3, <1>9, <1>10 DEF p

-----------------------------------------------------------------------------
\* The chunks of a list, and how much of it is in the first j of them.
Chunks(n, size) == (n + size - 1) \div size
Reach(j, n, size) == Min({j * size, n})

\* A chunk is within the size, and extends what the chunks before it reach.
LEMMA ChunkIs ==
  ASSUME NEW give \in Seq(Positive), NEW size \in Nat \ {0}, NEW k \in 1..Chunks(Len(give), size)
  PROVE  /\ Chunk(give, k, size) \in Seq(Positive) /\ Len(Chunk(give, k, size)) <= size
         /\ Reach(k, Len(give), size) \in Nat /\ Reach(k - 1, Len(give), size) \in Nat
         /\ Reach(k, Len(give), size) <= Len(give)
         /\ Joined(SubSeq(give, 1, Reach(k, Len(give), size)),
                   SubSeq(give, 1, Reach(k - 1, Len(give), size)), Chunk(give, k, size))
         /\ SubSeq(give, 1, Reach(k - 1, Len(give), size)) \in Seq(Positive)
<1> DEFINE n == Len(give)
           K == Chunks(n, size)
           o == (k - 1) * size
           e == Min({k * size, n})
           j == k - 1
<1>0. n \in Nat /\ size \in Positive BY LenProperties DEF Positive
<1>1. n + size - 1 \in Nat BY <1>0
<1>2. K \in Nat /\ K * size <= n + size - 1 BY <1>0, <1>1, Quotient DEF Chunks
<1>3. k \in 1..K OBVIOUS
<1> HIDE DEF K
<1>4. k \in Nat /\ k <= K /\ j \in Nat /\ k = j + 1 /\ size \in Nat /\ size > 0 BY <1>2, <1>3
<1>5. o = j * size OBVIOUS
<1> HIDE DEF j
<1>6. /\ j * size \in Nat /\ k * size \in Nat /\ K * size \in Nat
      /\ k * size <= K * size
  BY <1>2, <1>4, Times
<1>7. k * size = j * size + size
  <2>1. 1 \in Nat /\ 1 * size = size BY <1>4
  <2>2. (j + 1) * size = j * size + 1 * size BY <1>4, <2>1, Times
  <2> QED BY <1>4, <2>1, <2>2
<1> HIDE DEF o
<1>8. o \in Nat /\ o <= n /\ k * size = o + size BY <1>0, <1>2, <1>4, <1>5, <1>6, <1>7
<1>9. e = IF k * size <= n THEN k * size ELSE n
  <2>1. k * size \in Int /\ n \in Int BY <1>0, <1>6
  <2> QED BY <2>1, MinOfTwo
<1>10. e \in Nat /\ o <= e /\ e <= n /\ e - o <= size BY <1>0, <1>4, <1>6, <1>8, <1>9
<1>11. Reach(j, n, size) = o
  <2>1. j * size \in Int /\ n \in Int /\ j * size <= n BY <1>0, <1>5, <1>8
  <2>2. Min({j * size, n}) = j * size BY <2>1, MinOfTwo
  <2> QED BY <1>5, <2>2 DEF Reach
<1>12. Reach(k, n, size) = e BY DEF Reach
<1>13. Chunk(give, k, size) = SubSeq(give, o + 1, e) BY DEF Chunk, o
<1> HIDE DEF e
<1>14. e <= Len(give) BY <1>10
<1> HIDE DEF n
<1>15. /\ Joined(SubSeq(give, 1, e), SubSeq(give, 1, o), SubSeq(give, o + 1, e))
       /\ SubSeq(give, 1, e) \in Seq(Positive) /\ SubSeq(give, 1, o) \in Seq(Positive)
       /\ SubSeq(give, o + 1, e) \in Seq(Positive) /\ Len(SubSeq(give, o + 1, e)) = e - o
  BY <1>8, <1>10, <1>14, PrefixSplit
<1> QED BY <1>8, <1>10, <1>11, <1>12, <1>13, <1>15 DEF n, j

\* A plan of swaps of the chunks.
ChunkPlan(give, size) ==
  [k \in 1..Chunks(Len(give), size) |->
     Swap(Chunk(give, k, size), greedyLeaves[Total(Chunk(give, k, size))])]
\* It is swaps of equal sides within the size, and takes no leaf twice.
LEMMA ChunkPlanIs ==
  ASSUME NEW give \in Seq(Positive), NEW size \in Nat \ {0}
  PROVE  /\ ChunkPlan(give, size) \in Seq(Swaps(size))
         /\ \A v : Spent(ChunkPlan(give, size), v) <= Count(give, v)
<1> DEFINE n == Len(give)
           K == Chunks(n, size)
           plan == ChunkPlan(give, size)
           R(j) == SubSeq(give, 1, Reach(j, n, size))
<1>0. n \in Nat /\ size \in Positive BY LenProperties DEF Positive
<1>1. K \in Nat
  <2>1. n + size - 1 \in Nat BY <1>0
  <2> QED BY <1>0, <2>1, Quotient DEF Chunks
<1>2. \A k \in 1..K : /\ Chunk(give, k, size) \in Seq(Positive) /\ Len(Chunk(give, k, size)) <= size
                      /\ Joined(R(k), R(k - 1), Chunk(give, k, size)) /\ R(k - 1) \in Seq(Positive)
                      /\ Reach(k, n, size) \in Nat /\ Reach(k, n, size) <= n
  BY ChunkIs
<1>3. ASSUME NEW k \in 1..K
      PROVE  plan[k] \in Swaps(size) /\ plan[k].inLeaves = Chunk(give, k, size)
  <2> DEFINE c == Chunk(give, k, size)
             t == greedyLeaves[Total(c)]
  <2>1. plan[k] = Swap(c, t) BY DEF ChunkPlan
  <2>2. c \in Seq(Positive) /\ Len(c) <= size BY <1>2
  <2> HIDE DEF c
  <2>3. c \in Seq(Nat) BY <2>2, PositiveSeq
  <2>4. Total(c) \in Nat BY <2>3, SeqTotal
  <2>5. t \in Seq(Positive) /\ Total(t) = Total(c) BY <2>4, GreedyIs
  <2> HIDE DEF t
  <2> QED BY <2>1, <2>2, <2>5 DEF Swap, Swaps, c
<1>4. plan \in Seq(Swaps(size))
  <2>1. DOMAIN plan = 1..K BY DEF ChunkPlan
  <2>2. plan = [k \in 1..K |-> plan[k]] BY <2>1 DEF ChunkPlan
  <2>3. plan \in [1..K -> Swaps(size)] BY <1>3, <2>2
  <2> HIDE DEF plan, K
  <2> QED BY <1>1, <2>3
<1>5. DOMAIN plan = 1..K BY DEF ChunkPlan
<1> HIDE DEF K, plan
<1>6. ASSUME NEW v PROVE Spent(plan, v) <= Count(give, v)
  <2> DEFINE f == Side(plan, "inLeaves", v)
             Good(j) == SumOver(f, 1..j) = Count(R(j), v)
             Bad == {j \in 0..K : ~ Good(j)}
  <2>1. f \in [1..K -> Nat]
    <3>1. f \in Seq(Nat) /\ DOMAIN f = 1..K BY <1>4, <1>5, PlanNumbers DEF Side
    <3> QED BY <3>1, LenProperties
  <2>2. \A k \in 1..K : f[k] = Count(Chunk(give, k, size), v) BY <1>3, <1>5 DEF Side
  <2> HIDE DEF f
  <2>3. Good(0)
    <3>1. 0 * size = 0 BY <1>0 DEF Positive
    <3>2. Min({0, n}) = 0
      <4>1. 0 \in Int /\ n \in Int /\ 0 <= n BY <1>0
      <4> QED BY <4>1, MinOfTwo
    <3>3. Reach(0, n, size) = 0 BY <3>1, <3>2 DEF Reach
    <3>4. R(0) = <<>> BY <3>3, PrefixNext
    <3>5. Count(R(0), v) = 0 BY <3>4, NoneCounts
    <3>6. 1..0 = {} OBVIOUS
    <3>7. SumOver(f, {}) = 0 BY SumEmpty
    <3> QED BY <3>5, <3>6, <3>7
  <2>4. ASSUME NEW k \in 1..K, Good(k - 1) PROVE Good(k)
    <3> DEFINE S == 1..(k - 1)
               c == Chunk(give, k, size)
               p == R(k - 1)
               q == R(k)
    <3>1. k \notin S /\ 1..k = S \cup {k} /\ k \in Int OBVIOUS
    <3>2. IsFiniteSet(S)
      <4> DEFINE j == k - 1
      <4>1. j \in Int OBVIOUS
      <4> HIDE DEF j
      <4>2. IsFiniteSet(1..j) BY <4>1, FS_Interval
      <4> QED BY <4>2 DEF j
    <3>3. \A y \in S \cup {k} : f[y] \in Int
      <4>1. \A y \in S \cup {k} : y \in 1..K BY <1>1
      <4> QED BY <2>1, <4>1
    <3>4. f[k] = Count(c, v) BY <2>2
    <3>5. SumOver(f, S) = Count(p, v) BY <2>4
    <3>6. Joined(q, p, c) /\ c \in Seq(Positive) /\ p \in Seq(Positive) BY <1>2
    <3>12. Good(k) <=> SumOver(f, S \cup {k}) = Count(q, v) BY <3>1
    <3> HIDE DEF S, c, p, q, Good
    <3>7. c \in Seq(Nat) /\ p \in Seq(Nat) BY <3>6, PositiveSeq
    <3>8. Count(q, v) = Count(p, v) + Count(c, v) BY <3>6, <3>7, JoinCounts
    <3>9. Count(p, v) \in Nat /\ Count(c, v) \in Nat BY <3>7, SeqTotal
    <3>10. SumOver(f, S \cup {k}) = f[k] + SumOver(f, S) BY <3>1, <3>2, <3>3, SumAdd
    <3>11. SumOver(f, S \cup {k}) = Count(q, v) BY <3>4, <3>5, <3>8, <3>9, <3>10
    <3> QED BY <3>11, <3>12
  <2>5. Good(K)
    <3> SUFFICES ASSUME ~ Good(K) PROVE FALSE OBVIOUS
    <3>1. K \in Bad BY <1>1
    <3>2. Bad \subseteq Nat /\ Bad # {} BY <3>1
    <3> HIDE DEF Bad, Good
    <3>3. PICK j \in Bad : \A i \in Bad : j <= i BY <3>2, LeastNat
    <3>4. j \in 0..K /\ ~ Good(j) BY DEF Bad
    <3>5. j # 0 BY <2>3, <3>4
    <3>6. j \in 1..K /\ j - 1 \in 0..K BY <1>1, <3>4, <3>5
    <3>7. j - 1 \notin Bad BY <3>3, <3>6
    <3>8. Good(j - 1) BY <3>6, <3>7 DEF Bad
    <3> QED BY <2>4, <3>4, <3>6, <3>8
  <2>6. Spent(plan, v) = SumOver(f, 1..K)
    <3>1. Spent(plan, v) = Total(f) BY SpentIs DEF f
    <3>2. DOMAIN f = 1..K BY <2>1
    <3> QED BY <3>1, <3>2, TotalIs
  <2>7. Count(R(K), v) <= Count(give, v)
    <3>1. CASE K = 0
      <4>1. Spent(plan, v) = 0
        <5>1. 1..0 = {} OBVIOUS
        <5> QED BY <2>6, <3>1, <5>1, SumEmpty
      <4>2. give \in Seq(Nat) BY PositiveSeq
      <4>3. Count(give, v) \in Nat BY <4>2, SeqTotal
      <4>4. Count(R(K), v) = 0 BY <2>5, <2>6, <4>1
      <4> QED BY <4>3, <4>4
    <3>2. CASE K # 0
      <4>1. K \in 1..K BY <1>1, <3>2
      <4>2. Reach(K, n, size) \in Nat /\ Reach(K, n, size) <= n BY <1>2, <4>1
      <4> QED BY <4>2, PrefixHas
    <3> QED BY <3>1, <3>2
  <2> QED BY <2>5, <2>6, <2>7
<1> QED BY <1>4, <1>6 DEF plan

\* The plan of one swap.
LEMMA OneSwap ==
  ASSUME NEW limit, NEW give \in Seq(Positive), NEW receive \in Seq(Positive),
         Total(give) = Total(receive), Len(give) <= limit
  PROVE  /\ <<Swap(give, receive)>> \in Seq(Swaps(limit))
         /\ \A v : /\ Spent(<<Swap(give, receive)>>, v) = Count(give, v)
                   /\ Gained(<<Swap(give, receive)>>, v) = Count(receive, v)
<1> DEFINE x == Swap(give, receive)
<1>1. x \in Swaps(limit) /\ x.inLeaves = give /\ x.outLeaves = receive BY DEF Swap, Swaps
<1> HIDE DEF x
<1>2. <<x>> \in Seq(Swaps(limit)) BY <1>1
<1>3. \A v : Total(Side(<<x>>, "inLeaves", v)) = Count(x.inLeaves, v) BY <1>1, PlanOfOne
<1>4. \A v : Total(Side(<<x>>, "outLeaves", v)) = Count(x.outLeaves, v) BY <1>1, PlanOfOne
<1>5. \A v : Spent(<<x>>, v) = Count(give, v) /\ Gained(<<x>>, v) = Count(receive, v)
  BY <1>1, <1>3, <1>4, SpentIs
<1> QED BY <1>2, <1>5 DEF x

\* The swaps of a pair of batches of one amount: within the limit they are the batches.
PairServes(plan, give, receive, limit) ==
  /\ plan \in Seq(Swaps(limit))
  /\ \A v : Spent(plan, v) <= Count(give, v)
  /\ \/ ~ (Len(give) <= limit /\ Len(receive) <= limit)
     \/ \A v : Spent(plan, v) = Count(give, v) /\ Gained(plan, v) = Count(receive, v)
\* What swaps of a pair do.
LEMMA PairIs ==
  ASSUME NEW limit \in Nat \ {0}, NEW give \in Seq(Positive), NEW receive \in Seq(Positive),
         Total(give) = Total(receive)
  PROVE  PairServes(SwapsOf(give, receive, limit), give, receive, limit)
<1> DEFINE plan == SwapsOf(give, receive, limit)
           cutoffs == {c \in 1..limit : Len(Alternate(give, receive, c)) <= limit}
<1>0. give \in Seq(Nat) /\ receive \in Seq(Nat) BY PositiveSeq
<1>1. Len(give) \in Nat /\ Len(receive) \in Nat BY LenProperties
<1>2. \A v : Count(give, v) \in Nat BY <1>0, SeqTotal
<1>3. CASE Len(give) > limit
  <2>1. plan = ChunkPlan(give, limit) BY <1>3 DEF SwapsOf, ChunkPlan, Chunks
  <2>2. ~ (Len(give) <= limit) BY <1>1, <1>3
  <2> HIDE DEF plan
  <2>3. plan \in Seq(Swaps(limit)) /\ \A v : Spent(plan, v) <= Count(give, v) BY <2>1, ChunkPlanIs
  <2> QED BY <2>2, <2>3 DEF PairServes, plan
<1>4. CASE ~ (Len(give) > limit) /\ Len(receive) <= limit
  <2>1. plan = <<Swap(give, receive)>> BY <1>4 DEF SwapsOf
  <2>2. Len(give) <= limit BY <1>1, <1>4
  <2> HIDE DEF plan
  <2>3. plan \in Seq(Swaps(limit)) /\ \A v : Spent(plan, v) = Count(give, v) /\ Gained(plan, v) = Count(receive, v)
    BY <2>1, <2>2, OneSwap
  <2>4. \A v : Spent(plan, v) <= Count(give, v)
    <3> TAKE v
    <3>1. Spent(plan, v) = Count(give, v) /\ Count(give, v) \in Nat BY <1>2, <2>3
    <3> QED BY <3>1
  <2> QED BY <2>3, <2>4 DEF PairServes, plan
<1>5. CASE ~ (Len(give) > limit) /\ ~ (Len(receive) <= limit) /\ cutoffs = {}
  <2>1. plan = <<>> BY <1>5 DEF SwapsOf
  <2> HIDE DEF plan
  <2>3. plan \in Seq(Swaps(limit)) /\ \A v : Spent(plan, v) = 0 BY <2>1, NoPlan
  <2>4. \A v : Spent(plan, v) <= Count(give, v)
    <3> TAKE v
    <3>1. Spent(plan, v) = 0 /\ Count(give, v) \in Nat BY <1>2, <2>3
    <3> QED BY <3>1
  <2> QED BY <1>5, <2>3, <2>4 DEF PairServes, plan
<1>6. CASE ~ (Len(give) > limit) /\ ~ (Len(receive) <= limit) /\ cutoffs # {}
  <2> DEFINE c == Max(cutoffs)
             head == SubSeq(receive, 1, c)
             rest == greedyLeaves[Total(give) - Total(head)]
             other == Alternate(give, receive, c)
  <2>1. plan = <<Swap(give, other)>> BY <1>6 DEF SwapsOf
  <2>2. cutoffs \in SUBSET (1..limit) OBVIOUS
  <2> HIDE DEF cutoffs
  <2>3. c \in cutoffs BY <1>6, <2>2, MaxIn
  <2>5. Joined(other, head, rest) BY DEF Alternate, Joined
  <2> HIDE DEF c
  <2>17. c \in 1..limit BY <2>2, <2>3
  <2>4. c \in Nat /\ c <= Len(receive) BY <1>1, <1>6, <2>17
  <2>6. head \in Seq(Positive) /\ Total(head) <= Total(receive) BY <2>4, PrefixHas
  <2> HIDE DEF head
  <2>7. head \in Seq(Nat) BY <2>6, PositiveSeq
  <2>8. Total(head) \in Nat /\ Total(give) \in Nat BY <1>0, <2>7, SeqTotal
  <2>9. Total(give) - Total(head) \in Nat BY <2>6, <2>8
  <2>10. rest \in Seq(Positive) /\ rest \in Seq(Nat) /\ Total(rest) = Total(give) - Total(head) BY <2>9, GreedyIs
  <2> HIDE DEF rest, other
  <2>11. other \in Seq(Positive) BY <2>5, <2>6, <2>10, JoinedIs
  <2>12. Total(other) = Total(head) + Total(rest) BY <2>5, <2>7, <2>10, JoinTotal
  <2>13. Total(give) = Total(other) BY <2>8, <2>10, <2>12
  <2>14. Len(give) <= limit BY <1>1, <1>6
  <2> HIDE DEF plan
  <2>15. plan \in Seq(Swaps(limit)) /\ \A v : Spent(plan, v) = Count(give, v) BY <2>1, <2>11, <2>13, <2>14, OneSwap
  <2>16. \A v : Spent(plan, v) <= Count(give, v)
    <3> TAKE v
    <3>1. Spent(plan, v) = Count(give, v) /\ Count(give, v) \in Nat BY <1>2, <2>15
    <3> QED BY <3>1
  <2> QED BY <1>6, <2>15, <2>16 DEF PairServes, plan
<1> QED BY <1>3, <1>4, <1>5, <1>6

-----------------------------------------------------------------------------
(***************************************************************************)
(* Pairing up the leaves to give and to receive.                           *)
(***************************************************************************)
\* A list that is not empty is worth something.
LEMMA WorthSomething ==
  ASSUME NEW s \in Seq(Positive)
  PROVE  Total(s) \in Nat /\ Len(s) \in Nat /\ (Total(s) = 0 => s = <<>>) /\ (Len(s) = 0 => s = <<>>)
<1>1. s \in Seq(Nat) BY PositiveSeq
<1>2. Total(s) \in Nat /\ Len(s) \in Nat BY <1>1, SeqTotal, LenProperties
<1>3. Len(s) = 0 => s = <<>> OBVIOUS
<1>4. ASSUME s # <<>> PROVE Total(s) # 0
  <2>1. Head(s) \in Positive /\ Tail(s) \in Seq(Positive) /\ Total(s) = Head(s) + Total(Tail(s))
    BY <1>4, HeadTail
  <2> DEFINE h == Head(s)
             t == Tail(s)
  <2> HIDE DEF h, t
  <2>2. h \in Positive /\ t \in Seq(Positive) /\ Total(s) = h + Total(t) BY <2>1 DEF h, t
  <2>3. t \in Seq(Nat) BY <2>2, PositiveSeq
  <2>4. Total(t) \in Nat BY <2>3, SeqTotal
  <2>5. h \in Nat /\ h > 0 BY <2>2 DEF Positive
  <2> QED BY <2>2, <2>4, <2>5
<1> QED BY <1>2, <1>3, <1>4

\* The first of q moved to the end of p.
Moved(r, t, p, q) == r = Append(p, Head(q)) /\ t = Tail(q)
MovedAs(r, t, p, q) ==
  /\ r \in Seq(Positive) /\ t \in Seq(Positive)
  /\ Total(r) + Total(t) = Total(p) + Total(q)
  /\ \A v : Count(r, v) + Count(t, v) = Count(p, v) + Count(q, v)
  /\ Len(r) + Len(t) = Len(p) + Len(q) /\ Len(t) = Len(q) - 1
\* Moving keeps the leaves, and what they are worth.
LEMMA MoveIs ==
  ASSUME NEW p \in Seq(Positive), NEW q \in Seq(Positive), q # <<>>, NEW r, NEW t, Moved(r, t, p, q)
  PROVE  MovedAs(r, t, p, q)
<1>1. PICK h : h = Head(q) OBVIOUS
<1>2. Appended(r, p, h) /\ r = Append(p, h) /\ t = Tail(q) BY <1>1 DEF Moved, Appended
<1>3. /\ h \in Positive /\ t \in Seq(Positive) /\ Len(t) = Len(q) - 1
      /\ Total(q) = h + Total(t)
      /\ \A v : Count(q, v) = Count(t, v) + IF h = v THEN 1 ELSE 0
  BY <1>1, <1>2, HeadTail
<1>4. p \in Seq(Nat) /\ h \in Nat /\ t \in Seq(Nat) BY <1>3, PositiveSeq DEF Positive
<1>5. Total(r) = Total(p) + h /\ \A v : Count(r, v) = Count(p, v) + IF h = v THEN 1 ELSE 0
  BY <1>2, <1>4, AppendCounts
<1>6. r \in Seq(Positive) /\ Len(r) = Len(p) + 1 /\ Len(p) \in Nat /\ Len(q) \in Nat BY <1>2, <1>3
<1>7. Total(p) \in Nat /\ Total(t) \in Nat BY <1>4, SeqTotal
<1>8. \A v : Count(p, v) \in Nat /\ Count(t, v) \in Nat BY <1>4, SeqTotal
<1>9. Total(r) + Total(t) = Total(p) + Total(q) BY <1>3, <1>4, <1>5, <1>7
<1>10. \A v : Count(r, v) + Count(t, v) = Count(p, v) + Count(q, v)
  <2> TAKE v
  <2>1. Count(p, v) \in Nat /\ Count(t, v) \in Nat BY <1>8
  <2>2. Count(q, v) = Count(t, v) + IF h = v THEN 1 ELSE 0 BY <1>3
  <2>3. Count(r, v) = Count(p, v) + IF h = v THEN 1 ELSE 0 BY <1>5
  <2> QED BY <2>1, <2>2, <2>3
<1>11. Len(r) + Len(t) = Len(p) + Len(q) BY <1>3, <1>6
<1> QED BY <1>3, <1>6, <1>9, <1>10, <1>11 DEF MovedAs

-----------------------------------------------------------------------------
\* The state of the pairing.
PairStates(limit) ==
  [give : Seq(Positive), receive : Seq(Positive), toGive : Seq(Positive), toReceive : Seq(Positive),
   swaps : Seq(Swaps(limit))]

\* A pair of batches that is closed, or is not yet of one amount.
Apart(s) == Total(s.toGive) = Total(s.toReceive) => s.toGive = <<>> /\ s.toReceive = <<>>
ClosedPair(c, s, limit) ==
  /\ c \in PairStates(limit) /\ Apart(c)
  /\ c.give = s.give /\ c.receive = s.receive
  /\ \/ c = s
     \/ /\ c.toGive = <<>> /\ c.toReceive = <<>> /\ Total(s.toGive) = Total(s.toReceive)
        /\ \E q : PairServes(q, s.toGive, s.toReceive, limit) /\ Joined(c.swaps, s.swaps, q)
\* ClosePair closes one whose sides are of one amount.
LEMMA ClosePairIs ==
  ASSUME NEW limit \in Nat \ {0}, NEW s \in PairStates(limit)
  PROVE  ClosedPair(ClosePair(s, limit), s, limit)
<1> DEFINE c == ClosePair(s, limit)
           p == s.toGive
           r == s.toReceive
           q == SwapsOf(p, r, limit)
           w == s.swaps \o q
           d == [s EXCEPT !.toGive = <<>>, !.toReceive = <<>>, !.swaps = w]
<1>1. p \in Seq(Positive) /\ r \in Seq(Positive) /\ s.swaps \in Seq(Swaps(limit))
      /\ s.give \in Seq(Positive) /\ s.receive \in Seq(Positive)
  BY DEF PairStates
<1>2. c = IF p # <<>> /\ r # <<>> /\ Total(p) = Total(r) THEN d ELSE s BY DEF ClosePair
<1>3. Joined(w, s.swaps, q) BY DEF Joined
<1>4. CASE ~ (p # <<>> /\ r # <<>> /\ Total(p) = Total(r))
  <2>1. c = s BY <1>2, <1>4
  <2>2. ASSUME Total(p) = Total(r) PROVE p = <<>> /\ r = <<>>
    <3>1. p = <<>> \/ r = <<>> BY <1>4, <2>2
    <3>2. Total(p) = 0 /\ Total(r) = 0 BY <2>2, <3>1, NoneCounts
    <3> QED BY <1>1, <3>2, WorthSomething
  <2>3. Apart(s) BY <2>2 DEF Apart
  <2> QED BY <2>1, <2>3 DEF ClosedPair
<1>5. CASE p # <<>> /\ r # <<>> /\ Total(p) = Total(r)
  <2>1. c = d BY <1>2, <1>5
  <2>2. PairServes(q, p, r, limit) BY <1>1, <1>5, PairIs
  <2>3. q \in Seq(Swaps(limit)) BY <2>2 DEF PairServes
  <2> DEFINE e == <<>>
  <2>11. e \in Seq(Positive) /\ d = [s EXCEPT !.toGive = e, !.toReceive = e, !.swaps = w] OBVIOUS
  <2> HIDE DEF q, w, d, e
  <2>4. w \in Seq(Swaps(limit)) BY <1>1, <1>3, <2>3, JoinedIs
  <2>5. d \in PairStates(limit) BY <2>4, <2>11 DEF PairStates
  <2>6. d.give = s.give /\ d.receive = s.receive /\ d.toGive = e /\ d.toReceive = e /\ d.swaps = w
    BY <2>11 DEF PairStates
  <2>7. Apart(d) BY <2>6 DEF Apart, e
  <2> QED BY <1>3, <1>5, <2>1, <2>2, <2>5, <2>6, <2>7 DEF ClosedPair, e
<1> QED BY <1>4, <1>5

\* What is taken from give and from receive: at most, and when nothing is cut all.
Balanced(s) == Total(s.toGive) + Total(s.give) = Total(s.toReceive) + Total(s.receive)
WithinGive(s, give) == \A v : Spent(s.swaps, v) + Count(s.toGive, v) + Count(s.give, v) <= Count(give, v)
Short(s, limit) ==
  Len(s.toGive) + Len(s.give) <= limit /\ Len(s.toReceive) + Len(s.receive) <= limit
Accounted(s, give, receive) ==
  \A v : /\ Spent(s.swaps, v) + Count(s.toGive, v) + Count(s.give, v) = Count(give, v)
         /\ Gained(s.swaps, v) + Count(s.toReceive, v) + Count(s.receive, v) = Count(receive, v)
PairKeeps(s, give, receive, limit) ==
  /\ s \in PairStates(limit)
  /\ Balanced(s) /\ WithinGive(s, give)
  /\ \/ ~ (Len(give) <= limit /\ Len(receive) <= limit)
     \/ Short(s, limit) /\ Accounted(s, give, receive)

\* The numbers of a state.
LEMMA PairNumbers ==
  ASSUME NEW limit, NEW s \in PairStates(limit)
  PROVE  /\ \A v : /\ Spent(s.swaps, v) \in Nat /\ Gained(s.swaps, v) \in Nat
                   /\ Count(s.toGive, v) \in Nat /\ Count(s.give, v) \in Nat
                   /\ Count(s.toReceive, v) \in Nat /\ Count(s.receive, v) \in Nat
         /\ Total(s.toGive) \in Nat /\ Total(s.give) \in Nat
         /\ Total(s.toReceive) \in Nat /\ Total(s.receive) \in Nat
         /\ Len(s.toGive) \in Nat /\ Len(s.give) \in Nat
         /\ Len(s.toReceive) \in Nat /\ Len(s.receive) \in Nat
<1>1. /\ s.toGive \in Seq(Positive) /\ s.give \in Seq(Positive) /\ s.toReceive \in Seq(Positive)
      /\ s.receive \in Seq(Positive) /\ s.swaps \in Seq(Swaps(limit))
  BY DEF PairStates
<1>2. s.toGive \in Seq(Nat) /\ s.give \in Seq(Nat) /\ s.toReceive \in Seq(Nat) /\ s.receive \in Seq(Nat)
  BY <1>1, PositiveSeq
<1>3. \A v : Spent(s.swaps, v) \in Nat /\ Gained(s.swaps, v) \in Nat BY <1>1, PlanNumbers, SpentIs
<1>4. \A v : /\ Count(s.toGive, v) \in Nat /\ Count(s.give, v) \in Nat
             /\ Count(s.toReceive, v) \in Nat /\ Count(s.receive, v) \in Nat
  BY <1>2, SeqTotal
<1>5. /\ Total(s.toGive) \in Nat /\ Total(s.give) \in Nat
      /\ Total(s.toReceive) \in Nat /\ Total(s.receive) \in Nat
  BY <1>2, SeqTotal
<1>6. /\ Len(s.toGive) \in Nat /\ Len(s.give) \in Nat
      /\ Len(s.toReceive) \in Nat /\ Len(s.receive) \in Nat
  BY <1>1, LenProperties
<1> QED BY <1>3, <1>4, <1>5, <1>6

\* Parts of a sum are within its bound.
LEMMA SumAtMost ==
  ASSUME NEW n \in Nat, NEW i \in Nat, NEW j \in Nat, i + j <= n
  PROVE  i <= n /\ j <= n
OBVIOUS

\* Closing a pair keeps that.
LEMMA CloseKeeps ==
  ASSUME NEW limit \in Nat \ {0}, NEW give \in Seq(Positive), NEW receive \in Seq(Positive),
         NEW s, PairKeeps(s, give, receive, limit), NEW c, ClosedPair(c, s, limit)
  PROVE  PairKeeps(c, give, receive, limit)
<1>5. give \in Seq(Nat) /\ receive \in Seq(Nat) BY PositiveSeq
<1>6. \A v : Count(give, v) \in Nat /\ Count(receive, v) \in Nat BY <1>5, SeqTotal
<1>7. /\ Len(s.toGive) \in Nat /\ Len(s.give) \in Nat
      /\ Len(s.toReceive) \in Nat /\ Len(s.receive) \in Nat
  BY PairNumbers DEF PairKeeps
<1>1. s \in PairStates(limit) /\ Balanced(s) /\ WithinGive(s, give) BY DEF PairKeeps
<1>2. c \in PairStates(limit) /\ c.give = s.give /\ c.receive = s.receive BY DEF ClosedPair
<1>3. CASE c = s BY <1>3
<1>4. CASE c # s
  <2>1. /\ c.toGive = <<>> /\ c.toReceive = <<>> /\ Total(s.toGive) = Total(s.toReceive)
        /\ \E q : PairServes(q, s.toGive, s.toReceive, limit) /\ Joined(c.swaps, s.swaps, q)
    BY <1>4 DEF ClosedPair
  <2>2. PICK q : PairServes(q, s.toGive, s.toReceive, limit) /\ Joined(c.swaps, s.swaps, q) BY <2>1
  <2>3. q \in Seq(Swaps(limit)) /\ \A v : Spent(q, v) <= Count(s.toGive, v) BY <2>2 DEF PairServes
  <2>4. s.swaps \in Seq(Swaps(limit)) BY <1>1 DEF PairStates
  <2>5. c.swaps = s.swaps \o q BY <2>2 DEF Joined
  <2>6. \A v : Total(Side(c.swaps, "inLeaves", v)) = Total(Side(s.swaps, "inLeaves", v)) + Total(Side(q, "inLeaves", v))
    BY <2>3, <2>4, <2>5, PlansJoin
  <2>7. \A v : Total(Side(c.swaps, "outLeaves", v)) = Total(Side(s.swaps, "outLeaves", v)) + Total(Side(q, "outLeaves", v))
    BY <2>3, <2>4, <2>5, PlansJoin
  <2>8. \A v : Spent(c.swaps, v) = Spent(s.swaps, v) + Spent(q, v) /\ Gained(c.swaps, v) = Gained(s.swaps, v) + Gained(q, v)
    BY <2>6, <2>7, SpentIs
  <2>9. \A v : Spent(q, v) \in Nat /\ Gained(q, v) \in Nat BY <2>3, PlanNumbers, SpentIs
  <2>10. Total(c.toGive) = 0 /\ Total(c.toReceive) = 0 /\ \A v : Count(c.toGive, v) = 0 /\ Count(c.toReceive, v) = 0
    BY <2>1, NoneCounts
  <2>11. Balanced(c)
    <3>1. Total(s.toGive) + Total(s.give) = Total(s.toReceive) + Total(s.receive) BY <1>1 DEF Balanced
    <3>2. Total(s.give) \in Nat /\ Total(s.receive) \in Nat /\ Total(s.toGive) \in Nat BY <1>1, PairNumbers
    <3>3. Total(s.give) = Total(s.receive) BY <2>1, <3>1, <3>2
    <3> QED BY <1>2, <2>10, <3>2, <3>3 DEF Balanced
  <2>12. WithinGive(c, give)
    <3>1. ASSUME NEW v PROVE Spent(c.swaps, v) + Count(c.toGive, v) + Count(c.give, v) <= Count(give, v)
      <4>1. Spent(s.swaps, v) + Count(s.toGive, v) + Count(s.give, v) <= Count(give, v) BY <1>1 DEF WithinGive
      <4>2. Spent(s.swaps, v) \in Nat /\ Count(s.toGive, v) \in Nat /\ Count(s.give, v) \in Nat BY <1>1, PairNumbers
      <4>3. Spent(c.swaps, v) = Spent(s.swaps, v) + Spent(q, v) /\ Spent(q, v) <= Count(s.toGive, v) /\ Spent(q, v) \in Nat
        BY <2>3, <2>8, <2>9
      <4>4. Count(c.toGive, v) = 0 /\ Count(c.give, v) = Count(s.give, v) BY <1>2, <2>10
      <4>6. Count(give, v) \in Nat BY <1>6
      <4> QED BY <4>1, <4>2, <4>3, <4>4, <4>6
    <3> QED BY <3>1 DEF WithinGive
  <2>13. ASSUME Len(give) <= limit /\ Len(receive) <= limit
         PROVE  Short(c, limit) /\ Accounted(c, give, receive)
    <3>1. Short(s, limit) /\ Accounted(s, give, receive) BY <2>13 DEF PairKeeps
    <3>2. Len(s.toGive) <= limit /\ Len(s.toReceive) <= limit
      <4>1. Len(s.toGive) + Len(s.give) <= limit /\ Len(s.toReceive) + Len(s.receive) <= limit
        BY <3>1 DEF Short
      <4> QED BY <1>7, <4>1, SumAtMost
    <3>3. \A v : Spent(q, v) = Count(s.toGive, v) /\ Gained(q, v) = Count(s.toReceive, v)
      BY <2>2, <3>2 DEF PairServes
    <3>4. Short(c, limit)
      <4>1. Len(s.toGive) + Len(s.give) <= limit /\ Len(s.toReceive) + Len(s.receive) <= limit
        BY <3>1 DEF Short
      <4>2. Len(c.toGive) = 0 /\ Len(c.toReceive) = 0 BY <2>1
      <4>3. Len(c.give) = Len(s.give) /\ Len(c.receive) = Len(s.receive) BY <1>2
      <4>5. Len(s.give) <= limit /\ Len(s.receive) <= limit BY <1>7, <4>1, SumAtMost
      <4> DEFINE g == Len(c.give)
                 h == Len(c.receive)
      <4>6. g \in Nat /\ h \in Nat /\ g <= limit /\ h <= limit BY <1>7, <4>3, <4>5
      <4> HIDE DEF g, h
      <4>7. 0 + g <= limit /\ 0 + h <= limit BY <4>6
      <4>4. Len(c.toGive) + Len(c.give) <= limit /\ Len(c.toReceive) + Len(c.receive) <= limit
        BY <4>2, <4>7 DEF g, h
      <4> QED BY <4>4 DEF Short
    <3>5. ASSUME NEW v
          PROVE  /\ Spent(c.swaps, v) + Count(c.toGive, v) + Count(c.give, v) = Count(give, v)
                 /\ Gained(c.swaps, v) + Count(c.toReceive, v) + Count(c.receive, v) = Count(receive, v)
      <4>1. /\ Spent(s.swaps, v) + Count(s.toGive, v) + Count(s.give, v) = Count(give, v)
            /\ Gained(s.swaps, v) + Count(s.toReceive, v) + Count(s.receive, v) = Count(receive, v)
        BY <3>1 DEF Accounted
      <4>2. /\ Spent(s.swaps, v) \in Nat /\ Count(s.toGive, v) \in Nat /\ Count(s.give, v) \in Nat
            /\ Gained(s.swaps, v) \in Nat /\ Count(s.toReceive, v) \in Nat /\ Count(s.receive, v) \in Nat
        BY <1>1, PairNumbers
      <4>3. /\ Spent(c.swaps, v) = Spent(s.swaps, v) + Count(s.toGive, v)
            /\ Gained(c.swaps, v) = Gained(s.swaps, v) + Count(s.toReceive, v)
        BY <2>8, <3>3
      <4>4. Count(c.toGive, v) = 0 /\ Count(c.toReceive, v) = 0 BY <2>10
      <4>5. Count(c.give, v) = Count(s.give, v) /\ Count(c.receive, v) = Count(s.receive, v) BY <1>2
      <4> QED BY <4>1, <4>2, <4>3, <4>4, <4>5
    <3>6. Accounted(c, give, receive) BY <3>5 DEF Accounted
    <3> QED BY <3>4, <3>6
  <2> QED BY <1>2, <2>11, <2>12, <2>13 DEF PairKeeps
<1> QED BY <1>3, <1>4

\* One leaf more on one side, and what is closed then.
GiveMoved(m, s) ==
  /\ ~ (Total(s.toGive) > Total(s.toReceive)) /\ s.give # <<>>
  /\ Moved(m.toGive, m.give, s.toGive, s.give)
  /\ m.receive = s.receive /\ m.toReceive = s.toReceive /\ m.swaps = s.swaps
ReceiveMoved(m, s) ==
  /\ Total(s.toGive) > Total(s.toReceive) /\ s.receive # <<>>
  /\ Moved(m.toReceive, m.receive, s.toReceive, s.receive)
  /\ m.give = s.give /\ m.toGive = s.toGive /\ m.swaps = s.swaps
Stuck(s) ==
  IF Total(s.toGive) > Total(s.toReceive) THEN s.receive = <<>> ELSE s.give = <<>>
PushedPair(t, s, limit) ==
  /\ t \in PairStates(limit)
  /\ \/ t = s /\ Stuck(s)
     \/ \E m \in PairStates(limit) : (GiveMoved(m, s) \/ ReceiveMoved(m, s)) /\ ClosedPair(t, m, limit)
\* PushPair moves one leaf and closes, or is stuck.
LEMMA PushPairIs ==
  ASSUME NEW limit \in Nat \ {0}, NEW s \in PairStates(limit)
  PROVE  PushedPair(PushPair(s, limit), s, limit)
<1> DEFINE t == PushPair(s, limit)
<1>1. /\ s.toGive \in Seq(Positive) /\ s.give \in Seq(Positive) /\ s.toReceive \in Seq(Positive)
      /\ s.receive \in Seq(Positive) /\ s.swaps \in Seq(Swaps(limit))
  BY DEF PairStates
<1>2. CASE Stuck(s)
  <2>1. t = s BY <1>2 DEF PushPair, Stuck
  <2> QED BY <1>2, <2>1 DEF PushedPair
<1>3. CASE ~ Stuck(s) /\ Total(s.toGive) > Total(s.toReceive)
  <2> DEFINE p == Append(s.toReceive, Head(s.receive))
             q == Tail(s.receive)
             m == [s EXCEPT !.toReceive = p, !.receive = q]
  <2>1. s.receive # <<>> BY <1>3 DEF Stuck
  <2>2. t = ClosePair(m, limit) BY <1>3, <2>1 DEF PushPair
  <2>3. p \in Seq(Positive) /\ q \in Seq(Positive)
    <3>1. Head(s.receive) \in Positive /\ q \in Seq(Positive) BY <1>1, <2>1, HeadTail
    <3> QED BY <1>1, <3>1
  <2>4. Moved(p, q, s.toReceive, s.receive) BY DEF Moved
  <2> HIDE DEF p, q, t
  <2>5. m \in PairStates(limit) BY <2>3 DEF PairStates
  <2>6. m.toReceive = p /\ m.receive = q /\ m.give = s.give /\ m.toGive = s.toGive /\ m.swaps = s.swaps
    BY DEF PairStates
  <2> HIDE DEF m
  <2>7. ClosedPair(t, m, limit) BY <2>2, <2>5, ClosePairIs
  <2>8. ReceiveMoved(m, s) BY <1>3, <2>1, <2>4, <2>6 DEF ReceiveMoved
  <2>9. t \in PairStates(limit) BY <2>7 DEF ClosedPair
  <2> QED BY <2>5, <2>7, <2>8, <2>9 DEF PushedPair, t
<1>4. CASE ~ Stuck(s) /\ ~ (Total(s.toGive) > Total(s.toReceive))
  <2> DEFINE p == Append(s.toGive, Head(s.give))
             q == Tail(s.give)
             m == [s EXCEPT !.toGive = p, !.give = q]
  <2>1. s.give # <<>> BY <1>4 DEF Stuck
  <2>2. t = ClosePair(m, limit) BY <1>4, <2>1 DEF PushPair
  <2>3. p \in Seq(Positive) /\ q \in Seq(Positive)
    <3>1. Head(s.give) \in Positive /\ q \in Seq(Positive) BY <1>1, <2>1, HeadTail
    <3> QED BY <1>1, <3>1
  <2>4. Moved(p, q, s.toGive, s.give) BY DEF Moved
  <2> HIDE DEF p, q, t
  <2>5. m \in PairStates(limit) BY <2>3 DEF PairStates
  <2>6. m.toGive = p /\ m.give = q /\ m.receive = s.receive /\ m.toReceive = s.toReceive /\ m.swaps = s.swaps
    BY DEF PairStates
  <2> HIDE DEF m
  <2>7. ClosedPair(t, m, limit) BY <2>2, <2>5, ClosePairIs
  <2>8. GiveMoved(m, s) BY <1>4, <2>1, <2>4, <2>6 DEF GiveMoved
  <2>9. t \in PairStates(limit) BY <2>7 DEF ClosedPair
  <2> QED BY <2>5, <2>7, <2>8, <2>9 DEF PushedPair, t
<1> QED BY <1>2, <1>3, <1>4

\* Moving a leaf keeps what is accounted for.
LEMMA MoveKeeps ==
  ASSUME NEW limit \in Nat \ {0}, NEW give \in Seq(Positive), NEW receive \in Seq(Positive),
         NEW s, PairKeeps(s, give, receive, limit), NEW m \in PairStates(limit),
         GiveMoved(m, s) \/ ReceiveMoved(m, s)
  PROVE  /\ PairKeeps(m, give, receive, limit)
         /\ Len(m.give) + Len(m.receive) = (Len(s.give) + Len(s.receive)) - 1
<1>1. s \in PairStates(limit) /\ Balanced(s) /\ WithinGive(s, give) BY DEF PairKeeps
<1>2. /\ s.toGive \in Seq(Positive) /\ s.give \in Seq(Positive) /\ s.toReceive \in Seq(Positive)
      /\ s.receive \in Seq(Positive)
  BY <1>1 DEF PairStates
<1> DEFINE Kept ==
      /\ Total(m.toGive) + Total(m.give) = Total(s.toGive) + Total(s.give)
      /\ Total(m.toReceive) + Total(m.receive) = Total(s.toReceive) + Total(s.receive)
      /\ \A v : /\ Count(m.toGive, v) + Count(m.give, v) = Count(s.toGive, v) + Count(s.give, v)
                /\ Count(m.toReceive, v) + Count(m.receive, v) = Count(s.toReceive, v) + Count(s.receive, v)
      /\ Len(m.toGive) + Len(m.give) = Len(s.toGive) + Len(s.give)
      /\ Len(m.toReceive) + Len(m.receive) = Len(s.toReceive) + Len(s.receive)
      /\ m.swaps = s.swaps
      /\ Len(m.give) + Len(m.receive) = (Len(s.give) + Len(s.receive)) - 1
<1>7. /\ Len(s.toGive) \in Nat /\ Len(s.give) \in Nat
      /\ Len(s.toReceive) \in Nat /\ Len(s.receive) \in Nat
  BY <1>1, PairNumbers
<1>3. ASSUME GiveMoved(m, s) PROVE Kept
  <2>1. /\ s.give # <<>> /\ Moved(m.toGive, m.give, s.toGive, s.give)
        /\ m.receive = s.receive /\ m.toReceive = s.toReceive /\ m.swaps = s.swaps
    BY <1>3 DEF GiveMoved
  <2>2. MovedAs(m.toGive, m.give, s.toGive, s.give) BY <1>2, <2>1, MoveIs
  <2>3. /\ Total(m.toGive) + Total(m.give) = Total(s.toGive) + Total(s.give)
        /\ \A v : Count(m.toGive, v) + Count(m.give, v) = Count(s.toGive, v) + Count(s.give, v)
        /\ Len(m.toGive) + Len(m.give) = Len(s.toGive) + Len(s.give) /\ Len(m.give) = Len(s.give) - 1
    BY <2>2 DEF MovedAs
  <2> DEFINE i == Len(s.give)
             j == Len(s.receive)
  <2>4. i \in Nat /\ j \in Nat /\ Len(m.give) = i - 1 /\ Len(m.receive) = j BY <1>7, <2>1, <2>3
  <2> HIDE DEF i, j
  <2>5. Len(m.give) + Len(m.receive) = (i + j) - 1 BY <2>4
  <2> QED BY <2>1, <2>3, <2>5 DEF i, j
<1>4. ASSUME ReceiveMoved(m, s) PROVE Kept
  <2>1. /\ s.receive # <<>> /\ Moved(m.toReceive, m.receive, s.toReceive, s.receive)
        /\ m.give = s.give /\ m.toGive = s.toGive /\ m.swaps = s.swaps
    BY <1>4 DEF ReceiveMoved
  <2>2. MovedAs(m.toReceive, m.receive, s.toReceive, s.receive) BY <1>2, <2>1, MoveIs
  <2>3. /\ Total(m.toReceive) + Total(m.receive) = Total(s.toReceive) + Total(s.receive)
        /\ \A v : Count(m.toReceive, v) + Count(m.receive, v) = Count(s.toReceive, v) + Count(s.receive, v)
        /\ Len(m.toReceive) + Len(m.receive) = Len(s.toReceive) + Len(s.receive) /\ Len(m.receive) = Len(s.receive) - 1
    BY <2>2 DEF MovedAs
  <2> DEFINE i == Len(s.give)
             j == Len(s.receive)
  <2>4. i \in Nat /\ j \in Nat /\ Len(m.give) = i /\ Len(m.receive) = j - 1 BY <1>7, <2>1, <2>3
  <2> HIDE DEF i, j
  <2>5. Len(m.give) + Len(m.receive) = (i + j) - 1 BY <2>4
  <2> QED BY <2>1, <2>3, <2>5 DEF i, j
<1>5. Kept BY <1>3, <1>4
<1>6. Balanced(m) BY <1>1, <1>5 DEF Balanced
<1>8. ASSUME NEW v
      PROVE  /\ Spent(m.swaps, v) + Count(m.toGive, v) + Count(m.give, v)
                  = Spent(s.swaps, v) + Count(s.toGive, v) + Count(s.give, v)
             /\ Gained(m.swaps, v) + Count(m.toReceive, v) + Count(m.receive, v)
                  = Gained(s.swaps, v) + Count(s.toReceive, v) + Count(s.receive, v)
  <2>1. /\ Spent(s.swaps, v) \in Nat /\ Count(s.toGive, v) \in Nat /\ Count(s.give, v) \in Nat
        /\ Gained(s.swaps, v) \in Nat /\ Count(s.toReceive, v) \in Nat /\ Count(s.receive, v) \in Nat
    BY <1>1, PairNumbers
  <2>2. /\ Count(m.toGive, v) \in Nat /\ Count(m.give, v) \in Nat
        /\ Count(m.toReceive, v) \in Nat /\ Count(m.receive, v) \in Nat
    BY PairNumbers
  <2>3. /\ Count(m.toGive, v) + Count(m.give, v) = Count(s.toGive, v) + Count(s.give, v)
        /\ Count(m.toReceive, v) + Count(m.receive, v) = Count(s.toReceive, v) + Count(s.receive, v)
    BY <1>5
  <2>4. Spent(m.swaps, v) = Spent(s.swaps, v) /\ Gained(m.swaps, v) = Gained(s.swaps, v)
    <3>1. m.swaps = s.swaps BY <1>5
    <3> QED BY <3>1
  <2>5. Spent(s.swaps, v) + Count(m.toGive, v) + Count(m.give, v)
             = Spent(s.swaps, v) + Count(s.toGive, v) + Count(s.give, v)
    <3> DEFINE k == Spent(s.swaps, v)
               i == Count(m.toGive, v)
               j == Count(m.give, v)
               x == Count(s.toGive, v)
               y == Count(s.give, v)
    <3>1. k \in Nat /\ i \in Nat /\ j \in Nat /\ x \in Nat /\ y \in Nat BY <2>1, <2>2
    <3>2. i + j = x + y BY <2>3
    <3> HIDE DEF k, i, j, x, y
    <3>3. k + i + j = k + x + y BY <3>1, <3>2
    <3> QED BY <3>3 DEF k, i, j, x, y
  <2>6. Gained(s.swaps, v) + Count(m.toReceive, v) + Count(m.receive, v)
             = Gained(s.swaps, v) + Count(s.toReceive, v) + Count(s.receive, v)
    <3> DEFINE k == Gained(s.swaps, v)
               i == Count(m.toReceive, v)
               j == Count(m.receive, v)
               x == Count(s.toReceive, v)
               y == Count(s.receive, v)
    <3>1. k \in Nat /\ i \in Nat /\ j \in Nat /\ x \in Nat /\ y \in Nat BY <2>1, <2>2
    <3>2. i + j = x + y BY <2>3
    <3> HIDE DEF k, i, j, x, y
    <3>3. k + i + j = k + x + y BY <3>1, <3>2
    <3> QED BY <3>3 DEF k, i, j, x, y
  <2> QED BY <2>4, <2>5, <2>6
<1>9. WithinGive(m, give) BY <1>1, <1>8 DEF WithinGive
<1>10. ASSUME Len(give) <= limit /\ Len(receive) <= limit
       PROVE  Short(m, limit) /\ Accounted(m, give, receive)
  <2>1. Short(s, limit) /\ Accounted(s, give, receive) BY <1>10 DEF PairKeeps
  <2>2. Accounted(m, give, receive) BY <1>8, <2>1 DEF Accounted
  <2>3. Short(m, limit) BY <1>5, <2>1 DEF Short
  <2> QED BY <2>2, <2>3
<1> HIDE DEF Kept
<1>11. PairKeeps(m, give, receive, limit) BY <1>6, <1>9, <1>10 DEF PairKeeps
<1> QED BY <1>5, <1>11 DEF Kept

\* All leaves paired up.
Done(s) == s.give = <<>> /\ s.receive = <<>> /\ s.toGive = <<>> /\ s.toReceive = <<>>

\* Nothing is stuck before all leaves are paired up.
LEMMA StuckIsDone ==
  ASSUME NEW limit, NEW s \in PairStates(limit), Balanced(s), Apart(s), Stuck(s)
  PROVE  Done(s)
<1>1. /\ s.toGive \in Seq(Positive) /\ s.give \in Seq(Positive) /\ s.toReceive \in Seq(Positive)
      /\ s.receive \in Seq(Positive)
  BY DEF PairStates
<1>2. /\ Total(s.toGive) \in Nat /\ Total(s.give) \in Nat
      /\ Total(s.toReceive) \in Nat /\ Total(s.receive) \in Nat
  BY PairNumbers
<1>3. Total(s.toGive) + Total(s.give) = Total(s.toReceive) + Total(s.receive) BY DEF Balanced
<1>4. ~ (Total(s.toGive) > Total(s.toReceive))
  <2> SUFFICES ASSUME Total(s.toGive) > Total(s.toReceive) PROVE FALSE OBVIOUS
  <2>1. s.receive = <<>> BY DEF Stuck
  <2>2. Total(s.receive) = 0 BY <2>1, NoneCounts
  <2> QED BY <1>2, <1>3, <2>2
<1>5. s.give = <<>> BY <1>4 DEF Stuck
<1>6. Total(s.give) = 0 BY <1>5, NoneCounts
<1>7. Total(s.receive) = 0 /\ Total(s.toGive) = Total(s.toReceive) BY <1>2, <1>3, <1>4, <1>6
<1>8. s.receive = <<>> BY <1>1, <1>7, WorthSomething
<1>9. s.toGive = <<>> /\ s.toReceive = <<>> BY <1>7 DEF Apart
<1> QED BY <1>5, <1>8, <1>9 DEF Done

\* A state after i leaves, and the next.
PairInv(s, give, receive, limit, i) ==
  /\ PairKeeps(s, give, receive, limit) /\ Apart(s)
  /\ Done(s) \/ Len(s.give) + Len(s.receive) = (Len(give) + Len(receive)) - i
\* PushPair keeps it.
LEMMA PushKeeps ==
  ASSUME NEW limit \in Nat \ {0}, NEW give \in Seq(Positive), NEW receive \in Seq(Positive),
         NEW i \in Nat, NEW s, PairInv(s, give, receive, limit, i)
  PROVE  PairInv(PushPair(s, limit), give, receive, limit, i + 1)
<1>1. PairKeeps(s, give, receive, limit) /\ Apart(s) BY DEF PairInv
<1>2. s \in PairStates(limit) /\ Balanced(s) BY <1>1 DEF PairKeeps
<1>3. PICK t : t = PushPair(s, limit) OBVIOUS
<1>4. PushedPair(t, s, limit) BY <1>2, <1>3, PushPairIs
<1>5. CASE t = s /\ Stuck(s)
  <2>1. Done(s) BY <1>1, <1>2, <1>5, StuckIsDone
  <2> QED BY <1>1, <1>3, <1>5, <2>1 DEF PairInv
<1>6. CASE \E m \in PairStates(limit) : (GiveMoved(m, s) \/ ReceiveMoved(m, s)) /\ ClosedPair(t, m, limit)
  <2>1. PICK m \in PairStates(limit) : (GiveMoved(m, s) \/ ReceiveMoved(m, s)) /\ ClosedPair(t, m, limit) BY <1>6
  <2>2. /\ PairKeeps(m, give, receive, limit)
        /\ Len(m.give) + Len(m.receive) = (Len(s.give) + Len(s.receive)) - 1
    BY <1>1, <2>1, MoveKeeps
  <2>3. PairKeeps(t, give, receive, limit) BY <2>1, <2>2, CloseKeeps
  <2>4. Apart(t) /\ t.give = m.give /\ t.receive = m.receive BY <2>1 DEF ClosedPair
  <2>5. ~ Done(s) BY <2>1 DEF Done, GiveMoved, ReceiveMoved
  <2>6. Len(s.give) + Len(s.receive) = (Len(give) + Len(receive)) - i BY <2>5 DEF PairInv
  <2> DEFINE x == Len(s.give) + Len(s.receive)
             n == Len(give) + Len(receive)
             y == Len(t.give) + Len(t.receive)
  <2>7. n \in Nat BY LenProperties
  <2>10. Len(t.give) + Len(t.receive) = (Len(s.give) + Len(s.receive)) - 1 BY <2>2, <2>4
  <2>8. x = n - i /\ y = x - 1 BY <2>6, <2>10
  <2> HIDE DEF x, n, y
  <2>9. y = n - (i + 1) BY <2>7, <2>8
  <2>11. Len(t.give) + Len(t.receive) = (Len(give) + Len(receive)) - (i + 1) BY <2>9 DEF n, y
  <2>12. Apart(t) BY <2>4
  <2>13. PairInv(t, give, receive, limit, i + 1) BY <2>3, <2>11, <2>12 DEF PairInv
  <2> QED BY <1>3, <2>13
<1> QED BY <1>4, <1>5, <1>6 DEF PushedPair

\* The pairing as the recursive function FoldLeft evaluates.
PairStart(give, receive) ==
  [give |-> give, receive |-> receive, toGive |-> <<>>, toReceive |-> <<>>, swaps |-> <<>>]
PairSteps(g, give, receive, limit, z) ==
  g = [T \in SUBSET DOMAIN z |->
         IF T = {} THEN PairStart(give, receive) ELSE PushPair(g[T \ {Max(T)}], limit)]

\* Paired is that function's value.
LEMMA PairUnfolds ==
  ASSUME NEW give, NEW receive, NEW limit, NEW z, z = [k \in 1..(Len(give) + Len(receive)) |-> k]
  PROVE  Paired(give, receive, limit) = (CHOOSE g : PairSteps(g, give, receive, limit, z))[DOMAIN z]
BY DEF Paired, FoldLeft, MapThenFoldSet, PairSteps, PairStart

\* w[i] is the state after i leaves.
PairsOf(w, give, receive, limit, n, end) ==
  /\ w \in [0..n -> PairStates(limit)]
  /\ w[0] = PairStart(give, receive)
  /\ \A i \in 1..n : w[i] = PushPair(w[i - 1], limit)
  /\ end = w[n]

\* At the start nothing is taken.
LEMMA StartIs ==
  ASSUME NEW limit, NEW give \in Seq(Positive), NEW receive \in Seq(Positive)
  PROVE  PairStart(give, receive) \in PairStates(limit)
<1> DEFINE e == <<>>
<1>1. e \in Seq(Positive) /\ e \in Seq(Swaps(limit)) OBVIOUS
<1>2. PairStart(give, receive) = [give |-> give, receive |-> receive, toGive |-> e, toReceive |-> e, swaps |-> e]
  BY DEF PairStart
<1> HIDE DEF e
<1> QED BY <1>1, <1>2 DEF PairStates

\* There are such states, and Paired is the last.
LEMMA PairsAre ==
  ASSUME NEW n \in Nat, NEW give \in Seq(Positive), NEW receive \in Seq(Positive),
         n = Len(give) + Len(receive), NEW limit \in Nat \ {0}
  PROVE  \E w : PairsOf(w, give, receive, limit, n, Paired(give, receive, limit))
<1> DEFINE D == 1..n
           V == PairStates(limit)
           b == PairStart(give, receive)
           z == [k \in 1..n |-> k]
           H == [p \in D \X V |-> PushPair(p[2], limit)]
<1>1. H \in [D \X V -> V]
  <2>1. ASSUME NEW s \in V PROVE PushPair(s, limit) \in V
    BY PushPairIs DEF PushedPair
  <2>2. \A p \in D \X V : p[2] \in V OBVIOUS
  <2> HIDE DEF V, D
  <2> QED BY <2>1, <2>2
<1>2. b \in V BY StartIs
<1>3. \A k \in D, v \in V : H[<<k, v>>] = PushPair(v, limit) OBVIOUS
<1>0. D = 1..n OBVIOUS
<1>19. b = PairStart(give, receive) OBVIOUS
<1>6. DOMAIN z = D OBVIOUS
<1>16. Paired(give, receive, limit) = (CHOOSE g : PairSteps(g, give, receive, limit, z))[DOMAIN z] BY PairUnfolds
<1> HIDE DEF D, V, H, b, z
<1>4. PICK f \in [SUBSET D -> V] : Folds(f, D, b, H)
  BY <1>0, <1>1, <1>2, FoldExists
<1>5. ASSUME NEW T \in SUBSET D
      PROVE  f[T] = IF T = {} THEN b ELSE PushPair(f[T \ {Max(T)}], limit)
  <2>1. CASE T = {} BY <1>4, <2>1 DEF Folds
  <2>2. CASE T # {}
    <3>1. Max(T) \in D BY <2>2, <1>0, MaxIn
    <3>2. f[T \ {Max(T)}] \in V BY <1>4
    <3> QED BY <1>3, <1>4, <2>2, <3>1, <3>2 DEF Folds
  <2> QED BY <2>1, <2>2
<1>7. PairSteps(f, give, receive, limit, z) BY <1>4, <1>5, <1>6, <1>19 DEF PairSteps
<1> DEFINE g == CHOOSE g : PairSteps(g, give, receive, limit, z)
<1>8. PairSteps(g, give, receive, limit, z) BY <1>7
<1>9. Paired(give, receive, limit) = g[D] BY <1>6, <1>16
<1> HIDE DEF g
<1>10. g[{}] = b BY <1>8, <1>19 DEF PairSteps
<1>11. ASSUME NEW T \in SUBSET D, T # {}, g[T \ {Max(T)}] \in V
       PROVE  g[T] = H[<<Max(T), g[T \ {Max(T)}]>>]
  <2>1. Max(T) \in D BY <1>11, <1>0, MaxIn
  <2>2. g[T] = PushPair(g[T \ {Max(T)}], limit) BY <1>6, <1>8, <1>11 DEF PairSteps
  <2> QED BY <1>3, <1>11, <2>1, <2>2
<1>15. FoldsWithin(g, D, V, b, H) BY <1>10, <1>11 DEF FoldsWithin
<1>12. PICK w : FoldSteps(w, n, V, b, H, g[D])
  BY <1>0, <1>1, <1>2, <1>15, FoldPrefixes
<1>13. \A k \in D : w[k - 1] \in V
  <2>1. w \in [0..n -> V] BY <1>12 DEF FoldSteps
  <2>2. \A k \in D : k - 1 \in 0..n BY <1>0
  <2> QED BY <2>1, <2>2
<1>14. \A k \in D : w[k] = PushPair(w[k - 1], limit) BY <1>0, <1>3, <1>12, <1>13 DEF FoldSteps
<1> QED BY <1>0, <1>9, <1>12, <1>14, <1>19 DEF V, FoldSteps, PairsOf

\* After i leaves.
LEMMA PairsKeep ==
  ASSUME NEW n \in Nat, NEW give \in Seq(Positive), NEW receive \in Seq(Positive),
         NEW limit \in Nat \ {0}, Total(give) = Total(receive), NEW w, NEW end,
         n = Len(give) + Len(receive), PairsOf(w, give, receive, limit, n, end)
  PROVE  \A i \in 0..n : PairInv(w[i], give, receive, limit, i)
<1> DEFINE Bad == {i \in 0..n : ~ PairInv(w[i], give, receive, limit, i)}
<1> SUFFICES ASSUME Bad # {} PROVE FALSE OBVIOUS
<1>1. Bad \subseteq Nat OBVIOUS
<1> HIDE DEF Bad
<1>2. PICK i \in Bad : \A j \in Bad : i <= j BY <1>1, LeastNat
<1>3. i \in 0..n /\ ~ PairInv(w[i], give, receive, limit, i) BY DEF Bad
<1>4. CASE i = 0
  <2>1. PICK s : s = PairStart(give, receive) OBVIOUS
  <2>2. s.give = give /\ s.receive = receive /\ s.toGive = <<>> /\ s.toReceive = <<>> /\ s.swaps = <<>>
    BY <2>1 DEF PairStart
  <2>3. s \in PairStates(limit) BY <2>1, StartIs
  <2>4. Total(s.toGive) = 0 /\ Total(s.toReceive) = 0 /\ \A v : Count(s.toGive, v) = 0 /\ Count(s.toReceive, v) = 0
    BY <2>2, NoneCounts
  <2>5. \A v : Spent(s.swaps, v) = 0 /\ Gained(s.swaps, v) = 0 BY <2>2, NoPlan
  <2>6. Len(s.toGive) = 0 /\ Len(s.toReceive) = 0 BY <2>2
  <2>7. Balanced(s) BY <2>2, <2>4 DEF Balanced
  <2>8. \A v : Count(s.give, v) \in Nat /\ Count(s.receive, v) \in Nat BY <2>3, PairNumbers
  <2>9. ASSUME NEW v
        PROVE  /\ Spent(s.swaps, v) + Count(s.toGive, v) + Count(s.give, v) = Count(give, v)
               /\ Gained(s.swaps, v) + Count(s.toReceive, v) + Count(s.receive, v) = Count(receive, v)
               /\ Spent(s.swaps, v) + Count(s.toGive, v) + Count(s.give, v) <= Count(give, v)
    <3>1. Count(give, v) \in Nat /\ Count(receive, v) \in Nat BY <2>2, <2>8
    <3>2. Spent(s.swaps, v) = 0 /\ Gained(s.swaps, v) = 0 /\ Count(s.toGive, v) = 0 /\ Count(s.toReceive, v) = 0
      BY <2>4, <2>5
    <3>3. Count(s.give, v) = Count(give, v) /\ Count(s.receive, v) = Count(receive, v) BY <2>2
    <3> QED BY <3>1, <3>2, <3>3
  <2>10. WithinGive(s, give) /\ Accounted(s, give, receive) BY <2>9 DEF WithinGive, Accounted
  <2>11. ASSUME Len(give) <= limit /\ Len(receive) <= limit PROVE Short(s, limit)
    <3> DEFINE x == Len(give)
               y == Len(receive)
    <3>1. x \in Nat /\ y \in Nat /\ x <= limit /\ y <= limit BY <2>11, LenProperties
    <3> HIDE DEF x, y
    <3>2. 0 + x <= limit /\ 0 + y <= limit BY <3>1
    <3>3. Len(s.give) = x /\ Len(s.receive) = y BY <2>2 DEF x, y
    <3> QED BY <2>6, <3>2, <3>3 DEF Short
  <2>12. PairKeeps(s, give, receive, limit) BY <2>3, <2>7, <2>10, <2>11 DEF PairKeeps
  <2>13. Apart(s) BY <2>2 DEF Apart
  <2>14. Len(s.give) + Len(s.receive) = (Len(give) + Len(receive)) - 0
    <3> DEFINE x == Len(give) + Len(receive)
    <3>1. x \in Nat /\ x = n OBVIOUS
    <3>2. Len(s.give) + Len(s.receive) = x BY <2>2
    <3> HIDE DEF x
    <3>3. x = x - 0 BY <3>1
    <3> QED BY <3>2, <3>3 DEF x
  <2>15. PairInv(s, give, receive, limit, 0) BY <2>12, <2>13, <2>14 DEF PairInv
  <2>16. w[0] = s BY <2>1 DEF PairsOf
  <2> QED BY <1>3, <1>4, <2>15, <2>16
<1>5. CASE i # 0
  <2>1. i \in 1..n /\ i - 1 \in 0..n /\ i - 1 \notin Bad BY <1>2, <1>3, <1>5
  <2>2. PairInv(w[i - 1], give, receive, limit, i - 1) BY <2>1 DEF Bad
  <2>3. w[i] = PushPair(w[i - 1], limit) BY <2>1 DEF PairsOf
  <2> DEFINE j == i - 1
  <2>4. j \in Nat /\ j + 1 = i BY <2>1
  <2>5. PairInv(w[j], give, receive, limit, j) /\ w[i] = PushPair(w[j], limit) BY <2>2, <2>3
  <2> HIDE DEF j
  <2>6. PairInv(PushPair(w[j], limit), give, receive, limit, j + 1) BY <2>4, <2>5, PushKeeps
  <2> QED BY <1>3, <2>4, <2>5, <2>6
<1> QED BY <1>4, <1>5

\* What the pairing of two lists of one amount comes to.
LEMMA PairedIs ==
  ASSUME NEW give \in Seq(Positive), NEW receive \in Seq(Positive), Total(give) = Total(receive),
         NEW limit \in Nat \ {0}
  PROVE  PairServes(Paired(give, receive, limit).swaps, give, receive, limit)
<1>1. PICK n : n = Len(give) + Len(receive) OBVIOUS
<1>2. n \in Nat BY <1>1, LenProperties
<1>3. PICK s : s = Paired(give, receive, limit) OBVIOUS
<1>4. PICK w : PairsOf(w, give, receive, limit, n, s) BY <1>1, <1>2, <1>3, PairsAre
<1>5. \A i \in 0..n : PairInv(w[i], give, receive, limit, i) BY <1>1, <1>2, <1>4, PairsKeep
<1>6. s = w[n] /\ n \in 0..n BY <1>2, <1>4 DEF PairsOf
<1>7. PairInv(s, give, receive, limit, n) BY <1>5, <1>6
<1>8. PairKeeps(s, give, receive, limit) /\ Apart(s) BY <1>7 DEF PairInv
<1>9. s \in PairStates(limit) /\ Balanced(s) /\ WithinGive(s, give) BY <1>8 DEF PairKeeps
<1>10. Done(s)
  <2> SUFFICES ASSUME ~ Done(s) PROVE FALSE OBVIOUS
  <2>1. Len(s.give) + Len(s.receive) = n - n BY <1>1, <1>7 DEF PairInv
  <2> DEFINE x == Len(s.give)
             y == Len(s.receive)
  <2>2. x \in Nat /\ y \in Nat /\ x + y = n - n BY <1>9, <2>1, PairNumbers
  <2> HIDE DEF x, y
  <2>3. x = 0 /\ y = 0 BY <1>2, <2>2
  <2>4. s.give \in Seq(Positive) /\ s.receive \in Seq(Positive) BY <1>9 DEF PairStates
  <2>5. s.give = <<>> /\ s.receive = <<>> BY <2>3, <2>4, WorthSomething DEF x, y
  <2>6. Stuck(s) BY <2>5 DEF Stuck
  <2> QED BY <1>8, <1>9, <2>6, StuckIsDone
<1>11. \A v : Count(s.toGive, v) = 0 /\ Count(s.give, v) = 0 /\ Count(s.toReceive, v) = 0 /\ Count(s.receive, v) = 0
  BY <1>10, NoneCounts DEF Done
<1>12. \A v : Spent(s.swaps, v) \in Nat /\ Gained(s.swaps, v) \in Nat BY <1>9, PairNumbers
<1>13. \A v : Spent(s.swaps, v) <= Count(give, v)
  <2> TAKE v
  <2>1. Spent(s.swaps, v) + Count(s.toGive, v) + Count(s.give, v) <= Count(give, v) BY <1>9 DEF WithinGive
  <2>2. Spent(s.swaps, v) \in Nat /\ Count(s.toGive, v) = 0 /\ Count(s.give, v) = 0 BY <1>11, <1>12
  <2>3. Spent(s.swaps, v) + Count(s.toGive, v) + Count(s.give, v) = Spent(s.swaps, v) BY <2>2
  <2> QED BY <2>1, <2>3
<1>14. ASSUME Len(give) <= limit /\ Len(receive) <= limit
       PROVE  \A v : Spent(s.swaps, v) = Count(give, v) /\ Gained(s.swaps, v) = Count(receive, v)
  <2> TAKE v
  <2>1. Accounted(s, give, receive) BY <1>8, <1>14 DEF PairKeeps
  <2>2. /\ Spent(s.swaps, v) + Count(s.toGive, v) + Count(s.give, v) = Count(give, v)
        /\ Gained(s.swaps, v) + Count(s.toReceive, v) + Count(s.receive, v) = Count(receive, v)
    BY <2>1 DEF Accounted
  <2>3. /\ Spent(s.swaps, v) \in Nat /\ Count(s.toGive, v) = 0 /\ Count(s.give, v) = 0
        /\ Gained(s.swaps, v) \in Nat /\ Count(s.toReceive, v) = 0 /\ Count(s.receive, v) = 0
    BY <1>11, <1>12
  <2> QED BY <2>2, <2>3
<1>15. s.swaps \in Seq(Swaps(limit)) BY <1>9 DEF PairStates
<1>16. PairServes(s.swaps, give, receive, limit) BY <1>13, <1>14, <1>15 DEF PairServes
<1> QED BY <1>3, <1>16

-----------------------------------------------------------------------------
(***************************************************************************)
(* The plans of the optimizer are sound.                                   *)
(***************************************************************************)
\* No more than there are leaves.
LEMMA SurplusLength ==
  ASSUME NEW a \in Seq(Positive), NEW b
  PROVE  Len(Surplus(a, b)) <= Len(a)
<1> DEFINE n == Len(a)
           z == ascending(a)
           s == Surplus(a, b)
<1>1. z \in Seq(Positive) /\ Len(z) = n BY SortedPositive
<1>2. n \in Nat BY LenProperties
<1>3. z \in [1..n -> Positive] BY <1>1, LenProperties
<1>4. PICK w : SurplusOf(w, a, b, z, s) BY <1>2, <1>3, SurplusesAre
<1> HIDE DEF z, s, n
<1>5. /\ w \in [0..n -> Seq(Positive)] /\ w[0] = <<>> /\ s = w[n]
      /\ \A i \in 1..n : w[i] = SurplusMore(w[i - 1], z[i], a, b)
  BY <1>1, <1>4 DEF SurplusOf
<1> DEFINE Bad == {i \in 0..n : ~ (Len(w[i]) <= i)}
<1>6. Bad = {}
  <2> SUFFICES ASSUME Bad # {} PROVE FALSE OBVIOUS
  <2>1. Bad \subseteq Nat OBVIOUS
  <2> HIDE DEF Bad
  <2>2. PICK i \in Bad : \A j \in Bad : i <= j BY <2>1, LeastNat
  <2>3. i \in 0..n /\ ~ (Len(w[i]) <= i) BY DEF Bad
  <2>4. CASE i = 0
    <3>1. Len(w[0]) = 0 BY <1>5
    <3> QED BY <2>3, <2>4, <3>1
  <2>5. CASE i # 0
    <3>1. i \in 1..n /\ i - 1 \in 0..n /\ i - 1 \notin Bad BY <1>2, <2>2, <2>3, <2>5
    <3>2. Len(w[i - 1]) <= i - 1 BY <3>1 DEF Bad
    <3>3. PICK t : t = w[i - 1] OBVIOUS
    <3>4. t \in Seq(Positive) /\ z[i] \in Positive BY <1>3, <1>5, <3>1, <3>3
    <3>5. w[i] = t \/ w[i] = Append(t, z[i]) BY <1>5, <3>1, <3>3 DEF SurplusMore
    <3>6. Len(t) \in Nat /\ Len(t) <= i - 1 BY <3>2, <3>3, <3>4, LenProperties
    <3>7. Len(Append(t, z[i])) = Len(t) + 1 BY <3>4
    <3>8. Len(w[i]) = Len(t) \/ Len(w[i]) = Len(t) + 1 BY <3>5, <3>7
    <3>9. Len(w[i]) <= i BY <2>3, <3>6, <3>8
    <3> QED BY <2>3, <3>9
  <2> QED BY <2>4, <2>5
<1>7. n \in 0..n BY <1>2
<1>8. Len(w[n]) <= n BY <1>6, <1>7
<1> QED BY <1>5, <1>8 DEF s, n

\* The plans for fewer swaps in transfers.
LEMMA TransferPlanIs ==
  ASSUME NEW leaves \in Seq(Positive), NEW multiplicity \in Nat, NEW limit \in Nat \ {0},
         NEW optimal, optimal = swapMinimizingLeaves(Total(leaves), multiplicity)
  PROVE  /\ PlanServes(minimizeTransferSwap(leaves, multiplicity, limit), leaves, optimal, limit)
         /\ \/ ~ (Len(leaves) <= limit /\ Len(optimal) <= limit)
            \/ PlanArrives(minimizeTransferSwap(leaves, multiplicity, limit), leaves, optimal)
<1> DEFINE give == Surplus(leaves, optimal)
           receive == Surplus(optimal, leaves)
           plan == minimizeTransferSwap(leaves, multiplicity, limit)
<1>1. leaves \in Seq(Nat) BY PositiveSeq
<1>2. Total(leaves) \in Nat BY <1>1, SeqTotal
<1>3. optimal \in Seq(Positive) /\ Total(optimal) = Total(leaves) BY <1>2, OptimalIs
<1>4. plan = Paired(give, receive, limit).swaps BY DEF minimizeTransferSwap
<1>5. give \in Seq(Positive) /\ \A v : Count(give, v) = Excess(leaves, optimal, v) BY <1>3, SurplusIs
<1>6. receive \in Seq(Positive) /\ \A v : Count(receive, v) = Excess(optimal, leaves, v) BY <1>3, SurplusIs
<1>7. Total(give) = Total(receive) BY <1>3, SurplusesEqual
<1>8. Len(give) <= Len(leaves) /\ Len(receive) <= Len(optimal) BY <1>3, SurplusLength
<1> HIDE DEF give, receive, plan
<1>9. PairServes(plan, give, receive, limit) BY <1>4, <1>5, <1>6, <1>7, PairedIs
<1>10. optimal \in Seq(Nat) BY <1>3, PositiveSeq
<1>11. \A v : Count(leaves, v) \in Nat /\ Count(optimal, v) \in Nat BY <1>1, <1>10, SeqTotal
<1>12. plan \in Seq(Swaps(limit)) /\ \A v : Spent(plan, v) <= Count(give, v) BY <1>9 DEF PairServes
<1>13. \A v : Spent(plan, v) \in Nat BY <1>12, PlanNumbers, SpentIs
<1>14. ASSUME NEW v PROVE Spent(plan, v) <= Count(leaves, v)
  <2>1. Spent(plan, v) <= Excess(leaves, optimal, v) BY <1>5, <1>12
  <2>2. Count(leaves, v) \in Nat /\ Count(optimal, v) \in Nat /\ Spent(plan, v) \in Nat BY <1>11, <1>13
  <2>3. Excess(leaves, optimal, v) <= Count(leaves, v) /\ Excess(leaves, optimal, v) \in Nat BY <2>2 DEF Excess
  <2> QED BY <2>1, <2>2, <2>3
<1>15. PlanServes(plan, leaves, optimal, limit) BY <1>12, <1>14 DEF PlanServes
<1>16. ASSUME Len(leaves) <= limit /\ Len(optimal) <= limit PROVE PlanArrives(plan, leaves, optimal)
  <2>1. Len(give) <= limit /\ Len(receive) <= limit
    <3> DEFINE w == Len(leaves)
               x == Len(optimal)
               y == Len(give)
               z == Len(receive)
    <3>1. w \in Nat /\ x \in Nat /\ y \in Nat /\ z \in Nat BY <1>3, <1>5, <1>6, LenProperties
    <3>2. y <= w /\ z <= x /\ w <= limit /\ x <= limit BY <1>8, <1>16
    <3> HIDE DEF w, x, y, z
    <3>3. y <= limit /\ z <= limit BY <3>1, <3>2
    <3> QED BY <3>3 DEF y, z
  <2>2. \A v : Spent(plan, v) = Count(give, v) /\ Gained(plan, v) = Count(receive, v)
    BY <1>9, <2>1 DEF PairServes
  <2>3. ASSUME NEW v PROVE Count(leaves, v) - Spent(plan, v) + Gained(plan, v) = Count(optimal, v)
    <3>1. Spent(plan, v) = Excess(leaves, optimal, v) /\ Gained(plan, v) = Excess(optimal, leaves, v)
      BY <1>5, <1>6, <2>2
    <3>2. Count(leaves, v) \in Nat /\ Count(optimal, v) \in Nat BY <1>11
    <3> QED BY <3>1, <3>2 DEF Excess
  <2> QED BY <2>3 DEF PlanArrives
<1> QED BY <1>15, <1>16 DEF plan

\* What is said of plans follows.
LEMMA ServingIsSound ==
  ASSUME NEW leaves, NEW multiplicity, NEW limit, NEW plan, NEW optimal,
         plan = optimize(leaves, multiplicity, limit),
         optimal = IF multiplicity = 0 THEN greedyLeaves[Total(leaves)]
                   ELSE swapMinimizingLeaves(Total(leaves), multiplicity),
         PlanServes(plan, leaves, optimal, limit),
         ~ Uncut(leaves, optimal, multiplicity, limit) \/ PlanArrives(plan, leaves, optimal)
  PROVE  PlanIsSound(leaves, multiplicity, limit)
<1>1. ASSUME NEW k \in DOMAIN plan
      PROVE  Total(plan[k].inLeaves) = Total(plan[k].outLeaves) /\ Len(plan[k].inLeaves) <= limit
  <2>1. plan \in Seq(Swaps(limit)) BY DEF PlanServes
  <2>2. plan[k] \in Swaps(limit) BY <2>1, LenProperties
  <2> QED BY <2>2 DEF Swaps
<1>2. \A v : Spent(plan, v) <= Count(leaves, v) BY DEF PlanServes
<1>3. Uncut(leaves, optimal, multiplicity, limit) =>
        \A v : Count(leaves, v) - Spent(plan, v) + Gained(plan, v) = Count(optimal, v)
  BY DEF PlanArrives
<1> QED BY <1>1, <1>2, <1>3 DEF PlanIsSound

\* A plan for any leaves is sound.
LEMMA PlanSound ==
  ASSUME NEW leaves \in Seq(Positive), NEW multiplicity \in Nat, NEW limit \in Nat \ {0}
  PROVE  PlanIsSound(leaves, multiplicity, limit)
<1>1. CASE multiplicity = 0
  <2>1. PICK plan : plan = maximizeUnilateralExit(leaves, limit) OBVIOUS
  <2>2. PICK optimal : optimal = greedyLeaves[Total(leaves)] OBVIOUS
  <2>3. /\ PlanServes(plan, leaves, optimal, limit)
        /\ ExitCuts(ascending(leaves), Len(leaves), limit) \/ PlanArrives(plan, leaves, optimal)
    BY <2>1, <2>2, ExitPlanIs
  <2>4. ~ Uncut(leaves, optimal, multiplicity, limit) \/ ~ ExitCuts(ascending(leaves), Len(leaves), limit)
    BY <1>1 DEF Uncut, ExitCuts
  <2>5. plan = optimize(leaves, multiplicity, limit) BY <1>1, <2>1 DEF optimize
  <2> QED BY <1>1, <2>2, <2>3, <2>4, <2>5, ServingIsSound
<1>2. CASE multiplicity # 0
  <2>1. PICK plan : plan = minimizeTransferSwap(leaves, multiplicity, limit) OBVIOUS
  <2>2. PICK optimal : optimal = swapMinimizingLeaves(Total(leaves), multiplicity) OBVIOUS
  <2>3. /\ PlanServes(plan, leaves, optimal, limit)
        /\ ~ (Len(leaves) <= limit /\ Len(optimal) <= limit) \/ PlanArrives(plan, leaves, optimal)
    BY <2>1, <2>2, TransferPlanIs
  <2>4. Uncut(leaves, optimal, multiplicity, limit) <=> Len(leaves) <= limit /\ Len(optimal) <= limit
    BY <1>2 DEF Uncut
  <2>5. plan = optimize(leaves, multiplicity, limit) BY <1>2, <2>1 DEF optimize
  <2> QED BY <1>2, <2>2, <2>3, <2>4, <2>5, ServingIsSound
<1> QED BY <1>1, <1>2

\* The plans for the wallet are sound.
LEMMA WalletPlans == WalletOK => PlansAreSound
<1> SUFFICES ASSUME WalletOK PROVE PlansAreSound OBVIOUS
<1>1. PICK n \in Nat : wallet \in [1..n -> Nat \ {0}] BY DEF WalletOK
<1>2. wallet \in Seq(Positive) BY <1>1 DEF Positive
<1> SUFFICES ASSUME NEW limit \in Limits, NEW multiplicity \in 0..2
             PROVE  PlanIsSound(wallet, multiplicity, limit)
  BY DEF PlansAreSound
<1>3. limit \in Nat \ {0} /\ multiplicity \in Nat BY ListsAssumption
<1> QED BY <1>2, <1>3, PlanSound

\* Whatever the wallet and the limit, the optimizer plans swaps of equal sides within the
\* limit, of leaves the wallet has, each once, and when nothing is cut they leave it with
\* the optimal leaves.
THEOREM OptimizerPlansSoundly == MCSpec => []PlansAreSound
BY WalletInvariant, WalletPlans, PTL
=============================================================================
