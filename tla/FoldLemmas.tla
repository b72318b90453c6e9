----------------------------- MODULE FoldLemmas ------------------------------
(***************************************************************************)
(* Induction over finite data, and what it gives for the folds and sums    *)
(* the models are written with.  An induction is the choice of a smallest  *)
(* counterexample: the strict subset order on the finite subsets of a set  *)
(* is well founded, and the segments 0..n-1 carry that over to Nat.        *)
(***************************************************************************)
EXTENDS Integers, FiniteSetTheorems, FiniteSetsExt, TLAPS

\* A non-empty collection of finite sets has a member that is minimal in it.
LEMMA MinimalSet ==
  ASSUME NEW S, IsFiniteSet(S), NEW C \in SUBSET SUBSET S, C # {}
  PROVE  \E T \in C : \A U \in C : U \subseteq T => U = T
<1>1. C \subseteq FiniteSubsetsOf(S)
  BY FS_Subset DEF FiniteSubsetsOf
<1>2. PICK T \in C : \A U \in C : ~(<<U, T>> \in StrictSubsetOrdering(S))
  BY <1>1, FS_StrictSubsetOrderingWellFounded, WFMin
<1>3. ASSUME NEW U \in C, U \subseteq T, U # T
      PROVE  FALSE
  BY <1>2, <1>3 DEF StrictSubsetOrdering
<1> QED BY <1>3

\* A non-empty set of naturals has a least element.
LEMMA LeastNatural ==
  ASSUME NEW S \in SUBSET Nat, S # {}
  PROVE  \E n \in S : \A m \in S : n <= m
<1> DEFINE Below(n) == 0..(n - 1)
<1>1. PICK b \in S : TRUE
  OBVIOUS
<1> DEFINE C == {Below(n) : n \in {m \in S : m <= b}}
<1>2. IsFiniteSet(Below(b)) /\ C \in SUBSET SUBSET Below(b) /\ C # {}
  <2>1. 0 \in Int /\ b - 1 \in Int
    OBVIOUS
  <2>2. IsFiniteSet(0..(b - 1))
    BY <2>1, FS_Interval
  <2>3. C \in SUBSET SUBSET Below(b)
    OBVIOUS
  <2>4. C # {}
    BY <1>1
  <2> QED BY <2>2, <2>3, <2>4
<1>3. PICK T \in C : \A U \in C : U \subseteq T => U = T
  <2> HIDE DEF C, Below
  <2> QED BY <1>2, MinimalSet
<1>4. PICK n \in S : n <= b /\ T = Below(n)
  BY <1>3
<1>5. ASSUME NEW m \in S, m < n
      PROVE  FALSE
  <2>1. Below(m) \in C /\ Below(m) \subseteq T
    BY <1>4, <1>5
  <2>2. m \in Below(n) /\ m \notin Below(m)
    BY <1>5
  <2> QED BY <1>3, <1>4, <2>1, <2>2
<1> QED BY <1>5

\* A finite non-empty set of integers has a largest element.
LEMMA MaxExists ==
  ASSUME NEW S, \A x \in S : x \in Int, IsFiniteSet(S), S # {}
  PROVE  Max(S) \in S /\ \A x \in S : Max(S) >= x
<1> DEFINE Above(x) == {y \in S : y > x}
           C == {Above(x) : x \in S}
<1>1. C \in SUBSET SUBSET S /\ C # {}
  OBVIOUS
<1>2. PICK T \in C : \A U \in C : U \subseteq T => U = T
  <2> HIDE DEF C, Above
  <2> QED BY <1>1, MinimalSet
<1>3. PICK m \in S : T = Above(m)
  BY <1>2
<1>4. ASSUME NEW x \in S, x > m
      PROVE  FALSE
  <2>1. Above(x) \in C
    OBVIOUS
  <2>2. \A y \in S : y > x => y > m
    BY <1>4
  <2>3. x \in Above(m) /\ x \notin Above(x)
    BY <1>4
  <2>4. Above(x) \subseteq T
    BY <1>3, <2>2
  <2> QED BY <1>2, <1>3, <2>1, <2>3, <2>4
<1>5. \E x \in S : \A y \in S : x >= y
  BY <1>4
<1> QED BY <1>5 DEF Max

(***************************************************************************)
(* Functions defined by recursion on the subsets of a finite set: the step *)
(* for s takes one element out of s and uses the value of the rest.        *)
(***************************************************************************)
Rest(pick, s) == s \ {pick[s]}

IsFold(g, S, A, base, step, pick) ==
    /\ g \in [SUBSET S -> A]
    /\ \A s \in SUBSET S :
          g[s] = IF s = {} THEN base ELSE step[<<pick[s], g[Rest(pick, s)]>>]

\* pick takes an element out of every non-empty subset of S
Picks(pick, S) == \A s \in SUBSET S : s # {} => pick[s] \in s

\* Two functions with that recursion agree.
LEMMA FoldUnique ==
  ASSUME NEW S, IsFiniteSet(S), NEW A, NEW base, NEW step, NEW pick, Picks(pick, S),
         NEW g, IsFold(g, S, A, base, step, pick),
         NEW h, IsFold(h, S, A, base, step, pick)
  PROVE  g = h
<1> DEFINE C == {s \in SUBSET S : g[s] # h[s]}
<1>1. CASE C = {}
  BY <1>1 DEF IsFold
<1>2. CASE C # {}
  <2>1. PICK T \in C : \A U \in C : U \subseteq T => U = T
    <3> HIDE DEF C
    <3>1. C \in SUBSET SUBSET S
      BY DEF C
    <3> QED BY <3>1, <1>2, MinimalSet
  <2>2. T # {} /\ pick[T] \in T
    BY <2>1 DEF IsFold, Picks
  <2>3. Rest(pick, T) \in SUBSET S /\ Rest(pick, T) \notin C
    BY <2>1, <2>2 DEF Rest
  <2> QED BY <2>1, <2>2, <2>3 DEF IsFold
<1> QED BY <1>1, <1>2

\* A fold over S is a fold over its subsets.
LEMMA FoldRestrict ==
  ASSUME NEW S, NEW A, NEW base, NEW step, NEW pick, Picks(pick, S),
         NEW g, IsFold(g, S, A, base, step, pick), NEW U \in SUBSET S,
         NEW h \in [SUBSET U -> A], \A s \in SUBSET U : h[s] = g[s]
  PROVE  IsFold(h, U, A, base, step, pick)
<1>1. ASSUME NEW s \in SUBSET U
      PROVE  h[s] = IF s = {} THEN base ELSE step[<<pick[s], h[Rest(pick, s)]>>]
  <2>1. s \in SUBSET S /\ Rest(pick, s) \in SUBSET U
    BY DEF Rest
  <2> QED BY <2>1 DEF IsFold
<1> QED BY <1>1 DEF IsFold

LEMMA FoldExists ==
  ASSUME NEW S, IsFiniteSet(S), NEW A, NEW base \in A, NEW step \in [S \X A -> A],
         NEW pick, Picks(pick, S)
  PROVE  \E g : IsFold(g, S, A, base, step, pick)
<1> DEFINE Has(T) == \E g : IsFold(g, T, A, base, step, pick)
           F(T)   == CHOOSE g : IsFold(g, T, A, base, step, pick)
           C      == {T \in SUBSET S : ~Has(T)}
<1>1. CASE C = {}
  BY <1>1
<1>2. CASE C # {}
  <2>1. PICK T \in C : \A U \in C : U \subseteq T => U = T
    <3> HIDE DEF C
    <3>1. C \in SUBSET SUBSET S
      BY DEF C
    <3> QED BY <3>1, <1>2, MinimalSet
  <2> DEFINE V(s) == IF s = {} THEN base
                     ELSE step[<<pick[s], F(Rest(pick, s))[Rest(pick, s)]>>]
             g    == [s \in SUBSET T |-> V(s)]
  <2>2. ASSUME NEW s \in SUBSET T, s # T
        PROVE  IsFold(F(s), s, A, base, step, pick)
    BY <2>1, <2>2
  <2>3. ASSUME NEW s \in SUBSET T, s # {}
        PROVE  /\ pick[s] \in s /\ pick[s] \in S
               /\ Rest(pick, s) \in SUBSET s /\ Rest(pick, s) # s
               /\ Rest(pick, s) \in SUBSET T /\ Rest(pick, s) # T
    BY <2>1, <2>3 DEF Rest, Picks
  <2>4. ASSUME NEW s \in SUBSET T
        PROVE  V(s) \in A
    <3>1. CASE s = {}
      BY <3>1
    <3>2. CASE s # {}
      <4> DEFINE r == Rest(pick, s)
      <4>1. IsFold(F(r), r, A, base, step, pick)
        BY <2>2, <2>3, <3>2
      <4> HIDE DEF F, r
      <4>2. F(r)[r] \in A
        BY <4>1 DEF IsFold
      <4> QED BY <4>2, <2>3, <3>2 DEF r
    <3> QED BY <3>1, <3>2
  \* the value at a smaller set is that of the set's own fold
  <2>5. ASSUME NEW s \in SUBSET T, s # T
        PROVE  F(s)[s] = V(s)
    <3>0. IsFold(F(s), s, A, base, step, pick)
      BY <2>2, <2>5
    <3>1. CASE s = {}
      <4> HIDE DEF F
      <4> QED BY <3>0, <3>1 DEF IsFold
    <3>2. CASE s # {}
      <4> DEFINE r == Rest(pick, s)
                 h == [u \in SUBSET r |-> F(s)[u]]
      <4>1. r \in SUBSET s /\ r \in SUBSET T /\ r # T /\ Picks(pick, s) /\ Picks(pick, r)
        BY <2>3, <3>2, <2>1 DEF Picks
      <4>2. IsFold(F(r), r, A, base, step, pick)
        BY <2>2, <4>1
      <4>3. IsFold(h, r, A, base, step, pick)
        <5> DEFINE f == F(s)
        <5>1. IsFold(f, s, A, base, step, pick) /\ Picks(pick, s) /\ r \in SUBSET s
          BY <3>0, <4>1
        <5> HIDE DEF f
        <5>2. \A u \in SUBSET r : h[u] = f[u] /\ f[u] \in A
          <6>1. f \in [SUBSET s -> A]
            BY <5>1 DEF IsFold
          <6> QED BY <5>1, <6>1 DEF f
        <5>3. h \in [SUBSET r -> A]
          BY <5>2 DEF f
        <5> HIDE DEF r, h, F, C, Has, V, g
        <5> QED BY ONLY <5>1, <5>2, <5>3, FoldRestrict
      <4>4. IsFiniteSet(r)
        BY <4>1, <2>1, FS_Subset
      <4>5. h = F(r)
        BY <4>1, <4>2, <4>3, <4>4, FoldUnique
      <4>6. h[r] = F(s)[r]
        OBVIOUS
      <4> HIDE DEF F, h
      <4>7. F(s)[s] = step[<<pick[s], F(s)[r]>>]
        BY <3>0, <3>2 DEF IsFold
      <4> QED BY <4>5, <4>6, <4>7, <3>2
    <3> QED BY <3>1, <3>2
  <2>6. ASSUME NEW s \in SUBSET T
        PROVE  g[s] = IF s = {} THEN base ELSE step[<<pick[s], g[Rest(pick, s)]>>]
    <3>1. CASE s = {}
      BY <3>1
    <3>2. CASE s # {}
      <4> DEFINE r == Rest(pick, s)
      <4>1. r \in SUBSET T /\ r # T
        BY <2>3, <3>2
      <4>2. g[r] = V(r) /\ F(r)[r] = V(r)
        BY <4>1, <2>5
      <4>3. g[s] = step[<<pick[s], F(r)[r]>>]
        BY <3>2
      <4> QED BY <4>2, <4>3, <3>2
    <3> QED BY <3>1, <3>2
  <2>7. g \in [SUBSET T -> A]
    BY <2>4
  <2> HIDE DEF g
  <2>8. IsFold(g, T, A, base, step, pick)
    BY <2>6, <2>7 DEF IsFold
  <2> QED BY <2>1, <2>8
<1> QED BY <1>1, <1>2

(***************************************************************************)
(* Sums of the values of a function.                                       *)
(***************************************************************************)
Chosen(S) == [s \in SUBSET S |-> CHOOSE x \in s : TRUE]
Adding(f, S) == [p \in S \X Int |-> f[p[1]] + p[2]]

LEMMA ChosenPicks ==
  ASSUME NEW S
  PROVE  Picks(Chosen(S), S)
<1>1. ASSUME NEW s \in SUBSET S, s # {}
      PROVE  Chosen(S)[s] \in s
  BY <1>1 DEF Chosen
<1> QED BY <1>1 DEF Picks

\* SumFunctionOnSet unfolds to a fold, and there is one.
LEMMA SumIsFold ==
  ASSUME NEW f, NEW S, IsFiniteSet(S), \A x \in S : f[x] \in Int
  PROVE  \E g : /\ IsFold(g, S, Int, 0, Adding(f, S), Chosen(S))
                /\ SumFunctionOnSet(f, S) = g[S]
<1> DEFINE Body(h) == [s \in SUBSET S |->
                         IF s = {} THEN 0
                         ELSE f[CHOOSE x \in s : TRUE] + h[s \ {CHOOSE x \in s : TRUE}]]
           iter    == CHOOSE h : h = Body(h)
<1>1. SumFunctionOnSet(f, S) = iter[S]
  BY DEF SumFunctionOnSet, FoldFunctionOnSet, MapThenFoldSet
<1>2. Adding(f, S) \in [S \X Int -> Int]
  BY DEF Adding
<1>3. PICK g : IsFold(g, S, Int, 0, Adding(f, S), Chosen(S))
  BY <1>2, ChosenPicks, FoldExists
<1>4. g = Body(g)
  <2>1. ASSUME NEW s \in SUBSET S
        PROVE  g[s] = Body(g)[s]
    <3>1. CASE s = {}
      BY <3>1, <1>3 DEF IsFold
    <3>2. CASE s # {}
      <4> DEFINE c == CHOOSE x \in s : TRUE
      <4>1. c \in s /\ c \in S /\ Chosen(S)[s] = c
        BY <3>2 DEF Chosen
      <4> HIDE DEF c
      <4>2. Rest(Chosen(S), s) = s \ {c} /\ g[s \ {c}] \in Int
        BY <4>1, <1>3 DEF Rest, IsFold
      <4>3. g[s] = Adding(f, S)[<<c, g[s \ {c}]>>]
        BY <4>1, <4>2, <3>2, <1>3 DEF IsFold
      <4>4. g[s] = f[c] + g[s \ {c}]
        BY <4>1, <4>2, <4>3 DEF Adding
      <4> QED BY <4>4, <3>2 DEF c
    <3> QED BY <3>1, <3>2
  <2> QED BY <2>1, <1>3 DEF IsFold
<1>5. iter = Body(iter)
  BY <1>4
<1> HIDE DEF iter
<1>6. \A s \in SUBSET S : iter[s] = g[s]
  <2> DEFINE C == {s \in SUBSET S : iter[s] # g[s]}
  <2>1. CASE C = {}
    BY <2>1
  <2>2. CASE C # {}
    <3>1. PICK T \in C : \A U \in C : U \subseteq T => U = T
      <4>1. C \in SUBSET SUBSET S
        OBVIOUS
      <4> HIDE DEF C
      <4> QED BY <4>1, <2>2, MinimalSet
    <3>2. T # {}
      BY <1>4, <1>5
    <3> DEFINE c == CHOOSE x \in T : TRUE
    <3>3. c \in T
      BY <3>2
    <3>4. iter[T] = f[c] + iter[T \ {c}] /\ g[T] = f[c] + g[T \ {c}]
      BY <3>2, <1>4, <1>5
    <3> HIDE DEF c
    <3>5. T \ {c} \in SUBSET S /\ T \ {c} # T
      BY <3>3
    <3>6. iter[T \ {c}] = g[T \ {c}]
      BY <3>1, <3>5
    <3> QED BY <3>1, <3>4, <3>6
  <2> QED BY <2>1, <2>2
<1> QED BY <1>1, <1>3, <1>6

\* The empty sum is 0, and a sum is an integer that adds one chosen value to
\* the sum of the others.
LEMMA SumStep ==
  ASSUME NEW f, NEW S, IsFiniteSet(S), \A x \in S : f[x] \in Int
  PROVE  /\ SumFunctionOnSet(f, S) \in Int
         /\ S = {} => SumFunctionOnSet(f, S) = 0
         /\ S # {} => \E c \in S :
               SumFunctionOnSet(f, S) = f[c] + SumFunctionOnSet(f, S \ {c})
<1>1. PICK g : /\ IsFold(g, S, Int, 0, Adding(f, S), Chosen(S))
               /\ SumFunctionOnSet(f, S) = g[S]
  BY SumIsFold
<1>2. g[S] \in Int /\ (S = {} => g[S] = 0)
  BY <1>1 DEF IsFold
<1>3. ASSUME S # {}
      PROVE  \E c \in S : SumFunctionOnSet(f, S) = f[c] + SumFunctionOnSet(f, S \ {c})
  <2> DEFINE c == Chosen(S)[S]
             R == S \ {c}
             h == [s \in SUBSET R |-> g[s]]
  <2>1. c \in S /\ R \in SUBSET S
    BY <1>3, ChosenPicks DEF Picks
  <2>2. IsFiniteSet(R) /\ \A x \in R : f[x] \in Int
    BY <2>1, FS_Subset
  <2>3. PICK gr : /\ IsFold(gr, R, Int, 0, Adding(f, R), Chosen(R))
                  /\ SumFunctionOnSet(f, R) = gr[R]
    <3> HIDE DEF R
    <3> QED BY <2>2, SumIsFold
  <2>4. h \in [SUBSET R -> Int] /\ \A s \in SUBSET R : h[s] = g[s]
    BY <1>1, <2>1 DEF IsFold
  <2> HIDE DEF h
  <2>5. IsFold(h, R, Int, 0, Adding(f, S), Chosen(S))
    <3> HIDE DEF R
    <3> QED BY <1>1, <2>1, <2>4, ChosenPicks, FoldRestrict
  <2>6. IsFold(h, R, Int, 0, Adding(f, R), Chosen(R))
    <3> HIDE DEF c, R
    <3>1. ASSUME NEW s \in SUBSET R, s # {}
          PROVE  /\ Chosen(S)[s] = Chosen(R)[s] /\ Chosen(R)[s] \in s
                 /\ Rest(Chosen(S), s) = Rest(Chosen(R), s)
      BY <3>1, <2>1 DEF Chosen, Rest
    <3>2. ASSUME NEW s \in SUBSET R, s # {}
          PROVE  h[s] = Adding(f, R)[<<Chosen(R)[s], h[Rest(Chosen(R), s)]>>]
      <4>1. h[s] = Adding(f, S)[<<Chosen(R)[s], h[Rest(Chosen(R), s)]>>]
        BY <2>5, <3>1, <3>2 DEF IsFold
      <4>2. h[Rest(Chosen(R), s)] \in Int
        BY <2>5 DEF IsFold, Rest
      <4>3. Chosen(R)[s] \in R /\ Chosen(R)[s] \in S
        BY <3>1, <3>2, <2>1
      <4> QED BY <4>1, <4>2, <4>3 DEF Adding
    <3> QED BY <2>5, <3>2 DEF IsFold
  <2>7. h = gr
    <3> HIDE DEF R
    <3> QED BY <2>2, <2>3, <2>6, ChosenPicks, FoldUnique
  <2>8. g[S] = f[c] + g[R]
    <3>1. g[S] = Adding(f, S)[<<c, g[R]>>] /\ g[R] \in Int
      BY <1>1, <1>3, <2>1 DEF IsFold, Rest
    <3> HIDE DEF c, R
    <3> QED BY <3>1, <2>1 DEF Adding
  <2> QED BY <1>1, <2>1, <2>3, <2>4, <2>7, <2>8
<1> QED BY <1>1, <1>2, <1>3

\* Any value may be the one that is added last.
LEMMA SumTake ==
  ASSUME NEW f, NEW S, IsFiniteSet(S), \A x \in S : f[x] \in Int
  PROVE  \A x \in S : SumFunctionOnSet(f, S) = f[x] + SumFunctionOnSet(f, S \ {x})
<1> DEFINE Sum(s) == SumFunctionOnSet(f, s)
           C == {s \in SUBSET S : \E x \in s : Sum(s) # f[x] + Sum(s \ {x})}
<1>1. CASE C = {}
  BY <1>1
<1>2. CASE C # {}
  <2>1. PICK T \in C : \A U \in C : U \subseteq T => U = T
    <3>1. C \in SUBSET SUBSET S
      OBVIOUS
    <3> HIDE DEF C
    <3> QED BY <3>1, <1>2, MinimalSet
  <2>2. PICK x \in T : Sum(T) # f[x] + Sum(T \ {x})
    BY <2>1
  <2>3. \A s \in SUBSET S : IsFiniteSet(s) /\ \A y \in s : f[y] \in Int
    BY FS_Subset
  <2>4. PICK c \in T : Sum(T) = f[c] + Sum(T \ {c})
    BY <2>1, <2>2, <2>3, SumStep
  <2>5. Sum(T \ {c}) = f[x] + Sum((T \ {c}) \ {x})
    <3>1. T \ {c} \in SUBSET S /\ T \ {c} # T /\ x \in T \ {c}
      BY <2>2, <2>4
    <3> QED BY <3>1, <2>1
  <2>6. Sum(T \ {x}) = f[c] + Sum((T \ {x}) \ {c})
    <3>1. T \ {x} \in SUBSET S /\ T \ {x} # T /\ c \in T \ {x}
      BY <2>2, <2>4
    <3> QED BY <3>1, <2>1
  <2>7. Sum((T \ {x}) \ {c}) = Sum((T \ {c}) \ {x})
    <3>1. (T \ {x}) \ {c} = (T \ {c}) \ {x}
      OBVIOUS
    <3> QED BY <3>1
  <2>8. f[x] \in Int /\ f[c] \in Int /\ Sum((T \ {c}) \ {x}) \in Int
    <3>1. (T \ {c}) \ {x} \in SUBSET S
      OBVIOUS
    <3> QED BY <3>1, <2>3, SumStep
  <2>9. FALSE
    <3> HIDE DEF Sum, C
    <3> QED BY <2>2, <2>4, <2>5, <2>6, <2>7, <2>8
  <2> QED BY <2>9
<1> QED BY <1>1, <1>2

\* The sum over two disjoint sets is the sum of their sums.
LEMMA SumSplit ==
  ASSUME NEW f, NEW A, NEW B, IsFiniteSet(A), IsFiniteSet(B), A \cap B = {},
         \A x \in A \cup B : f[x] \in Int
  PROVE  SumFunctionOnSet(f, A \cup B) = SumFunctionOnSet(f, A) + SumFunctionOnSet(f, B)
<1> DEFINE Sum(s) == SumFunctionOnSet(f, s)
           C == {s \in SUBSET B : Sum(A \cup s) # Sum(A) + Sum(s)}
<1>1. CASE C = {}
  BY <1>1
<1>2. CASE C # {}
  <2>1. PICK T \in C : \A U \in C : U \subseteq T => U = T
    <3>1. C \in SUBSET SUBSET B
      OBVIOUS
    <3> HIDE DEF C
    <3> QED BY <3>1, <1>2, MinimalSet
  <2>2. ASSUME NEW s \in SUBSET B
        PROVE  IsFiniteSet(s) /\ IsFiniteSet(A \cup s)
    BY FS_Subset, FS_Union
  <2>3. Sum(A) \in Int /\ Sum(T) \in Int
    BY <2>2, SumStep
  <2>4. T # {}
    <3>1. Sum({}) = 0
      BY <2>2, SumStep
    <3>2. T = {} => Sum(A \cup T) = Sum(A) /\ Sum(T) = 0
      <4>1. T = {} => A \cup T = A
        OBVIOUS
      <4> QED BY <3>1, <4>1
    <3>3. Sum(A \cup T) # Sum(A) + Sum(T)
      BY <2>1
    <3> HIDE DEF Sum, C
    <3> QED BY <2>3, <3>2, <3>3
  <2>5. PICK x \in T : TRUE
    BY <2>4
  <2> DEFINE R == T \ {x}
  <2>6. R \in SUBSET B /\ R # T
    BY <2>5
  <2>7. Sum(A \cup R) = Sum(A) + Sum(R)
    BY <2>1, <2>6
  <2>8. Sum(T) = f[x] + Sum(R)
    BY <2>2, <2>5, SumTake
  <2>9. Sum(A \cup T) = f[x] + Sum(A \cup R)
    <3>1. (A \cup T) \ {x} = A \cup R
      BY <2>5
    <3>2. IsFiniteSet(A \cup T) /\ x \in A \cup T /\ \A y \in A \cup T : f[y] \in Int
      BY <2>2, <2>5
    <3>3. Sum(A \cup T) = f[x] + Sum((A \cup T) \ {x})
      BY <3>2, SumTake
    <3> QED BY <3>1, <3>3
  <2>10. Sum(R) \in Int /\ f[x] \in Int
    BY <2>2, <2>6, SumStep
  <2> HIDE DEF Sum
  <2> QED BY <2>1, <2>3, <2>7, <2>8, <2>9, <2>10
<1> QED BY <1>1, <1>2

\* A sum of naturals is a natural.
LEMMA SumNat ==
  ASSUME NEW f, NEW S, IsFiniteSet(S), \A x \in S : f[x] \in Nat
  PROVE  SumFunctionOnSet(f, S) \in Nat
<1> DEFINE Sum(s) == SumFunctionOnSet(f, s)
           C == {s \in SUBSET S : Sum(s) \notin Nat}
<1>1. CASE C = {}
  BY <1>1
<1>2. CASE C # {}
  <2>1. PICK T \in C : \A U \in C : U \subseteq T => U = T
    <3>1. C \in SUBSET SUBSET S
      OBVIOUS
    <3> HIDE DEF C
    <3> QED BY <3>1, <1>2, MinimalSet
  <2>2. IsFiniteSet(T) /\ \A x \in T : f[x] \in Int
    BY <2>1, FS_Subset
  <2>3. T # {} /\ \E c \in T : Sum(T) = f[c] + Sum(T \ {c})
    BY <2>1, <2>2, SumStep
  <2>4. PICK c \in T : Sum(T) = f[c] + Sum(T \ {c})
    BY <2>3
  <2>5. Sum(T \ {c}) \in Nat /\ f[c] \in Nat
    BY <2>1, <2>4
  <2>6. Sum(T) \in Nat
    <3> HIDE DEF Sum
    <3> QED BY <2>4, <2>5
  <2> QED BY <2>1, <2>6
<1> QED BY <1>1, <1>2

\* At most k elements of a finite set of naturals have fewer than k above them.
LEMMA FewAbove ==
  ASSUME NEW S \in SUBSET Nat, IsFiniteSet(S), NEW k \in Nat,
         NEW T, T = {e \in S : Cardinality({f \in S : e < f}) < k}
  PROVE  IsFiniteSet(T) /\ Cardinality(T) <= k
<1>1. IsFiniteSet(T)
  BY FS_Subset
<1>2. CASE T = {}
  <2>1. Cardinality({}) = 0
    BY FS_EmptySet
  <2>2. Cardinality(T) = 0
    BY ONLY <1>2, <2>1
  <2>3. Cardinality(T) <= k
    BY ONLY <2>2, k \in Nat
  <2> QED BY <1>1, <2>3
<1>3. CASE T # {}
  <2>1. PICK m \in T : \A e \in T : m <= e
    BY <1>3, LeastNatural
  <2> DEFINE A == {f \in S : m < f}
  <2>2. T \ {m} \in SUBSET A
    <3> SUFFICES ASSUME NEW e \in T, e # m PROVE e \in A
      OBVIOUS
    <3>1. e \in S /\ m \in S /\ e \in Nat /\ m \in Nat
      BY <2>1
    <3>2. m <= e
      BY <2>1
    <3>3. m < e
      BY ONLY <3>1, <3>2, e # m
    <3> QED BY <3>1, <3>3
  <2>3. IsFiniteSet(A) /\ Cardinality(A) < k /\ Cardinality(A) \in Nat
    BY FS_Subset, FS_CardinalityType
  <2> HIDE DEF A
  <2>4. Cardinality(T \ {m}) <= Cardinality(A)
    BY <2>2, <2>3, FS_Subset
  <2>5. Cardinality(T \ {m}) = Cardinality(T) - 1 /\ Cardinality(T) \in Nat
    BY <1>1, FS_RemoveElement, FS_CardinalityType
  <2> QED BY <1>1, <2>3, <2>4, <2>5
<1> QED BY <1>2, <1>3
=============================================================================
