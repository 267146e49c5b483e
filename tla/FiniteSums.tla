----------------------------- MODULE FiniteSums -----------------------------
(***************************************************************************)
(* Induction over numbers and finite sets, with the formula as a set, and  *)
(* what it says of sums: a sum over a finite set is one number however     *)
(* its elements are taken, so the folds of the community modules can be    *)
(* reasoned about without their recursion.                                 *)
(***************************************************************************)
EXTENDS Integers, FiniteSets, FiniteSetTheorems, WellFoundedInduction, FiniteSetsExt, TLAPS

Less == {ss \in Nat \X Nat : ss[1] < ss[2]}

LEMMA LessWellFounded == IsWellFoundedOn(Less, Nat)
<1>1. OpToRel(<, Nat) = Less
  BY DEF OpToRel, Less
<1> QED BY <1>1, NatLessThanWellFounded

LEMMA LeastNat == ASSUME NEW S \in SUBSET Nat, S # {} PROVE \E n \in S : \A m \in S : n <= m
<1>1. PICK x \in S : \A y \in S : ~ (<<y, x>> \in Less)
  BY LessWellFounded, WFMin
<1>2. ASSUME NEW y \in S PROVE x <= y
  <2>1. <<y, x>> \notin Less
    BY <1>1
  <2>2. x \in Nat /\ y \in Nat
    OBVIOUS
  <2>3. y < x => <<y, x>> \in Less
    BY <2>2 DEF Less
  <2> QED BY <2>1, <2>2, <2>3
<1> QED BY <1>2

LEMMA SetInduction ==
  ASSUME NEW S, 0 \in S, \A n \in Nat : n \in S => n + 1 \in S
  PROVE  Nat \subseteq S
<1> SUFFICES ASSUME NEW k \in Nat, k \notin S PROVE FALSE
  OBVIOUS
<1> DEFINE T == {n \in Nat : n \notin S}
<1>1. PICK n \in T : \A m \in T : n <= m
  BY LeastNat
<1>2. n # 0 /\ n - 1 \in Nat
  BY DEF T
<1>3. n - 1 \in S
  BY <1>1, <1>2
<1> QED BY <1>1, <1>2, <1>3

\* A collection of subsets that holds the empty one, and with each one that with
\* another element, holds them all.
LEMMA FiniteInduction ==
  ASSUME NEW S, IsFiniteSet(S), NEW Q, {} \in Q,
         \A T \in SUBSET S, x \in S : T \in Q /\ x \notin T => T \cup {x} \in Q
  PROVE  S \in Q
<1> DEFINE N == {n \in Nat : \A T \in SUBSET S : Cardinality(T) = n => T \in Q}
<1>1. 0 \in N
  BY FS_EmptySet, FS_Subset
<1>2. ASSUME NEW n \in Nat, n \in N PROVE n + 1 \in N
  <2> SUFFICES ASSUME NEW T \in SUBSET S, Cardinality(T) = n + 1 PROVE T \in Q
    OBVIOUS
  <2>1. IsFiniteSet(T) /\ T # {}
    BY FS_Subset, FS_EmptySet
  <2>2. PICK x \in T : TRUE
    BY <2>1
  <2>3. Cardinality(T \ {x}) = n
    <3>1. Cardinality(T \ {x}) = Cardinality(T) - 1
      BY <2>1, <2>2, FS_RemoveElement
    <3> QED BY <3>1
  <2>4. T \ {x} \in Q /\ T \ {x} \in SUBSET S /\ x \in S /\ x \notin T \ {x}
    BY <1>2, <2>2, <2>3
  <2>5. (T \ {x}) \cup {x} \in Q
    BY <2>4
  <2>6. (T \ {x}) \cup {x} = T
    BY <2>2
  <2> QED BY <2>5, <2>6
<1> HIDE DEF N
<1>3. Nat \subseteq N
  BY <1>1, <1>2, SetInduction
<1>4. Cardinality(S) \in N
  BY <1>3, FS_CardinalityType
<1> QED BY <1>4 DEF N

-----------------------------------------------------------------------------
(* Sums. *)

Summable(f, S) == IsFiniteSet(S) /\ \A x \in S : f[x] \in Int

\* What the sum over every subset is.
IsSum(g, f, S) ==
  /\ g \in [SUBSET S -> Int]
  /\ g[{}] = 0
  /\ \A T \in SUBSET S, x \in S : x \in T => g[T] = f[x] + g[T \ {x}]

LEMMA SumOneMore ==
  ASSUME NEW f, NEW T, NEW y, y \notin T, f[y] \in Int, \A x \in T : f[x] \in Int, NEW g, IsSum(g, f, T)
  PROVE  \E h : IsSum(h, f, T \cup {y})
<1> DEFINE h == [U \in SUBSET (T \cup {y}) |-> IF y \in U THEN f[y] + g[U \ {y}] ELSE g[U]]
<1>1. g \in [SUBSET T -> Int] /\ g[{}] = 0
      /\ \A U \in SUBSET T, x \in T : x \in U => g[U] = f[x] + g[U \ {x}]
  BY DEF IsSum
<1>2. ASSUME NEW U \in SUBSET (T \cup {y})
      PROVE  /\ U \ {y} \in SUBSET T /\ y \notin U => U \in SUBSET T
             /\ h[U] = (IF y \in U THEN f[y] + g[U \ {y}] ELSE g[U])
             /\ h[U] \in Int
  <2>1. U \ {y} \in SUBSET T /\ (y \notin U => U \in SUBSET T)
    OBVIOUS
  <2> QED BY <1>1, <2>1
<1>3. h \in [SUBSET (T \cup {y}) -> Int]
  BY <1>2
<1>4. h[{}] = 0
  BY <1>1
<1> HIDE DEF h
<1>5. ASSUME NEW U \in SUBSET (T \cup {y}), NEW x \in T \cup {y}, x \in U
      PROVE  h[U] = f[x] + h[U \ {x}]
  <2>1. U \ {x} \in SUBSET (T \cup {y})
    OBVIOUS
  <2>2. CASE x = y
    <3>1. h[U] = f[y] + g[U \ {y}] /\ h[U \ {y}] = g[U \ {y}]
      BY <1>2, <1>5, <2>1, <2>2
    <3> QED BY <2>2, <3>1
  <2>3. CASE x # y /\ y \in U
    <3>1. h[U] = f[y] + g[U \ {y}] /\ h[U \ {x}] = f[y] + g[(U \ {x}) \ {y}]
      BY <1>2, <2>1, <2>3
    <3>2. x \in T /\ U \ {y} \in SUBSET T /\ x \in U \ {y}
      BY <1>5, <2>3
    <3>3. g[U \ {y}] = f[x] + g[(U \ {y}) \ {x}]
      BY <1>1, <3>2
    <3>4. (U \ {y}) \ {x} = (U \ {x}) \ {y} /\ (U \ {x}) \ {y} \in SUBSET T
      BY <3>2
    <3>5. g[(U \ {x}) \ {y}] \in Int /\ g[U \ {y}] \in Int
      BY <1>1, <3>2, <3>4
    <3> DEFINE a == g[(U \ {x}) \ {y}]
               b == g[U \ {y}]
    <3>6. b = f[x] + a /\ h[U] = f[y] + b /\ h[U \ {x}] = f[y] + a /\ a \in Int /\ b \in Int
      BY <3>1, <3>3, <3>4, <3>5
    <3> HIDE DEF a, b
    <3>7. f[x] \in Int
      BY <3>2
    <3> QED BY <3>6, <3>7
  <2>4. CASE y \notin U
    <3>1. h[U] = g[U] /\ h[U \ {x}] = g[U \ {x}] /\ U \in SUBSET T /\ x \in T
      BY <1>2, <1>5, <2>1, <2>4
    <3> QED BY <1>1, <1>5, <3>1
  <2> QED BY <2>2, <2>3, <2>4
<1>6. IsSum(h, f, T \cup {y})
  BY <1>3, <1>4, <1>5 DEF IsSum
<1> QED BY <1>6

LEMMA SumsExist ==
  ASSUME NEW f, NEW S, Summable(f, S)
  PROVE  \E g : IsSum(g, f, S)
<1> DEFINE Q == {T \in SUBSET S : \E g : IsSum(g, f, T)}
<1>1. {} \in Q
  <2> DEFINE g == [T \in SUBSET {} |-> 0]
  <2>1. IsSum(g, f, {})
    BY DEF IsSum
  <2> QED BY <2>1
<1>2. ASSUME NEW T \in SUBSET S, NEW x \in S, T \in Q, x \notin T PROVE T \cup {x} \in Q
  <2>1. PICK g : IsSum(g, f, T)
    BY <1>2
  <2>2. f[x] \in Int /\ \A y \in T : f[y] \in Int
    BY DEF Summable
  <2>3. \E h : IsSum(h, f, T \cup {x})
    BY <1>2, <2>1, <2>2, SumOneMore
  <2> QED BY <2>3
<1> HIDE DEF Q
<1>3. S \in Q
  BY <1>1, <1>2, FiniteInduction DEF Summable
<1> QED BY <1>3 DEF Q

\* A recursion that takes any element of a set first comes to the sum.
LEMMA RecursionSums ==
  ASSUME NEW f, NEW S, Summable(f, S), NEW c, \A T \in SUBSET S : T # {} => c[T] \in T,
         NEW g, IsSum(g, f, S), NEW iter, iter[{}] = 0,
         \A T \in SUBSET S : T # {} => iter[T] = f[c[T]] + iter[T \ {c[T]}]
  PROVE  \A T \in SUBSET S : iter[T] = g[T]
<1> DEFINE N == {n \in Nat : \A T \in SUBSET S : Cardinality(T) = n => iter[T] = g[T]}
<1>1. 0 \in N
  BY FS_EmptySet, FS_Subset DEF IsSum, Summable
<1>2. ASSUME NEW n \in Nat, n \in N PROVE n + 1 \in N
  <2> SUFFICES ASSUME NEW T \in SUBSET S, Cardinality(T) = n + 1 PROVE iter[T] = g[T]
    OBVIOUS
  <2>1. IsFiniteSet(T) /\ T # {}
    BY FS_Subset, FS_EmptySet DEF Summable
  <2>2. c[T] \in T /\ T \ {c[T]} \in SUBSET S
    BY <2>1
  <2>3. Cardinality(T \ {c[T]}) = n
    <3>1. Cardinality(T \ {c[T]}) = Cardinality(T) - 1
      BY <2>1, <2>2, FS_RemoveElement
    <3> QED BY <3>1
  <2>4. iter[T \ {c[T]}] = g[T \ {c[T]}]
    BY <1>2, <2>2, <2>3
  <2>5. g[T] = f[c[T]] + g[T \ {c[T]}]
    BY <2>2 DEF IsSum
  <2>6. iter[T] = f[c[T]] + iter[T \ {c[T]}]
    BY <2>1
  <2> QED BY <2>4, <2>5, <2>6
<1> HIDE DEF N
<1>3. Nat \subseteq N
  BY <1>1, <1>2, SetInduction
<1> SUFFICES ASSUME NEW T \in SUBSET S PROVE iter[T] = g[T]
  OBVIOUS
<1>4. Cardinality(T) \in N
  BY <1>3, FS_Subset, FS_CardinalityType DEF Summable
<1> QED BY <1>4 DEF N

-----------------------------------------------------------------------------
\* The sum of a function's values.
Total(f, S) == MapThenSumSet(LAMBDA x : f[x], S)

LEMMA TotalIs ==
  ASSUME NEW f, NEW S, Summable(f, S), NEW g, IsSum(g, f, S)
  PROVE  Total(f, S) = g[S]
<1> DEFINE Body(iter) == [T \in SUBSET S |-> IF T = {} THEN 0
                            ELSE f[CHOOSE x \in T : TRUE] + iter[T \ {CHOOSE x \in T : TRUE}]]
           total == CHOOSE iter : iter = Body(iter)
           c == [T \in SUBSET S |-> CHOOSE x \in T : TRUE]
<1>1. Total(f, S) = total[S]
  BY DEF Total, MapThenSumSet, MapThenFoldSet
<1>2. \A T \in SUBSET S : T # {} => (CHOOSE x \in T : TRUE) \in T
  OBVIOUS
<1>3. g = Body(g)
  <2>1. g \in [SUBSET S -> Int] /\ g[{}] = 0
    BY DEF IsSum
  <2>2. ASSUME NEW T \in SUBSET S, T # {}
        PROVE  g[T] = f[CHOOSE x \in T : TRUE] + g[T \ {CHOOSE x \in T : TRUE}]
    BY <1>2, <2>2 DEF IsSum
  <2> QED BY <2>1, <2>2
<1>4. total = Body(total)
  BY <1>3
<1> HIDE DEF total
<1>5. total[{}] = 0 /\ \A T \in SUBSET S : T # {} => total[T] = f[c[T]] + total[T \ {c[T]}]
  BY <1>4
<1>6. \A T \in SUBSET S : T # {} => c[T] \in T
  BY <1>2
<1> HIDE DEF c
<1>7. \A T \in SUBSET S : total[T] = g[T]
  BY <1>5, <1>6, RecursionSums, SMTT(60)
<1> QED BY <1>1, <1>7

LEMMA SumRestricts ==
  ASSUME NEW f, NEW S, NEW T \in SUBSET S, NEW g, IsSum(g, f, S)
  PROVE  IsSum([U \in SUBSET T |-> g[U]], f, T)
  BY DEF IsSum

\* What is used of sums.
LEMMA TotalOf ==
  ASSUME NEW f, NEW S, Summable(f, S)
  PROVE  /\ Total(f, S) \in Int /\ Total(f, {}) = 0
         /\ \A x \in S : Total(f, S) = f[x] + Total(f, S \ {x})
<1>1. PICK g : IsSum(g, f, S)
  BY SumsExist
<1>2. Total(f, S) = g[S]
  BY <1>1, TotalIs
<1>3. \A T \in SUBSET S : Total(f, T) = g[T]
  <2> TAKE T \in SUBSET S
  <2>1. Summable(f, T)
    BY FS_Subset DEF Summable
  <2> DEFINE h == [U \in SUBSET T |-> g[U]]
  <2>2. IsSum(h, f, T) /\ h[T] = g[T]
    BY <1>1, SumRestricts
  <2> HIDE DEF h
  <2> QED BY <2>1, <2>2, TotalIs
<1>4. g \in [SUBSET S -> Int] /\ {} \in SUBSET S /\ g[{}] = 0 /\ \A x \in S : g[S] = f[x] + g[S \ {x}] /\ S \ {x} \in SUBSET S
  BY <1>1 DEF IsSum
<1> QED BY <1>2, <1>3, <1>4

\* Sums of the same values are the same.
LEMMA TotalSame ==
  ASSUME NEW f, NEW h, NEW S, Summable(f, S), \A x \in S : h[x] = f[x]
  PROVE  Total(h, S) = Total(f, S)
<1>1. PICK g : IsSum(g, f, S)
  BY SumsExist
<1>2. IsSum(g, h, S) /\ Summable(h, S)
  BY <1>1 DEF IsSum, Summable
<1> QED BY <1>1, <1>2, TotalIs

\* The sum of sums.
LEMMA TotalAdds ==
  ASSUME NEW f, NEW h, NEW S, Summable(f, S), Summable(h, S), NEW k, \A x \in S : k[x] = f[x] + h[x]
  PROVE  Total(k, S) = Total(f, S) + Total(h, S)
<1>1. PICK g : IsSum(g, f, S)
  BY SumsExist
<1>2. PICK l : IsSum(l, h, S)
  BY SumsExist
<1> DEFINE m == [T \in SUBSET S |-> g[T] + l[T]]
<1>3. g \in [SUBSET S -> Int] /\ l \in [SUBSET S -> Int] /\ g[{}] = 0 /\ l[{}] = 0
  BY <1>1, <1>2 DEF IsSum
<1>4. m \in [SUBSET S -> Int] /\ m[{}] = 0
  BY <1>3
<1>5. ASSUME NEW T \in SUBSET S, NEW x \in S, x \in T PROVE m[T] = k[x] + m[T \ {x}]
  <2>1. T \ {x} \in SUBSET S
    OBVIOUS
  <2>2. g[T] = f[x] + g[T \ {x}] /\ l[T] = h[x] + l[T \ {x}]
    BY <1>1, <1>2, <1>5 DEF IsSum
  <2>3. f[x] \in Int /\ h[x] \in Int /\ g[T \ {x}] \in Int /\ l[T \ {x}] \in Int
    BY <1>3, <2>1 DEF Summable
  <2>4. m[T] = g[T] + l[T] /\ m[T \ {x}] = g[T \ {x}] + l[T \ {x}]
    BY <2>1
  <2> HIDE DEF m
  <2> QED BY <2>2, <2>3, <2>4
<1> HIDE DEF m
<1>6. IsSum(m, k, S)
  BY <1>4, <1>5 DEF IsSum
<1>7. Summable(k, S)
  BY DEF Summable
<1>8. Total(k, S) = m[S] /\ Total(f, S) = g[S] /\ Total(h, S) = l[S]
  BY <1>1, <1>2, <1>6, <1>7, TotalIs
<1> QED BY <1>8 DEF m

LEMMA TotalOneMore ==
  ASSUME NEW f, NEW S, Summable(f, S), NEW T \in SUBSET S, NEW x \in S, x \notin T
  PROVE  Summable(f, T) /\ Summable(f, T \cup {x}) /\ Total(f, T) \in Int
         /\ Total(f, T \cup {x}) = f[x] + Total(f, T)
<1>1. Summable(f, T) /\ Summable(f, T \cup {x})
  BY FS_Subset, FS_AddElement DEF Summable
<1>2. (T \cup {x}) \ {x} = T /\ x \in T \cup {x}
  OBVIOUS
<1>3. Total(f, T) \in Int
  BY <1>1, TotalOf
<1>4. Total(f, T \cup {x}) = f[x] + Total(f, (T \cup {x}) \ {x})
  BY <1>1, <1>2, TotalOf
<1> QED BY <1>1, <1>2, <1>3, <1>4

LEMMA TotalZero ==
  ASSUME NEW f, NEW S, IsFiniteSet(S), \A x \in S : f[x] = 0
  PROVE  Summable(f, S) /\ Total(f, S) = 0
<1>1. Summable(f, S)
  BY DEF Summable
<1> DEFINE g == [T \in SUBSET S |-> 0]
<1>2. IsSum(g, f, S) /\ g[S] = 0
  BY DEF IsSum
<1> HIDE DEF g
<1> QED BY <1>1, <1>2, TotalIs

\* Members whose value is zero can be left out.
LEMMA TotalWithin ==
  ASSUME NEW f, NEW S, Summable(f, S), NEW T \in SUBSET S, \A x \in S \ T : f[x] = 0
  PROVE  Summable(f, T) /\ Total(f, T) = Total(f, S)
<1>1. PICK g : IsSum(g, f, T)
  <2>1. Summable(f, T)
    BY FS_Subset DEF Summable
  <2> QED BY <2>1, SumsExist
<1> DEFINE h == [U \in SUBSET S |-> g[U \cap T]]
<1>2. IsSum(h, f, S)
  <2>1. g \in [SUBSET T -> Int] /\ g[{}] = 0 /\ \A U \in SUBSET T, x \in T : x \in U => g[U] = f[x] + g[U \ {x}]
    BY <1>1 DEF IsSum
  <2>2. h \in [SUBSET S -> Int]
    BY <2>1
  <2>3. h[{}] = 0
    <3>1. {} \cap T = {} /\ {} \in SUBSET S
      OBVIOUS
    <3> QED BY <2>1, <3>1
  <2>4. ASSUME NEW U \in SUBSET S, NEW x \in S, x \in U PROVE h[U] = f[x] + h[U \ {x}]
    <3>1. U \cap T \in SUBSET T /\ U \ {x} \in SUBSET S /\ h[U] \in Int
      BY <2>2
    <3>2. CASE x \in T
      <4>1. (U \ {x}) \cap T = (U \cap T) \ {x} /\ x \in U \cap T
        BY <2>4, <3>2
      <4>2. g[U \cap T] = f[x] + g[(U \cap T) \ {x}]
        BY <2>1, <3>1, <3>2, <4>1
      <4> QED BY <3>1, <4>1, <4>2
    <3>3. CASE x \notin T
      <4>1. (U \ {x}) \cap T = U \cap T /\ f[x] = 0
        BY <3>3
      <4>2. h[U \ {x}] = h[U]
        BY <3>1, <4>1
      <4> HIDE DEF h
      <4> QED BY <3>1, <4>1, <4>2
    <3> QED BY <3>2, <3>3
  <2> HIDE DEF h
  <2> QED BY <2>2, <2>3, <2>4 DEF IsSum
<1>3. h[S] = g[T]
  <2>1. S \cap T = T /\ S \in SUBSET S
    OBVIOUS
  <2> QED BY <2>1
<1> HIDE DEF h
<1>4. Summable(f, T)
  BY FS_Subset DEF Summable
<1> QED BY <1>1, <1>2, <1>3, <1>4, TotalIs

\* A table is added up by rows or by columns.
LEMMA TotalExchange ==
  ASSUME NEW A, NEW B, NEW a, IsFiniteSet(A), IsFiniteSet(B), \A x \in A, y \in B : a[x][y] \in Int
  PROVE  /\ Total([x \in A |-> Total(a[x], B)], A)
              = Total([y \in B |-> Total([x \in A |-> a[x][y]], A)], B)
         /\ Summable([x \in A |-> Total(a[x], B)], A)
         /\ Summable([y \in B |-> Total([x \in A |-> a[x][y]], A)], B)
<1> DEFINE rows == [x \in A |-> Total(a[x], B)]
           column(y) == [x \in A |-> a[x][y]]
           columns(T) == [y \in B |-> Total(column(y), T)]
           Q == {T \in SUBSET A : Total(rows, T) = Total(columns(T), B)}
<1>1. \A x \in A : Summable(a[x], B)
  BY DEF Summable
<1>2. Summable(rows, A)
  BY <1>1, TotalOf DEF Summable
<1>3. \A y \in B : Summable(column(y), A)
  BY DEF Summable
<1>4. \A T \in SUBSET A : \A y \in B : Summable(column(y), T)
  BY <1>3, FS_Subset DEF Summable
<1> HIDE DEF column, rows
<1>5. ASSUME NEW T \in SUBSET A PROVE Summable(columns(T), B)
  BY <1>4, TotalOf DEF Summable
<1>6. {} \in Q
  <2>1. Total(rows, {}) = 0 /\ \A y \in B : Total(column(y), {}) = 0
    BY <1>2, <1>3, TotalOf
  <2>2. Total(columns({}), B) = 0
    <3>1. \A y \in B : columns({})[y] = 0
      BY <2>1
    <3> HIDE DEF columns
    <3> QED BY <3>1, TotalZero
  <2> QED BY <2>1, <2>2
<1>7. ASSUME NEW T \in SUBSET A, NEW x \in A, T \in Q, x \notin T PROVE T \cup {x} \in Q
  <2>1. Total(rows, T \cup {x}) = Total(a[x], B) + Total(rows, T)
    <3>1. rows[x] = Total(a[x], B)
      BY DEF rows
    <3> QED BY <1>2, <1>7, <3>1, TotalOneMore
  <2>2. \A y \in B : Total(column(y), T \cup {x}) = a[x][y] + Total(column(y), T)
    <3> TAKE y \in B
    <3> DEFINE f == column(y)
    <3>1. f[x] = a[x][y] /\ Summable(f, A)
      BY <1>3 DEF column
    <3> HIDE DEF f, Q, columns
    <3>2. Total(f, T \cup {x}) = f[x] + Total(f, T)
      BY <1>7, <3>1, TotalOneMore
    <3> QED BY <3>1, <3>2 DEF f
  <2>3. \A y \in B : columns(T \cup {x})[y] = a[x][y] + columns(T)[y]
    BY <2>2
  <2>4. T \cup {x} \in SUBSET A
    OBVIOUS
  <2>5. Total(columns(T \cup {x}), B) = Total(a[x], B) + Total(columns(T), B)
    <3> DEFINE f == a[x]
               h == columns(T)
               k == columns(T \cup {x})
    <3>1. Summable(f, B) /\ Summable(h, B) /\ \A y \in B : k[y] = f[y] + h[y]
      BY <1>1, <1>5, <2>3
    <3> HIDE DEF f, h, k
    <3>2. Total(k, B) = Total(f, B) + Total(h, B)
      BY <3>1, TotalAdds
    <3> QED BY <3>2 DEF f, h, k
  <2>6. Total(rows, T) = Total(columns(T), B)
    BY <1>7
  <2> HIDE DEF columns
  <2> QED BY <2>1, <2>4, <2>5, <2>6
<1> HIDE DEF Q
<1>8. A \in Q
  BY <1>6, <1>7, FiniteInduction
<1>9. Total(rows, A) = Total(columns(A), B)
  BY <1>8 DEF Q
<1>10. Summable(columns(A), B)
  BY <1>5
<1> QED BY <1>2, <1>9, <1>10 DEF rows, column
=============================================================================
