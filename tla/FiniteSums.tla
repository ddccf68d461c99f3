------------------------------ MODULE FiniteSums ------------------------------
(***************************************************************************)
(* Facts about SumFunctionOnSet of the community modules, the sum of f[x]  *)
(* for x in a finite set, which CheckoutSale and ShopLedger use for totals *)
(* and stock.  They rest on induction over the naturals, which is derived  *)
(* first, for sets of naturals, from the fact that no finite set can be    *)
(* mapped one-to-one into one that has fewer elements.                     *)
(***************************************************************************)
EXTENDS Integers, FiniteSets, Functions, FiniteSetTheorems, SequenceTheorems, TLAPS

\* A set that holds 0, and with every natural number the next, holds them all.
LEMMA NaturalsInduct ==
  ASSUME NEW S, 0 \in S, \A n \in Nat : n \in S => n + 1 \in S
  PROVE  Nat \subseteq S
<1> SUFFICES ASSUME NEW k \in Nat, k \notin S PROVE FALSE
  OBVIOUS
<1> DEFINE T == {n \in 0 .. k : n \in S}
           f == [n \in T |-> n + 1]
<1>1. IsFiniteSet(T) /\ 0 \in T
  <2>1. IsFiniteSet(0 .. k)
    BY FS_Interval
  <2>. QED BY <2>1, FS_Subset
<1>2. \A n \in T : n + 1 \in T \ {0}
  <2> SUFFICES ASSUME NEW n \in T PROVE n + 1 \in T \ {0}
    OBVIOUS
  <2>1. n \in Nat /\ n \in S /\ n # k /\ n <= k
    OBVIOUS
  <2>. QED BY <2>1
<1>3. f \in Injection(T, T \ {0})
  BY <1>2 DEF Injection, IsInjective
<1>4. /\ IsFiniteSet(T \ {0}) /\ Cardinality(T \ {0}) = Cardinality(T) - 1
      /\ Cardinality(T) \in Nat
  BY <1>1, FS_RemoveElement, FS_CardinalityType
<1>5. Cardinality(T) <= Cardinality(T \ {0})
  BY <1>3, <1>4, FS_Injection DEF ExistsInjection
<1>. QED BY <1>4, <1>5

LEMMA OneFewer ==
  ASSUME NEW T, IsFiniteSet(T), NEW n \in Nat, Cardinality(T) = n + 1
  PROVE  T # {} /\ \A x \in T : Cardinality(T \ {x}) = n
<1>1. Cardinality({}) = 0
  BY FS_EmptySet
<1>2. T # {}
  BY <1>1
<1>3. ASSUME NEW x \in T PROVE Cardinality(T \ {x}) = n
  <2>1. Cardinality(T \ {x}) = Cardinality(T) - 1
    BY FS_RemoveElement
  <2>. QED BY <2>1
<1>. QED BY <1>2, <1>3

\* Likewise with the elements of a finite set: C holds {}, and with every subset
\* of S that it holds those that have one element more.
LEMMA SetsInduct ==
  ASSUME NEW S, IsFiniteSet(S), NEW C, {} \in C,
         \A T \in SUBSET S : \A x \in S \ T : T \in C => T \cup {x} \in C
  PROVE  S \in C
<1> DEFINE N == {n \in Nat : \A T \in SUBSET S : Cardinality(T) = n => T \in C}
<1>0. \A T \in SUBSET S : IsFiniteSet(T) /\ Cardinality(T) \in Nat
  BY FS_Subset, FS_CardinalityType
<1>1. 0 \in N
  BY <1>0, FS_EmptySet
<1>2. ASSUME NEW n \in Nat, n \in N PROVE n + 1 \in N
  <2> SUFFICES ASSUME NEW T \in SUBSET S, Cardinality(T) = n + 1 PROVE T \in C
    OBVIOUS
  <2>1. T # {} /\ \A x \in T : Cardinality(T \ {x}) = n
    BY <1>0, OneFewer
  <2>2. PICK x \in T : TRUE
    BY <2>1
  <2>3. Cardinality(T \ {x}) = n
    BY <2>1
  <2>4. T \ {x} \in C
    BY <1>2, <2>3
  <2>5. x \in S \ (T \ {x}) /\ T \ {x} \in SUBSET S /\ (T \ {x}) \cup {x} = T
    BY <2>2
  <2>. QED BY <2>4, <2>5
<1> HIDE DEF N
<1>3. Nat \subseteq N
  BY <1>1, <1>2, NaturalsInduct
<1>4. Cardinality(S) \in N
  BY <1>0, <1>3
<1>. QED BY <1>0, <1>4 DEF N

-----------------------------------------------------------------------------
(* The recursion by which the sum is defined has one solution.             *)

Chosen(s) == CHOOSE x \in s : TRUE
Adds(f, D, it) ==
  it = [s \in D |-> IF s = {} THEN 0 ELSE f[Chosen(s)] + it[s \ {Chosen(s)}]]

LEMMA SumUnfolds ==
  ASSUME NEW f, NEW S
  PROVE  SumFunctionOnSet(f, S) = (CHOOSE it : Adds(f, SUBSET S, it))[S]
BY DEF SumFunctionOnSet, FoldFunctionOnSet, MapThenFoldSet, Adds, Chosen

LEMMA ChosenIn ==
  ASSUME NEW s, s # {}
  PROVE  Chosen(s) \in s
BY DEF Chosen

LEMMA AdderExists ==
  ASSUME NEW f, NEW S, IsFiniteSet(S)
  PROVE  \E it : Adds(f, SUBSET S, it)
<1> DEFINE Small(n) == {s \in SUBSET S : Cardinality(s) <= n}
           N == {n \in Nat : \E it : Adds(f, Small(n), it)}
<1>0. \A s \in SUBSET S : IsFiniteSet(s) /\ Cardinality(s) \in Nat /\ Cardinality(s) <= Cardinality(S)
  BY FS_Subset, FS_CardinalityType
<1>1. 0 \in N
  <2> DEFINE it == [s \in Small(0) |-> 0]
  <2>1. \A s \in Small(0) : s = {}
    BY <1>0, FS_EmptySet
  <2>2. Adds(f, Small(0), it)
    BY <2>1 DEF Adds
  <2>. QED BY <2>2
<1>2. ASSUME NEW n \in Nat, n \in N PROVE n + 1 \in N
  <2>1. PICK g : Adds(f, Small(n), g)
    BY <1>2
  <2> DEFINE h == [s \in Small(n + 1) |-> IF s = {} THEN 0 ELSE f[Chosen(s)] + g[s \ {Chosen(s)}]]
  <2>2. ASSUME NEW s \in Small(n + 1), s # {}
        PROVE  /\ s \ {Chosen(s)} \in Small(n) /\ s \ {Chosen(s)} \in Small(n + 1)
               /\ h[s \ {Chosen(s)}] = g[s \ {Chosen(s)}]
    <3> DEFINE r == s \ {Chosen(s)}
    <3>1. Cardinality(r) = Cardinality(s) - 1
      BY <1>0, <2>2, ChosenIn, FS_RemoveElement
    <3>2. r \in Small(n) /\ r \in Small(n + 1)
      BY <1>0, <3>1
    <3>3. g[r] = IF r = {} THEN 0 ELSE f[Chosen(r)] + g[r \ {Chosen(r)}]
      BY <2>1, <3>2 DEF Adds
    <3>. QED BY <3>2, <3>3
  <2>3. Adds(f, Small(n + 1), h)
    <3>1. \A s \in Small(n + 1) : s # {} => h[s \ {Chosen(s)}] = g[s \ {Chosen(s)}]
      BY <2>2
    <3>. QED BY <3>1 DEF Adds
  <2>4. \E it : Adds(f, Small(n + 1), it)
    BY <2>3
  <2>. QED BY <2>4
<1>3. Nat \subseteq N
  <2> HIDE DEF N
  <2>. QED BY <1>1, <1>2, NaturalsInduct
<1>4. Cardinality(S) \in N /\ Small(Cardinality(S)) = SUBSET S
  BY <1>0, <1>3, FS_CardinalityType
<1>. QED BY <1>4

LEMMA AdderUnique ==
  ASSUME NEW f, NEW S, IsFiniteSet(S), NEW T \in SUBSET S, NEW a, NEW b,
         Adds(f, SUBSET S, a), Adds(f, SUBSET T, b)
  PROVE  a[T] = b[T]
<1> DEFINE C == {s \in SUBSET T : a[s] = b[s]}
           N == {n \in Nat : \A s \in SUBSET T : Cardinality(s) = n => a[s] = b[s]}
<1>0. \A s \in SUBSET T : IsFiniteSet(s) /\ Cardinality(s) \in Nat
  BY FS_Subset, FS_CardinalityType
<1>1. \A s \in SUBSET T :
        /\ a[s] = IF s = {} THEN 0 ELSE f[Chosen(s)] + a[s \ {Chosen(s)}]
        /\ b[s] = IF s = {} THEN 0 ELSE f[Chosen(s)] + b[s \ {Chosen(s)}]
  BY DEF Adds
<1>2. 0 \in N
  BY <1>0, <1>1, FS_EmptySet
<1>3. ASSUME NEW n \in Nat, n \in N PROVE n + 1 \in N
  <2> SUFFICES ASSUME NEW s \in SUBSET T, Cardinality(s) = n + 1 PROVE a[s] = b[s]
    OBVIOUS
  <2>1. s # {} /\ \A x \in s : Cardinality(s \ {x}) = n
    BY <1>0, OneFewer
  <2>2. Cardinality(s \ {Chosen(s)}) = n
    BY <2>1, ChosenIn
  <2>3. a[s \ {Chosen(s)}] = b[s \ {Chosen(s)}]
    BY <1>3, <2>2
  <2>. QED BY <1>1, <2>1, <2>3
<1>4. Nat \subseteq N
  <2> HIDE DEF N
  <2>. QED BY <1>2, <1>3, NaturalsInduct
<1>5. Cardinality(T) \in N
  BY <1>0, <1>4
<1>. QED BY <1>5

LEMMA SumChosen ==
  ASSUME NEW f, NEW S, IsFiniteSet(S)
  PROVE  SumFunctionOnSet(f, S) =
           IF S = {} THEN 0
           ELSE f[Chosen(S)] + SumFunctionOnSet(f, S \ {Chosen(S)})
<1> DEFINE T == S \ {Chosen(S)}
           a == CHOOSE it : Adds(f, SUBSET S, it)
           b == CHOOSE it : Adds(f, SUBSET T, it)
<1>1. IsFiniteSet(T) /\ T \in SUBSET S
  BY FS_Subset
<1>2. Adds(f, SUBSET S, a) /\ Adds(f, SUBSET T, b)
  BY <1>1, AdderExists
<1>3. SumFunctionOnSet(f, S) = a[S] /\ SumFunctionOnSet(f, T) = b[T]
  BY SumUnfolds
<1>4. a[T] = b[T]
  <2> HIDE DEF a, b, T
  <2>. QED BY <1>1, <1>2, AdderUnique
<1>5. a[S] = IF S = {} THEN 0 ELSE f[Chosen(S)] + a[T]
  <2>1. S \in SUBSET S
    OBVIOUS
  <2> HIDE DEF a
  <2>. QED BY <1>2, <2>1 DEF Adds
<1>. QED BY <1>3, <1>4, <1>5

-----------------------------------------------------------------------------
(* What the sum is, whatever the order.                                    *)

LEMMA SumEmpty ==
  ASSUME NEW f
  PROVE  SumFunctionOnSet(f, {}) = 0
BY SumChosen, FS_EmptySet

\* The sum of integers is one.
LEMMA SumType ==
  ASSUME NEW S, IsFiniteSet(S), NEW f, \A x \in S : f[x] \in Int
  PROVE  SumFunctionOnSet(f, S) \in Int
<1> DEFINE N == {n \in Nat : \A T \in SUBSET S : Cardinality(T) = n => SumFunctionOnSet(f, T) \in Int}
<1>0. \A T \in SUBSET S : IsFiniteSet(T) /\ Cardinality(T) \in Nat
  BY FS_Subset, FS_CardinalityType
<1>1. 0 \in N
  BY <1>0, FS_EmptySet, SumEmpty
<1>2. ASSUME NEW n \in Nat, n \in N PROVE n + 1 \in N
  <2> SUFFICES ASSUME NEW T \in SUBSET S, Cardinality(T) = n + 1 PROVE SumFunctionOnSet(f, T) \in Int
    OBVIOUS
  <2>1. T # {} /\ \A x \in T : Cardinality(T \ {x}) = n
    BY <1>0, OneFewer
  <2>2. Chosen(T) \in T
    BY <2>1, ChosenIn
  <2>3. SumFunctionOnSet(f, T \ {Chosen(T)}) \in Int
    BY <1>2, <2>1, <2>2
  <2>4. SumFunctionOnSet(f, T) = f[Chosen(T)] + SumFunctionOnSet(f, T \ {Chosen(T)})
    BY <1>0, <2>1, SumChosen
  <2>. QED BY <2>2, <2>3, <2>4
<1>3. Nat \subseteq N
  <2> HIDE DEF N
  <2>. QED BY <1>1, <1>2, NaturalsInduct
<1>4. Cardinality(S) \in N
  BY <1>0, <1>3
<1>. QED BY <1>4

\* Any element may be taken off first.
LEMMA SumRemoves ==
  ASSUME NEW S, IsFiniteSet(S), NEW f, \A x \in S : f[x] \in Int, NEW y \in S
  PROVE  SumFunctionOnSet(f, S) = f[y] + SumFunctionOnSet(f, S \ {y})
<1> DEFINE N == {n \in Nat : \A T \in SUBSET S : Cardinality(T) = n =>
                   \A x \in T : SumFunctionOnSet(f, T) = f[x] + SumFunctionOnSet(f, T \ {x})}
<1>0. \A T \in SUBSET S : /\ IsFiniteSet(T) /\ Cardinality(T) \in Nat
                         /\ SumFunctionOnSet(f, T) \in Int
  <2> SUFFICES ASSUME NEW T \in SUBSET S
               PROVE  /\ IsFiniteSet(T) /\ Cardinality(T) \in Nat
                      /\ SumFunctionOnSet(f, T) \in Int
    OBVIOUS
  <2>1. IsFiniteSet(T) /\ \A x \in T : f[x] \in Int
    BY FS_Subset
  <2>. QED BY <2>1, SumType, FS_CardinalityType
<1>1. 0 \in N
  BY <1>0, FS_EmptySet
<1>2. ASSUME NEW n \in Nat, n \in N PROVE n + 1 \in N
  <2> SUFFICES ASSUME NEW T \in SUBSET S, Cardinality(T) = n + 1, NEW x \in T
               PROVE  SumFunctionOnSet(f, T) = f[x] + SumFunctionOnSet(f, T \ {x})
    OBVIOUS
  <2> DEFINE c == Chosen(T)
             U == (T \ {c}) \ {x}
  <2>1. c \in T /\ \A z \in T : Cardinality(T \ {z}) = n
    BY <1>0, OneFewer, ChosenIn
  <2>2. SumFunctionOnSet(f, T) = f[c] + SumFunctionOnSet(f, T \ {c})
    BY <1>0, SumChosen
  <2>3. CASE x = c
    BY <2>2, <2>3
  <2>4. CASE x # c
    <3>1. SumFunctionOnSet(f, T \ {c}) = f[x] + SumFunctionOnSet(f, U)
      <4>1. T \ {c} \in SUBSET S /\ Cardinality(T \ {c}) = n /\ x \in T \ {c}
        BY <2>1, <2>4
      <4> HIDE DEF c
      <4>. QED BY <1>2, <4>1
    <3>2. SumFunctionOnSet(f, T \ {x}) = f[c] + SumFunctionOnSet(f, U)
      <4>1. T \ {x} \in SUBSET S /\ Cardinality(T \ {x}) = n /\ c \in T \ {x} /\ U = (T \ {x}) \ {c}
        BY <2>1, <2>4
      <4> HIDE DEF c, U
      <4>. QED BY <1>2, <4>1
    <3>3. f[x] \in Int /\ f[c] \in Int /\ SumFunctionOnSet(f, U) \in Int
      <4>1. U \in SUBSET S /\ x \in S /\ c \in S
        BY <2>1
      <4>. QED BY <1>0, <4>1
    <3> HIDE DEF c, U
    <3>. QED BY <2>2, <3>1, <3>2, <3>3
  <2>. QED BY <2>3, <2>4
<1>3. Nat \subseteq N
  <2> HIDE DEF N
  <2>. QED BY <1>1, <1>2, NaturalsInduct
<1>4. Cardinality(S) \in N /\ S \in SUBSET S
  BY <1>0, <1>3
<1>. QED BY <1>4

LEMMA SumAdding ==
  ASSUME NEW S, IsFiniteSet(S), NEW y, y \notin S, NEW f, \A x \in S \cup {y} : f[x] \in Int
  PROVE  SumFunctionOnSet(f, S \cup {y}) = f[y] + SumFunctionOnSet(f, S)
<1>1. IsFiniteSet(S \cup {y}) /\ (S \cup {y}) \ {y} = S
  BY FS_AddElement
<1>2. SumFunctionOnSet(f, S \cup {y}) = f[y] + SumFunctionOnSet(f, (S \cup {y}) \ {y})
  BY <1>1, SumRemoves
<1>. QED BY <1>1, <1>2

\* Functions that agree on S have the same sum.
LEMMA SumAgrees ==
  ASSUME NEW S, IsFiniteSet(S), NEW f, NEW g, \A x \in S : f[x] \in Int /\ f[x] = g[x]
  PROVE  SumFunctionOnSet(f, S) = SumFunctionOnSet(g, S)
<1> DEFINE C == {T \in SUBSET S : SumFunctionOnSet(f, T) = SumFunctionOnSet(g, T)}
<1>1. {} \in C
  BY SumEmpty
<1>2. ASSUME NEW T \in SUBSET S, NEW y \in S \ T, T \in C PROVE T \cup {y} \in C
  <2>1. IsFiniteSet(T) /\ \A x \in T \cup {y} : f[x] \in Int /\ g[x] \in Int
    BY FS_Subset
  <2>2. /\ SumFunctionOnSet(f, T \cup {y}) = f[y] + SumFunctionOnSet(f, T)
        /\ SumFunctionOnSet(g, T \cup {y}) = g[y] + SumFunctionOnSet(g, T)
    BY <2>1, SumAdding
  <2>. QED BY <1>2, <2>2
<1> HIDE DEF C
<1>3. S \in C
  BY <1>1, <1>2, SetsInduct
<1>. QED BY <1>3 DEF C

\* The sum of sums.
LEMMA SumPlus ==
  ASSUME NEW S, IsFiniteSet(S), NEW f, NEW g, NEW h,
         \A x \in S : f[x] \in Int /\ g[x] \in Int /\ h[x] = f[x] + g[x]
  PROVE  SumFunctionOnSet(h, S) = SumFunctionOnSet(f, S) + SumFunctionOnSet(g, S)
<1> DEFINE C == {T \in SUBSET S :
                   SumFunctionOnSet(h, T) = SumFunctionOnSet(f, T) + SumFunctionOnSet(g, T)}
<1>1. {} \in C
  BY SumEmpty
<1>2. ASSUME NEW T \in SUBSET S, NEW y \in S \ T, T \in C PROVE T \cup {y} \in C
  <2>1. IsFiniteSet(T) /\ \A x \in T \cup {y} : f[x] \in Int /\ g[x] \in Int /\ h[x] \in Int
    BY FS_Subset
  <2>2. /\ SumFunctionOnSet(f, T \cup {y}) = f[y] + SumFunctionOnSet(f, T)
        /\ SumFunctionOnSet(g, T \cup {y}) = g[y] + SumFunctionOnSet(g, T)
        /\ SumFunctionOnSet(h, T \cup {y}) = h[y] + SumFunctionOnSet(h, T)
    BY <2>1, SumAdding
  <2>3. SumFunctionOnSet(f, T) \in Int /\ SumFunctionOnSet(g, T) \in Int
    BY <2>1, SumType
  <2>. QED BY <1>2, <2>1, <2>2, <2>3
<1> HIDE DEF C
<1>3. S \in C
  BY <1>1, <1>2, SetsInduct
<1>. QED BY <1>3 DEF C

\* Nothing negative sums to nothing negative.
LEMMA SumNat ==
  ASSUME NEW S, IsFiniteSet(S), NEW f, \A x \in S : f[x] \in Nat
  PROVE  SumFunctionOnSet(f, S) \in Nat
<1> DEFINE C == {T \in SUBSET S : SumFunctionOnSet(f, T) \in Nat}
<1>1. {} \in C
  BY SumEmpty
<1>2. ASSUME NEW T \in SUBSET S, NEW y \in S \ T, T \in C PROVE T \cup {y} \in C
  <2>1. IsFiniteSet(T) /\ \A x \in T \cup {y} : f[x] \in Int
    BY FS_Subset
  <2>2. SumFunctionOnSet(f, T \cup {y}) = f[y] + SumFunctionOnSet(f, T)
    BY <2>1, SumAdding
  <2>. QED BY <1>2, <2>2
<1> HIDE DEF C
<1>3. S \in C
  BY <1>1, <1>2, SetsInduct
<1>. QED BY <1>3 DEF C

LEMMA SumZero ==
  ASSUME NEW S, IsFiniteSet(S), NEW f, \A x \in S : f[x] = 0
  PROVE  SumFunctionOnSet(f, S) = 0
<1> DEFINE C == {T \in SUBSET S : SumFunctionOnSet(f, T) = 0}
<1>1. {} \in C
  BY SumEmpty
<1>2. ASSUME NEW T \in SUBSET S, NEW y \in S \ T, T \in C PROVE T \cup {y} \in C
  <2>1. IsFiniteSet(T) /\ \A x \in T \cup {y} : f[x] \in Int
    BY FS_Subset
  <2>2. SumFunctionOnSet(f, T \cup {y}) = f[y] + SumFunctionOnSet(f, T)
    BY <2>1, SumAdding
  <2>. QED BY <1>2, <2>2
<1> HIDE DEF C
<1>3. S \in C
  BY <1>1, <1>2, SetsInduct
<1>. QED BY <1>3 DEF C

\* The sum of one element.
LEMMA SumSingle ==
  ASSUME NEW y, NEW f, f[y] \in Int
  PROVE  SumFunctionOnSet(f, {y}) = f[y]
<1>1. IsFiniteSet({}) /\ {} \cup {y} = {y} /\ y \notin {}
  BY FS_EmptySet
<1>2. SumFunctionOnSet(f, {} \cup {y}) = f[y] + SumFunctionOnSet(f, {})
  BY <1>1, SumAdding
<1>. QED BY <1>1, <1>2, SumEmpty

\* The sum over two sets that have nothing in common.
LEMMA SumUnion ==
  ASSUME NEW S, IsFiniteSet(S), NEW U, IsFiniteSet(U), S \cap U = {},
         NEW f, \A x \in S \cup U : f[x] \in Int
  PROVE  SumFunctionOnSet(f, S \cup U) = SumFunctionOnSet(f, S) + SumFunctionOnSet(f, U)
<1> DEFINE C == {T \in SUBSET S :
                   SumFunctionOnSet(f, T \cup U) = SumFunctionOnSet(f, T) + SumFunctionOnSet(f, U)}
<1>0. SumFunctionOnSet(f, U) \in Int
  BY SumType
<1>1. {} \in C
  <2>1. {} \cup U = U
    OBVIOUS
  <2>. QED BY <1>0, <2>1, SumEmpty
<1>2. ASSUME NEW T \in SUBSET S, NEW y \in S \ T, T \in C PROVE T \cup {y} \in C
  <2>1. /\ IsFiniteSet(T) /\ IsFiniteSet(T \cup U) /\ y \notin T \cup U
        /\ \A x \in (T \cup U) \cup {y} : f[x] \in Int
        /\ (T \cup {y}) \cup U = (T \cup U) \cup {y}
    BY FS_Subset, FS_Union
  <2>2. /\ SumFunctionOnSet(f, T \cup {y}) = f[y] + SumFunctionOnSet(f, T)
        /\ SumFunctionOnSet(f, (T \cup U) \cup {y}) = f[y] + SumFunctionOnSet(f, T \cup U)
    BY <2>1, SumAdding
  <2>3. SumFunctionOnSet(f, T) \in Int
    BY <2>1, SumType
  <2>4. SumFunctionOnSet(f, T \cup U) = SumFunctionOnSet(f, T) + SumFunctionOnSet(f, U) /\ f[y] \in Int
    BY <1>2, <2>1
  <2>5. SumFunctionOnSet(f, (T \cup {y}) \cup U) = SumFunctionOnSet(f, T \cup {y}) + SumFunctionOnSet(f, U)
    <3>1. \A a, b, c \in Int : a + (b + c) = (a + b) + c
      OBVIOUS
    <3>2. SumFunctionOnSet(f, (T \cup {y}) \cup U) = f[y] + (SumFunctionOnSet(f, T) + SumFunctionOnSet(f, U))
      BY <2>1, <2>2, <2>4, Zenon
    <3>. QED BY <1>0, <2>2, <2>3, <2>4, <3>1, <3>2
  <2>. QED BY <2>5
<1> HIDE DEF C
<1>3. S \in C
  BY <1>1, <1>2, SetsInduct
<1>. QED BY <1>3 DEF C

\* A finite set of integers has a greatest element.
LEMMA MaxExists ==
  ASSUME NEW S, IsFiniteSet(S), S # {}, S \subseteq Int
  PROVE  \E m \in S : \A x \in S : m >= x
<1> DEFINE C == {T \in SUBSET S : T # {} => \E m \in T : \A x \in T : m >= x}
<1>1. {} \in C
  OBVIOUS
<1>2. ASSUME NEW T \in SUBSET S, NEW y \in S \ T, T \in C PROVE T \cup {y} \in C
  <2>0. y \in Int
    OBVIOUS
  <2>1. CASE T = {}
    BY <2>0, <2>1
  <2>2. CASE T # {}
    <3>1. PICK m \in T : \A x \in T : m >= x
      BY <1>2, <2>2
    <3>2. m \in Int /\ \A x \in T : x \in Int
      OBVIOUS
    <3>3. CASE m >= y
      BY <3>1, <3>3
    <3>4. CASE ~(m >= y)
      <4>1. \A x \in T \cup {y} : y >= x
        BY <2>0, <3>1, <3>2, <3>4
      <4>. QED BY <4>1
    <3>. QED BY <3>3, <3>4
  <2>. QED BY <2>1, <2>2
<1> HIDE DEF C
<1>3. S \in C
  BY <1>1, <1>2, SetsInduct
<1>. QED BY <1>3 DEF C

\* A function on 1 .. n is a sequence.
LEMMA FunctionIsSeq ==
  ASSUME NEW n \in Nat, NEW R, NEW f \in [1 .. n -> R]
  PROVE  f \in Seq(R) /\ Len(f) = n
<1>1. f \in Seq(R)
  BY SeqDef
<1>. QED BY <1>1
===============================================================================
