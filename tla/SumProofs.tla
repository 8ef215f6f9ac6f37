------------------------------ MODULE SumProofs ------------------------------
(***************************************************************************)
(* What the proofs about money need of sums.  The library's operator is a  *)
(* recursive function over the subsets of a set.  Instead of an induction  *)
(* principle, which the provers cannot instantiate, every proof takes a    *)
(* smallest set on which the lemma fails and finds a contradiction.        *)
(***************************************************************************)
EXTENDS Sums, FiniteSets, FiniteSetTheorems, WellFoundedInduction, TLAPS

\* A non-empty set of subsets of a finite set has a smallest member.
LEMMA Smallest ==
    ASSUME NEW S, IsFiniteSet(S), NEW C \in SUBSET (SUBSET S), C # {}
    PROVE  \E T \in C : \A U \in C : U \subseteq T => U = T
<1>1. IsWellFoundedOn(StrictSubsetOrdering(S), SUBSET S)
  BY FS_StrictSubsetOrderingWellFounded, FS_FiniteSubsetsOfFinite
<1>2. \E T \in C : \A U \in C : <<U, T>> \notin StrictSubsetOrdering(S)
  BY <1>1, WFMin
<1> QED BY <1>2 DEF StrictSubsetOrdering

\* The element that the library's operator takes first.
First(s) == CHOOSE x \in s : TRUE

\* g adds up f over the subsets of S.
Adds(g, f, S) ==
    g = [s \in SUBSET S |-> IF s = {} THEN 0 ELSE f[First(s)] + g[s \ {First(s)}]]

LEMMA SumOfDef == ASSUME NEW f, NEW S
                  PROVE  SumOf(f, S) = (CHOOSE g : Adds(g, f, S))[S]
BY DEF SumOf, MapThenSumSet, MapThenFoldSet, First, Adds

LEMMA AddsValue ==
    ASSUME NEW f, NEW S, NEW g, Adds(g, f, S), NEW s \in SUBSET S
    PROVE  g[s] = IF s = {} THEN 0 ELSE f[First(s)] + g[s \ {First(s)}]
BY DEF Adds

LEMMA FirstIn == ASSUME NEW s, s # {} PROVE First(s) \in s
BY DEF First

\* Two such functions agree wherever both are defined.
LEMMA AddsAgree ==
    ASSUME NEW f, NEW S, NEW T, IsFiniteSet(S), NEW g, NEW h, Adds(g, f, S), Adds(h, f, T),
           NEW U \in SUBSET (S \cap T)
    PROVE  g[U] = h[U]
<1> DEFINE C == {V \in SUBSET S : V \subseteq T /\ g[V] # h[V]}
<1> SUFFICES ASSUME C # {} PROVE FALSE
  OBVIOUS
<1>1. PICK V \in C : \A W \in C : W \subseteq V => W = V
  <2>1. C \in SUBSET (SUBSET S)
    OBVIOUS
  <2> HIDE DEF C
  <2> QED BY <2>1, Smallest
<1>0. V \in SUBSET S /\ V \in SUBSET T /\ g[V] # h[V]
  BY <1>1
<1> HIDE DEF C
<1>2. g[V] = IF V = {} THEN 0 ELSE f[First(V)] + g[V \ {First(V)}]
  BY <1>0, AddsValue
<1>3. h[V] = IF V = {} THEN 0 ELSE f[First(V)] + h[V \ {First(V)}]
  BY <1>0, AddsValue
<1>4. V # {} /\ g[V \ {First(V)}] # h[V \ {First(V)}]
  BY <1>0, <1>2, <1>3
<1>5. V \ {First(V)} \in C
  BY <1>0, <1>4 DEF C
<1> QED BY <1>1, <1>4, <1>5, FirstIn

LEMMA AddsExists ==
    ASSUME NEW f, NEW S, IsFiniteSet(S)
    PROVE  \E g : Adds(g, f, S)
<1> DEFINE C == {T \in SUBSET S : ~ \E g : Adds(g, f, T)}
<1> SUFFICES ASSUME C # {} PROVE FALSE
  BY DEF C
<1>1. PICK T \in C : \A U \in C : U \subseteq T => U = T
  <2>1. C \in SUBSET (SUBSET S)
    OBVIOUS
  <2> HIDE DEF C
  <2> QED BY <2>1, Smallest
<1> DEFINE v(s) == IF s = {} THEN 0 ELSE f[First(s)] + SumOf(f, s \ {First(s)})
           g == [s \in SUBSET T |-> v(s)]
<1>2. ASSUME NEW s \in SUBSET T, s # T PROVE SumOf(f, s) = v(s)
  <2> DEFINE h == CHOOSE e : Adds(e, f, s)
             u == s \ {First(s)}
             k == CHOOSE e : Adds(e, f, u)
  <2>0. s \in SUBSET S /\ u \in SUBSET S /\ u \subseteq s /\ IsFiniteSet(s)
    BY FS_Subset
  <2>1. Adds(h, f, s)
    BY <1>1, <1>2, <2>0
  <2>2. Adds(k, f, u)
    BY <1>1, <1>2, <2>0
  <2>3. SumOf(f, s) = h[s] /\ SumOf(f, u) = k[u]
    BY SumOfDef
  <2> HIDE DEF h, k, u
  <2>4. h[u] = k[u]
    BY <2>0, <2>1, <2>2, AddsAgree
  <2>5. h[s] = IF s = {} THEN 0 ELSE f[First(s)] + h[s \ {First(s)}]
    BY <2>1, AddsValue
  <2> QED BY <2>3, <2>4, <2>5 DEF u
<1>3. ASSUME NEW s \in SUBSET T, s # {} PROVE g[s \ {First(s)}] = SumOf(f, s \ {First(s)})
  <2>1. s \ {First(s)} \in SUBSET T /\ s \ {First(s)} # T
    BY <1>3, FirstIn
  <2> QED BY <1>2, <2>1
<1>4. Adds(g, f, T)
  BY <1>3, Zenon DEF Adds
<1> QED BY <1>1, <1>4

\* The sum is the value of the first element and the sum of the others.
LEMMA SumOfFirst ==
    ASSUME NEW f, NEW S, IsFiniteSet(S)
    PROVE  SumOf(f, S) = IF S = {} THEN 0 ELSE f[First(S)] + SumOf(f, S \ {First(S)})
<1> DEFINE g == CHOOSE e : Adds(e, f, S)
           T == S \ {First(S)}
           h == CHOOSE e : Adds(e, f, T)
<1>1. Adds(g, f, S)
  BY AddsExists
<1>2. IsFiniteSet(T) /\ T \in SUBSET S
  BY FS_Subset
<1>3. Adds(h, f, T)
  BY <1>2, AddsExists
<1>4. SumOf(f, S) = g[S] /\ SumOf(f, T) = h[T]
  BY SumOfDef
<1> HIDE DEF g, h, T
<1>5. g[T] = h[T]
  BY <1>1, <1>2, <1>3, AddsAgree
<1> QED BY <1>1, <1>4, <1>5, AddsValue DEF T

-----------------------------------------------------------------------------
(* The facts that are cited elsewhere.                                      *)

\* Nothing adds up to zero.
LEMMA SumOfEmpty == ASSUME NEW f PROVE SumOf(f, {}) = 0
BY SumOfFirst, FS_EmptySet

\* A sum of integers is an integer.
LEMMA SumOfType ==
    ASSUME NEW f, NEW S, IsFiniteSet(S), \A x \in S : f[x] \in Int
    PROVE  SumOf(f, S) \in Int
<1> DEFINE C == {T \in SUBSET S : SumOf(f, T) \notin Int}
<1> SUFFICES ASSUME C # {} PROVE FALSE
  OBVIOUS
<1>1. PICK T \in C : \A U \in C : U \subseteq T => U = T
  <2>1. C \in SUBSET (SUBSET S)
    OBVIOUS
  <2> HIDE DEF C
  <2> QED BY <2>1, Smallest
<1>2. SumOf(f, T) = IF T = {} THEN 0 ELSE f[First(T)] + SumOf(f, T \ {First(T)})
  BY <1>1, SumOfFirst, FS_Subset
<1>3. CASE T = {}
  BY <1>1, <1>2, <1>3
<1>4. CASE T # {}
  <2>1. First(T) \in T /\ T \ {First(T)} \in SUBSET S /\ T \ {First(T)} # T
    BY <1>1, <1>4, FirstIn
  <2>2. SumOf(f, T \ {First(T)}) \in Int
    BY <1>1, <2>1
  <2>3. f[First(T)] \in Int
    BY <1>1, <2>1
  <2> QED BY <1>1, <1>2, <1>4, <2>2, <2>3
<1> QED BY <1>3, <1>4

\* The order of the elements does not matter: any may be taken first.
LEMMA SumOfRemove ==
    ASSUME NEW f, NEW S, IsFiniteSet(S), \A x \in S : f[x] \in Int, NEW x \in S
    PROVE  SumOf(f, S) = f[x] + SumOf(f, S \ {x})
<1> DEFINE Fails(T, y) == y \in T /\ SumOf(f, T) # f[y] + SumOf(f, T \ {y})
           C == {T \in SUBSET S : \E y \in S : Fails(T, y)}
<1> SUFFICES ASSUME C # {} PROVE FALSE
  OBVIOUS
<1>1. PICK T \in C : \A U \in C : U \subseteq T => U = T
  <2>1. C \in SUBSET (SUBSET S)
    OBVIOUS
  <2> HIDE DEF C
  <2> QED BY <2>1, Smallest
<1>2. PICK y \in S : Fails(T, y)
  BY <1>1
<1> DEFINE p == First(T)
           W == T \ {p, y}
<1>3. p \in T /\ T \in SUBSET S /\ W \in SUBSET S
  BY <1>1, <1>2, FirstIn
<1>4. SumOf(f, T) = f[p] + SumOf(f, T \ {p})
  BY <1>2, <1>3, SumOfFirst, FS_Subset
<1>5. p # y
  BY <1>2, <1>4
<1> HIDE DEF p
<1>6. ASSUME NEW U \in SUBSET T, U # T, NEW z \in U PROVE SumOf(f, U) = f[z] + SumOf(f, U \ {z})
  BY <1>1, <1>3, <1>6
<1>7. SumOf(f, T \ {p}) = f[y] + SumOf(f, W)
  <2>1. T \ {p} \in SUBSET T /\ T \ {p} # T /\ y \in T \ {p} /\ (T \ {p}) \ {y} = W
    BY <1>2, <1>3, <1>5
  <2> QED BY <1>6, <2>1
<1>8. SumOf(f, T \ {y}) = f[p] + SumOf(f, W)
  <2>1. T \ {y} \in SUBSET T /\ T \ {y} # T /\ p \in T \ {y} /\ (T \ {y}) \ {p} = W
    BY <1>2, <1>3, <1>5
  <2> QED BY <1>6, <2>1
<1>9. f[p] \in Int /\ f[y] \in Int /\ SumOf(f, W) \in Int
  BY <1>3, SumOfType, FS_Subset
<1>10. SumOf(f, T) # f[y] + SumOf(f, T \ {y})
  BY <1>2
<1> QED BY <1>4, <1>7, <1>8, <1>9, <1>10

\* One more element adds its value.
LEMMA SumOfAdd ==
    ASSUME NEW f, NEW S, IsFiniteSet(S), NEW x, x \notin S,
           \A y \in S \cup {x} : f[y] \in Int
    PROVE  SumOf(f, S \cup {x}) = SumOf(f, S) + f[x]
<1>1. (S \cup {x}) \ {x} = S /\ IsFiniteSet(S \cup {x})
  BY FS_AddElement
<1>2. SumOf(f, S \cup {x}) = f[x] + SumOf(f, S)
  BY <1>1, SumOfRemove
<1>3. SumOf(f, S) \in Int /\ f[x] \in Int
  BY SumOfType
<1> QED BY <1>2, <1>3

\* The sum depends on the values at the elements only.
LEMMA SumOfSame ==
    ASSUME NEW f, NEW h, NEW S, IsFiniteSet(S), \A x \in S : f[x] = h[x]
    PROVE  SumOf(f, S) = SumOf(h, S)
<1> DEFINE C == {T \in SUBSET S : SumOf(f, T) # SumOf(h, T)}
<1> SUFFICES ASSUME C # {} PROVE FALSE
  OBVIOUS
<1>1. PICK T \in C : \A U \in C : U \subseteq T => U = T
  <2>1. C \in SUBSET (SUBSET S)
    OBVIOUS
  <2> HIDE DEF C
  <2> QED BY <2>1, Smallest
<1>2. /\ SumOf(f, T) = IF T = {} THEN 0 ELSE f[First(T)] + SumOf(f, T \ {First(T)})
      /\ SumOf(h, T) = IF T = {} THEN 0 ELSE h[First(T)] + SumOf(h, T \ {First(T)})
  BY <1>1, SumOfFirst, FS_Subset
<1>3. T # {}
  BY <1>1, <1>2
<1>4. First(T) \in T /\ T \ {First(T)} \in SUBSET S /\ T \ {First(T)} # T
  BY <1>1, <1>3, FirstIn
<1>5. SumOf(f, T \ {First(T)}) = SumOf(h, T \ {First(T)})
  BY <1>1, <1>4
<1>6. f[First(T)] = h[First(T)]
  BY <1>1, <1>4
<1> QED BY <1>1, <1>2, <1>3, <1>5, <1>6

\* Two sets without a common element.
LEMMA SumOfUnion ==
    ASSUME NEW f, NEW S, NEW T, IsFiniteSet(S), IsFiniteSet(T), S \cap T = {},
           \A x \in S \cup T : f[x] \in Int
    PROVE  SumOf(f, S \cup T) = SumOf(f, S) + SumOf(f, T)
<1> DEFINE C == {U \in SUBSET T : SumOf(f, S \cup U) # SumOf(f, S) + SumOf(f, U)}
<1> SUFFICES ASSUME C # {} PROVE FALSE
  OBVIOUS
<1>1. PICK U \in C : \A V \in C : V \subseteq U => V = U
  <2>1. C \in SUBSET (SUBSET T)
    OBVIOUS
  <2> HIDE DEF C
  <2> QED BY <2>1, Smallest
<1>2. SumOf(f, S) \in Int
  BY SumOfType
<1>3. U # {}
  <2> SUFFICES ASSUME U = {} PROVE FALSE
    OBVIOUS
  <2>1. SumOf(f, U) = 0 /\ S \cup U = S
    BY SumOfEmpty
  <2>2. SumOf(f, S \cup U) # SumOf(f, S) + SumOf(f, U)
    BY <1>1
  <2> QED BY <1>2, <2>1, <2>2
<1>4. PICK x \in U : TRUE
  BY <1>3
<1> DEFINE V == U \ {x}
<1>5. SumOf(f, S \cup V) = SumOf(f, S) + SumOf(f, V)
  BY <1>1, <1>4
<1>6. /\ IsFiniteSet(S \cup V) /\ IsFiniteSet(V) /\ x \notin S \cup V
      /\ (S \cup V) \cup {x} = S \cup U /\ V \cup {x} = U
      /\ f[x] \in Int /\ \A y \in S \cup U : f[y] \in Int
  BY <1>1, <1>4, FS_Subset, FS_Union
<1>7. SumOf(f, S \cup U) = SumOf(f, S \cup V) + f[x]
  BY <1>6, SumOfAdd
<1>8. SumOf(f, U) = SumOf(f, V) + f[x]
  BY <1>6, SumOfAdd
<1>9. SumOf(f, V) \in Int
  BY <1>6, SumOfType
<1>10. SumOf(f, S \cup U) # SumOf(f, S) + SumOf(f, U)
  BY <1>1
<1> HIDE DEF V
<1> QED BY <1>2, <1>5, <1>6, <1>7, <1>8, <1>9, <1>10

\* Values of the opposite sign.
LEMMA SumOfNegated ==
    ASSUME NEW f, NEW h, NEW S, IsFiniteSet(S),
           \A x \in S : f[x] \in Int /\ h[x] = -f[x]
    PROVE  SumOf(h, S) = -SumOf(f, S)
<1> DEFINE C == {T \in SUBSET S : SumOf(h, T) # -SumOf(f, T)}
<1> SUFFICES ASSUME C # {} PROVE FALSE
  OBVIOUS
<1>1. PICK T \in C : \A U \in C : U \subseteq T => U = T
  <2>1. C \in SUBSET (SUBSET S)
    OBVIOUS
  <2> HIDE DEF C
  <2> QED BY <2>1, Smallest
<1>2. /\ SumOf(f, T) = IF T = {} THEN 0 ELSE f[First(T)] + SumOf(f, T \ {First(T)})
      /\ SumOf(h, T) = IF T = {} THEN 0 ELSE h[First(T)] + SumOf(h, T \ {First(T)})
  BY <1>1, SumOfFirst, FS_Subset
<1>3. T # {}
  BY <1>1, <1>2
<1> DEFINE p == First(T)
           V == T \ {p}
<1>4. p \in S /\ V \in SUBSET S /\ V # T /\ V \subseteq T
  BY <1>1, <1>3, FirstIn
<1>5. SumOf(h, V) = -SumOf(f, V)
  BY <1>1, <1>4
<1>6. f[p] \in Int /\ h[p] = -f[p] /\ SumOf(f, V) \in Int
  BY <1>4, SumOfType, FS_Subset
<1>7. SumOf(h, T) # -SumOf(f, T)
  BY <1>1
<1>8. SumOf(f, T) = f[p] + SumOf(f, V) /\ SumOf(h, T) = h[p] + SumOf(h, V)
  BY <1>2, <1>3
<1> HIDE DEF p, V
<1> QED BY <1>5, <1>6, <1>7, <1>8

\* Values added element by element.
LEMMA SumOfPlus ==
    ASSUME NEW f, NEW g, NEW h, NEW S, IsFiniteSet(S),
           \A x \in S : f[x] \in Int /\ g[x] \in Int /\ h[x] = f[x] + g[x]
    PROVE  SumOf(h, S) = SumOf(f, S) + SumOf(g, S)
<1> DEFINE C == {T \in SUBSET S : SumOf(h, T) # SumOf(f, T) + SumOf(g, T)}
<1> SUFFICES ASSUME C # {} PROVE FALSE
  OBVIOUS
<1>1. PICK T \in C : \A U \in C : U \subseteq T => U = T
  <2>1. C \in SUBSET (SUBSET S)
    OBVIOUS
  <2> HIDE DEF C
  <2> QED BY <2>1, Smallest
<1>2. T # {}
  <2> SUFFICES ASSUME T = {} PROVE FALSE
    OBVIOUS
  <2>1. SumOf(h, T) = 0 /\ SumOf(f, T) = 0 /\ SumOf(g, T) = 0
    BY SumOfEmpty
  <2>2. SumOf(h, T) # SumOf(f, T) + SumOf(g, T)
    BY <1>1
  <2> QED BY <2>1, <2>2
<1>3. PICK x \in T : TRUE
  BY <1>2
<1> DEFINE V == T \ {x}
<1>4. x \in S /\ V \in SUBSET S /\ V # T /\ V \subseteq T /\ IsFiniteSet(T) /\ IsFiniteSet(V)
  BY <1>1, FS_Subset
<1>5. SumOf(h, V) = SumOf(f, V) + SumOf(g, V)
  BY <1>1, <1>4
<1>6. \A y \in T : f[y] \in Int /\ g[y] \in Int /\ h[y] \in Int
  BY <1>1
<1>7. /\ SumOf(f, T) = f[x] + SumOf(f, V) /\ SumOf(g, T) = g[x] + SumOf(g, V)
      /\ SumOf(h, T) = h[x] + SumOf(h, V)
  BY <1>4, <1>6, SumOfRemove
<1>8. SumOf(f, V) \in Int /\ SumOf(g, V) \in Int /\ f[x] \in Int /\ g[x] \in Int
      /\ h[x] = f[x] + g[x]
  BY <1>4, <1>6, SumOfType
<1>9. SumOf(h, T) # SumOf(f, T) + SumOf(g, T)
  BY <1>1
<1> HIDE DEF V
<1> QED BY <1>5, <1>7, <1>8, <1>9

\* What comes less what goes.
LEMMA SumOfNet ==
    ASSUME NEW h, NEW f, NEW out, NEW in, NEW S, IsFiniteSet(S),
           \A x \in S : /\ f[x] \in Int /\ out[x] \in Int /\ in[x] \in Int
                        /\ h[x] = f[x] - out[x] + in[x]
    PROVE  SumOf(h, S) = SumOf(f, S) - SumOf(out, S) + SumOf(in, S)
<1> DEFINE less == [x \in S |-> -out[x]]
           rest == [x \in S |-> f[x] + less[x]]
<1>1. \A x \in S : less[x] = -out[x] /\ less[x] \in Int
  OBVIOUS
<1> HIDE DEF less
<1>2. \A x \in S : rest[x] = f[x] + less[x] /\ rest[x] \in Int
  BY <1>1
<1> HIDE DEF rest
<1>3. \A x \in S : h[x] = rest[x] + in[x]
  BY <1>1, <1>2
<1>4. SumOf(less, S) = -SumOf(out, S)
  BY <1>1, SumOfNegated
<1>5. SumOf(rest, S) = SumOf(f, S) + SumOf(less, S)
  BY <1>1, <1>2, SumOfPlus
<1>6. SumOf(h, S) = SumOf(rest, S) + SumOf(in, S)
  BY <1>2, <1>3, SumOfPlus
<1>7. SumOf(f, S) \in Int /\ SumOf(out, S) \in Int /\ SumOf(in, S) \in Int
  BY SumOfType
<1> QED BY <1>4, <1>5, <1>6, <1>7

\* A value that grows at one element makes the sum grow by as much.
LEMMA SumOfChange ==
    ASSUME NEW f, NEW h, NEW S, IsFiniteSet(S), NEW x \in S, NEW d \in Int,
           \A y \in S : f[y] \in Int, h[x] = f[x] + d, \A y \in S \ {x} : h[y] = f[y]
    PROVE  SumOf(h, S) = SumOf(f, S) + d
<1> DEFINE V == S \ {x}
<1>1. IsFiniteSet(V) /\ \A y \in S : h[y] \in Int
  BY FS_Subset
<1>2. SumOf(f, S) = f[x] + SumOf(f, V) /\ SumOf(h, S) = h[x] + SumOf(h, V)
  BY <1>1, SumOfRemove
<1>3. SumOf(h, V) = SumOf(f, V)
  BY <1>1, SumOfSame
<1>4. SumOf(f, V) \in Int
  BY <1>1, SumOfType
<1> HIDE DEF V
<1> QED BY <1>2, <1>3, <1>4

\* What the members of T add up to, sorted by a key p with values in S.
SumsBy(f, p, S, T) == [a \in S |-> SumOf(f, {x \in T : p[x] = a})]

\* Sorting by a key and adding up what each value of it has gives the sum.
LEMMA SumOfSums ==
    ASSUME NEW f, NEW p, NEW S, NEW T, IsFiniteSet(S), IsFiniteSet(T),
           \A x \in T : f[x] \in Int /\ p[x] \in S
    PROVE  SumOf(SumsBy(f, p, S, T), S) = SumOf(f, T)
<1> DEFINE C == {U \in SUBSET T : SumOf(SumsBy(f, p, S, U), S) # SumOf(f, U)}
<1> SUFFICES ASSUME C # {} PROVE FALSE
  OBVIOUS
<1>1. PICK U \in C : \A V \in C : V \subseteq U => V = U
  <2>1. C \in SUBSET (SUBSET T)
    OBVIOUS
  <2> HIDE DEF C
  <2> QED BY <2>1, Smallest
<1>2. U # {}
  <2> SUFFICES ASSUME U = {} PROVE FALSE
    OBVIOUS
  <2> DEFINE h == SumsBy(f, p, S, {})
  <2>1. \A a \in S : h[a] = SumOf(f, {})
    <3>1. \A a \in S : {x \in {} : p[x] = a} = {}
      OBVIOUS
    <3> QED BY <3>1 DEF SumsBy
  <2>2. \A a \in S : h[a] = 0
    BY <2>1, SumOfEmpty
  <2> HIDE DEF h
  <2>3. \A a \in S : h[a] \in Int /\ h[a] = -h[a]
    BY <2>2
  <2>4. SumOf(h, S) = -SumOf(h, S) /\ SumOf(h, S) \in Int
    BY <2>3, SumOfNegated, SumOfType
  <2>5. SumOf(h, S) = 0
    BY <2>4
  <2> QED BY <1>1, <2>5, SumOfEmpty DEF h
<1>3. PICK x \in U : TRUE
  BY <1>2
<1> DEFINE V == U \ {x}
           g == SumsBy(f, p, S, V)
           h == SumsBy(f, p, S, U)
<1>4. /\ V \in SUBSET T /\ V # U /\ V \subseteq U /\ x \in T /\ x \notin V /\ V \cup {x} = U
      /\ IsFiniteSet(V) /\ IsFiniteSet(U) /\ f[x] \in Int /\ p[x] \in S
      /\ \A y \in U : f[y] \in Int
  BY <1>1, FS_Subset
<1>5. SumOf(g, S) = SumOf(f, V)
  BY <1>1, <1>4
<1>6. SumOf(f, U) = SumOf(f, V) + f[x]
  BY <1>4, SumOfAdd
<1>7. \A a \in S : /\ g[a] = SumOf(f, {y \in V : p[y] = a})
                   /\ h[a] = SumOf(f, {y \in U : p[y] = a})
  BY DEF SumsBy
<1>8. \A a \in S : g[a] \in Int
  <2> TAKE a \in S
  <2> DEFINE W == {y \in V : p[y] = a}
  <2>1. IsFiniteSet(W) /\ \A y \in W : f[y] \in Int
    BY <1>4, FS_Subset
  <2>2. g[a] = SumOf(f, W)
    BY <1>7
  <2> HIDE DEF W, g
  <2> QED BY <2>1, <2>2, SumOfType
<1>9. \A a \in S \ {p[x]} : h[a] = g[a]
  <2>1. \A a \in S \ {p[x]} : {y \in V : p[y] = a} = {y \in U : p[y] = a}
    BY <1>4
  <2> QED BY <1>7, <2>1
<1>10. h[p[x]] = g[p[x]] + f[x]
  <2> DEFINE W == {y \in V : p[y] = p[x]}
  <2>1. /\ {y \in U : p[y] = p[x]} = W \cup {x} /\ x \notin W
        /\ \A y \in W \cup {x} : f[y] \in Int
    BY <1>4
  <2>2. IsFiniteSet(W)
    BY <1>4, FS_Subset
  <2>3. h[p[x]] = SumOf(f, W \cup {x}) /\ g[p[x]] = SumOf(f, W)
    BY <1>4, <1>7, <2>1
  <2> HIDE DEF W
  <2>4. SumOf(f, W \cup {x}) = SumOf(f, W) + f[x]
    BY <2>1, <2>2, SumOfAdd
  <2> QED BY <2>3, <2>4
<1> HIDE DEF g, h
<1>11. SumOf(h, S) = SumOf(g, S) + f[x]
  BY <1>4, <1>8, <1>9, <1>10, SumOfChange
<1> QED BY <1>1, <1>5, <1>6, <1>11 DEF h

=============================================================================
