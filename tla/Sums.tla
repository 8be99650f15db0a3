-------------------------------- MODULE Sums --------------------------------
(* What the proofs need to know of sums: SumFunctionOnSet(f, S) of module  *)
(* Functions adds up f[x] for the x of a finite set S.                     *)
EXTENDS Integers, Sequences, Functions, FiniteSetTheorems, TLAPS

\* The definition of the fold, with its recursion as a predicate.
Choice(s) == CHOOSE x \in s : TRUE
Iterates(g, f, S) ==
    g = [s \in SUBSET S |->
            IF s = {} THEN 0 ELSE f[Choice(s)] + g[s \ {Choice(s)}]]
Iterator(f, S) == CHOOSE g : Iterates(g, f, S)

LEMMA SumIsIterated ==
    ASSUME NEW f, NEW S
    PROVE  SumFunctionOnSet(f, S) = Iterator(f, S)[S]
BY DEF SumFunctionOnSet, FoldFunctionOnSet, MapThenFoldSet, Iterator,
       Iterates, Choice

LEMMA ChoiceIn == ASSUME NEW s, s # {} PROVE Choice(s) \in s
BY DEF Choice

\* Induction over finite sets: a set of subsets that is not empty has a
\* smallest member.
LEMMA Smallest ==
    ASSUME NEW S, IsFiniteSet(S), NEW bad \in SUBSET SUBSET S, bad # {}
    PROVE  \E T \in bad : \A U \in bad : U \subseteq T => U = T
<1>1. bad \subseteq FiniteSubsetsOf(S)
  BY FS_Subset DEF FiniteSubsetsOf
<1>2. IsWellFoundedOn(StrictSubsetOrdering(S), FiniteSubsetsOf(S))
  BY FS_StrictSubsetOrderingWellFounded
<1>3. PICK T \in bad : \A U \in bad :
          ~(<<U, T>> \in StrictSubsetOrdering(S))
  BY <1>1, <1>2, WFMin
<1>4. QED BY <1>3 DEF StrictSubsetOrdering

\* Two iterators agree where both are defined.
LEMMA IteratorUnique ==
    ASSUME NEW f, NEW S, IsFiniteSet(S), NEW T, NEW g, NEW h,
           Iterates(g, f, S), Iterates(h, f, T),
           NEW U \in SUBSET (S \intersect T)
    PROVE  g[U] = h[U]
<1> DEFINE bad == {V \in SUBSET (S \intersect T) : g[V] # h[V]}
<1>1. SUFFICES ASSUME bad # {} PROVE FALSE OBVIOUS
<1>2. IsFiniteSet(S \intersect T) BY FS_Intersection
<1>3. PICK V \in bad : \A W \in bad : W \subseteq V => W = V
  <2> HIDE DEF bad
  <2> bad \in SUBSET SUBSET (S \intersect T) BY DEF bad
  <2> QED BY <1>1, <1>2, Smallest
<1>4. V \in SUBSET S /\ V \in SUBSET T OBVIOUS
<1>5. CASE V = {} BY <1>4, <1>5 DEF Iterates
<1>6. CASE V # {}
  <2> DEFINE W == V \ {Choice(V)}
  <2>1. W \subseteq V /\ W # V BY <1>6, ChoiceIn
  <2>2. g[W] = h[W] BY <2>1, <1>3
  <2>3. g[V] = f[Choice(V)] + g[W] BY <1>4, <1>6 DEF Iterates
  <2>4. h[V] = f[Choice(V)] + h[W] BY <1>4, <1>6 DEF Iterates
  <2> QED BY <2>2, <2>3, <2>4
<1>7. QED BY <1>5, <1>6

LEMMA IteratorExists ==
    ASSUME NEW f, NEW S, IsFiniteSet(S)
    PROVE  Iterates(Iterator(f, S), f, S)
<1> DEFINE bad == {T \in SUBSET S : ~ \E g : Iterates(g, f, T)}
<1>1. SUFFICES bad = {}
  <2>1. ASSUME bad = {} PROVE \E g : Iterates(g, f, S) BY <2>1
  <2> QED BY <2>1 DEF Iterator
<1>2. SUFFICES ASSUME bad # {} PROVE FALSE OBVIOUS
<1>3. PICK T \in bad : \A U \in bad : U \subseteq T => U = T
  <2> HIDE DEF bad
  <2> bad \in SUBSET SUBSET S BY DEF bad
  <2> QED BY <1>2, Smallest
<1>4. T \subseteq S OBVIOUS
<1> DEFINE g == [s \in SUBSET T |->
                    IF s = {} THEN 0
                    ELSE f[Choice(s)]
                         + Iterator(f, s \ {Choice(s)})[s \ {Choice(s)}]]
<1>5. ASSUME NEW U \in SUBSET T, U # T PROVE Iterates(Iterator(f, U), f, U)
  <2>1. U \notin bad /\ U \in SUBSET S BY <1>3, <1>4, <1>5
  <2>2. \E k : Iterates(k, f, U) BY <2>1
  <2> QED BY <2>2 DEF Iterator
<1>6. ASSUME NEW s \in SUBSET T, s # {}
      PROVE  g[s \ {Choice(s)}] = Iterator(f, s \ {Choice(s)})[s \ {Choice(s)}]
  <2> DEFINE U == s \ {Choice(s)}
  <2>1. U \in SUBSET T /\ U # T BY <1>6, ChoiceIn
  <2>2. Iterates(Iterator(f, U), f, U) BY <2>1, <1>5
  <2>3. CASE U = {}
    <3>1. g[U] = 0 BY <2>1, <2>3
    <3>2. Iterator(f, U)[U] = 0 BY <2>2, <2>3 DEF Iterates
    <3> QED BY <3>1, <3>2
  <2>4. CASE U # {}
    <3> DEFINE V == U \ {Choice(U)}
    <3>1. V \in SUBSET T /\ V # T /\ V \in SUBSET U
      BY <2>1
    <3>2. Iterates(Iterator(f, V), f, V) BY <3>1, <1>5
    <3>3. IsFiniteSet(V) BY <3>1, <1>4, FS_Subset
    <3>4. Iterator(f, V)[V] = Iterator(f, U)[V]
      BY <2>2, <3>1, <3>2, <3>3, IteratorUnique
    <3>5. Iterator(f, U)[U] = f[Choice(U)] + Iterator(f, U)[V]
      BY <2>2, <2>4 DEF Iterates
    <3>6. g[U] = f[Choice(U)] + Iterator(f, V)[V] BY <2>1, <2>4
    <3> QED BY <3>4, <3>5, <3>6
  <2> QED BY <2>3, <2>4
<1>7. g = [s \in SUBSET T |->
              IF s = {} THEN 0 ELSE f[Choice(s)] + g[s \ {Choice(s)}]]
  <2> DEFINE k == [s \in SUBSET T |->
                      IF s = {} THEN 0 ELSE f[Choice(s)] + g[s \ {Choice(s)}]]
  <2>1. ASSUME NEW s \in SUBSET T PROVE g[s] = k[s]
    <3>1. CASE s = {} BY <3>1
    <3>2. CASE s # {} BY <3>2, <1>6
    <3> QED BY <3>1, <3>2
  <2> QED BY <2>1
<1>8. Iterates(g, f, T) BY <1>7 DEF Iterates
<1>9. QED BY <1>8

\* The sum over nothing.
LEMMA SumEmpty == ASSUME NEW f PROVE SumFunctionOnSet(f, {}) = 0
<1>1. IsFiniteSet({}) BY FS_EmptySet
<1>2. Iterates(Iterator(f, {}), f, {}) BY <1>1, IteratorExists
<1>3. QED BY <1>2, SumIsIterated DEF Iterates

LEMMA SumChoice ==
    ASSUME NEW f, NEW S, IsFiniteSet(S), S # {}
    PROVE  SumFunctionOnSet(f, S)
               = f[Choice(S)] + SumFunctionOnSet(f, S \ {Choice(S)})
<1> DEFINE T == S \ {Choice(S)}
<1>1. IsFiniteSet(T) BY FS_Subset
<1>2. Iterates(Iterator(f, S), f, S) BY IteratorExists
<1>3. Iterates(Iterator(f, T), f, T) BY <1>1, IteratorExists
<1>4. Iterator(f, S)[T] = Iterator(f, T)[T]
  BY <1>1, <1>2, <1>3, IteratorUnique
<1>5. Iterator(f, S)[S] = f[Choice(S)] + Iterator(f, S)[T]
  BY <1>2 DEF Iterates
<1>6. QED BY <1>4, <1>5, SumIsIterated

LEMMA SumInt ==
    ASSUME NEW S, IsFiniteSet(S), NEW f, \A x \in S : f[x] \in Int
    PROVE  SumFunctionOnSet(f, S) \in Int
<1> DEFINE bad == {T \in SUBSET S : SumFunctionOnSet(f, T) \notin Int}
<1>1. SUFFICES ASSUME bad # {} PROVE FALSE OBVIOUS
<1>2. PICK T \in bad : \A U \in bad : U \subseteq T => U = T
  <2> HIDE DEF bad
  <2> bad \in SUBSET SUBSET S BY DEF bad
  <2> QED BY <1>1, Smallest
<1>3. T # {} BY SumEmpty
<1> DEFINE U == T \ {Choice(T)}
<1>4. Choice(T) \in T BY <1>3, ChoiceIn
<1>5. SumFunctionOnSet(f, U) \in Int BY <1>2, <1>4
<1>6. IsFiniteSet(T) BY FS_Subset
<1>7. SumFunctionOnSet(f, T) = f[Choice(T)] + SumFunctionOnSet(f, U)
  BY <1>3, <1>6, SumChoice
<1>8. f[Choice(T)] \in Int BY <1>4
<1>9. QED BY <1>5, <1>7, <1>8

LEMMA SumNat ==
    ASSUME NEW S, IsFiniteSet(S), NEW f, \A x \in S : f[x] \in Nat
    PROVE  SumFunctionOnSet(f, S) \in Nat
<1> DEFINE bad == {T \in SUBSET S : SumFunctionOnSet(f, T) \notin Nat}
<1>1. SUFFICES ASSUME bad # {} PROVE FALSE OBVIOUS
<1>2. PICK T \in bad : \A U \in bad : U \subseteq T => U = T
  <2> HIDE DEF bad
  <2> bad \in SUBSET SUBSET S BY DEF bad
  <2> QED BY <1>1, Smallest
<1>3. T # {} BY SumEmpty
<1> DEFINE U == T \ {Choice(T)}
<1>4. Choice(T) \in T BY <1>3, ChoiceIn
<1>5. SumFunctionOnSet(f, U) \in Nat BY <1>2, <1>4
<1>6. IsFiniteSet(T) BY FS_Subset
<1>7. SumFunctionOnSet(f, T) = f[Choice(T)] + SumFunctionOnSet(f, U)
  BY <1>3, <1>6, SumChoice
<1>8. f[Choice(T)] \in Nat BY <1>4
<1>9. QED BY <1>5, <1>7, <1>8

\* Any member can be taken out of a sum, ...
LEMMA SumRemove ==
    ASSUME NEW S, IsFiniteSet(S), NEW f, \A x \in S : f[x] \in Int,
           NEW y \in S
    PROVE  SumFunctionOnSet(f, S) = f[y] + SumFunctionOnSet(f, S \ {y})
<1> DEFINE Right(T, z) ==
        SumFunctionOnSet(f, T) = f[z] + SumFunctionOnSet(f, T \ {z})
           bad == {T \in SUBSET S : \E z \in T : ~Right(T, z)}
<1>1. SUFFICES ASSUME bad # {} PROVE FALSE
  <2>1. ASSUME S \notin bad PROVE Right(S, y) BY <2>1
  <2> QED BY <2>1
<1>2. PICK T \in bad : \A U \in bad : U \subseteq T => U = T
  <2> HIDE DEF bad
  <2> bad \in SUBSET SUBSET S BY DEF bad
  <2> QED BY <1>1, Smallest
<1>3. PICK z \in T : ~Right(T, z) OBVIOUS
<1> DEFINE x == Choice(T)
           U == T \ {x}
           V == T \ {z}
           W == V \ {x}
<1>4. T \subseteq S /\ x \in T BY <1>3, ChoiceIn
<1>5. IsFiniteSet(T) BY <1>4, FS_Subset
<1>6. SumFunctionOnSet(f, T) = f[x] + SumFunctionOnSet(f, U)
  BY <1>3, <1>5, SumChoice
<1>7. x # z BY <1>3, <1>6
<1>8. SumFunctionOnSet(f, U) = f[z] + SumFunctionOnSet(f, W)
  <2>1. U \notin bad /\ U \in SUBSET S /\ z \in U BY <1>2, <1>4, <1>7
  <2>2. W = U \ {z} OBVIOUS
  <2> QED BY <2>1, <2>2
<1>9. SumFunctionOnSet(f, V) = f[x] + SumFunctionOnSet(f, W)
  <2>1. V \notin bad /\ V \in SUBSET S /\ x \in V BY <1>2, <1>3, <1>4, <1>7
  <2> QED BY <2>1
<1>10. SumFunctionOnSet(f, W) \in Int /\ f[x] \in Int /\ f[z] \in Int
  <2>1. W \in SUBSET S BY <1>4
  <2>2. IsFiniteSet(W) BY <2>1, FS_Subset
  <2> QED BY <2>1, <2>2, <1>3, <1>4, SumInt
<1>11. QED BY <1>3, <1>6, <1>8, <1>9, <1>10

\* ... or added to it.
LEMMA SumAdd ==
    ASSUME NEW S, IsFiniteSet(S), NEW f, NEW y, y \notin S,
           \A x \in S \union {y} : f[x] \in Int
    PROVE  SumFunctionOnSet(f, S \union {y}) = f[y] + SumFunctionOnSet(f, S)
<1>1. IsFiniteSet(S \union {y}) BY FS_AddElement
<1>2. (S \union {y}) \ {y} = S OBVIOUS
<1>3. QED BY <1>1, <1>2, SumRemove

\* A sum depends only on what is summed.
LEMMA SumSame ==
    ASSUME NEW S, IsFiniteSet(S), NEW f, NEW g, \A x \in S : f[x] = g[x]
    PROVE  SumFunctionOnSet(f, S) = SumFunctionOnSet(g, S)
<1> DEFINE Right(T) == SumFunctionOnSet(f, T) = SumFunctionOnSet(g, T)
           bad == {T \in SUBSET S : ~Right(T)}
<1>1. SUFFICES ASSUME bad # {} PROVE FALSE
  <2>1. ASSUME S \notin bad PROVE Right(S) BY <2>1
  <2> QED BY <2>1
<1>2. PICK T \in bad : \A U \in bad : U \subseteq T => U = T
  <2> HIDE DEF bad
  <2> bad \in SUBSET SUBSET S BY DEF bad
  <2> QED BY <1>1, Smallest
<1>3. T # {} BY SumEmpty
<1> DEFINE x == Choice(T)
           U == T \ {x}
<1>4. T \subseteq S /\ x \in T BY <1>3, ChoiceIn
<1>5. IsFiniteSet(T) BY <1>4, FS_Subset
<1>6. SumFunctionOnSet(f, T) = f[x] + SumFunctionOnSet(f, U)
  BY <1>3, <1>5, SumChoice
<1>7. SumFunctionOnSet(g, T) = g[x] + SumFunctionOnSet(g, U)
  BY <1>3, <1>5, SumChoice
<1>8. Right(U) BY <1>2, <1>4
<1>9. QED BY <1>4, <1>6, <1>7, <1>8

\* One summand changes: the sum changes by as much.
LEMMA SumChange ==
    ASSUME NEW S, IsFiniteSet(S), NEW f, NEW g, NEW y \in S,
           \A x \in S : f[x] \in Int, g[y] \in Int,
           \A x \in S \ {y} : g[x] = f[x]
    PROVE  SumFunctionOnSet(g, S) = SumFunctionOnSet(f, S) + g[y] - f[y]
<1>1. IsFiniteSet(S \ {y}) BY FS_Subset
<1>2. SumFunctionOnSet(g, S \ {y}) = SumFunctionOnSet(f, S \ {y})
  BY <1>1, SumSame
<1>3. \A x \in S : g[x] \in Int OBVIOUS
<1>4. SumFunctionOnSet(f, S) = f[y] + SumFunctionOnSet(f, S \ {y})
  BY SumRemove
<1>5. SumFunctionOnSet(g, S) = g[y] + SumFunctionOnSet(g, S \ {y})
  BY <1>3, SumRemove
<1>6. SumFunctionOnSet(f, S \ {y}) \in Int /\ f[y] \in Int
  BY <1>1, SumInt
<1>7. QED BY <1>2, <1>4, <1>5, <1>6

\* Nothing but zeros.
LEMMA SumZero ==
    ASSUME NEW S, IsFiniteSet(S), NEW f, \A x \in S : f[x] = 0
    PROVE  SumFunctionOnSet(f, S) = 0
<1> DEFINE bad == {T \in SUBSET S : SumFunctionOnSet(f, T) # 0}
<1>1. SUFFICES ASSUME bad # {} PROVE FALSE OBVIOUS
<1>2. PICK T \in bad : \A U \in bad : U \subseteq T => U = T
  <2> HIDE DEF bad
  <2> bad \in SUBSET SUBSET S BY DEF bad
  <2> QED BY <1>1, Smallest
<1>3. T # {} BY SumEmpty
<1> DEFINE U == T \ {Choice(T)}
<1>4. Choice(T) \in T BY <1>3, ChoiceIn
<1>5. SumFunctionOnSet(f, U) = 0 BY <1>2, <1>4
<1>6. IsFiniteSet(T) BY FS_Subset
<1>7. SumFunctionOnSet(f, T) = f[Choice(T)] + SumFunctionOnSet(f, U)
  BY <1>3, <1>6, SumChoice
<1>8. f[Choice(T)] = 0 BY <1>4
<1>9. QED BY <1>5, <1>7, <1>8

\* The sum of two functions.
LEMMA SumPlus ==
    ASSUME NEW S, IsFiniteSet(S), NEW f, NEW g, NEW h,
           \A x \in S : f[x] \in Int /\ g[x] \in Int /\ h[x] = f[x] + g[x]
    PROVE  SumFunctionOnSet(h, S)
               = SumFunctionOnSet(f, S) + SumFunctionOnSet(g, S)
<1> DEFINE Right(T) == SumFunctionOnSet(h, T)
                           = SumFunctionOnSet(f, T) + SumFunctionOnSet(g, T)
           bad == {T \in SUBSET S : ~Right(T)}
<1>1. SUFFICES ASSUME bad # {} PROVE FALSE
  <2>1. ASSUME S \notin bad PROVE Right(S) BY <2>1
  <2> QED BY <2>1
<1>2. PICK T \in bad : \A U \in bad : U \subseteq T => U = T
  <2> HIDE DEF bad
  <2> bad \in SUBSET SUBSET S BY DEF bad
  <2> QED BY <1>1, Smallest
<1>3. T # {}
  <2>1. Right({})
    <3>1. /\ SumFunctionOnSet(f, {}) = 0
          /\ SumFunctionOnSet(g, {}) = 0
          /\ SumFunctionOnSet(h, {}) = 0
      BY SumEmpty
    <3> QED BY <3>1
  <2> QED BY <2>1
<1> DEFINE x == Choice(T)
           U == T \ {x}
<1>4. T \subseteq S /\ x \in T BY <1>3, ChoiceIn
<1>5. IsFiniteSet(T) /\ IsFiniteSet(U) BY <1>4, FS_Subset
<1>6. /\ SumFunctionOnSet(f, T) = f[x] + SumFunctionOnSet(f, U)
      /\ SumFunctionOnSet(g, T) = g[x] + SumFunctionOnSet(g, U)
      /\ SumFunctionOnSet(h, T) = h[x] + SumFunctionOnSet(h, U)
  BY <1>3, <1>5, SumChoice
<1>7. Right(U) BY <1>2, <1>4
<1>8. SumFunctionOnSet(f, U) \in Int /\ SumFunctionOnSet(g, U) \in Int
  BY <1>4, <1>5, SumInt
<1>9. h[x] = f[x] + g[x] /\ f[x] \in Int /\ g[x] \in Int BY <1>4
<1>10. Right(T)
  <2> DEFINE a == SumFunctionOnSet(f, U)
             b == SumFunctionOnSet(g, U)
  <2>1. a \in Int /\ b \in Int BY <1>8
  <2>2. SumFunctionOnSet(h, T) = f[x] + g[x] + (a + b) BY <1>6, <1>7, <1>9
  <2>3. f[x] + g[x] + (a + b) = f[x] + a + (g[x] + b)
    <3> HIDE DEF a, b
    <3> QED BY <2>1, <1>9
  <2> QED BY <2>2, <2>3, <1>6
<1>11. QED BY <1>10

\* Only some of the members count.
LEMMA SumWhere ==
    ASSUME NEW S, IsFiniteSet(S), NEW T \in SUBSET S, NEW f, NEW h,
           \A x \in T : f[x] \in Int,
           \A x \in S : h[x] = IF x \in T THEN f[x] ELSE 0
    PROVE  SumFunctionOnSet(h, S) = SumFunctionOnSet(f, T)
<1> DEFINE Right(U) == SumFunctionOnSet(h, U)
                           = SumFunctionOnSet(f, U \intersect T)
           bad == {U \in SUBSET S : ~Right(U)}
<1>1. SUFFICES ASSUME bad # {} PROVE FALSE
  <2>1. ASSUME S \notin bad PROVE Right(S) BY <2>1
  <2>2. S \intersect T = T OBVIOUS
  <2> QED BY <2>1, <2>2
<1>2. PICK U \in bad : \A V \in bad : V \subseteq U => V = U
  <2> HIDE DEF bad
  <2> bad \in SUBSET SUBSET S BY DEF bad
  <2> QED BY <1>1, Smallest
<1>3. U # {}
  <2>1. Right({})
    <3>1. {} \intersect T = {} OBVIOUS
    <3> QED BY <3>1, SumEmpty
  <2> QED BY <2>1
<1> DEFINE x == Choice(U)
           V == U \ {x}
<1>4. U \subseteq S /\ x \in U BY <1>3, ChoiceIn
<1>5. IsFiniteSet(U) /\ IsFiniteSet(U \intersect T) BY <1>4, FS_Subset
<1>6. SumFunctionOnSet(h, U) = h[x] + SumFunctionOnSet(h, V)
  BY <1>3, <1>5, SumChoice
<1>7. SumFunctionOnSet(h, V) = SumFunctionOnSet(f, V \intersect T)
  <2>1. V \in SUBSET S /\ V \notin bad BY <1>2, <1>4
  <2> QED BY <2>1
<1>8. SumFunctionOnSet(f, V \intersect T) \in Int
  <2>1. IsFiniteSet(V \intersect T) BY <1>5, FS_Subset
  <2> QED BY <2>1, SumInt
<1>9. CASE x \in T
  <2>1. (U \intersect T) \ {x} = V \intersect T /\ x \in U \intersect T
    BY <1>4, <1>9
  <2>2. \A y \in U \intersect T : f[y] \in Int OBVIOUS
  <2>3. SumFunctionOnSet(f, U \intersect T)
            = f[x] + SumFunctionOnSet(f, (U \intersect T) \ {x})
    BY <1>5, <2>1, <2>2, SumRemove
  <2>4. h[x] = f[x] BY <1>4, <1>9
  <2> QED BY <1>6, <1>7, <2>1, <2>3, <2>4
<1>10. CASE x \notin T
  <2>1. U \intersect T = V \intersect T /\ h[x] = 0 BY <1>4, <1>10
  <2>2. SumFunctionOnSet(h, U) = 0 + SumFunctionOnSet(f, V \intersect T)
    BY <1>6, <1>7, <2>1
  <2>3. PICK z \in Int : z = SumFunctionOnSet(f, V \intersect T) BY <1>8
  <2>4. SumFunctionOnSet(h, U) = z BY <2>2, <2>3
  <2>5. SumFunctionOnSet(f, U \intersect T) = z BY <2>1, <2>3
  <2> QED BY <2>4, <2>5
<1>11. QED BY <1>9, <1>10

\* The summands go by other names.
LEMMA SumRenamed ==
    ASSUME NEW S, IsFiniteSet(S), NEW b, NEW f, NEW g,
           \A x \in S : f[x] \in Int /\ g[b[x]] = f[x],
           \A x, y \in S : b[x] = b[y] => x = y,
           NEW T, T = {b[x] : x \in S}
    PROVE  SumFunctionOnSet(g, T) = SumFunctionOnSet(f, S)
<1> DEFINE Image(U) == {b[x] : x \in U}
           Right(U) == SumFunctionOnSet(g, Image(U)) = SumFunctionOnSet(f, U)
           bad == {U \in SUBSET S : ~Right(U)}
<1>1. SUFFICES ASSUME bad # {} PROVE FALSE
  <2>1. ASSUME S \notin bad PROVE Right(S) BY <2>1
  <2> QED BY <2>1
<1>2. PICK U \in bad : \A V \in bad : V \subseteq U => V = U
  <2> HIDE DEF bad
  <2> bad \in SUBSET SUBSET S BY DEF bad
  <2> QED BY <1>1, Smallest
<1>3. U # {}
  <2>1. Right({})
    <3>1. Image({}) = {} OBVIOUS
    <3> QED BY <3>1, SumEmpty
  <2> QED BY <2>1
<1> DEFINE x == Choice(U)
           V == U \ {x}
<1>4. U \subseteq S /\ x \in U BY <1>3, ChoiceIn
<1>5. IsFiniteSet(U) /\ IsFiniteSet(V) BY <1>4, FS_Subset
<1>6. SumFunctionOnSet(f, U) = f[x] + SumFunctionOnSet(f, V)
  BY <1>3, <1>5, SumChoice
<1>7. Right(V)
  <2>1. V \in SUBSET S /\ V \notin bad BY <1>2, <1>4
  <2> QED BY <2>1
<1>8. SumFunctionOnSet(g, Image(V) \union {b[x]})
          = g[b[x]] + SumFunctionOnSet(g, Image(V))
  <2>1. b[x] \notin Image(V) BY <1>4
  <2>2. IsFiniteSet(Image(V))
    <3> DEFINE e == [v \in V |-> b[v]]
    <3>1. e \in Surjection(V, Image(V)) BY DEF Surjection
    <3> HIDE DEF e, Image, V
    <3> QED BY <1>5, <3>1, FS_Surjection
  <2>3. \A z \in Image(V) \union {b[x]} : g[z] \in Int BY <1>4
  <2> HIDE DEF Image, x
  <2> QED BY <2>1, <2>2, <2>3, SumAdd
<1>9. Image(U) = Image(V) \union {b[x]} BY <1>4
<1>10. g[b[x]] = f[x] BY <1>4
<1>11. QED BY <1>6, <1>7, <1>8, <1>9, <1>10

\* The sum over a sequence: its head, and the sum over its tail.
LEMMA SumTail ==
    ASSUME NEW s \in Seq(Int), s # <<>>
    PROVE  SumFunctionOnSet(s, DOMAIN s)
               = Head(s) + SumFunctionOnSet(Tail(s), DOMAIN Tail(s))
<1>1. PICK n \in Nat \ {0} : n = Len(s) OBVIOUS
<1> DEFINE t == Tail(s)
           T == 1 .. (n - 1)
           b == [k \in T |-> k + 1]
<1>2. /\ DOMAIN s = 1 .. n /\ DOMAIN t = T
      /\ s[1] = Head(s) /\ \A k \in 1 .. n : s[k] \in Int
      /\ \A k \in T : t[k] = s[k + 1]
  BY <1>1
<1>3. /\ {b[k] : k \in T} = (1 .. n) \ {1}
      /\ \A k \in T : b[k] = k + 1 /\ b[k] \in 1 .. n
  <2>1. \A k \in T : b[k] = k + 1 /\ b[k] \in 1 .. n BY <1>1
  <2>2. ASSUME NEW m \in (1 .. n) \ {1} PROVE m \in {b[k] : k \in T}
    <3>1. m - 1 \in T /\ b[m - 1] = m BY <1>1
    <3> QED BY <3>1
  <2>3. ASSUME NEW m \in {b[k] : k \in T} PROVE m \in (1 .. n) \ {1}
    <3>1. PICK k \in T : m = b[k] OBVIOUS
    <3>2. k \in Int /\ 1 <= k /\ k <= n - 1 BY <1>1
    <3> QED BY <1>1, <2>1, <3>1, <3>2
  <2> QED BY <2>1, <2>2, <2>3
<1>4. IsFiniteSet(T) /\ IsFiniteSet(1 .. n) BY <1>1, FS_Interval
<1>5. SumFunctionOnSet(s, (1 .. n) \ {1}) = SumFunctionOnSet(t, T)
  <2>1. \A k \in T : t[k] \in Int /\ s[b[k]] = t[k]
    BY <1>2, <1>3
  <2>2. \A k, m \in T : b[k] = b[m] => k = m BY <1>1
  <2>3. (1 .. n) \ {1} = {b[k] : k \in T} BY <1>3
  <2>4. IsFiniteSet(T) BY <1>4
  <2> DEFINE rest == (1 .. n) \ {1}
  <2>5. SumFunctionOnSet(s, rest) = SumFunctionOnSet(t, T)
    <3>1. rest = {b[k] : k \in T} BY <2>3
    <3> HIDE DEF rest, t, T, b
    <3> QED BY <3>1, <2>1, <2>2, <2>4, SumRenamed
  <2> QED BY <2>5
<1>6. SumFunctionOnSet(s, 1 .. n) = s[1] + SumFunctionOnSet(s, (1 .. n) \ {1})
  <2>1. 1 \in 1 .. n BY <1>1
  <2> QED BY <1>2, <1>4, <2>1, SumRemove
<1>7. QED BY <1>2, <1>3, <1>5, <1>6

\* A sum over a set is the sum over a part of it and over the rest.
LEMMA SumParts ==
    ASSUME NEW S, IsFiniteSet(S), NEW T \in SUBSET S, NEW f,
           \A x \in S : f[x] \in Int
    PROVE  SumFunctionOnSet(f, S)
               = SumFunctionOnSet(f, T) + SumFunctionOnSet(f, S \ T)
<1> DEFINE g == [x \in S |-> IF x \in T THEN f[x] ELSE 0]
           h == [x \in S |-> IF x \in S \ T THEN f[x] ELSE 0]
<1>1. \A x \in S : g[x] \in Int /\ h[x] \in Int /\ f[x] = g[x] + h[x]
  OBVIOUS
<1>2. /\ \A x \in S : g[x] = IF x \in T THEN f[x] ELSE 0
      /\ \A x \in S : h[x] = IF x \in S \ T THEN f[x] ELSE 0
  OBVIOUS
<1> HIDE DEF g, h
<1>3. SumFunctionOnSet(g, S) = SumFunctionOnSet(f, T)
  BY <1>2, SumWhere
<1>4. SumFunctionOnSet(h, S) = SumFunctionOnSet(f, S \ T)
  <2>1. S \ T \in SUBSET S
    OBVIOUS
  <2> QED
    BY <1>2, <2>1, SumWhere
<1>5. SumFunctionOnSet(f, S) = SumFunctionOnSet(g, S) + SumFunctionOnSet(h, S)
  BY <1>1, SumPlus
<1> QED
  BY <1>3, <1>4, <1>5

\* More of what is not negative adds up to no less.
LEMMA SumMonotone ==
    ASSUME NEW S, IsFiniteSet(S), NEW T \in SUBSET S, NEW f,
           \A x \in S : f[x] \in Nat
    PROVE  SumFunctionOnSet(f, T) <= SumFunctionOnSet(f, S)
<1>1. SumFunctionOnSet(f, S)
          = SumFunctionOnSet(f, T) + SumFunctionOnSet(f, S \ T)
  <2>1. \A x \in S : f[x] \in Int
    OBVIOUS
  <2> QED
    BY <2>1, SumParts
<1>2. /\ IsFiniteSet(T) /\ IsFiniteSet(S \ T)
      /\ \A x \in T : f[x] \in Nat
      /\ \A x \in S \ T : f[x] \in Nat
  BY FS_Subset
<1>3. SumFunctionOnSet(f, T) \in Nat /\ SumFunctionOnSet(f, S \ T) \in Nat
  BY <1>2, SumNat
<1>4. PICK p \in Nat, q \in Nat : /\ p = SumFunctionOnSet(f, T)
                                /\ q = SumFunctionOnSet(f, S \ T)
  BY <1>3
<1> QED
  BY <1>1, <1>4
=============================================================================
