------------------------------ MODULE SumTheorems ------------------------------
(***************************************************************************)
(* Sums over finite sets, as MapThenSumSet computes them: in the order in  *)
(* which CHOOSE takes the elements.  The lemmas say that this order does   *)
(* not matter and that sums split as they should.                          *)
(*                                                                         *)
(* Each is an induction on a finite set, put as the smallest subset that   *)
(* would be an exception.                                                  *)
(***************************************************************************)
EXTENDS Integers, FiniteSetsExt, FiniteSetTheorems, TLAPS

\* The sum of a[x] for x in S.
SumOver(a, S) == MapThenSumSet(LAMBDA x : a[x], S)

LEMMA SmallestSubset ==
    ASSUME NEW S, IsFiniteSet(S), NEW U, U \subseteq SUBSET S, U # {}
    PROVE  \E T \in U : \A V \in U : V \subseteq T => V = T
  <1>1. IsWellFoundedOn(StrictSubsetOrdering(S), FiniteSubsetsOf(S))
    BY FS_StrictSubsetOrderingWellFounded
  <1>2. U \subseteq FiniteSubsetsOf(S)
    BY FS_Subset DEF FiniteSubsetsOf
  <1>3. PICK T \in U : \A V \in U : <<V, T>> \notin StrictSubsetOrdering(S)
    BY <1>1, <1>2, WFMin
  <1>4. QED
    BY <1>3 DEF StrictSubsetOrdering

-----------------------------------------------------------------------------
(***************************************************************************)
(* The recursive function behind MapThenSumSet exists.                     *)
(***************************************************************************)
Pick(s) == CHOOSE x \in s : TRUE

\* f is that function, for the subsets of S.
Adds(f, a, S) ==
    f = [s \in SUBSET S |-> IF s = {} THEN 0 ELSE a[Pick(s)] + f[s \ {Pick(s)}]]

LEMMA PickIn == ASSUME NEW s, s # {} PROVE Pick(s) \in s
  BY DEF Pick

LEMMA AddsAgree ==
    ASSUME NEW a, NEW S, IsFiniteSet(S), NEW T, NEW f, NEW g, Adds(f, a, S), Adds(g, a, T),
           NEW s \in SUBSET (S \cap T)
    PROVE  f[s] = g[s]
  <1> DEFINE U == {u \in SUBSET (S \cap T) : f[u] # g[u]}
  <1>1. SUFFICES ASSUME U # {} PROVE FALSE
    OBVIOUS
  <1>2. PICK u \in U : \A v \in U : v \subseteq u => v = u
    <2>1. U \subseteq SUBSET S
      OBVIOUS
    <2> HIDE DEF U
    <2>2. QED
      BY <1>1, <2>1, SmallestSubset
  <1>3. u \in SUBSET S /\ u \in SUBSET T /\ f[u] # g[u]
    BY <1>2
  <1>4. CASE u = {}
    BY <1>3, <1>4 DEF Adds
  <1>5. CASE u # {}
    <2> DEFINE v == u \ {Pick(u)}
    <2>1. v \in SUBSET (S \cap T) /\ v \subseteq u /\ v # u
      BY <1>3, <1>5, PickIn
    <2>2. f[v] = g[v]
      BY <1>2, <2>1
    <2>3. f[u] = a[Pick(u)] + f[v] /\ g[u] = a[Pick(u)] + g[v]
      BY <1>3, <1>5 DEF Adds
    <2>4. QED
      BY <1>3, <2>2, <2>3
  <1>6. QED
    BY <1>4, <1>5

LEMMA AddsExists ==
    ASSUME NEW a, NEW S, IsFiniteSet(S)
    PROVE  \E f : Adds(f, a, S)
  <1> DEFINE U == {T \in SUBSET S : ~\E f : Adds(f, a, T)}
  <1>1. SUFFICES ASSUME U # {} PROVE FALSE
    OBVIOUS
  <1>2. PICK T \in U : \A V \in U : V \subseteq T => V = T
    <2>1. U \subseteq SUBSET S
      OBVIOUS
    <2> HIDE DEF U
    <2>2. QED
      BY <1>1, <2>1, SmallestSubset
  <1> DEFINE F(s) == CHOOSE f : Adds(f, a, s)
             x == Pick(T)
             g == [s \in SUBSET T |-> IF s = {} THEN 0
                                      ELSE IF s = T THEN a[x] + F(T \ {x})[T \ {x}]
                                      ELSE F(s)[s]]
  <1>3. T \in SUBSET S /\ ~\E f : Adds(f, a, T)
    BY <1>2
  <1>4. ASSUME NEW s \in SUBSET T, s # T PROVE Adds(F(s), a, s) /\ IsFiniteSet(s)
    <2>1. \E f : Adds(f, a, s)
      BY <1>2, <1>3, <1>4
    <2>2. s \in SUBSET S
      BY <1>3
    <2>3. QED
      BY <2>1, <2>2, FS_Subset
  <1> HIDE DEF F
  <1>5. ASSUME NEW s \in SUBSET T, s # {} PROVE g[s] = a[Pick(s)] + g[s \ {Pick(s)}]
    <2> DEFINE v == s \ {Pick(s)}
    <2>1. v \in SUBSET T /\ v # s /\ v \subseteq s /\ v # T
      BY <1>5, PickIn
    <2>2. v # {} => g[v] = F(v)[v]
      BY <2>1
    <2>3. Adds(F(v), a, v)
      BY <1>4, <2>1
    <2>4. g[v] = F(v)[v]
      <3>1. v = {} => F(v)[v] = 0
        BY <2>3 DEF Adds
      <3>2. v = {} => g[v] = 0
        BY <2>1
      <3>3. QED
        BY <2>2, <3>1, <3>2
    <2>5. CASE s = T
      BY <1>5, <2>4, <2>5
    <2>6. CASE s # T
      <3>1. Adds(F(s), a, s) /\ IsFiniteSet(s)
        BY <1>4, <2>6
      <3>2. F(s)[s] = a[Pick(s)] + F(s)[v]
        BY <1>5, <3>1 DEF Adds
      <3>3. F(s)[v] = F(v)[v]
        BY <2>1, <2>3, <3>1, AddsAgree
      <3>4. g[s] = F(s)[s]
        BY <1>5, <2>6
      <3>5. QED
        BY <2>4, <3>2, <3>3, <3>4
    <2>7. QED
      BY <2>5, <2>6
  <1>6. g[{}] = 0 /\ g = [s \in SUBSET T |-> g[s]]
    OBVIOUS
  <1> HIDE DEF g
  <1>7. Adds(g, a, T)
    BY <1>5, <1>6 DEF Adds
  <1>8. QED
    BY <1>3, <1>7

LEMMA SumIsAdds ==
    ASSUME NEW a, NEW S, IsFiniteSet(S)
    PROVE  \E f : Adds(f, a, S) /\ SumOver(a, S) = f[S]
  <1>1. SumOver(a, S) = (CHOOSE f : Adds(f, a, S))[S]
    BY DEF SumOver, MapThenSumSet, MapThenFoldSet, Adds, Pick
  <1>2. QED
    BY <1>1, AddsExists

-----------------------------------------------------------------------------
(***************************************************************************)
(* What a sum is.                                                          *)
(***************************************************************************)
LEMMA SumEmpty == ASSUME NEW a PROVE SumOver(a, {}) = 0
  <1>1. IsFiniteSet({})
    BY FS_EmptySet
  <1>2. PICK f : Adds(f, a, {}) /\ SumOver(a, {}) = f[{}]
    BY <1>1, SumIsAdds
  <1>3. QED
    BY <1>2 DEF Adds

LEMMA SumPick ==
    ASSUME NEW a, NEW S, IsFiniteSet(S), S # {}
    PROVE  SumOver(a, S) = a[Pick(S)] + SumOver(a, S \ {Pick(S)})
  <1> DEFINE V == S \ {Pick(S)}
  <1>1. V \in SUBSET S /\ IsFiniteSet(V)
    BY FS_Subset
  <1>2. PICK f : Adds(f, a, S) /\ SumOver(a, S) = f[S]
    BY SumIsAdds
  <1>3. PICK g : Adds(g, a, V) /\ SumOver(a, V) = g[V]
    BY <1>1, SumIsAdds
  <1>4. f[S] = a[Pick(S)] + f[V]
    BY <1>2 DEF Adds
  <1>5. f[V] = g[V]
    BY <1>1, <1>2, <1>3, AddsAgree
  <1>6. QED
    BY <1>2, <1>3, <1>4, <1>5

LEMMA SumInt ==
    ASSUME NEW S, IsFiniteSet(S), NEW a, \A x \in S : a[x] \in Int
    PROVE  SumOver(a, S) \in Int
  <1> DEFINE U == {T \in SUBSET S : SumOver(a, T) \notin Int}
  <1>1. SUFFICES ASSUME U # {} PROVE FALSE
    OBVIOUS
  <1>2. PICK T \in U : \A V \in U : V \subseteq T => V = T
    <2>1. U \subseteq SUBSET S
      OBVIOUS
    <2> HIDE DEF U
    <2>2. QED
      BY <1>1, <2>1, SmallestSubset
  <1>3. T \in SUBSET S /\ IsFiniteSet(T) /\ SumOver(a, T) \notin Int
    BY <1>2, FS_Subset
  <1>4. T # {}
    BY <1>3, SumEmpty
  <1> DEFINE V == T \ {Pick(T)}
  <1>5. Pick(T) \in S /\ V \in SUBSET S /\ V \subseteq T /\ V # T
    BY <1>3, <1>4, PickIn
  <1>6. SumOver(a, V) \in Int
    BY <1>2, <1>5
  <1>7. SumOver(a, T) = a[Pick(T)] + SumOver(a, V) /\ a[Pick(T)] \in Int
    BY <1>3, <1>4, <1>5, SumPick
  <1>8. QED
    BY <1>3, <1>6, <1>7

\* Any element may be taken out first.
LEMMA SumRemove ==
    ASSUME NEW S, IsFiniteSet(S), NEW a, \A x \in S : a[x] \in Int, NEW z \in S
    PROVE  SumOver(a, S) = a[z] + SumOver(a, S \ {z})
  <1> DEFINE U == {T \in SUBSET S : \E y \in T : SumOver(a, T) # a[y] + SumOver(a, T \ {y})}
  <1>1. SUFFICES ASSUME U # {} PROVE FALSE
    OBVIOUS
  <1>2. PICK T \in U : \A V \in U : V \subseteq T => V = T
    <2>1. U \subseteq SUBSET S
      OBVIOUS
    <2> HIDE DEF U
    <2>2. QED
      BY <1>1, <2>1, SmallestSubset
  <1>3. T \in SUBSET S
    BY <1>2
  <1>4. PICK y \in T : SumOver(a, T) # a[y] + SumOver(a, T \ {y})
    BY <1>2
  <1>5. \A V \in SUBSET T : \A v \in V : V # T => SumOver(a, V) = a[v] + SumOver(a, V \ {v})
    BY <1>2, <1>3
  <1> HIDE DEF U
  <1> DEFINE x == Pick(T)
  <1>6. IsFiniteSet(T) /\ x \in T
    BY <1>3, <1>4, FS_Subset, PickIn
  <1>7. SumOver(a, T) = a[x] + SumOver(a, T \ {x})
    BY <1>4, <1>6, SumPick
  <1> HIDE DEF x
  <1>8. x # y
    BY <1>4, <1>7
  <1>9. SumOver(a, T \ {x}) = a[y] + SumOver(a, (T \ {x}) \ {y})
    BY <1>4, <1>5, <1>6, <1>8
  <1>10. SumOver(a, T \ {y}) = a[x] + SumOver(a, (T \ {y}) \ {x})
    BY <1>4, <1>5, <1>6, <1>8
  <1>11. (T \ {x}) \ {y} = (T \ {y}) \ {x}
    OBVIOUS
  <1>12. SumOver(a, (T \ {x}) \ {y}) \in Int
    <2>1. (T \ {x}) \ {y} \in SUBSET S
      BY <1>3
    <2>2. IsFiniteSet((T \ {x}) \ {y}) /\ \A u \in (T \ {x}) \ {y} : a[u] \in Int
      BY <2>1, FS_Subset
    <2>3. QED
      BY <2>2, SumInt
  <1>13. a[x] \in Int /\ a[y] \in Int
    BY <1>3, <1>4, <1>6
  <1>14. \A p, q, w \in Int : p + (q + w) = q + (p + w)
    OBVIOUS
  <1>15. SumOver(a, T) = a[y] + (a[x] + SumOver(a, (T \ {x}) \ {y}))
    BY <1>7, <1>9, <1>12, <1>13, <1>14
  <1>16. SumOver(a, T) = a[y] + SumOver(a, T \ {y})
    BY <1>10, <1>11, <1>15
  <1>17. QED
    BY <1>4, <1>16

LEMMA SumAdd ==
    ASSUME NEW S, IsFiniteSet(S), NEW z, z \notin S, NEW a, \A x \in S \cup {z} : a[x] \in Int
    PROVE  SumOver(a, S \cup {z}) = a[z] + SumOver(a, S)
  <1>1. IsFiniteSet(S \cup {z}) /\ (S \cup {z}) \ {z} = S
    BY FS_AddElement
  <1>2. QED
    BY <1>1, SumRemove

\* The sum over two disjoint sets.
LEMMA SumDisjoint ==
    ASSUME NEW S, IsFiniteSet(S), NEW W, IsFiniteSet(W), S \cap W = {},
           NEW a, \A x \in S \cup W : a[x] \in Int
    PROVE  SumOver(a, S \cup W) = SumOver(a, S) + SumOver(a, W)
  <1> DEFINE U == {T \in SUBSET S : SumOver(a, T \cup W) # SumOver(a, T) + SumOver(a, W)}
  <1>1. SUFFICES ASSUME U # {} PROVE FALSE
    OBVIOUS
  <1>2. PICK T \in U : \A V \in U : V \subseteq T => V = T
    <2>1. U \subseteq SUBSET S
      OBVIOUS
    <2> HIDE DEF U
    <2>2. QED
      BY <1>1, <2>1, SmallestSubset
  <1>3. T \in SUBSET S /\ SumOver(a, T \cup W) # SumOver(a, T) + SumOver(a, W)
    BY <1>2
  <1>4. SumOver(a, W) \in Int
    BY SumInt
  <1>5. T # {}
    BY <1>3, <1>4, SumEmpty
  <1> DEFINE x == Pick(T)
             V == T \ {x}
  <1>6. x \in T /\ x \in S /\ x \notin W /\ a[x] \in Int
    BY <1>3, <1>5, PickIn
  <1>7. V \in SUBSET S /\ V # T /\ V \subseteq T
    BY <1>3, <1>6
  <1>8. SumOver(a, V \cup W) = SumOver(a, V) + SumOver(a, W)
    BY <1>2, <1>7
  <1>9. IsFiniteSet(T) /\ IsFiniteSet(V) /\ IsFiniteSet(V \cup W)
    BY <1>3, <1>7, FS_Subset, FS_Union
  <1>10. SumOver(a, T) = a[x] + SumOver(a, V) /\ SumOver(a, V) \in Int
    <2>1. \A u \in T : a[u] \in Int
      BY <1>3
    <2>2. \A u \in V : a[u] \in Int
      BY <2>1
    <2>3. QED
      BY <1>6, <1>9, <2>1, <2>2, SumRemove, SumInt
  <1>11. SumOver(a, T \cup W) = a[x] + SumOver(a, V \cup W)
    <2>1. T \cup W = (V \cup W) \cup {x} /\ x \notin V \cup W
      BY <1>6
    <2>2. \A u \in (V \cup W) \cup {x} : a[u] \in Int
      BY <1>3, <1>6
    <2> HIDE DEF V, x
    <2>3. QED
      BY <1>9, <2>1, <2>2, SumAdd
  <1>12. QED
    BY <1>3, <1>4, <1>6, <1>8, <1>10, <1>11

\* Terms that are alike make sums that are alike.
LEMMA SumSame ==
    ASSUME NEW S, IsFiniteSet(S), NEW a, NEW b, \A x \in S : a[x] \in Int /\ a[x] = b[x]
    PROVE  SumOver(a, S) = SumOver(b, S)
  <1> DEFINE U == {T \in SUBSET S : SumOver(a, T) # SumOver(b, T)}
  <1>1. SUFFICES ASSUME U # {} PROVE FALSE
    OBVIOUS
  <1>2. PICK T \in U : \A V \in U : V \subseteq T => V = T
    <2>1. U \subseteq SUBSET S
      OBVIOUS
    <2> HIDE DEF U
    <2>2. QED
      BY <1>1, <2>1, SmallestSubset
  <1>3. T \in SUBSET S /\ IsFiniteSet(T) /\ SumOver(a, T) # SumOver(b, T)
    BY <1>2, FS_Subset
  <1>4. T # {}
    BY <1>3, SumEmpty
  <1> DEFINE x == Pick(T)
             V == T \ {x}
  <1>5. x \in S /\ V \in SUBSET S /\ V # T /\ V \subseteq T
    BY <1>3, <1>4, PickIn
  <1>6. SumOver(a, V) = SumOver(b, V)
    BY <1>2, <1>5
  <1>7. SumOver(a, T) = a[x] + SumOver(a, V) /\ SumOver(b, T) = b[x] + SumOver(b, V)
    BY <1>3, <1>4, SumPick
  <1>8. QED
    BY <1>3, <1>5, <1>6, <1>7

\* Sums over classes add up to the sum over all.
LEMMA SumOfClasses ==
    ASSUME NEW S, IsFiniteSet(S), NEW C, IsFiniteSet(C), NEW class, \A x \in S : class[x] \in C,
           NEW a, \A x \in S : a[x] \in Int
    PROVE  SumOver([c \in C |-> SumOver(a, {x \in S : class[x] = c})], C) = SumOver(a, S)
  <1> DEFINE h == [c \in C |-> SumOver(a, {x \in S : class[x] = c})]
             In(D) == {x \in S : class[x] \in D}
             U == {D \in SUBSET C : SumOver(h, D) # SumOver(a, In(D))}
  <1>0. \A D : IsFiniteSet(In(D)) /\ \A x \in In(D) : a[x] \in Int
    BY FS_Subset
  <1>1. SUFFICES ASSUME U # {} PROVE FALSE
    <2>1. In(C) = S /\ C \in SUBSET C
      OBVIOUS
    <2> HIDE DEF h, In
    <2>2. QED
      BY <2>1 DEF h
  <1>2. PICK D \in U : \A V \in U : V \subseteq D => V = D
    <2>1. U \subseteq SUBSET C
      OBVIOUS
    <2> HIDE DEF U
    <2>2. QED
      BY <1>1, <2>1, SmallestSubset
  <1>3. D \in SUBSET C /\ IsFiniteSet(D) /\ SumOver(h, D) # SumOver(a, In(D))
    BY <1>2, FS_Subset
  <1>4. D # {}
    <2>1. In({}) = {}
      OBVIOUS
    <2> HIDE DEF In, h
    <2>2. QED
      BY <1>3, <2>1, SumEmpty
  <1> DEFINE d == Pick(D)
             V == D \ {d}
  <1>5. d \in D /\ d \in C /\ V \in SUBSET C /\ V # D /\ V \subseteq D
    BY <1>3, <1>4, PickIn
  <1>6. SumOver(h, V) = SumOver(a, In(V))
    BY <1>2, <1>5
  <1>7. SumOver(h, D) = h[d] + SumOver(h, V)
    BY <1>3, <1>4, SumPick
  <1>8. h[d] = SumOver(a, In({d}))
    <2>1. In({d}) = {x \in S : class[x] = d}
      OBVIOUS
    <2>2. QED
      BY <1>5, <2>1
  <1>9. In(D) = In({d}) \cup In(V) /\ In({d}) \cap In(V) = {}
    BY <1>5
  <1> HIDE DEF h, V, d
  <1>10. SumOver(a, In(D)) = SumOver(a, In({d})) + SumOver(a, In(V))
    <2> HIDE DEF In
    <2>1. \A x \in In({d}) \cup In(V) : a[x] \in Int
      BY <1>0
    <2>2. IsFiniteSet(In({d})) /\ IsFiniteSet(In(V))
      BY <1>0
    <2> DEFINE A == In({d})
               B == In(V)
    <2> HIDE DEF A, B
    <2>3. IsFiniteSet(A) /\ IsFiniteSet(B) /\ A \cap B = {} /\ \A x \in A \cup B : a[x] \in Int
      BY <1>9, <2>1, <2>2 DEF A, B
    <2>4. SumOver(a, A \cup B) = SumOver(a, A) + SumOver(a, B)
      BY <2>3, SumDisjoint
    <2>5. QED
      BY <1>9, <2>4 DEF A, B
  <1>11. QED
    BY <1>3, <1>6, <1>7, <1>8, <1>10
=============================================================================
