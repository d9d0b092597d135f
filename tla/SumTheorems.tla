---------------------------- MODULE SumTheorems ----------------------------
(***************************************************************************)
(* What SumFunctionOnSet of the community modules computes, for any finite *)
(* set: zero for the empty set, and a set with an element more has its     *)
(* value more, whatever order the fold takes.  The theorems of induction   *)
(* take an operator; each induction here is a least counterexample.        *)
(***************************************************************************)
EXTENDS Integers, FiniteSets, Functions, FiniteSetTheorems,
        WellFoundedInduction, NaturalsInduction, TLAPS

\* A set of naturals that is not empty has a least element.
LEMMA LeastNatural ==
  ASSUME NEW T \in SUBSET Nat, T # {}
  PROVE  \E n \in T : \A m \in T : n <= m
<1> DEFINE R == OpToRel(<, Nat)
<1>1. IsWellFoundedOn(R, Nat)
  BY NatLessThanWellFounded
<1>2. \A x, y \in Nat : x < y => <<x, y>> \in R
  BY Zenon DEF OpToRel
<1> HIDE DEF R
<1>3. PICK n \in T : \A m \in T : ~(<<m, n>> \in R)
  BY <1>1, WFMin
<1>4. ASSUME NEW m \in T PROVE n <= m
  <2>1. ~(m < n)
    BY <1>2, <1>3
  <2> QED
    BY <2>1
<1> QED
  BY <1>4

\* The fold takes the elements in this order,
First(s) == CHOOSE x \in s : TRUE

\* and a table of the sums of all subsets is what it builds.
IsTable(t, f, S) ==
  t = [s \in SUBSET S |-> IF s = {} THEN 0 ELSE f[First(s)] + t[s \ {First(s)}]]

Table(f, S) == CHOOSE t : IsTable(t, f, S)

LEMMA SumIsTable ==
  ASSUME NEW f, NEW S
  PROVE  SumFunctionOnSet(f, S) = Table(f, S)[S]
BY DEF SumFunctionOnSet, FoldFunctionOnSet, MapThenFoldSet, Table, IsTable, First

LEMMA FirstIn == ASSUME NEW s, s # {} PROVE First(s) \in s
BY DEF First

\* The table of a finite set exists: subset by subset, from the small to the large.
LEMMA TableExists ==
  ASSUME NEW f, NEW S, IsFiniteSet(S)
  PROVE  IsTable(Table(f, S), f, S)
<1> DEFINE Step(t, s) == IF s = {} THEN 0 ELSE f[First(s)] + t[s \ {First(s)}]
           UpTo(n) == \E t : \A s \in SUBSET S : Cardinality(s) <= n => t[s] = Step(t, s)
           Bad == {n \in Nat : ~UpTo(n)}
<1>1. \A s \in SUBSET S : IsFiniteSet(s) /\ Cardinality(s) \in Nat
                          /\ Cardinality(s) <= Cardinality(S)
  BY FS_Subset, FS_CardinalityType
<1>2. \A s \in SUBSET S : s # {} =>
        /\ s \ {First(s)} \in SUBSET S
        /\ Cardinality(s \ {First(s)}) = Cardinality(s) - 1
  BY <1>1, FirstIn, FS_RemoveElement
<1>3. UpTo(0)
  <2> DEFINE t == [s \in SUBSET S |-> 0]
  <2>1. \A s \in SUBSET S : Cardinality(s) <= 0 => s = {}
    BY <1>1, FS_EmptySet
  <2>2. \A s \in SUBSET S : Cardinality(s) <= 0 => t[s] = Step(t, s)
    BY <2>1
  <2> QED
    BY <2>2
<1>4. ASSUME NEW n \in Nat, UpTo(n) PROVE UpTo(n + 1)
  <2>1. PICK t : \A s \in SUBSET S : Cardinality(s) <= n => t[s] = Step(t, s)
    BY <1>4
  <2> DEFINE u == [s \in SUBSET S |-> IF Cardinality(s) <= n THEN t[s] ELSE Step(t, s)]
  <2>2. ASSUME NEW s \in SUBSET S, Cardinality(s) <= n + 1
        PROVE  u[s] = Step(u, s)
    <3>1. CASE s = {}
      <4>1. Cardinality(s) <= n
        BY <3>1, FS_EmptySet
      <4> QED
        BY <2>1, <3>1, <4>1
    <3>2. CASE s # {}
      <4>1. u[s \ {First(s)}] = t[s \ {First(s)}]
        BY <1>1, <1>2, <2>2, <3>2
      <4>2. u[s] = Step(t, s)
        BY <2>1
      <4> QED
        BY <3>2, <4>1, <4>2
    <3> QED
      BY <3>1, <3>2
  <2> QED
    BY <2>2
<1> HIDE DEF UpTo
<1>5. Bad = {}
  <2> SUFFICES ASSUME Bad # {} PROVE FALSE
    OBVIOUS
  <2>1. PICK n \in Bad : \A m \in Bad : n <= m
    BY LeastNatural
  <2>2. n # 0
    BY <1>3, <2>1
  <2>3. n - 1 \in Nat /\ ~ (n - 1 \in Bad)
    BY <2>1, <2>2
  <2>4. UpTo((n - 1) + 1)
    BY <1>4, <2>3
  <2> QED
    BY <2>1, <2>4
<1>6. UpTo(Cardinality(S))
  BY <1>1, <1>5
<1>7. PICK t : \A s \in SUBSET S : t[s] = Step(t, s)
  BY <1>1, <1>6 DEF UpTo
<1> DEFINE u == [s \in SUBSET S |-> t[s]]
<1>8. IsTable(u, f, S)
  <2>1. \A s \in SUBSET S : s \ {First(s)} \in SUBSET S
    OBVIOUS
  <2>2. \A s \in SUBSET S : u[s] = Step(u, s)
    BY <1>7, <2>1
  <2>3. u = [s \in SUBSET S |-> Step(u, s)]
    BY <2>2
  <2> QED
    BY <2>3 DEF IsTable
<1> QED
  BY <1>8 DEF Table

LEMMA TableValue ==
  ASSUME NEW f, NEW S, IsFiniteSet(S), NEW s \in SUBSET S
  PROVE  Table(f, S)[s] = IF s = {} THEN 0 ELSE f[First(s)] + Table(f, S)[s \ {First(s)}]
<1> DEFINE t == Table(f, S)
<1>1. IsTable(t, f, S)
  BY TableExists
<1> HIDE DEF t
<1>2. t[s] = IF s = {} THEN 0 ELSE f[First(s)] + t[s \ {First(s)}]
  BY <1>1 DEF IsTable
<1> QED
  BY <1>2 DEF t

\* Two tables agree where both are defined.
LEMMA TablesAgree ==
  ASSUME NEW f, NEW S, NEW T, IsFiniteSet(S), IsFiniteSet(T), NEW s, s \subseteq S, s \subseteq T
  PROVE  Table(f, S)[s] = Table(f, T)[s]
<1> DEFINE t == Table(f, S)
           u == Table(f, T)
           Bad == {n \in Nat : \E r \in SUBSET (S \cap T) : n = Cardinality(r) /\ t[r] # u[r]}
<1>1. \A r \in SUBSET (S \cap T) : IsFiniteSet(r) /\ Cardinality(r) \in Nat
  BY FS_Subset, FS_CardinalityType
<1>2. \A r \in SUBSET S : t[r] = IF r = {} THEN 0 ELSE f[First(r)] + t[r \ {First(r)}]
  BY TableValue
<1>3. \A r \in SUBSET T : u[r] = IF r = {} THEN 0 ELSE f[First(r)] + u[r \ {First(r)}]
  BY ZenonT(60), TableValue
<1> HIDE DEF t, u
<1>4. Bad = {}
  <2> SUFFICES ASSUME Bad # {} PROVE FALSE
    OBVIOUS
  <2>1. PICK n \in Bad : \A m \in Bad : n <= m
    BY LeastNatural
  <2>2. PICK r \in SUBSET (S \cap T) : n = Cardinality(r) /\ t[r] # u[r]
    BY <2>1
  <2>3. r # {}
    BY <1>2, <1>3, <2>2
  <2> DEFINE q == r \ {First(r)}
  <2>4. q \in SUBSET (S \cap T) /\ Cardinality(q) = n - 1 /\ n - 1 \in Nat
    <3>1. First(r) \in r
      BY <2>3, FirstIn
    <3>2. IsFiniteSet(r) /\ n \in Nat /\ n = Cardinality(r) /\ n # 0
      BY <1>1, <2>2, <2>3, FS_EmptySet
    <3>3. Cardinality(q) = n - 1
      BY <3>1, <3>2, FS_RemoveElement
    <3> QED
      BY <3>2, <3>3
  <2>5. t[q] # u[q]
    BY <1>2, <1>3, <2>2, <2>3
  <2>6. n - 1 \in Bad
    BY <2>4, <2>5
  <2> QED
    BY <2>1, <2>6
<1> QED
  BY <1>1, <1>4 DEF t, u

LEMMA SumEmpty == \A f : SumFunctionOnSet(f, {}) = 0
<1> TAKE f
<1>1. IsTable(Table(f, {}), f, {})
  BY TableExists, FS_EmptySet
<1> QED
  BY <1>1, SumIsTable DEF IsTable

\* The equation of the fold
LEMMA SumFirst ==
  ASSUME NEW f, NEW S, IsFiniteSet(S), S # {}
  PROVE  SumFunctionOnSet(f, S) = f[First(S)] + SumFunctionOnSet(f, S \ {First(S)})
<1> DEFINE T == S \ {First(S)}
<1>1. IsFiniteSet(T)
  BY FS_RemoveElement
<1>2. Table(f, S)[S] = f[First(S)] + Table(f, S)[T]
  BY TableValue
<1>3. Table(f, S)[T] = Table(f, T)[T]
  BY <1>1, TablesAgree
<1> QED
  BY <1>2, <1>3, SumIsTable

\* Functions that agree on a set have the same sum over it, a natural number if they are.
LEMMA SumAgrees ==
  ASSUME NEW f, NEW g, NEW S, IsFiniteSet(S), \A x \in S : f[x] = g[x]
  PROVE  SumFunctionOnSet(f, S) = SumFunctionOnSet(g, S)
<1> DEFINE Bad == {n \in Nat : \E T \in SUBSET S :
                     n = Cardinality(T) /\ SumFunctionOnSet(f, T) # SumFunctionOnSet(g, T)}
<1>1. \A T \in SUBSET S : IsFiniteSet(T) /\ Cardinality(T) \in Nat
  BY FS_Subset, FS_CardinalityType
<1>2. Bad = {}
  <2> SUFFICES ASSUME Bad # {} PROVE FALSE
    OBVIOUS
  <2>1. PICK n \in Bad : \A m \in Bad : n <= m
    BY LeastNatural
  <2>2. PICK T \in SUBSET S :
          n = Cardinality(T) /\ SumFunctionOnSet(f, T) # SumFunctionOnSet(g, T)
    BY <2>1
  <2>3. T # {}
    BY <2>2, SumEmpty
  <2> DEFINE U == T \ {First(T)}
  <2>4. First(T) \in T
    BY <2>3, FirstIn
  <2>5. U \in SUBSET S /\ Cardinality(U) = n - 1 /\ n - 1 \in Nat
    <3>1. IsFiniteSet(T) /\ n \in Nat /\ n = Cardinality(T) /\ n # 0
      BY <1>1, <2>2, <2>3, FS_EmptySet
    <3>2. Cardinality(U) = n - 1
      BY <2>4, <3>1, FS_RemoveElement
    <3> QED
      BY <3>1, <3>2
  <2>6. SumFunctionOnSet(f, U) # SumFunctionOnSet(g, U)
    BY <1>1, <2>2, <2>3, <2>4, SumFirst
  <2>7. n - 1 \in Bad
    BY <2>5, <2>6
  <2> QED
    BY <2>1, <2>7
<1> QED
  BY <1>1, <1>2

LEMMA SumIsNat ==
  ASSUME NEW f, NEW S, IsFiniteSet(S), \A x \in S : f[x] \in Nat
  PROVE  SumFunctionOnSet(f, S) \in Nat
<1> DEFINE Bad == {n \in Nat : \E T \in SUBSET S :
                     n = Cardinality(T) /\ SumFunctionOnSet(f, T) \notin Nat}
<1>1. \A T \in SUBSET S : IsFiniteSet(T) /\ Cardinality(T) \in Nat
  BY FS_Subset, FS_CardinalityType
<1>2. Bad = {}
  <2> SUFFICES ASSUME Bad # {} PROVE FALSE
    OBVIOUS
  <2>1. PICK n \in Bad : \A m \in Bad : n <= m
    BY LeastNatural
  <2>2. PICK T \in SUBSET S : n = Cardinality(T) /\ SumFunctionOnSet(f, T) \notin Nat
    BY <2>1
  <2>3. T # {}
    BY <2>2, SumEmpty
  <2> DEFINE U == T \ {First(T)}
  <2>4. First(T) \in T
    BY <2>3, FirstIn
  <2>5. U \in SUBSET S /\ Cardinality(U) = n - 1 /\ n - 1 \in Nat
    <3>1. IsFiniteSet(T) /\ n \in Nat /\ n = Cardinality(T) /\ n # 0
      BY <1>1, <2>2, <2>3, FS_EmptySet
    <3>2. Cardinality(U) = n - 1
      BY <2>4, <3>1, FS_RemoveElement
    <3> QED
      BY <3>1, <3>2
  <2>6. SumFunctionOnSet(f, U) \notin Nat
    BY <1>1, <2>2, <2>3, <2>4, SumFirst
  <2>7. n - 1 \in Bad
    BY <2>5, <2>6
  <2> QED
    BY <2>1, <2>7
<1> QED
  BY <1>1, <1>2

\* The order of the fold does not matter: any element may be the first.
LEMMA SumRemove ==
  ASSUME NEW f, NEW S, IsFiniteSet(S), \A x \in S : f[x] \in Nat, NEW a \in S
  PROVE  SumFunctionOnSet(f, S) = f[a] + SumFunctionOnSet(f, S \ {a})
<1> DEFINE Sum(T) == SumFunctionOnSet(f, T)
           Bad == {n \in Nat : \E T \in SUBSET S :
                     n = Cardinality(T) /\ \E x \in T : Sum(T) # f[x] + Sum(T \ {x})}
<1>1. \A T \in SUBSET S : IsFiniteSet(T) /\ Cardinality(T) \in Nat /\ Sum(T) \in Nat
  BY FS_Subset, FS_CardinalityType, SumIsNat
<1>2. \A T \in SUBSET S : T # {} =>
        First(T) \in T /\ Sum(T) = f[First(T)] + Sum(T \ {First(T)})
  BY <1>1, FirstIn, SumFirst
<1> HIDE DEF Sum
<1>3. Bad = {}
  <2> SUFFICES ASSUME Bad # {} PROVE FALSE
    OBVIOUS
  <2>1. PICK n \in Bad : \A m \in Bad : n <= m
    BY LeastNatural
  <2>2. PICK T \in SUBSET S :
          n = Cardinality(T) /\ \E x \in T : Sum(T) # f[x] + Sum(T \ {x})
    BY <2>1
  <2>3. PICK x \in T : Sum(T) # f[x] + Sum(T \ {x})
    BY <2>2
  <2> DEFINE p == First(T)
  <2>4. p \in T /\ Sum(T) = f[p] + Sum(T \ {p}) /\ x # p
    BY <1>2, <2>3
  <2>5. /\ T \ {p} \in SUBSET S /\ T \ {x} \in SUBSET S /\ n - 1 \in Nat
        /\ Cardinality(T \ {p}) = n - 1 /\ Cardinality(T \ {x}) = n - 1
        /\ ~ (n - 1 \in Bad)
    <3>1. /\ IsFiniteSet(T) /\ Cardinality(T) = n /\ n \in Nat /\ n # 0
      BY <1>1, <2>2, <2>4, FS_EmptySet
    <3>2. Cardinality(T \ {p}) = n - 1 /\ Cardinality(T \ {x}) = n - 1
      BY <2>4, <3>1, FS_RemoveElement
    <3> QED
      BY <2>1, <3>1, <3>2
  <2>6. Sum(T \ {p}) = f[x] + Sum((T \ {p}) \ {x})
    BY <2>4, <2>5
  <2>7. Sum(T \ {x}) = f[p] + Sum((T \ {x}) \ {p})
    BY <2>4, <2>5
  <2>8. (T \ {p}) \ {x} = (T \ {x}) \ {p}
    OBVIOUS
  <2>9. f[x] \in Nat /\ f[p] \in Nat /\ Sum((T \ {x}) \ {p}) \in Nat
    BY <1>1, <2>4
  <2> QED
    BY <2>3, <2>4, <2>6, <2>7, <2>8, <2>9
<1>4. Cardinality(S) \notin Bad
  BY <1>3
<1> QED
  BY <1>1, <1>4 DEF Sum

LEMMA SumAdd ==
  ASSUME NEW f, NEW S, IsFiniteSet(S), NEW a, a \notin S, f[a] \in Nat,
         \A x \in S : f[x] \in Nat
  PROVE  SumFunctionOnSet(f, S \cup {a}) = f[a] + SumFunctionOnSet(f, S)
<1>1. IsFiniteSet(S \cup {a}) /\ (S \cup {a}) \ {a} = S
  BY FS_AddElement
<1> QED
  BY <1>1, SumRemove

\* A function that changes at one element changes the sum by as much.
LEMMA SumChanges ==
  ASSUME NEW f, NEW g, NEW S, IsFiniteSet(S), NEW a \in S,
         \A x \in S : f[x] \in Nat /\ g[x] \in Nat, \A x \in S \ {a} : g[x] = f[x]
  PROVE  SumFunctionOnSet(g, S) + f[a] = SumFunctionOnSet(f, S) + g[a]
<1>1. IsFiniteSet(S \ {a})
  BY FS_RemoveElement
<1>2. SumFunctionOnSet(f, S \ {a}) = SumFunctionOnSet(g, S \ {a})
  BY <1>1, SumAgrees
<1>3. /\ SumFunctionOnSet(f, S) = f[a] + SumFunctionOnSet(f, S \ {a})
      /\ SumFunctionOnSet(g, S) = g[a] + SumFunctionOnSet(g, S \ {a})
  BY SumRemove
<1>4. SumFunctionOnSet(f, S \ {a}) \in Nat /\ f[a] \in Nat /\ g[a] \in Nat
  BY <1>1, SumIsNat
<1> QED
  BY <1>2, <1>3, <1>4

\* The sum over a set is that over a part of it and that over the rest.
LEMMA SumSplit ==
  ASSUME NEW f, NEW S, IsFiniteSet(S), \A x \in S : f[x] \in Nat, NEW P \in SUBSET S
  PROVE  SumFunctionOnSet(f, S) = SumFunctionOnSet(f, P) + SumFunctionOnSet(f, S \ P)
<1> DEFINE Sum(T) == SumFunctionOnSet(f, T)
           Bad == {n \in Nat : \E T \in SUBSET S : n = Cardinality(T)
                                                   /\ Sum(S) # Sum(T) + Sum(S \ T)}
<1>1. \A T \in SUBSET S : /\ IsFiniteSet(T) /\ Cardinality(T) \in Nat
                          /\ IsFiniteSet(S \ T) /\ Sum(T) \in Nat /\ Sum(S \ T) \in Nat
  BY FS_Subset, FS_CardinalityType, SumIsNat
<1>2. Sum({}) = 0
  BY SumEmpty
<1>3. \A T \in SUBSET S : \A x \in T :
        /\ f[x] \in Nat /\ Sum(T) = f[x] + Sum(T \ {x})
        /\ Sum(S \ (T \ {x})) = f[x] + Sum(S \ T)
  <2> SUFFICES ASSUME NEW T \in SUBSET S, NEW x \in T
               PROVE  /\ f[x] \in Nat /\ Sum(T) = f[x] + Sum(T \ {x})
                      /\ Sum(S \ (T \ {x})) = f[x] + Sum(S \ T)
    OBVIOUS
  <2>1. S \ (T \ {x}) = (S \ T) \cup {x} /\ x \notin S \ T /\ f[x] \in Nat
    OBVIOUS
  <2>2. Sum((S \ T) \cup {x}) = f[x] + Sum(S \ T)
    BY <1>1, <2>1, SumAdd
  <2>3. Sum(T) = f[x] + Sum(T \ {x})
    <3>1. \A y \in T : f[y] \in Nat
      OBVIOUS
    <3>2. IsFiniteSet(T)
      BY <1>1
    <3> QED
      BY <3>1, <3>2, SumRemove
  <2> QED
    BY <2>1, <2>2, <2>3
<1> HIDE DEF Sum
<1>4. Bad = {}
  <2> SUFFICES ASSUME Bad # {} PROVE FALSE
    OBVIOUS
  <2>1. PICK n \in Bad : \A m \in Bad : n <= m
    BY LeastNatural
  <2>2. PICK T \in SUBSET S : n = Cardinality(T) /\ Sum(S) # Sum(T) + Sum(S \ T)
    BY <2>1
  <2>3. T # {}
    BY <1>1, <1>2, <2>2
  <2>4. PICK x \in T : TRUE
    BY <2>3
  <2>5. /\ T \ {x} \in SUBSET S /\ n - 1 \in Nat /\ Cardinality(T \ {x}) = n - 1
        /\ ~ (n - 1 \in Bad)
    <3>1. IsFiniteSet(T) /\ n \in Nat /\ n # 0
      BY <1>1, <2>2, <2>3, FS_EmptySet
    <3>2. Cardinality(T \ {x}) = n - 1
      BY <2>2, <3>1, FS_RemoveElement
    <3>3. n - 1 \in Nat /\ ~ (n <= n - 1)
      BY <3>1
    <3>4. ~ (n - 1 \in Bad)
      BY <2>1, <3>3
    <3> QED
      BY <3>2, <3>3, <3>4
  <2>6. Sum(S) = Sum(T \ {x}) + Sum(S \ (T \ {x}))
    BY <2>5
  <2>7. Sum(T) = f[x] + Sum(T \ {x}) /\ Sum(S \ (T \ {x})) = f[x] + Sum(S \ T) /\ f[x] \in Nat
    BY <1>3
  <2>8. Sum(T \ {x}) \in Nat /\ Sum(S \ T) \in Nat
    BY <1>1, <2>5
  <2> QED
    BY <2>2, <2>6, <2>7, <2>8
<1>5. Cardinality(P) \notin Bad /\ Cardinality(P) \in Nat
  BY <1>1, <1>4
<1>6. Sum(S) = Sum(P) + Sum(S \ P)
  BY <1>5
<1> QED
  BY <1>6 DEF Sum

\* The sum of the sums of two functions
LEMMA SumPlus ==
  ASSUME NEW f, NEW g, NEW h, NEW S, IsFiniteSet(S), \A x \in S : f[x] \in Nat /\ g[x] \in Nat,
         \A x \in S : h[x] = f[x] + g[x]
  PROVE  SumFunctionOnSet(h, S) = SumFunctionOnSet(f, S) + SumFunctionOnSet(g, S)
<1> DEFINE F(T) == SumFunctionOnSet(f, T)
           G(T) == SumFunctionOnSet(g, T)
           H(T) == SumFunctionOnSet(h, T)
           Bad == {n \in Nat : \E T \in SUBSET S : n = Cardinality(T) /\ H(T) # F(T) + G(T)}
<1>1. \A T \in SUBSET S : IsFiniteSet(T) /\ Cardinality(T) \in Nat /\ F(T) \in Nat /\ G(T) \in Nat
  BY FS_Subset, FS_CardinalityType, SumIsNat
<1>2. F({}) = 0 /\ G({}) = 0 /\ H({}) = 0
  BY SumEmpty
<1>3. \A T \in SUBSET S : \A x \in T :
        F(T) = f[x] + F(T \ {x}) /\ G(T) = g[x] + G(T \ {x}) /\ H(T) = h[x] + H(T \ {x})
  <2> SUFFICES ASSUME NEW T \in SUBSET S, NEW x \in T
               PROVE  /\ F(T) = f[x] + F(T \ {x}) /\ G(T) = g[x] + G(T \ {x})
                      /\ H(T) = h[x] + H(T \ {x})
    OBVIOUS
  <2>1. /\ \A y \in T : f[y] \in Nat /\ g[y] \in Nat /\ h[y] \in Nat
        /\ IsFiniteSet(T)
    BY <1>1
  <2> QED
    BY <2>1, SumRemove
<1> HIDE DEF F, G, H
<1>4. Bad = {}
  <2> SUFFICES ASSUME Bad # {} PROVE FALSE
    OBVIOUS
  <2>1. PICK n \in Bad : \A m \in Bad : n <= m
    BY LeastNatural
  <2>2. PICK T \in SUBSET S : n = Cardinality(T) /\ H(T) # F(T) + G(T)
    BY <2>1
  <2>3. T # {}
    <3>1. H({}) = F({}) + G({})
      <4>1. 0 = 0 + 0
        OBVIOUS
      <4> QED
        BY <1>2, <4>1, Zenon
    <3> QED
      BY <2>2, <3>1, Zenon
  <2>4. PICK x \in T : TRUE
    BY <2>3
  <2>5. T \ {x} \in SUBSET S /\ H(T \ {x}) = F(T \ {x}) + G(T \ {x})
    <3>1. IsFiniteSet(T) /\ n \in Nat /\ n # 0
      BY <1>1, <2>2, <2>3, FS_EmptySet
    <3>2. Cardinality(T \ {x}) = n - 1
      BY <2>2, <3>1, FS_RemoveElement
    <3>3. n - 1 \in Nat /\ ~ (n <= n - 1)
      BY <3>1
    <3>4. ~ (n - 1 \in Bad)
      BY <2>1, <3>3
    <3> QED
      BY <3>2, <3>3, <3>4
  <2>6. F(T \ {x}) \in Nat /\ G(T \ {x}) \in Nat /\ f[x] \in Nat /\ g[x] \in Nat /\ h[x] = f[x] + g[x]
    BY <1>1, <2>5
  <2>7. F(T) = f[x] + F(T \ {x}) /\ G(T) = g[x] + G(T \ {x}) /\ H(T) = h[x] + H(T \ {x})
    BY <1>3
  <2> QED
    BY <2>2, <2>5, <2>6, <2>7
<1>5. Cardinality(S) \notin Bad /\ Cardinality(S) \in Nat /\ S \in SUBSET S
  BY <1>1, <1>4
<1>6. H(S) = F(S) + G(S)
  BY <1>5
<1> QED
  BY <1>6 DEF F, G, H

\* A function that is nowhere more has no larger sum; one that is zero has none.
LEMMA SumMonotone ==
  ASSUME NEW f, NEW g, NEW S, IsFiniteSet(S),
         \A x \in S : f[x] \in Nat /\ g[x] \in Nat /\ f[x] <= g[x]
  PROVE  SumFunctionOnSet(f, S) <= SumFunctionOnSet(g, S)
<1> DEFINE d == [x \in S |-> g[x] - f[x]]
<1>1. \A x \in S : d[x] \in Nat /\ g[x] = f[x] + d[x]
  OBVIOUS
<1> HIDE DEF d
<1>2. SumFunctionOnSet(g, S) = SumFunctionOnSet(f, S) + SumFunctionOnSet(d, S)
  BY <1>1, SumPlus
<1>3. SumFunctionOnSet(f, S) \in Nat /\ SumFunctionOnSet(d, S) \in Nat
  BY <1>1, SumIsNat
<1> QED
  BY <1>2, <1>3

LEMMA SumZero ==
  ASSUME NEW f, NEW S, IsFiniteSet(S), \A x \in S : f[x] = 0
  PROVE  SumFunctionOnSet(f, S) = 0
<1>1. SumFunctionOnSet(f, S) \in Nat
  BY SumIsNat
<1>2. SumFunctionOnSet(f, S) = SumFunctionOnSet(f, S) + SumFunctionOnSet(f, S)
  <2>1. \A x \in S : f[x] \in Nat /\ f[x] = f[x] + f[x]
    OBVIOUS
  <2> QED
    BY <2>1, SumPlus
<1>3. \A n \in Nat : n = n + n => n = 0
  OBVIOUS
<1> QED
  BY <1>1, <1>2, <1>3, Zenon

\* Part of a set has no larger sum.
LEMMA SumPart ==
  ASSUME NEW f, NEW S, IsFiniteSet(S), \A x \in S : f[x] \in Nat, NEW P \in SUBSET S
  PROVE  SumFunctionOnSet(f, P) <= SumFunctionOnSet(f, S)
<1>1. IsFiniteSet(P) /\ IsFiniteSet(S \ P)
  BY FS_Subset
<1>2. SumFunctionOnSet(f, P) \in Nat /\ SumFunctionOnSet(f, S \ P) \in Nat
  <2>1. (\A x \in P : f[x] \in Nat) /\ (\A x \in S \ P : f[x] \in Nat)
    OBVIOUS
  <2> QED
    BY <1>1, <2>1, SumIsNat
<1>3. SumFunctionOnSet(f, S) = SumFunctionOnSet(f, P) + SumFunctionOnSet(f, S \ P)
  BY SumSplit
<1> QED
  BY <1>2, <1>3
=============================================================================
