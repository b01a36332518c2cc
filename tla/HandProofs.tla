----------------------------- MODULE HandProofs -----------------------------
(***************************************************************************)
(* Theorems about pots and about the table, for any number of players,     *)
(* blinds, buy-in and rake: no pot's layers lose a chip and each player    *)
(* can win out of them what the rules give, the table's records of who     *)
(* plays never drift apart, while a hand runs somebody is waited for, the  *)
(* chips at the table are those that were brought, nobody competes on a    *)
(* street without having put in what the streets before asked, whoever     *)
(* folds forfeits, and whoever waited to come in posts.                    *)
(*                                                                         *)
(* In order: sums over finite sets; the layers of a pot; who wins them;    *)
(* the records; the chips.                                                 *)
(***************************************************************************)
EXTENDS Hand, PotSplit, FiniteSetTheorems, SequenceTheorems, WellFoundedInduction, TLAPS

(* Induction over the numbers, and over the subsets of a finite set: a set *)
(* of them that has the first and each next has all of them.               *)
LEMMA AllNumbers ==
  ASSUME NEW N \in SUBSET Nat, 0 \in N, \A n \in N : n + 1 \in N
  PROVE  N = Nat
<1> SUFFICES ASSUME Nat \ N # {}  PROVE FALSE
  OBVIOUS
<1>1. PICK m \in Nat \ N : \A x \in Nat \ N : ~(<<x, m>> \in OpToRel(<, Nat))
  BY NatLessThanWellFounded, WFMin, Zenon
<1>2. m - 1 \in Nat /\ m - 1 < m  OBVIOUS
<1>3. <<m - 1, m>> \in OpToRel(<, Nat)
  <2>1. m \in Nat  OBVIOUS
  <2>2. <<m - 1, m>> \in Nat \X Nat  BY <1>2
  <2> QED  BY <1>2, <2>1, <2>2, Zenon DEF OpToRel
<1>4. m - 1 \in N  BY <1>1, <1>2, <1>3
<1> QED  BY <1>4

LEMMA AllSubsets ==
  ASSUME NEW S, IsFiniteSet(S), NEW F, {} \in F,
         \A s \in SUBSET S : \A x \in S \ s : s \in F => s \cup {x} \in F
  PROVE  \A s \in SUBSET S : s \in F
<1> DEFINE N == {n \in Nat : \A s \in SUBSET S : Cardinality(s) = n => s \in F}
<1>1. 0 \in N
  <2> SUFFICES ASSUME NEW s \in SUBSET S, Cardinality(s) = 0  PROVE s \in F
    OBVIOUS
  <2>1. IsFiniteSet(s)  BY FS_Subset
  <2> QED  BY <2>1, FS_EmptySet
<1>2. ASSUME NEW n \in N  PROVE n + 1 \in N
  <2> SUFFICES ASSUME NEW s \in SUBSET S, Cardinality(s) = n + 1  PROVE s \in F
    OBVIOUS
  <2>1. IsFiniteSet(s) /\ n \in Nat  BY FS_Subset
  <2>2. s # {}  BY <2>1, FS_EmptySet
  <2>3. PICK x \in s : TRUE  BY <2>2
  <2>4. Cardinality(s \ {x}) = n
    <3>1. Cardinality(s \ {x}) = Cardinality(s) - 1  BY <2>1, FS_RemoveElement
    <3> QED  BY <2>1, <3>1
  <2>5. s \ {x} \in F  BY <2>4
  <2>6. (s \ {x}) \cup {x} \in F  BY <2>5
  <2> QED  BY <2>6
<1>3. N = Nat
  <2> HIDE DEF N
  <2>1. N \in SUBSET Nat  BY DEF N
  <2> QED  BY <1>1, <1>2, <2>1, AllNumbers
<1> SUFFICES ASSUME NEW s \in SUBSET S  PROVE s \in F
  OBVIOUS
<1>4. Cardinality(s) \in Nat  BY FS_Subset, FS_CardinalityType
<1> QED  BY <1>3, <1>4

----------------------------------------------------------------------------
(* Sums.  SumFunctionOnSet(f, S) adds f[x] for the members x of S.         *)
Pick(s) == CHOOSE x \in s : TRUE

(* g is the sum of f on the sets of U.                                     *)
Adds(g, f, U) ==
  g = [s \in U |-> IF s = {} THEN 0 ELSE f[Pick(s)] + g[s \ {Pick(s)}]]

LEMMA SumIs ==
  ASSUME NEW f, NEW S
  PROVE  SumFunctionOnSet(f, S) = (CHOOSE g : Adds(g, f, SUBSET S))[S]
BY Zenon DEF SumFunctionOnSet, FoldFunctionOnSet, MapThenFoldSet, Adds, Pick

Below(S, n) == {s \in SUBSET S : Cardinality(s) <= n}

LEMMA SumExists ==
  ASSUME NEW f, NEW S, IsFiniteSet(S)
  PROVE  \E g : Adds(g, f, SUBSET S)
<1> DEFINE N == {n \in Nat : \E g : Adds(g, f, Below(S, n))}
<1>1. 0 \in N
  <2> DEFINE g == [s \in Below(S, 0) |-> 0]
  <2>1. \A s \in Below(S, 0) : s = {}  BY FS_Subset, FS_EmptySet, FS_CardinalityType DEF Below
  <2>2. g = [s \in Below(S, 0) |-> IF s = {} THEN 0 ELSE f[Pick(s)] + g[s \ {Pick(s)}]]
    BY <2>1
  <2> QED  BY <2>2 DEF Adds
<1>2. ASSUME NEW n \in N  PROVE n + 1 \in N
  <2>1. PICK g : Adds(g, f, Below(S, n))  BY <1>2
  <2> DEFINE step(s) == IF s = {} THEN 0 ELSE f[Pick(s)] + g[s \ {Pick(s)}]
             h == [s \in Below(S, n + 1) |-> step(s)]
  <2>2. ASSUME NEW s \in Below(S, n)  PROVE s \in Below(S, n + 1) /\ h[s] = g[s]
    <3>1. Cardinality(s) \in Nat  BY FS_Subset, FS_CardinalityType DEF Below
    <3>2. s \in Below(S, n + 1)  BY <3>1 DEF Below
    <3>3. g[s] = step(s)  BY <2>1, Zenon DEF Adds
    <3> QED  BY <3>2, <3>3
  <2>3. ASSUME NEW s \in Below(S, n + 1), s # {}  PROVE s \ {Pick(s)} \in Below(S, n)
    <3>1. IsFiniteSet(s) /\ s \in SUBSET S  BY FS_Subset DEF Below
    <3>2. Pick(s) \in s  BY <2>3 DEF Pick
    <3>3. Cardinality(s \ {Pick(s)}) = Cardinality(s) - 1 /\ Cardinality(s) \in Nat
      BY <3>1, <3>2, FS_RemoveElement, FS_CardinalityType
    <3> QED  BY <3>1, <3>3 DEF Below
  <2> HIDE DEF h
  <2>4. \A s \in Below(S, n + 1) : h[s] = IF s = {} THEN 0 ELSE f[Pick(s)] + h[s \ {Pick(s)}]
    <3> SUFFICES ASSUME NEW s \in Below(S, n + 1)
                 PROVE  h[s] = IF s = {} THEN 0 ELSE f[Pick(s)] + h[s \ {Pick(s)}]
      OBVIOUS
    <3>1. h[s] = step(s)  BY DEF h
    <3>2. CASE s = {}  BY <3>1, <3>2
    <3>3. CASE s # {}
      <4>1. h[s \ {Pick(s)}] = g[s \ {Pick(s)}]  BY <2>2, <2>3, <3>3
      <4> QED  BY <3>1, <3>3, <4>1
    <3> QED  BY <3>2, <3>3
  <2>5. DOMAIN h = Below(S, n + 1) /\ h = [s \in Below(S, n + 1) |-> h[s]]  BY DEF h
  <2>6. Adds(h, f, Below(S, n + 1))  BY <2>4, <2>5, Zenon DEF Adds
  <2> QED  BY <2>6
<1>3. N = Nat
  <2> HIDE DEF N
  <2>1. N \in SUBSET Nat  BY DEF N
  <2> QED  BY <1>1, <1>2, <2>1, AllNumbers
<1>4. Cardinality(S) \in Nat  BY FS_CardinalityType
<1>5. Below(S, Cardinality(S)) = SUBSET S  BY FS_Subset DEF Below
<1>6. Cardinality(S) \in N  BY <1>3, <1>4
<1> QED  BY <1>5, <1>6

LEMMA SumAdds ==
  ASSUME NEW f, NEW S, IsFiniteSet(S)
  PROVE  \E g : Adds(g, f, SUBSET S) /\ SumFunctionOnSet(f, S) = g[S]
<1> DEFINE g == CHOOSE g : Adds(g, f, SUBSET S)
<1>1. Adds(g, f, SUBSET S)  BY SumExists, Zenon
<1>2. SumFunctionOnSet(f, S) = g[S]  BY SumIs, Zenon
<1> HIDE DEF g
<1> QED  BY <1>1, <1>2

AddsUp(g, f, S) == Adds(g, f, SUBSET S)
Same(f, e, S)   == \A x \in S : f[x] = e[x]

(* Two that add the same agree on the finite sets of both.                 *)
LEMMA AddsAgree ==
  ASSUME NEW f, NEW S, IsFiniteSet(S), NEW T, S \subseteq T, NEW e,
         Same(f, e, S), NEW g, AddsUp(g, f, S), NEW h, AddsUp(h, e, T)
  PROVE  g[S] = h[S]
<1> DEFINE N == {n \in Nat : \A s \in SUBSET S : Cardinality(s) = n => g[s] = h[s]}
<1>1. ASSUME NEW s \in SUBSET S
      PROVE  /\ s = {} => g[s] = 0 /\ h[s] = 0
             /\ s # {} => /\ Pick(s) \in s
                          /\ g[s] = f[Pick(s)] + g[s \ {Pick(s)}]
                          /\ h[s] = f[Pick(s)] + h[s \ {Pick(s)}]
                          /\ IsFiniteSet(s) /\ s \ {Pick(s)} \in SUBSET S
  <2>1. g[s] = IF s = {} THEN 0 ELSE f[Pick(s)] + g[s \ {Pick(s)}]  BY Zenon DEF Adds, AddsUp
  <2>2. s \in SUBSET T  OBVIOUS
  <2>3. h[s] = IF s = {} THEN 0 ELSE e[Pick(s)] + h[s \ {Pick(s)}]  BY <2>2, Zenon DEF Adds, AddsUp
  <2>4. s # {} => Pick(s) \in s  BY DEF Pick
  <2>5. IsFiniteSet(s)  BY FS_Subset
  <2> QED  BY <2>1, <2>3, <2>4, <2>5 DEF Same
<1>2. 0 \in N
  <2> SUFFICES ASSUME NEW s \in SUBSET S, Cardinality(s) = 0  PROVE g[s] = h[s]
    OBVIOUS
  <2>1. s = {}  BY FS_Subset, FS_EmptySet
  <2> QED  BY <1>1, <2>1
<1>3. ASSUME NEW n \in N  PROVE n + 1 \in N
  <2> SUFFICES ASSUME NEW s \in SUBSET S, Cardinality(s) = n + 1  PROVE g[s] = h[s]
    OBVIOUS
  <2>1. s # {} /\ n \in Nat  BY FS_Subset, FS_EmptySet
  <2>2. Cardinality(s \ {Pick(s)}) = Cardinality(s) - 1  BY <1>1, <2>1, FS_RemoveElement
  <2>3. Cardinality(s \ {Pick(s)}) = n  BY <2>1, <2>2
  <2>4. g[s \ {Pick(s)}] = h[s \ {Pick(s)}]  BY <1>1, <2>1, <2>3
  <2> QED  BY <1>1, <2>1, <2>4
<1>4. N = Nat
  <2> HIDE DEF N
  <2>1. N \in SUBSET Nat  BY DEF N
  <2> QED  BY <1>2, <1>3, <2>1, AllNumbers
<1>5. Cardinality(S) \in N  BY <1>4, FS_CardinalityType
<1> QED  BY <1>5

(* Sums as they are used from here on.                                     *)
LEMMA SumEmpty == \A f : SumFunctionOnSet(f, {}) = 0
<1> SUFFICES ASSUME NEW f  PROVE SumFunctionOnSet(f, {}) = 0
  OBVIOUS
<1>1. PICK g : AddsUp(g, f, {}) /\ SumFunctionOnSet(f, {}) = g[{}]
  BY SumAdds, FS_EmptySet, Zenon DEF AddsUp
<1>2. {} \in SUBSET {}  OBVIOUS
<1>3. g[{}] = 0  BY <1>1, <1>2, Zenon DEF Adds, AddsUp
<1> QED  BY <1>1, <1>3

LEMMA SumSame ==
  ASSUME NEW f, NEW e, NEW S, IsFiniteSet(S), Same(f, e, S)
  PROVE  SumFunctionOnSet(f, S) = SumFunctionOnSet(e, S)
<1>1. PICK g : AddsUp(g, f, S) /\ SumFunctionOnSet(f, S) = g[S]  BY SumAdds, Zenon DEF AddsUp
<1>2. PICK h : AddsUp(h, e, S) /\ SumFunctionOnSet(e, S) = h[S]  BY SumAdds, Zenon DEF AddsUp
<1>3. S \subseteq S  OBVIOUS
<1>4. g[S] = h[S]  BY <1>1, <1>2, <1>3, AddsAgree
<1> QED  BY <1>1, <1>2, <1>4

(* The first of the members, in the order the sum takes them.              *)
LEMMA SumFirst ==
  ASSUME NEW f, NEW S, IsFiniteSet(S), S # {}
  PROVE  Pick(S) \in S /\ SumFunctionOnSet(f, S) = f[Pick(S)] + SumFunctionOnSet(f, S \ {Pick(S)})
<1>1. Pick(S) \in S /\ S \ {Pick(S)} \in SUBSET S /\ IsFiniteSet(S \ {Pick(S)})
  BY FS_RemoveElement DEF Pick
<1>2. PICK g : AddsUp(g, f, S) /\ SumFunctionOnSet(f, S) = g[S]  BY SumAdds, Zenon DEF AddsUp
<1>3. PICK h : /\ AddsUp(h, f, S \ {Pick(S)})
               /\ SumFunctionOnSet(f, S \ {Pick(S)}) = h[S \ {Pick(S)}]
  BY <1>1, SumAdds, Zenon DEF AddsUp
<1>4. h[S \ {Pick(S)}] = g[S \ {Pick(S)}]
  <2> DEFINE R == S \ {Pick(S)}
  <2>1. R \subseteq S /\ Same(f, f, R)  BY DEF Same
  <2>2. IsFiniteSet(R) /\ AddsUp(h, f, R)  BY <1>1, <1>3
  <2> HIDE DEF R
  <2>3. h[R] = g[R]  BY <1>2, <2>1, <2>2, AddsAgree
  <2> QED  BY <2>3 DEF R
<1>5. S \in SUBSET S  OBVIOUS
<1>6. g[S] = IF S = {} THEN 0 ELSE f[Pick(S)] + g[S \ {Pick(S)}]  BY <1>2, <1>5, Zenon DEF Adds, AddsUp
<1> QED  BY <1>1, <1>2, <1>3, <1>4, <1>6

LEMMA SumType ==
  ASSUME NEW f, NEW S, IsFiniteSet(S), \A x \in S : f[x] \in Int
  PROVE  SumFunctionOnSet(f, S) \in Int
<1> DEFINE N == {n \in Nat : \A s \in SUBSET S : Cardinality(s) = n => SumFunctionOnSet(f, s) \in Int}
<1>1. 0 \in N
  <2> SUFFICES ASSUME NEW s \in SUBSET S, Cardinality(s) = 0  PROVE SumFunctionOnSet(f, s) \in Int
    OBVIOUS
  <2>1. s = {}  BY FS_Subset, FS_EmptySet
  <2> QED  BY <2>1, SumEmpty
<1>2. ASSUME NEW n \in N  PROVE n + 1 \in N
  <2> SUFFICES ASSUME NEW s \in SUBSET S, Cardinality(s) = n + 1
               PROVE  SumFunctionOnSet(f, s) \in Int
    OBVIOUS
  <2>1. s # {} /\ n \in Nat /\ IsFiniteSet(s)  BY FS_Subset, FS_EmptySet
  <2>2. /\ Pick(s) \in s
        /\ SumFunctionOnSet(f, s) = f[Pick(s)] + SumFunctionOnSet(f, s \ {Pick(s)})
    BY <2>1, SumFirst
  <2>3. Cardinality(s \ {Pick(s)}) = Cardinality(s) - 1  BY <2>1, <2>2, FS_RemoveElement
  <2>4. Cardinality(s \ {Pick(s)}) = n  BY <2>1, <2>3
  <2>5. SumFunctionOnSet(f, s \ {Pick(s)}) \in Int  BY <2>4
  <2> QED  BY <2>2, <2>5
<1>3. N = Nat
  <2> HIDE DEF N
  <2>1. N \in SUBSET Nat  BY DEF N
  <2> QED  BY <1>1, <1>2, <2>1, AllNumbers
<1>4. Cardinality(S) \in N  BY <1>3, FS_CardinalityType
<1> QED  BY <1>4

LEMMA SumRemove ==
  ASSUME NEW f, NEW S, IsFiniteSet(S), \A x \in S : f[x] \in Int, NEW a \in S
  PROVE  SumFunctionOnSet(f, S) = f[a] + SumFunctionOnSet(f, S \ {a})
<1> DEFINE N == {n \in Nat : \A s \in SUBSET S : Cardinality(s) = n =>
                   \A b \in s : SumFunctionOnSet(f, s) = f[b] + SumFunctionOnSet(f, s \ {b})}
<1>1. 0 \in N
  <2> SUFFICES ASSUME NEW s \in SUBSET S, Cardinality(s) = 0  PROVE s = {}
    OBVIOUS
  <2> QED  BY FS_Subset, FS_EmptySet
<1>2. ASSUME NEW n \in N  PROVE n + 1 \in N
  <2> SUFFICES ASSUME NEW s \in SUBSET S, Cardinality(s) = n + 1, NEW b \in s
               PROVE  SumFunctionOnSet(f, s) = f[b] + SumFunctionOnSet(f, s \ {b})
    OBVIOUS
  <2>1. s # {} /\ n \in Nat /\ IsFiniteSet(s)  BY FS_Subset
  <2> DEFINE x == Pick(s)
  <2>2. x \in s /\ SumFunctionOnSet(f, s) = f[x] + SumFunctionOnSet(f, s \ {x})
    BY <2>1, SumFirst
  <2> HIDE DEF x
  <2>3. CASE b = x  BY <2>2, <2>3
  <2>4. CASE b # x
    <3>1. ASSUME NEW y \in s  PROVE Cardinality(s \ {y}) = n /\ IsFiniteSet(s \ {y})
      <4>1. Cardinality(s \ {y}) = Cardinality(s) - 1 /\ IsFiniteSet(s \ {y})
        BY <2>1, FS_RemoveElement
      <4> QED  BY <2>1, <4>1
    <3>2. SumFunctionOnSet(f, s \ {x}) = f[b] + SumFunctionOnSet(f, (s \ {x}) \ {b})
      BY <2>2, <2>4, <3>1
    <3>3. SumFunctionOnSet(f, s \ {b}) = f[x] + SumFunctionOnSet(f, (s \ {b}) \ {x})
      BY <2>2, <2>4, <3>1
    <3>4. (s \ {x}) \ {b} = (s \ {b}) \ {x}  OBVIOUS
    <3>5. SumFunctionOnSet(f, (s \ {b}) \ {x}) \in Int /\ f[b] \in Int /\ f[x] \in Int
      BY <2>1, <2>2, SumType, FS_Subset
    <3>6. SumFunctionOnSet(f, s \ {x}) = f[b] + SumFunctionOnSet(f, (s \ {b}) \ {x})
      BY <3>2, <3>4, Zenon
    <3> DEFINE rest == SumFunctionOnSet(f, (s \ {b}) \ {x})
    <3>7. rest \in Int /\ f[b] \in Int /\ f[x] \in Int  BY <3>5
    <3>8. f[x] + (f[b] + rest) = f[b] + (f[x] + rest)
      <4> HIDE DEF rest
      <4> QED  BY <3>7
    <3> QED  BY <2>2, <3>3, <3>6, <3>8, Zenon
  <2> QED  BY <2>3, <2>4
<1>3. N = Nat
  <2> HIDE DEF N
  <2>1. N \in SUBSET Nat  BY DEF N
  <2> QED  BY <1>1, <1>2, <2>1, AllNumbers
<1>4. Cardinality(S) \in N  BY <1>3, FS_CardinalityType
<1> QED  BY <1>4

LEMMA SumAdd ==
  ASSUME NEW f, NEW S, IsFiniteSet(S), \A x \in S : f[x] \in Int, NEW s \in SUBSET S, NEW x \in S \ s
  PROVE  /\ SumFunctionOnSet(f, s \cup {x}) = f[x] + SumFunctionOnSet(f, s)
         /\ SumFunctionOnSet(f, s) \in Int /\ f[x] \in Int
<1> DEFINE u == s \cup {x}
<1>1. IsFiniteSet(s) /\ IsFiniteSet(u) /\ u \ {x} = s /\ x \in u  BY FS_Subset, FS_AddElement
<1>2. \A y \in u : f[y] \in Int  OBVIOUS
<1> HIDE DEF u
<1>3. SumFunctionOnSet(f, u) = f[x] + SumFunctionOnSet(f, u \ {x})  BY <1>1, <1>2, SumRemove
<1>4. SumFunctionOnSet(f, s) \in Int  BY <1>1, SumType
<1> QED  BY <1>1, <1>3, <1>4 DEF u

LEMMA SumPlus ==
  ASSUME NEW f, NEW g, NEW h, NEW S, IsFiniteSet(S),
         \A x \in S : f[x] \in Int /\ g[x] \in Int /\ h[x] = f[x] + g[x]
  PROVE  SumFunctionOnSet(h, S) = SumFunctionOnSet(f, S) + SumFunctionOnSet(g, S)
<1> DEFINE F == {s \in SUBSET S : SumFunctionOnSet(h, s) = SumFunctionOnSet(f, s) + SumFunctionOnSet(g, s)}
<1>1. {} \in F  BY SumEmpty
<1>2. ASSUME NEW s \in SUBSET S, NEW x \in S \ s, s \in F  PROVE s \cup {x} \in F
  <2>1. /\ SumFunctionOnSet(f, s \cup {x}) = f[x] + SumFunctionOnSet(f, s)
        /\ SumFunctionOnSet(f, s) \in Int /\ f[x] \in Int
    BY SumAdd
  <2>2. /\ SumFunctionOnSet(g, s \cup {x}) = g[x] + SumFunctionOnSet(g, s)
        /\ SumFunctionOnSet(g, s) \in Int /\ g[x] \in Int
    BY SumAdd
  <2>3. \A y \in S : h[y] \in Int  OBVIOUS
  <2>4. SumFunctionOnSet(h, s \cup {x}) = h[x] + SumFunctionOnSet(h, s)
    BY <2>3, SumAdd
  <2>5. h[x] = f[x] + g[x]  OBVIOUS
  <2>6. SumFunctionOnSet(h, s) = SumFunctionOnSet(f, s) + SumFunctionOnSet(g, s)  BY <1>2
  <2>7. s \cup {x} \in SUBSET S  OBVIOUS
  <2> QED  BY <2>1, <2>2, <2>4, <2>5, <2>6, <2>7
<1> HIDE DEF F
<1>3. S \in F  BY <1>1, <1>2, AllSubsets
<1> QED  BY <1>3 DEF F

(* One member's part changes.                                              *)
LEMMA SumChange ==
  ASSUME NEW f, NEW g, NEW S, IsFiniteSet(S), \A x \in S : f[x] \in Int /\ g[x] \in Int,
         NEW a \in S, Same(g, f, S \ {a})
  PROVE  SumFunctionOnSet(g, S) = SumFunctionOnSet(f, S) - f[a] + g[a]
<1>1. SumFunctionOnSet(f, S) = f[a] + SumFunctionOnSet(f, S \ {a})  BY SumRemove
<1>2. SumFunctionOnSet(g, S) = g[a] + SumFunctionOnSet(g, S \ {a})  BY SumRemove
<1>3. IsFiniteSet(S \ {a})  BY FS_Subset
<1>4. SumFunctionOnSet(g, S \ {a}) = SumFunctionOnSet(f, S \ {a})  BY <1>3, SumSame
<1>5. SumFunctionOnSet(f, S \ {a}) \in Int  BY <1>3, SumType
<1>6. f[a] \in Int /\ g[a] \in Int  OBVIOUS
<1> QED  BY <1>1, <1>2, <1>4, <1>5, <1>6

(* Members that add nothing may be left out.                               *)
LEMMA SumWithin ==
  ASSUME NEW f, NEW S, IsFiniteSet(S), \A x \in S : f[x] \in Int, NEW T \in SUBSET S,
         \A x \in S \ T : f[x] = 0
  PROVE  SumFunctionOnSet(f, S) = SumFunctionOnSet(f, T)
<1> DEFINE F == {s \in SUBSET S : SumFunctionOnSet(f, s) = SumFunctionOnSet(f, s \cap T)}
<1>1. {} \in F
  <2>1. {} \cap T = {}  OBVIOUS
  <2> QED  BY <2>1, Zenon
<1>2. ASSUME NEW s \in SUBSET S, NEW x \in S \ s, s \in F  PROVE s \cup {x} \in F
  <2>1. /\ SumFunctionOnSet(f, s \cup {x}) = f[x] + SumFunctionOnSet(f, s)
        /\ SumFunctionOnSet(f, s) \in Int /\ f[x] \in Int
    BY SumAdd
  <2>2. SumFunctionOnSet(f, s) = SumFunctionOnSet(f, s \cap T)  BY <1>2
  <2>3. CASE x \in T
    <3>1. s \cap T \in SUBSET S /\ x \in S \ (s \cap T)  OBVIOUS
    <3>2. SumFunctionOnSet(f, (s \cap T) \cup {x}) = f[x] + SumFunctionOnSet(f, s \cap T)
      BY <3>1, SumAdd
    <3>3. (s \cup {x}) \cap T = (s \cap T) \cup {x}  BY <2>3
    <3>4. SumFunctionOnSet(f, s \cup {x}) = SumFunctionOnSet(f, (s \cup {x}) \cap T)
      BY <2>1, <2>2, <3>2, <3>3, Zenon
    <3> QED  BY <3>4
  <2>4. CASE x \notin T
    <3>1. f[x] = 0  BY <2>4
    <3>2. (s \cup {x}) \cap T = s \cap T  BY <2>4
    <3>3. SumFunctionOnSet(f, s \cup {x}) = SumFunctionOnSet(f, s)  BY <2>1, <3>1
    <3>4. SumFunctionOnSet(f, s \cup {x}) = SumFunctionOnSet(f, (s \cup {x}) \cap T)
      BY <2>2, <3>2, <3>3, Zenon
    <3> QED  BY <3>4
  <2> QED  BY <2>3, <2>4
<1> HIDE DEF F
<1>3. S \in F  BY <1>1, <1>2, AllSubsets
<1>4. S \cap T = T  OBVIOUS
<1> QED  BY <1>3, <1>4, Zenon DEF F

(* Equal parts.                                                            *)
LEMMA SumEqual ==
  ASSUME NEW f, NEW S, IsFiniteSet(S), NEW k \in Int, \A x \in S : f[x] = k
  PROVE  SumFunctionOnSet(f, S) = Cardinality(S) * k
<1> DEFINE F == {s \in SUBSET S : SumFunctionOnSet(f, s) = Cardinality(s) * k}
<1>1. {} \in F
  <2>1. Cardinality({}) = 0  BY FS_EmptySet
  <2> QED  BY <2>1, SumEmpty
<1>2. ASSUME NEW s \in SUBSET S, NEW x \in S \ s, s \in F  PROVE s \cup {x} \in F
  <2>1. SumFunctionOnSet(f, s \cup {x}) = f[x] + SumFunctionOnSet(f, s)
    BY SumAdd
  <2>2. IsFiniteSet(s)  BY FS_Subset
  <2>3. Cardinality(s \cup {x}) = Cardinality(s) + 1 /\ Cardinality(s) \in Nat
    BY <2>2, FS_AddElement, FS_CardinalityType
  <2>4. SumFunctionOnSet(f, s) = Cardinality(s) * k /\ f[x] = k  BY <1>2
  <2>5. ASSUME NEW c \in Nat  PROVE k + c * k = (c + 1) * k
    OBVIOUS
  <2>6. SumFunctionOnSet(f, s \cup {x}) = (Cardinality(s) + 1) * k  BY <2>1, <2>3, <2>4, <2>5
  <2> QED  BY <2>3, <2>6
<1> HIDE DEF F
<1>3. S \in F  BY <1>1, <1>2, AllSubsets
<1> QED  BY <1>3 DEF F

LEMMA SumNatural ==
  ASSUME NEW f, NEW S, IsFiniteSet(S), \A x \in S : f[x] \in Nat
  PROVE  /\ SumFunctionOnSet(f, S) \in Nat
         /\ \A a \in S : f[a] <= SumFunctionOnSet(f, S)
<1> DEFINE F == {s \in SUBSET S : SumFunctionOnSet(f, s) \in Nat}
<1>1. {} \in F  BY SumEmpty
<1>2. ASSUME NEW s \in SUBSET S, NEW x \in S \ s, s \in F  PROVE s \cup {x} \in F
  <2>1. SumFunctionOnSet(f, s \cup {x}) = f[x] + SumFunctionOnSet(f, s)
    BY SumAdd
  <2>2. f[x] \in Nat /\ SumFunctionOnSet(f, s) \in Nat  BY <1>2
  <2> QED  BY <2>1, <2>2
<1> HIDE DEF F
<1>3. \A s \in SUBSET S : s \in F  BY <1>1, <1>2, AllSubsets
<1>4. ASSUME NEW a \in S  PROVE f[a] <= SumFunctionOnSet(f, S)
  <2>1. SumFunctionOnSet(f, S) = f[a] + SumFunctionOnSet(f, S \ {a})  BY SumRemove
  <2>2. SumFunctionOnSet(f, S \ {a}) \in Nat /\ f[a] \in Nat  BY <1>3 DEF F
  <2> QED  BY <2>1, <2>2
<1> QED  BY <1>3, <1>4 DEF F

----------------------------------------------------------------------------
(* The least and the greatest of a set of numbers.                         *)
LEMMA MinIs ==
  ASSUME NEW T \in SUBSET Nat, T # {}
  PROVE  Min(T) \in T /\ \A x \in T : Min(T) <= x
<1>1. PICK m \in T : \A x \in T : ~(<<x, m>> \in OpToRel(<, Nat))
  BY NatLessThanWellFounded, WFMin, Zenon
<1>2. ASSUME NEW x \in T  PROVE m <= x
  <2>1. x \in Nat /\ m \in Nat /\ <<x, m>> \in Nat \X Nat  OBVIOUS
  <2>2. x < m => <<x, m>> \in OpToRel(<, Nat)  BY <2>1, Zenon DEF OpToRel
  <2>3. ~(x < m)  BY <1>1, <2>2, Zenon
  <2> QED  BY <2>1, <2>3
<1> QED  BY <1>2 DEF Min

LEMMA MaxIs ==
  ASSUME NEW T \in SUBSET Nat, T # {}, NEW b \in Nat, \A x \in T : x <= b
  PROVE  Max(T) \in T /\ \A x \in T : x <= Max(T)
<1> DEFINE U == {n \in Nat : \A x \in T : x <= n}
           m == Min(U)
<1>1. b \in U /\ U \in SUBSET Nat  OBVIOUS
<1>2. m \in U /\ \A n \in U : m <= n  BY <1>1, MinIs
<1> HIDE DEF m
<1>3. m \in T
  <2> SUFFICES ASSUME m \notin T  PROVE FALSE
    OBVIOUS
  <2>1. \A x \in T : x <= m - 1 /\ x \in Nat /\ m \in Nat  BY <1>2
  <2>2. PICK y \in T : TRUE  OBVIOUS
  <2>3. m - 1 \in Nat /\ m \in Nat  BY <2>1, <2>2
  <2>4. m - 1 \in U  BY <2>1, <2>3
  <2> QED  BY <1>2, <2>3, <2>4
<1>4. \A x \in T : m >= x  BY <1>2
<1> QED  BY <1>3, <1>4 DEF Max

LEMMA MinOfTwo ==
  ASSUME NEW a \in Nat, NEW b \in Nat
  PROVE  Min({a, b}) = IF a <= b THEN a ELSE b
<1>1. Min({a, b}) \in {a, b} /\ \A x \in {a, b} : Min({a, b}) <= x  BY MinIs
<1> QED  BY <1>1

----------------------------------------------------------------------------
(* The chips of a sequence of layers.                                      *)
Layer(D) == [amount : Nat, eligible : SUBSET D, uncalled : BOOLEAN]

Chips(ls) == SumFunction(Amounts(ls))

LEMMA ChipsAre ==
  ASSUME NEW D, NEW ls \in Seq(Layer(D))
  PROVE  /\ Chips(ls) = SumFunctionOnSet(Amounts(ls), 1 .. Len(ls))
         /\ IsFiniteSet(1 .. Len(ls)) /\ Chips(ls) \in Nat
         /\ \A i \in 1 .. Len(ls) : Amounts(ls)[i] = ls[i].amount /\ ls[i].amount \in Nat
<1>1. DOMAIN ls = 1 .. Len(ls) /\ Len(ls) \in Nat  OBVIOUS
<1>2. DOMAIN Amounts(ls) = 1 .. Len(ls)  BY <1>1 DEF Amounts
<1>3. Chips(ls) = SumFunctionOnSet(Amounts(ls), 1 .. Len(ls))
  BY <1>2, Zenon DEF Chips, SumFunction
<1>4. IsFiniteSet(1 .. Len(ls))  BY <1>1, FS_Interval
<1>5. \A i \in 1 .. Len(ls) : Amounts(ls)[i] = ls[i].amount /\ ls[i].amount \in Nat
  <2>1. \A i \in 1 .. Len(ls) : ls[i] \in Layer(D)  BY <1>1
  <2>2. \A i \in 1 .. Len(ls) : ls[i].amount \in Nat  BY <2>1 DEF Layer
  <2> QED  BY <1>1, <2>2 DEF Amounts
<1>6. \A i \in 1 .. Len(ls) : Amounts(ls)[i] \in Nat  BY <1>5
<1>7. SumFunctionOnSet(Amounts(ls), 1 .. Len(ls)) \in Nat
  BY <1>4, <1>6, SumNatural
<1> QED  BY <1>3, <1>4, <1>5, <1>7

LEMMA ChipsOfNone == Chips(<<>>) = 0
<1>1. DOMAIN Amounts(<<>>) = {}  BY DEF Amounts
<1> QED  BY <1>1, SumEmpty, Zenon DEF Chips, SumFunction

LEMMA ChipsAppend ==
  ASSUME NEW D, NEW ls \in Seq(Layer(D)), NEW x \in Layer(D)
  PROVE  /\ Append(ls, x) \in Seq(Layer(D))
         /\ Chips(Append(ls, x)) = Chips(ls) + x.amount
<1> DEFINE u == Append(ls, x)
           n == Len(ls)
           a == Amounts(ls)
           b == Amounts(u)
<1>1. /\ u \in Seq(Layer(D)) /\ Len(u) = n + 1 /\ n \in Nat /\ u[n + 1] = x
      /\ \A i \in 1 .. n : u[i] = ls[i]
  OBVIOUS
<1> HIDE DEF u
<1>2. Chips(u) = SumFunctionOnSet(b, 1 .. n + 1)
  <2>1. Chips(u) = SumFunctionOnSet(b, 1 .. Len(u))  BY <1>1, ChipsAre
  <2> QED  BY <1>1, <2>1
<1>3. Chips(ls) = SumFunctionOnSet(a, 1 .. n)  BY ChipsAre
<1>4. /\ \A i \in 1 .. n + 1 : b[i] = u[i].amount /\ b[i] \in Nat
      /\ \A i \in 1 .. n : a[i] = ls[i].amount /\ a[i] \in Nat
      /\ IsFiniteSet(1 .. n) /\ IsFiniteSet(1 .. n + 1)
  <2>1. /\ \A i \in 1 .. Len(u) : b[i] = u[i].amount /\ b[i] \in Nat
        /\ IsFiniteSet(1 .. Len(u))
    BY <1>1, ChipsAre
  <2>2. /\ \A i \in 1 .. n : a[i] = ls[i].amount /\ a[i] \in Nat
        /\ IsFiniteSet(1 .. n)
    BY ChipsAre
  <2> QED  BY <1>1, <2>1, <2>2
<1> HIDE DEF a, b, n
<1>5. SumFunctionOnSet(b, 1 .. n + 1) = b[n + 1] + SumFunctionOnSet(b, (1 .. n + 1) \ {n + 1})
  <2>1. n + 1 \in 1 .. n + 1 /\ \A i \in 1 .. n + 1 : b[i] \in Int  BY <1>1, <1>4
  <2> QED  BY <1>4, <2>1, SumRemove
<1>6. (1 .. n + 1) \ {n + 1} = 1 .. n  BY <1>1
<1>7. SumFunctionOnSet(b, 1 .. n) = SumFunctionOnSet(a, 1 .. n)
  <2>1. Same(b, a, 1 .. n)  BY <1>1, <1>4 DEF Same
  <2> QED  BY <1>4, <2>1, SumSame
<1>8. b[n + 1] = x.amount /\ x.amount \in Nat  BY <1>1, <1>4
<1>9. Chips(ls) \in Nat  BY ChipsAre
<1>10. SumFunctionOnSet(b, 1 .. n + 1) = b[n + 1] + SumFunctionOnSet(a, 1 .. n)
  BY <1>5, <1>6, <1>7, Zenon
<1> QED  BY <1>1, <1>2, <1>3, <1>8, <1>9, <1>10 DEF u

LEMMA LayerGrows ==
  ASSUME NEW D, NEW y \in Layer(D), NEW m \in Nat
  PROVE  LET x == [y EXCEPT !.amount = @ + m]
         IN  /\ x \in Layer(D) /\ x.amount = y.amount + m
             /\ x.eligible = y.eligible /\ x.uncalled = y.uncalled
BY DEF Layer

(* Chips put on layer k.                                                   *)
Raised(ls, k, m) == [ls EXCEPT ![k].amount = @ + m]

LEMMA ChipsRaised ==
  ASSUME NEW D, NEW ls \in Seq(Layer(D)), NEW k \in 1 .. Len(ls), NEW m \in Nat,
         NEW v, v = Raised(ls, k, m)
  PROVE  /\ v \in Seq(Layer(D)) /\ Len(v) = Len(ls)
         /\ Chips(v) = Chips(ls) + m
         /\ \A i \in 1 .. Len(ls) : v[i].eligible = ls[i].eligible
                                         /\ v[i].uncalled = ls[i].uncalled
<1> DEFINE n == Len(ls)
           x == [ls[k] EXCEPT !.amount = @ + m]
           u == [ls EXCEPT ![k] = x]
           a == Amounts(ls)
           b == Amounts(u)
<1>1. /\ ls[k] \in Layer(D) /\ n \in Nat /\ DOMAIN ls = 1 .. n
  OBVIOUS
<1>2. /\ x \in Layer(D) /\ x.amount = ls[k].amount + m
      /\ x.eligible = ls[k].eligible /\ x.uncalled = ls[k].uncalled
  BY <1>1, LayerGrows
<1>3. u = v
  <2>1. v = [ls EXCEPT ![k].amount = @ + m]  BY DEF Raised
  <2> QED  BY <1>1, <2>1, Zenon
<1> HIDE DEF x
<1>4. /\ u \in Seq(Layer(D)) /\ Len(u) = n /\ u[k] = x
      /\ \A i \in (1 .. n) \ {k} : u[i] = ls[i]
  BY <1>1, <1>2
<1> HIDE DEF u
<1>5. /\ Chips(ls) = SumFunctionOnSet(a, 1 .. n) /\ IsFiniteSet(1 .. n)
      /\ \A i \in 1 .. n : a[i] = ls[i].amount /\ a[i] \in Nat
  BY ChipsAre
<1>6. /\ Chips(u) = SumFunctionOnSet(b, 1 .. n)
      /\ \A i \in 1 .. n : b[i] = u[i].amount /\ b[i] \in Nat
  <2>1. /\ Chips(u) = SumFunctionOnSet(b, 1 .. Len(u))
        /\ \A i \in 1 .. Len(u) : b[i] = u[i].amount /\ b[i] \in Nat
    BY <1>4, ChipsAre
  <2> QED  BY <1>4, <2>1
<1> HIDE DEF a, b, n
<1>7. SumFunctionOnSet(b, 1 .. n) = SumFunctionOnSet(a, 1 .. n) - a[k] + b[k]
  <2>1. k \in 1 .. n /\ \A i \in 1 .. n : a[i] \in Int /\ b[i] \in Int  BY <1>5, <1>6 DEF n
  <2>2. Same(b, a, (1 .. n) \ {k})  BY <1>4, <1>5, <1>6 DEF Same
  <2> DEFINE S == 1 .. n
  <2>3. IsFiniteSet(S) /\ k \in S /\ (\A i \in S : a[i] \in Int /\ b[i] \in Int) /\ Same(b, a, S \ {k})
    BY <1>5, <2>1, <2>2
  <2> HIDE DEF S
  <2>4. SumFunctionOnSet(b, S) = SumFunctionOnSet(a, S) - a[k] + b[k]  BY <2>3, SumChange
  <2> QED  BY <2>4 DEF S
<1>8. /\ a[k] = ls[k].amount /\ b[k] = ls[k].amount + m
      /\ a[k] \in Nat /\ Chips(ls) \in Nat
  <2>1. k \in 1 .. n  BY DEF n
  <2> QED  BY <1>2, <1>4, <1>5, <1>6, <2>1, ChipsAre
<1>9. Chips(u) = Chips(ls) + m  BY <1>5, <1>6, <1>7, <1>8
<1>10. \A i \in 1 .. n : u[i].eligible = ls[i].eligible /\ u[i].uncalled = ls[i].uncalled
  BY <1>2, <1>4
<1> QED  BY <1>3, <1>4, <1>9, <1>10 DEF n

----------------------------------------------------------------------------
(* What a pot is: who put in how much.                                     *)
Pot(c) == IsFiniteSet(DOMAIN c) /\ c \in [DOMAIN c -> Nat]

Whole(c) == SumFunctionOnSet(c, DOMAIN c)

(* The chips at or below level l.                                          *)
UpTo(c, l) == SumFunctionOnSet(Capped(c, l), DOMAIN c)

LEMMA PotIs ==
  ASSUME NEW c, Pot(c)
  PROVE  /\ Whole(c) \in Nat /\ \A p \in DOMAIN c : c[p] \in Nat /\ c[p] <= Whole(c)
         /\ c = [p \in DOMAIN c |-> c[p]]
<1>1. \A p \in DOMAIN c : c[p] \in Nat  BY DEF Pot
<1>2. IsFiniteSet(DOMAIN c)  BY DEF Pot
<1>3. /\ SumFunctionOnSet(c, DOMAIN c) \in Nat
      /\ \A p \in DOMAIN c : c[p] <= SumFunctionOnSet(c, DOMAIN c)
  BY <1>1, <1>2, SumNatural
<1> QED  BY <1>1, <1>3 DEF Whole, Pot

LEMMA CappedIs ==
  ASSUME NEW c, Pot(c), NEW l \in Nat
  PROVE  \A p \in DOMAIN c : /\ Capped(c, l)[p] = IF c[p] <= l THEN c[p] ELSE l
                             /\ Capped(c, l)[p] \in Nat
<1> SUFFICES ASSUME NEW p \in DOMAIN c
             PROVE  /\ Capped(c, l)[p] = IF c[p] <= l THEN c[p] ELSE l
                    /\ Capped(c, l)[p] \in Nat
  OBVIOUS
<1>1. c[p] \in Nat  BY PotIs
<1>2. Capped(c, l)[p] = Min({c[p], l})  BY DEF Capped
<1> QED  BY <1>1, <1>2, MinOfTwo

LEMMA UpToIs ==
  ASSUME NEW c, Pot(c), NEW l \in Nat
  PROVE  /\ UpTo(c, l) \in Nat
         /\ l = 0 => UpTo(c, l) = 0
         /\ (\A p \in DOMAIN c : c[p] <= l) => UpTo(c, l) = Whole(c)
<1>1. IsFiniteSet(DOMAIN c)  BY DEF Pot
<1>2. \A p \in DOMAIN c : Capped(c, l)[p] \in Nat  BY CappedIs
<1>3. UpTo(c, l) \in Nat  BY <1>1, <1>2, SumNatural DEF UpTo
<1>4. ASSUME l = 0  PROVE UpTo(c, l) = 0
  <2>1. \A p \in DOMAIN c : Capped(c, l)[p] = 0  BY <1>4, CappedIs, PotIs
  <2>2. UpTo(c, l) = Cardinality(DOMAIN c) * 0  BY <1>1, <2>1, SumEqual DEF UpTo
  <2>3. Cardinality(DOMAIN c) \in Nat  BY <1>1, FS_CardinalityType
  <2> QED  BY <2>2, <2>3
<1>5. ASSUME \A p \in DOMAIN c : c[p] <= l  PROVE UpTo(c, l) = Whole(c)
  <2>1. Same(Capped(c, l), c, DOMAIN c)  BY <1>5, CappedIs DEF Same
  <2> QED  BY <1>1, <2>1, SumSame DEF UpTo, Whole
<1> QED  BY <1>3, <1>4, <1>5

LEMMA BandIs ==
  ASSUME NEW c, Pot(c), NEW low \in Nat, NEW high \in Nat, low <= high
  PROVE  BandAmount(c, low, high) \in Nat /\ UpTo(c, high) = UpTo(c, low) + BandAmount(c, low, high)
<1> DEFINE f == Capped(c, low)
           h == Capped(c, high)
           g == [p \in DOMAIN c |-> Min({c[p], high}) - Min({c[p], low})]
           S == DOMAIN c
<1>1. IsFiniteSet(S)  BY DEF Pot
<1>2. BandAmount(c, low, high) = SumFunctionOnSet(g, S)
  <2>1. DOMAIN g = S  OBVIOUS
  <2> HIDE DEF S
  <2> QED  BY <2>1, Zenon DEF BandAmount, SumFunction
<1>3. ASSUME NEW p \in S
      PROVE  f[p] \in Int /\ g[p] \in Int /\ h[p] = f[p] + g[p] /\ g[p] \in Nat
  <2>1. h[p] = IF c[p] <= high THEN c[p] ELSE high  BY CappedIs
  <2>2. f[p] = IF c[p] <= low THEN c[p] ELSE low  BY CappedIs
  <2>3. g[p] = h[p] - f[p]  BY DEF Capped
  <2>4. c[p] \in Nat  BY PotIs
  <2> HIDE DEF f, g, h
  <2> QED  BY <2>1, <2>2, <2>3, <2>4
<1>4. UpTo(c, high) = SumFunctionOnSet(h, S) /\ UpTo(c, low) = SumFunctionOnSet(f, S)
  BY DEF UpTo
<1> HIDE DEF f, g, h, S
<1>5. SumFunctionOnSet(h, S) = SumFunctionOnSet(f, S) + SumFunctionOnSet(g, S)
  BY <1>1, <1>3, SumPlus
<1>6. SumFunctionOnSet(g, S) \in Nat  BY <1>1, <1>3, SumNatural
<1> QED  BY <1>2, <1>4, <1>5, <1>6

----------------------------------------------------------------------------
(* The levels at which it is cut.                                          *)
Cut(c, out) == {0} \cup Levels(c, out)

LEMMA TopLiveIs ==
  ASSUME NEW c, Pot(c), NEW out
  PROVE  /\ TopLive(c, out) \in {0} \cup {c[p] : p \in DOMAIN c \ out}
         /\ TopLive(c, out) \in Nat
         /\ \A p \in DOMAIN c \ out : c[p] <= TopLive(c, out)
<1> DEFINE T == {0} \cup {c[p] : p \in DOMAIN c \ out}
<1>1. T \in SUBSET Nat /\ T # {} /\ Whole(c) \in Nat /\ \A x \in T : x <= Whole(c)
  BY PotIs
<1>2. TopLive(c, out) = Max(T)  BY DEF TopLive
<1>3. \A p \in DOMAIN c \ out : c[p] \in T  OBVIOUS
<1> HIDE DEF T
<1>4. Max(T) \in T /\ \A x \in T : x <= Max(T)  BY <1>1, MaxIs
<1>5. TopLive(c, out) \in T /\ TopLive(c, out) \in Nat  BY <1>1, <1>2, <1>4
<1>6. \A p \in DOMAIN c \ out : c[p] <= TopLive(c, out)  BY <1>2, <1>3, <1>4
<1> QED  BY <1>5, <1>6 DEF T

LEMMA CutIs ==
  ASSUME NEW c, Pot(c), NEW out
  PROVE  /\ Cut(c, out) \in SUBSET Nat /\ 0 \in Cut(c, out)
         /\ \A l \in Cut(c, out) : l <= Whole(c)
         /\ Max(Cut(c, out)) \in Cut(c, out)
         /\ \A p \in DOMAIN c : c[p] <= Max(Cut(c, out))
<1> DEFINE D == Cut(c, out)
           top == Max(D)
<1>1. D \in SUBSET Nat /\ 0 \in D /\ Whole(c) \in Nat /\ \A l \in D : l <= Whole(c)
  BY PotIs DEF Cut, Levels, In
<1>2. \A p \in DOMAIN c : c[p] \in Nat  BY PotIs
<1>3. \A p \in DOMAIN c : c[p] > 0 /\ (p \notin out \/ c[p] > TopLive(c, out)) => c[p] \in D
  BY DEF Cut, Levels, In
<1> HIDE DEF D
<1>4. top \in D /\ \A l \in D : l <= top  BY <1>1, MaxIs
<1> HIDE DEF top
<1>5. ASSUME NEW p \in DOMAIN c  PROVE c[p] <= top
  <2>1. c[p] \in Nat /\ top \in Nat /\ TopLive(c, out) \in Nat  BY <1>1, <1>2, <1>4, TopLiveIs
  <2>2. CASE c[p] = 0  BY <2>1, <2>2
  <2>3. CASE p \notin out \/ c[p] > TopLive(c, out)  BY <1>3, <1>4, <2>1, <2>3
  <2>4. CASE c[p] > 0 /\ c[p] <= TopLive(c, out)
    <3>1. PICK q \in DOMAIN c \ out : TopLive(c, out) = c[q]  BY <2>1, <2>4, TopLiveIs
    <3>2. c[q] \in D  BY <1>3, <2>1, <2>4, <3>1
    <3> QED  BY <1>1, <1>4, <2>1, <2>4, <3>1, <3>2
  <2> QED  BY <2>1, <2>2, <2>3, <2>4
<1> QED  BY <1>1, <1>4, <1>5 DEF D, top

(* The level under level l.                                                *)
Under(D, l) == Max({k \in D : k < l})

LEMMA UnderIs ==
  ASSUME NEW D \in SUBSET Nat, 0 \in D, NEW l \in D, l # 0
  PROVE  Under(D, l) \in D /\ Under(D, l) < l /\ \A k \in D : k < l => k <= Under(D, l)
<1> DEFINE T == {k \in D : k < l}
<1>1. l \in Nat /\ 0 < l /\ \A k \in D : k \in Nat  OBVIOUS
<1>2. T \in SUBSET Nat /\ 0 \in T /\ \A x \in T : x <= l
  <2>1. T \in SUBSET Nat /\ 0 \in T  BY <1>1
  <2>2. ASSUME NEW x \in T  PROVE x <= l
    <3>1. x \in Nat /\ x < l  BY <1>1
    <3> QED  BY <1>1, <3>1
  <2> QED  BY <2>1, <2>2
<1>3. Max(T) \in T /\ \A x \in T : x <= Max(T)
  <2> HIDE DEF T
  <2>1. T # {}  BY <1>2
  <2> QED  BY <1>1, <1>2, <2>1, MaxIs
<1> QED  BY <1>3 DEF Under

(* Induction over the levels.                                              *)
LEMMA AllLevels ==
  ASSUME NEW D \in SUBSET Nat, 0 \in D, NEW G, 0 \in G,
         \A l \in D \ {0} : Under(D, l) \in G => l \in G
  PROVE  \A l \in D : l \in G
<1> DEFINE N == {n \in Nat : \A l \in D : l <= n => l \in G}
<1>1. 0 \in N  OBVIOUS
<1>2. ASSUME NEW n \in N  PROVE n + 1 \in N
  <2> SUFFICES ASSUME NEW l \in D, l <= n + 1  PROVE l \in G
    OBVIOUS
  <2>1. CASE l = 0  BY <2>1
  <2>2. CASE l # 0
    <3>1. Under(D, l) \in D /\ Under(D, l) < l  BY <2>2, UnderIs
    <3>2. Under(D, l) \in Nat /\ l \in Nat /\ n \in Nat  BY <3>1
    <3>3. Under(D, l) <= n  BY <3>1, <3>2
    <3>4. Under(D, l) \in G  BY <3>1, <3>3
    <3> QED  BY <2>2, <3>4
  <2> QED  BY <2>1, <2>2
<1>3. N = Nat
  <2> HIDE DEF N
  <2>1. N \in SUBSET Nat  BY DEF N
  <2> QED  BY <1>1, <1>2, <2>1, AllNumbers
<1>4. \A l \in D : l \in N  BY <1>3
<1> QED  BY <1>4

(* The split is made level by level.                                       *)
Splits(g, c, out, U) ==
  g = [l \in U |-> IF l = 0 THEN NoPots
                   ELSE AddBand(c, out, g[Under(Cut(c, out), l)], l)]

LEMMA SplitIs ==
  ASSUME NEW c, NEW out
  PROVE  ComputeSidePots(c, out)
           = PlaceCarry(c, (CHOOSE g : Splits(g, c, out, Cut(c, out)))[Max(Cut(c, out))])
BY Zenon DEF ComputeSidePots, Splits, Cut, Under

LEMMA SplitExists ==
  ASSUME NEW c, Pot(c), NEW out
  PROVE  \E g : Splits(g, c, out, Cut(c, out))
<1> DEFINE D == Cut(c, out)
           upto(n) == {l \in D : l <= n}
           N == {n \in Nat : \E g : Splits(g, c, out, upto(n))}
<1>1. D \in SUBSET Nat /\ 0 \in D /\ Whole(c) \in Nat /\ \A l \in D : l <= Whole(c)
  BY CutIs, PotIs
<1>2. 0 \in N
  <2> DEFINE g == [l \in upto(0) |-> NoPots]
  <2>1. \A l \in upto(0) : l = 0  BY <1>1
  <2>2. g = [l \in upto(0) |-> IF l = 0 THEN NoPots ELSE AddBand(c, out, g[Under(D, l)], l)]
    BY <2>1
  <2> QED  BY <2>2 DEF Splits
<1>3. ASSUME NEW n \in N  PROVE n + 1 \in N
  <2>1. PICK g : Splits(g, c, out, upto(n))  BY <1>3
  <2> DEFINE step(l) == IF l = 0 THEN NoPots ELSE AddBand(c, out, g[Under(D, l)], l)
             h == [l \in upto(n + 1) |-> step(l)]
  <2>2. ASSUME NEW l \in upto(n)  PROVE l \in upto(n + 1) /\ h[l] = g[l]
    <3>1. l \in upto(n + 1)  BY <1>1
    <3>2. g[l] = step(l)  BY <2>1, Zenon DEF Splits
    <3> QED  BY <3>1, <3>2
  <2>3. ASSUME NEW l \in upto(n + 1), l # 0  PROVE Under(D, l) \in upto(n)
    <3>1. Under(D, l) \in D /\ Under(D, l) < l  BY <1>1, <2>3, UnderIs
    <3>2. Under(D, l) \in Nat /\ l \in Nat /\ l <= n + 1 /\ n \in Nat  BY <1>1, <3>1
    <3>3. Under(D, l) <= n  BY <3>1, <3>2
    <3> QED  BY <3>1, <3>3
  <2> HIDE DEF h
  <2>4. \A l \in upto(n + 1) : h[l] = IF l = 0 THEN NoPots ELSE AddBand(c, out, h[Under(D, l)], l)
    <3> SUFFICES ASSUME NEW l \in upto(n + 1)
                 PROVE  h[l] = IF l = 0 THEN NoPots ELSE AddBand(c, out, h[Under(D, l)], l)
      OBVIOUS
    <3>1. h[l] = step(l)  BY DEF h
    <3>2. CASE l = 0  BY <3>1, <3>2
    <3>3. CASE l # 0
      <4>1. h[Under(D, l)] = g[Under(D, l)]  BY <2>2, <2>3, <3>3
      <4> QED  BY <3>1, <3>3, <4>1
    <3> QED  BY <3>2, <3>3
  <2>5. h = [l \in upto(n + 1) |-> h[l]]  BY DEF h
  <2>6. Splits(h, c, out, upto(n + 1))  BY <2>4, <2>5, Zenon DEF Splits
  <2> QED  BY <2>6
<1>4. N = Nat
  <2> HIDE DEF N
  <2>1. N \in SUBSET Nat  BY DEF N
  <2> QED  BY <1>2, <1>3, <2>1, AllNumbers
<1>5. upto(Whole(c)) = D  BY <1>1
<1>6. Whole(c) \in N  BY <1>1, <1>4
<1> QED  BY <1>5, <1>6

----------------------------------------------------------------------------
(* What the split holds once it has reached level l.                       *)
SplitFields == {"level", "layers", "contested", "carry"}

HasTaker(layer, out) ==
  layer.eligible # {} /\ (~layer.uncalled => layer.eligible \cap out = {})

GoesTo(ls, out) == \A i \in 1 .. Len(ls) : HasTaker(ls[i], out)

Layered(c, out, pots, l) ==
  /\ DOMAIN pots = SplitFields /\ pots.level = l
  /\ pots.layers \in Seq(Layer(DOMAIN c)) /\ GoesTo(pots.layers, out)
  /\ pots.contested \in 0 .. Len(pots.layers) /\ pots.carry \in Nat
  /\ Chips(pots.layers) + pots.carry = UpTo(c, l)

LEMMA NothingSplit ==
  ASSUME NEW c, Pot(c), NEW out
  PROVE  Layered(c, out, NoPots, 0)
<1>1. UpTo(c, 0) = 0  BY UpToIs
<1>2. Chips(<<>>) = 0  BY ChipsOfNone
<1>3. /\ DOMAIN NoPots = SplitFields /\ NoPots.level = 0 /\ NoPots.layers = <<>>
      /\ NoPots.contested = 0 /\ NoPots.carry = 0
  BY DEF NoPots, SplitFields
<1>4. <<>> \in Seq(Layer(DOMAIN c)) /\ Len(<<>>) = 0  OBVIOUS
<1>5. GoesTo(<<>>, out)  BY <1>4 DEF GoesTo
<1> QED  BY <1>1, <1>2, <1>3, <1>4, <1>5 DEF Layered

(* One more layer.                                                         *)
LEMMA LayerAdded ==
  ASSUME NEW c, NEW out, NEW ls \in Seq(Layer(DOMAIN c)), GoesTo(ls, out),
         NEW x \in Layer(DOMAIN c), HasTaker(x, out)
  PROVE  /\ Append(ls, x) \in Seq(Layer(DOMAIN c))
         /\ Len(Append(ls, x)) = Len(ls) + 1
         /\ GoesTo(Append(ls, x), out)
         /\ Chips(Append(ls, x)) = Chips(ls) + x.amount
<1> DEFINE u == Append(ls, x)
<1>3. u \in Seq(Layer(DOMAIN c)) /\ Chips(u) = Chips(ls) + x.amount
  BY ChipsAppend
<1>4. /\ Len(u) = Len(ls) + 1 /\ Len(ls) \in Nat /\ u[Len(ls) + 1] = x
      /\ \A i \in 1 .. Len(ls) : u[i] = ls[i]
  OBVIOUS
<1> HIDE DEF u
<1>5. GoesTo(u, out)
  <2> SUFFICES ASSUME NEW i \in 1 .. Len(ls) + 1
               PROVE  HasTaker(u[i], out)
    BY <1>4, Zenon DEF GoesTo
  <2>1. CASE i = Len(ls) + 1  BY <1>4, <2>1
  <2>2. CASE i \in 1 .. Len(ls)
    <3>1. u[i] = ls[i]  BY <1>4, <2>2
    <3> QED  BY <2>2, <3>1 DEF GoesTo
  <2> QED  BY <1>4, <2>1, <2>2
<1> QED  BY <1>3, <1>4, <1>5 DEF u

(* Chips put on a layer.                                                   *)
LEMMA LayerRaised ==
  ASSUME NEW c, NEW out, NEW ls \in Seq(Layer(DOMAIN c)), GoesTo(ls, out),
         NEW k \in 1 .. Len(ls), NEW m \in Nat, NEW u, u = Raised(ls, k, m)
  PROVE  /\ u \in Seq(Layer(DOMAIN c)) /\ Len(u) = Len(ls)
         /\ GoesTo(u, out)
         /\ Chips(u) = Chips(ls) + m
<1>1. /\ u \in Seq(Layer(DOMAIN c)) /\ Len(u) = Len(ls)
      /\ Chips(u) = Chips(ls) + m
      /\ \A i \in 1 .. Len(ls) : u[i].eligible = ls[i].eligible
                                      /\ u[i].uncalled = ls[i].uncalled
  BY ChipsRaised
<1>2. GoesTo(u, out)  BY <1>1 DEF GoesTo, HasTaker
<1> QED  BY <1>1, <1>2

LEMMA BandSplit ==
  ASSUME NEW c, Pot(c), NEW out, NEW l \in Nat, NEW high \in Nat, l <= high,
         NEW pots, Layered(c, out, pots, l)
  PROVE  Layered(c, out, AddBand(c, out, pots, high), high)
<1> DEFINE amount == BandAmount(c, l, high)
           live   == Contenders(c, out, high)
           alone  == Unmatched(c, out, l, high)
           next   == [pots EXCEPT !.level = high]
           u      == AddBand(c, out, pots, high)
           refund == [amount |-> amount, eligible |-> Funders(c, l), uncalled |-> TRUE]
           layer  == [amount |-> amount + pots.carry, eligible |-> live, uncalled |-> FALSE]
<1>1. /\ amount \in Nat /\ UpTo(c, high) = UpTo(c, l) + amount
      /\ UpTo(c, l) \in Nat
  BY BandIs, UpToIs
<1>2. /\ DOMAIN pots = SplitFields /\ pots.level = l
      /\ pots.layers \in Seq(Layer(DOMAIN c)) /\ GoesTo(pots.layers, out)
      /\ pots.contested \in 0 .. Len(pots.layers) /\ pots.carry \in Nat
      /\ Chips(pots.layers) + pots.carry = UpTo(c, l)
  BY DEF Layered
<1>3. Chips(pots.layers) \in Nat /\ Len(pots.layers) \in Nat  BY <1>2, ChipsAre
<1>4. /\ alone => u = [next EXCEPT !.layers = Append(@, refund)]
      /\ ~alone /\ live = {} => u = RollDown(next, amount)
      /\ ~alone /\ live # {} =>
           u = [next EXCEPT !.layers = Append(@, layer),
                            !.contested = Len(pots.layers) + 1, !.carry = 0]
  BY <1>2, Zenon DEF AddBand
<1>5. live \in SUBSET DOMAIN c /\ live \cap out = {} /\ Funders(c, l) \in SUBSET DOMAIN c
  BY DEF Contenders, Funders
<1>6. alone => Funders(c, l) # {}  BY FS_EmptySet DEF Unmatched
<1> HIDE DEF amount, live, alone, u
<1>7. CASE alone
  <2> DEFINE w == Append(pots.layers, refund)
  <2>1. /\ w \in Seq(Layer(DOMAIN c)) /\ Len(w) = Len(pots.layers) + 1
        /\ GoesTo(w, out) /\ Chips(w) = Chips(pots.layers) + amount
    <3>1. /\ refund \in Layer(DOMAIN c) /\ HasTaker(refund, out) /\ refund.amount = amount
      BY <1>1, <1>5, <1>6, <1>7 DEF Layer, HasTaker
    <3>2. w = Append(pots.layers, refund)  OBVIOUS
    <3> HIDE DEF refund, w
    <3>3. /\ w \in Seq(Layer(DOMAIN c)) /\ Len(w) = Len(pots.layers) + 1
          /\ GoesTo(w, out) /\ Chips(w) = Chips(pots.layers) + refund.amount
      BY <1>2, <3>1, <3>2, LayerAdded
    <3> QED  BY <3>1, <3>3
  <2>2. u = [next EXCEPT !.layers = w]  BY <1>2, <1>4, <1>7 DEF SplitFields
  <2> HIDE DEF w
  <2>3. /\ DOMAIN u = SplitFields /\ u.level = high /\ u.layers = w
        /\ u.contested = pots.contested /\ u.carry = pots.carry
    BY <1>2, <2>2 DEF SplitFields
  <2>4. /\ u.contested \in 0 .. Len(u.layers) /\ u.carry \in Nat
        /\ Chips(u.layers) + u.carry = UpTo(c, high)
    BY <1>1, <1>2, <1>3, <2>1, <2>3
  <2> QED  BY <2>1, <2>3, <2>4 DEF Layered, u
<1>8. CASE ~alone /\ live = {} /\ pots.contested = 0
  <2>1. u = [next EXCEPT !.carry = @ + amount]
    <3>1. next.contested = 0  BY <1>2, <1>8 DEF SplitFields
    <3> QED  BY <1>4, <1>8, <3>1 DEF RollDown
  <2>2. /\ DOMAIN u = SplitFields /\ u.level = high /\ u.layers = pots.layers
        /\ u.contested = 0 /\ u.carry = pots.carry + amount
    BY <1>2, <1>8, <2>1 DEF SplitFields
  <2>3. /\ u.contested \in 0 .. Len(u.layers) /\ u.carry \in Nat
        /\ Chips(u.layers) + u.carry = UpTo(c, high)
    BY <1>1, <1>2, <1>3, <2>2
  <2> QED  BY <1>2, <2>2, <2>3 DEF Layered, u
<1>9. CASE ~alone /\ live = {} /\ pots.contested # 0
  <2> DEFINE k == pots.contested
             w == Raised(pots.layers, k, amount)
  <2>1. k \in 1 .. Len(pots.layers)  BY <1>2, <1>3, <1>9
  <2>2. u = [next EXCEPT !.layers = w]
    <3>1. next.contested = k /\ k # 0 /\ next.layers = pots.layers  BY <1>2, <1>9 DEF SplitFields
    <3>2. u = [next EXCEPT !.layers[next.contested].amount = @ + amount]
      BY <1>4, <1>9, <3>1 DEF RollDown
    <3> QED  BY <1>2, <3>1, <3>2 DEF SplitFields, Raised
  <2>3. /\ w \in Seq(Layer(DOMAIN c)) /\ Len(w) = Len(pots.layers)
        /\ GoesTo(w, out) /\ Chips(w) = Chips(pots.layers) + amount
    <3> HIDE DEF k, w
    <3> QED  BY <1>1, <1>2, <2>1, LayerRaised DEF w
  <2> HIDE DEF w
  <2>4. /\ DOMAIN u = SplitFields /\ u.level = high /\ u.layers = w
        /\ u.contested = pots.contested /\ u.carry = pots.carry
    BY <1>2, <2>2 DEF SplitFields
  <2>5. /\ u.contested \in 0 .. Len(u.layers) /\ u.carry \in Nat
        /\ Chips(u.layers) + u.carry = UpTo(c, high)
    BY <1>1, <1>2, <1>3, <2>3, <2>4
  <2> QED  BY <2>3, <2>4, <2>5 DEF Layered, u
<1>10. CASE ~alone /\ live # {}
  <2> DEFINE w == Append(pots.layers, layer)
  <2>1. /\ w \in Seq(Layer(DOMAIN c)) /\ Len(w) = Len(pots.layers) + 1
        /\ GoesTo(w, out) /\ Chips(w) = Chips(pots.layers) + (amount + pots.carry)
    <3>1. /\ layer \in Layer(DOMAIN c) /\ HasTaker(layer, out)
          /\ layer.amount = amount + pots.carry
      BY <1>1, <1>2, <1>5, <1>10 DEF Layer, HasTaker
    <3>2. w = Append(pots.layers, layer)  OBVIOUS
    <3> HIDE DEF layer, w
    <3>3. /\ w \in Seq(Layer(DOMAIN c)) /\ Len(w) = Len(pots.layers) + 1
          /\ GoesTo(w, out) /\ Chips(w) = Chips(pots.layers) + layer.amount
      BY <1>2, <3>1, <3>2, LayerAdded
    <3> QED  BY <3>1, <3>3
  <2>2. u = [next EXCEPT !.layers = w, !.contested = Len(pots.layers) + 1, !.carry = 0]
    BY <1>2, <1>4, <1>10 DEF SplitFields
  <2> HIDE DEF w
  <2>3. /\ DOMAIN u = SplitFields /\ u.level = high /\ u.layers = w
        /\ u.contested = Len(pots.layers) + 1 /\ u.carry = 0
    BY <1>2, <2>2 DEF SplitFields
  <2>4. /\ u.contested \in 0 .. Len(u.layers) /\ u.carry \in Nat
        /\ Chips(u.layers) + u.carry = UpTo(c, high)
    BY <1>1, <1>2, <1>3, <2>1, <2>3
  <2> QED  BY <2>1, <2>3, <2>4 DEF Layered, u
<1> QED  BY <1>7, <1>8, <1>9, <1>10 DEF u

LEMMA AllSplit ==
  ASSUME NEW c, Pot(c), NEW out
  PROVE  \E pots : /\ Layered(c, out, pots, Max(Cut(c, out)))
                   /\ ComputeSidePots(c, out) = PlaceCarry(c, pots)
<1> DEFINE D == Cut(c, out)
           g == CHOOSE h : Splits(h, c, out, D)
           G == {l \in D : Layered(c, out, g[l], l)}
<1>1. D \in SUBSET Nat /\ 0 \in D /\ Max(D) \in D  BY CutIs
<1>2. Splits(g, c, out, D)  BY SplitExists
<1>3. ComputeSidePots(c, out) = PlaceCarry(c, g[Max(D)])  BY SplitIs
<1>4. \A l \in D : g[l] = IF l = 0 THEN NoPots ELSE AddBand(c, out, g[Under(D, l)], l)
  <2> HIDE DEF g
  <2> QED  BY <1>2, Zenon DEF Splits
<1> HIDE DEF g
<1>5. 0 \in G  BY <1>1, <1>4, NothingSplit
<1>6. ASSUME NEW l \in D \ {0}, Under(D, l) \in G  PROVE l \in G
  <2>1. Under(D, l) \in D /\ Under(D, l) < l  BY <1>1, UnderIs
  <2>2. Under(D, l) \in Nat /\ l \in Nat /\ l # 0  BY <1>1, <2>1
  <2>3. Layered(c, out, g[Under(D, l)], Under(D, l))  BY <1>6
  <2>4. g[l] = AddBand(c, out, g[Under(D, l)], l)  BY <1>4, <2>2
  <2>5. Under(D, l) <= l  BY <2>1, <2>2
  <2> HIDE DEF D
  <2>6. Layered(c, out, g[l], l)  BY <2>2, <2>3, <2>4, <2>5, BandSplit
  <2> QED  BY <2>6
<1>7. \A l \in D : l \in G
  <2> HIDE DEF D, G
  <2> QED  BY <1>1, <1>5, <1>6, AllLevels
<1>8. Layered(c, out, g[Max(D)], Max(D))  BY <1>1, <1>7
<1> QED  BY <1>3, <1>8

(* The layers hold every chip of the pot, and each has somebody to go to.  *)
THEOREM EveryChipIsLayered ==
  ASSUME NEW c, Pot(c), NEW out
  PROVE  /\ ComputeSidePots(c, out) \in Seq(Layer(DOMAIN c))
         /\ GoesTo(ComputeSidePots(c, out), out)
         /\ Chips(ComputeSidePots(c, out)) = Whole(c)
<1> DEFINE top == Max(Cut(c, out))
           u == ComputeSidePots(c, out)
<1>1. PICK pots : Layered(c, out, pots, top) /\ u = PlaceCarry(c, pots)
  BY AllSplit
<1>2. top \in Nat /\ \A p \in DOMAIN c : c[p] <= top  BY CutIs
<1> HIDE DEF top, u
<1>3. UpTo(c, top) = Whole(c)  BY <1>2, UpToIs
<1>4. /\ pots.layers \in Seq(Layer(DOMAIN c)) /\ GoesTo(pots.layers, out)
      /\ pots.carry \in Nat /\ Chips(pots.layers) + pots.carry = Whole(c)
  BY <1>1, <1>3 DEF Layered
<1>5. Chips(pots.layers) \in Nat /\ Len(pots.layers) \in Nat  BY <1>4, ChipsAre
<1>6. CASE pots.carry = 0
  <2>1. u = pots.layers  BY <1>1, <1>6 DEF PlaceCarry
  <2> QED  BY <1>4, <1>5, <1>6, <2>1 DEF u
<1>7. CASE pots.carry # 0 /\ pots.layers # <<>>
  <2> DEFINE k == Len(pots.layers)
  <2>1. k \in 1 .. Len(pots.layers)  BY <1>4, <1>5, <1>7
  <2>2. u = Raised(pots.layers, k, pots.carry)  BY <1>1, <1>7, Zenon DEF PlaceCarry, Raised
  <2> HIDE DEF k
  <2>3. /\ u \in Seq(Layer(DOMAIN c)) /\ GoesTo(u, out)
        /\ Chips(u) = Chips(pots.layers) + pots.carry
    BY <1>4, <2>1, <2>2, LayerRaised
  <2> QED  BY <1>4, <2>3 DEF u
<1>8. CASE pots.carry # 0 /\ pots.layers = <<>>
  <2> DEFINE N == In(c)
             x == [amount |-> pots.carry, eligible |-> N, uncalled |-> TRUE]
  <2>1. u = Append(<<>>, x)
    <3>1. u = <<x>>  BY <1>1, <1>8, Zenon DEF PlaceCarry
    <3> QED  BY <3>1
  <2>2. N # {}
    <3> SUFFICES ASSUME N = {}  PROVE Whole(c) = 0
      BY <1>4, <1>5, <1>8
    <3>1. \A p \in DOMAIN c : c[p] = 0  BY PotIs DEF In
    <3>2. IsFiniteSet(DOMAIN c)  BY DEF Pot
    <3>3. Whole(c) = Cardinality(DOMAIN c) * 0  BY <3>1, <3>2, SumEqual DEF Whole
    <3>4. Cardinality(DOMAIN c) \in Nat  BY <3>2, FS_CardinalityType
    <3> QED  BY <3>3, <3>4
  <2>3. N \in SUBSET DOMAIN c  BY DEF In
  <2>4. <<>> \in Seq(Layer(DOMAIN c)) /\ GoesTo(<<>>, out)  BY <1>4, <1>8
  <2>5. /\ u \in Seq(Layer(DOMAIN c)) /\ GoesTo(u, out) /\ Chips(u) = Chips(<<>>) + pots.carry
    <3>1. x \in Layer(DOMAIN c) /\ HasTaker(x, out) /\ x.amount = pots.carry
      BY <1>4, <2>2, <2>3 DEF Layer, HasTaker
    <3> HIDE DEF x
    <3>2. /\ u \in Seq(Layer(DOMAIN c)) /\ GoesTo(u, out)
          /\ Chips(u) = Chips(<<>>) + x.amount
      BY <2>1, <2>4, <3>1, LayerAdded
    <3> QED  BY <3>1, <3>2
  <2> QED  BY <1>4, <1>8, <2>5 DEF u
<1> QED  BY <1>6, <1>7, <1>8

----------------------------------------------------------------------------
(* What others put in, and how far a player reaches.                       *)
LEMMA MaxOfTwo ==
  ASSUME NEW a \in Nat, NEW b \in Nat
  PROVE  Max({a, b}) = IF a <= b THEN b ELSE a
<1>1. /\ {a, b} \in SUBSET Nat /\ {a, b} # {} /\ a + b \in Nat
      /\ \A x \in {a, b} : x <= a + b
  OBVIOUS
<1>2. Max({a, b}) \in {a, b} /\ \A x \in {a, b} : x <= Max({a, b})  BY <1>1, MaxIs
<1> QED  BY <1>2

LEMMA OthersIs ==
  ASSUME NEW c, Pot(c), NEW p \in DOMAIN c
  PROVE  /\ Others(c, p) \in Nat
         /\ \A q \in DOMAIN c \ {p} : c[q] <= Others(c, p)
         /\ Others(c, p) = 0 \/ \E q \in DOMAIN c \ {p} : c[q] = Others(c, p)
<1> DEFINE T == {0} \cup {c[q] : q \in DOMAIN c \ {p}}
<1>1. T \in SUBSET Nat /\ T # {} /\ Whole(c) \in Nat /\ \A x \in T : x <= Whole(c)
  BY PotIs
<1>2. Others(c, p) = Max(T)  BY DEF Others
<1>3. \A q \in DOMAIN c \ {p} : c[q] \in T  OBVIOUS
<1> HIDE DEF T
<1>4. Max(T) \in T /\ \A x \in T : x <= Max(T)  BY <1>1, MaxIs
<1>5. Others(c, p) \in T /\ Others(c, p) \in Nat  BY <1>1, <1>2, <1>4
<1>6. \A q \in DOMAIN c \ {p} : c[q] <= Others(c, p)  BY <1>2, <1>3, <1>4
<1> QED  BY <1>5, <1>6 DEF T

LEMMA MatchedIs ==
  ASSUME NEW c, Pot(c)
  PROVE  /\ Matched(c) \in Nat
         /\ \A p \in DOMAIN c : Matched(c) <= Others(c, p)
         /\ Matched(c) = 0 \/ \E q \in DOMAIN c : c[q] = Matched(c)
         /\ \A h \in Nat : \A a, b \in DOMAIN c : a # b /\ c[a] >= h /\ c[b] >= h => Matched(c) >= h
<1> DEFINE top == TopLive(c, {})
           T == {top} \cup {Others(c, p) : p \in DOMAIN c}
<1>1. top \in Nat /\ (top = 0 \/ \E q \in DOMAIN c : c[q] = top) /\ \A q \in DOMAIN c : c[q] <= top
  BY TopLiveIs
<1>2. \A p \in DOMAIN c : Others(c, p) \in Nat  BY OthersIs
<1>3. T \in SUBSET Nat /\ T # {}  BY <1>1, <1>2
<1>4. Matched(c) = Min(T)  BY DEF Matched
<1>5. \A p \in DOMAIN c : Others(c, p) \in T  OBVIOUS
<1>6. \A x \in T : x = top \/ \E p \in DOMAIN c : x = Others(c, p)  OBVIOUS
<1> HIDE DEF top, T
<1>7. Min(T) \in T /\ \A x \in T : Min(T) <= x  BY <1>3, MinIs
<1>8. Matched(c) \in Nat /\ \A p \in DOMAIN c : Matched(c) <= Others(c, p)
  BY <1>3, <1>4, <1>5, <1>7
<1>9. Matched(c) = 0 \/ \E q \in DOMAIN c : c[q] = Matched(c)
  <2>1. CASE Matched(c) = top  BY <1>1, <2>1
  <2>2. CASE \E p \in DOMAIN c : Matched(c) = Others(c, p)
    <3>1. PICK p \in DOMAIN c : Matched(c) = Others(c, p)  BY <2>2
    <3>2. Others(c, p) = 0 \/ \E q \in DOMAIN c \ {p} : c[q] = Others(c, p)  BY OthersIs
    <3> QED  BY <3>1, <3>2
  <2> QED  BY <1>4, <1>6, <1>7, <2>1, <2>2
<1>10. ASSUME NEW h \in Nat, NEW a \in DOMAIN c, NEW b \in DOMAIN c, a # b, c[a] >= h, c[b] >= h
       PROVE  Matched(c) >= h
  <2>1. c[a] \in Nat /\ c[b] \in Nat  BY PotIs
  <2>2. CASE Matched(c) = top
    <3>1. c[a] <= top  BY <1>1
    <3> QED  BY <1>1, <1>10, <2>1, <2>2, <3>1
  <2>3. CASE \E p \in DOMAIN c : Matched(c) = Others(c, p)
    <3>1. PICK p \in DOMAIN c : Matched(c) = Others(c, p)  BY <2>3
    <3>2. PICK q \in {a, b} : q # p  BY <1>10
    <3>3. c[q] <= Others(c, p) /\ Others(c, p) \in Nat  BY <3>2, OthersIs
    <3> QED  BY <1>10, <2>1, <3>1, <3>2, <3>3
  <2> QED  BY <1>4, <1>6, <1>7, <2>2, <2>3
<1> QED  BY <1>8, <1>9, <1>10

(* Somebody still in put something in.                                     *)
Staked(c, out) == TopLive(c, out) > 0

LEMMA TopIsCut ==
  ASSUME NEW c, Pot(c), NEW out, Staked(c, out)
  PROVE  /\ TopLive(c, out) \in Nat \ {0} /\ TopLive(c, out) \in Cut(c, out)
         /\ \E z \in DOMAIN c \ out : c[z] = TopLive(c, out)
         /\ \A p \in DOMAIN c \ out :
              c[p] \in Nat /\ c[p] <= TopLive(c, out) /\ c[p] \in Cut(c, out)
         /\ \A p \in DOMAIN c : c[p] > TopLive(c, out) => p \in out /\ c[p] \in Cut(c, out)
<1> DEFINE top == TopLive(c, out)
<1>1. top \in Nat \ {0} /\ (\E z \in DOMAIN c \ out : c[z] = top)
  BY TopLiveIs DEF Staked
<1>2. \A p \in DOMAIN c : c[p] \in Nat  BY PotIs
<1>3. \A p \in DOMAIN c : c[p] > 0 /\ (p \notin out \/ c[p] > top) => c[p] \in Cut(c, out)
  BY DEF Cut, Levels, In
<1>4. \A p \in DOMAIN c \ out : c[p] <= top  BY TopLiveIs
<1>5. 0 \in Cut(c, out)  BY CutIs
<1> HIDE DEF top
<1>6. top \in Cut(c, out)  BY <1>1, <1>2, <1>3
<1>7. \A p \in DOMAIN c \ out : c[p] \in Cut(c, out)
  <2> SUFFICES ASSUME NEW p \in DOMAIN c \ out  PROVE c[p] \in Cut(c, out)
    OBVIOUS
  <2>1. CASE c[p] = 0  BY <1>5, <2>1
  <2>2. CASE c[p] # 0  BY <1>2, <1>3, <2>2
  <2> QED  BY <2>1, <2>2
<1>8. \A p \in DOMAIN c : c[p] > top => p \in out /\ c[p] \in Cut(c, out)
  <2> SUFFICES ASSUME NEW p \in DOMAIN c, c[p] > top  PROVE p \in out /\ c[p] \in Cut(c, out)
    OBVIOUS
  <2>1. c[p] \in Nat /\ c[p] > 0  BY <1>1, <1>2
  <2>2. p \in out
    <3> SUFFICES ASSUME p \notin out  PROVE FALSE
      OBVIOUS
    <3>1. c[p] <= top  BY <1>4
    <3> QED  BY <1>1, <2>1, <3>1
  <2> QED  BY <1>3, <2>1, <2>2
<1> QED  BY <1>1, <1>2, <1>4, <1>6, <1>7, <1>8 DEF top

LEMMA ReachIs ==
  ASSUME NEW c, Pot(c), NEW out, Staked(c, out), NEW p \in DOMAIN c \ out
  PROVE  /\ Reach(c, out, p) \in Cut(c, out) /\ Reach(c, out, p) \in Nat
         /\ c[p] < TopLive(c, out) => Reach(c, out, p) = c[p]
         /\ c[p] = TopLive(c, out) =>
              Reach(c, out, p) =
                IF TopLive(c, out) <= Matched(c) THEN Matched(c) ELSE TopLive(c, out)
<1> DEFINE top == TopLive(c, out)
           m == Matched(c)
           r == Reach(c, out, p)
<1>1. /\ top \in Nat \ {0} /\ top \in Cut(c, out) /\ c[p] \in Nat /\ c[p] <= top
      /\ c[p] \in Cut(c, out) /\ \A q \in DOMAIN c : c[q] > top => c[q] \in Cut(c, out)
  BY TopIsCut
<1>2. m \in Nat /\ (m = 0 \/ \E q \in DOMAIN c : c[q] = m)  BY MatchedIs
<1>3. r = IF c[p] < top THEN c[p] ELSE Max({top, m})  BY DEF Reach
<1> HIDE DEF top, m, r
<1>4. Max({top, m}) = IF top <= m THEN m ELSE top  BY <1>1, <1>2, MaxOfTwo
<1>5. Cut(c, out) \in SUBSET Nat  BY CutIs
<1>6. c[p] < top => r = c[p]  BY <1>3
<1>7. c[p] = top => r = IF top <= m THEN m ELSE top  BY <1>1, <1>3, <1>4
<1>8. top < m => m \in Cut(c, out)  BY <1>1, <1>2
<1>9. r \in Cut(c, out)
  <2>1. CASE c[p] < top  BY <1>1, <1>6, <2>1
  <2>2. CASE c[p] = top /\ top < m  BY <1>1, <1>2, <1>7, <1>8, <2>2
  <2>3. CASE c[p] = top /\ m <= top  BY <1>1, <1>2, <1>7, <2>3
  <2> QED  BY <1>1, <1>2, <2>1, <2>2, <2>3
<1> QED  BY <1>5, <1>6, <1>7, <1>9 DEF top, m, r

----------------------------------------------------------------------------
(* high is the level after low.                                            *)
NextCut(c, out, low, high) ==
  high \in Cut(c, out) \ {0} /\ low = Under(Cut(c, out), high)

LEMMA NextCutIs ==
  ASSUME NEW c, Pot(c), NEW out, NEW low, NEW high, NextCut(c, out, low, high)
  PROVE  /\ low \in Nat /\ high \in Nat /\ low < high /\ low \in Cut(c, out) /\ high \in Cut(c, out)
         /\ \A l \in Cut(c, out) : l \in Nat /\ (l <= low \/ high <= l)
         /\ low = 0 \/ \E q \in DOMAIN c : c[q] = low
         /\ \E q \in DOMAIN c : c[q] = high
<1> DEFINE D == Cut(c, out)
<1>1. D \in SUBSET Nat /\ 0 \in D  BY CutIs
<1>2. \A l \in D : l = 0 \/ \E q \in DOMAIN c : c[q] = l  BY DEF Cut, Levels, In
<1>3. high \in D /\ high # 0 /\ low = Under(D, high)  BY DEF NextCut
<1> HIDE DEF D
<1>4. low \in D /\ low < high /\ \A k \in D : k < high => k <= low  BY <1>1, <1>3, UnderIs
<1>5. low \in Nat /\ high \in Nat  BY <1>1, <1>3, <1>4
<1>6. \A l \in D : l \in Nat /\ (l <= low \/ high <= l)  BY <1>1, <1>4, <1>5
<1> QED  BY <1>2, <1>3, <1>4, <1>5, <1>6 DEF D

Low(a, b) == IF a <= b THEN a ELSE b

(* What a player who reaches r gets of the chips at or below level l.      *)
LEMMA GivenOfBand ==
  ASSUME NEW c, Pot(c), NEW out, NEW low, NEW high, NextCut(c, out, low, high),
         NEW r \in Cut(c, out)
  PROVE  /\ BandAmount(c, low, high) \in Nat
         /\ UpTo(c, Low(low, r)) \in Nat
         /\ UpTo(c, Low(high, r)) =
              UpTo(c, Low(low, r)) + IF high <= r THEN BandAmount(c, low, high) ELSE 0
<1>1. low \in Nat /\ high \in Nat /\ low < high /\ r \in Nat /\ (r <= low \/ high <= r)
  BY NextCutIs
<1>2. /\ BandAmount(c, low, high) \in Nat
      /\ UpTo(c, high) = UpTo(c, low) + BandAmount(c, low, high)
  BY <1>1, BandIs
<1>3. CASE high <= r
  <2>1. Low(high, r) = high /\ Low(low, r) = low  BY <1>1, <1>3 DEF Low
  <2>2. UpTo(c, low) \in Nat  BY <1>1, UpToIs
  <2> QED  BY <1>2, <1>3, <2>1, <2>2
<1>4. CASE ~(high <= r)
  <2>1. Low(high, r) = r /\ Low(low, r) = r  BY <1>1, <1>4 DEF Low
  <2>2. UpTo(c, r) \in Nat  BY <1>1, UpToIs
  <2> QED  BY <1>2, <1>4, <2>1, <2>2
<1> QED  BY <1>3, <1>4

(* Of the chips at or below level l, those of p that nobody matched.       *)
Over(c, l, p) == IF Low(l, c[p]) <= Others(c, p) THEN 0 ELSE Low(l, c[p]) - Others(c, p)

(* A band one player paid for.                                             *)
LEMMA BandAlone ==
  ASSUME NEW c, Pot(c), NEW out, Staked(c, out), NEW low, NEW high, NextCut(c, out, low, high),
         Unmatched(c, out, low, high)
  PROVE  \E q \in DOMAIN c :
           /\ Funders(c, low) = {q} /\ c[q] = high /\ Others(c, q) = low
           /\ \A p \in DOMAIN c \ {q} : c[p] <= low
           /\ BandAmount(c, low, high) = high - low
<1> DEFINE F == Funders(c, low)
<1>1. /\ low \in Nat /\ high \in Nat /\ low < high
      /\ \A l \in Cut(c, out) : l \in Nat /\ (l <= low \/ high <= l)
      /\ low = 0 \/ \E q \in DOMAIN c : c[q] = low
      /\ \E q \in DOMAIN c : c[q] = high
  BY NextCutIs
<1>2. \A p \in DOMAIN c : c[p] \in Nat  BY PotIs
<1>3. \A p \in DOMAIN c : p \in F <=> c[p] > low  BY DEF Funders
<1>4. F \in SUBSET DOMAIN c  BY DEF Funders
<1>5. \E q : F = {q}
  <2>1. IsFiniteSet(F) /\ Cardinality(F) = 1  BY <1>4, FS_Subset DEF Pot, Unmatched
  <2> HIDE DEF F
  <2> QED  BY <2>1, FS_Singleton
<1>6. PICK q : F = {q}  BY <1>5
<1>7. q \in DOMAIN c /\ c[q] > low /\ \A p \in DOMAIN c \ {q} : c[p] <= low
  BY <1>1, <1>2, <1>3, <1>4, <1>6
<1>8. c[q] = high
  <2>1. PICK x \in DOMAIN c : c[x] = high  BY <1>1
  <2> QED  BY <1>1, <1>2, <1>7, <2>1
<1>9. Others(c, q) = low
  <2>1. /\ Others(c, q) \in Nat
        /\ \A p \in DOMAIN c \ {q} : c[p] <= Others(c, q)
        /\ Others(c, q) = 0 \/ \E p \in DOMAIN c \ {q} : c[p] = Others(c, q)
    BY <1>7, OthersIs
  <2>2. Others(c, q) <= low  BY <1>1, <1>7, <2>1
  <2>3. low <= Others(c, q)
    <3>1. CASE low = 0  BY <2>1, <3>1
    <3>2. CASE low # 0
      <4>1. PICK x \in DOMAIN c : c[x] = low  BY <1>1, <3>2
      <4>2. x # q  BY <1>1, <1>7, <4>1
      <4> QED  BY <2>1, <4>1, <4>2
    <3> QED  BY <3>1, <3>2
  <2> QED  BY <1>1, <2>1, <2>2, <2>3
<1>10. BandAmount(c, low, high) = high - low
  <2> DEFINE S == DOMAIN c
             g == [p \in S |-> Min({c[p], high}) - Min({c[p], low})]
  <2>1. BandAmount(c, low, high) = SumFunctionOnSet(g, S)
    <3>1. DOMAIN g = S  OBVIOUS
    <3> HIDE DEF S
    <3> QED  BY <3>1, Zenon DEF BandAmount, SumFunction, S
  <2>2. \A p \in S : /\ Min({c[p], high}) = IF c[p] <= high THEN c[p] ELSE high
                     /\ Min({c[p], low}) = IF c[p] <= low THEN c[p] ELSE low
    BY <1>1, <1>2, MinOfTwo
  <2>3. g[q] = high - low  BY <1>1, <1>7, <1>8, <2>2
  <2>4. \A p \in S \ {q} : g[p] = 0
    <3> SUFFICES ASSUME NEW p \in S \ {q}  PROVE g[p] = 0
      OBVIOUS
    <3>1. c[p] \in Nat /\ c[p] <= low /\ c[p] <= high  BY <1>1, <1>2, <1>7
    <3> QED  BY <2>2, <3>1
  <2> HIDE DEF g
  <2>5. \A p \in S : g[p] \in Int  BY <1>1, <2>3, <2>4
  <2>6. IsFiniteSet(S) /\ q \in S /\ {q} \in SUBSET S  BY <1>7 DEF Pot
  <2> HIDE DEF S
  <2>7. SumFunctionOnSet(g, S) = SumFunctionOnSet(g, {q})  BY <2>4, <2>5, <2>6, SumWithin
  <2>8. SumFunctionOnSet(g, {q}) = Cardinality({q}) * g[q]
    <3>1. IsFiniteSet({q}) /\ g[q] \in Int  BY <2>5, <2>6, FS_Singleton
    <3> QED  BY <3>1, SumEqual
  <2>9. Cardinality({q}) = 1  BY FS_Singleton
  <2> QED  BY <1>1, <2>1, <2>3, <2>7, <2>8, <2>9
<1> QED  BY <1>6, <1>7, <1>8, <1>9, <1>10 DEF F

(* A band that two or more paid for: whom it goes to, and that nobody      *)
(* reaches it alone.                                                       *)
LEMMA BandShared ==
  ASSUME NEW c, Pot(c), NEW out, Staked(c, out), NEW low, NEW high, NextCut(c, out, low, high),
         ~Unmatched(c, out, low, high)
  PROVE  /\ \A p \in DOMAIN c \cap out : Over(c, high, p) = Over(c, low, p)
         /\ high <= TopLive(c, out) =>
              \A p \in DOMAIN c \ out : high <= Reach(c, out, p) <=> c[p] >= high
         /\ high > TopLive(c, out) =>
              \A p \in DOMAIN c \ out : high <= Reach(c, out, p) <=> c[p] >= TopLive(c, out)
<1> DEFINE top == TopLive(c, out)
           F == Funders(c, low)
<1>1. /\ low \in Nat /\ high \in Nat /\ low < high
      /\ \A l \in Cut(c, out) : l \in Nat /\ (l <= low \/ high <= l)
      /\ \E q \in DOMAIN c : c[q] = high
  BY NextCutIs
<1>2. \A p \in DOMAIN c : c[p] \in Nat /\ (p \in F <=> c[p] > low)  BY PotIs DEF Funders
<1>3. /\ top \in Nat \ {0} /\ (top <= low \/ high <= top)
      /\ \E z \in DOMAIN c \ out : c[z] = top
      /\ \A p \in DOMAIN c \ out : c[p] <= top /\ (c[p] <= low \/ high <= c[p])
      /\ \A p \in DOMAIN c : c[p] > top => p \in out /\ (c[p] <= low \/ high <= c[p])
  BY <1>1, TopIsCut
<1>4. \A p : F # {p}  BY FS_Singleton DEF Unmatched
<1> HIDE DEF F
<1>5. \A p \in DOMAIN c : \E y \in DOMAIN c \ {p} : c[y] > low
  <2> SUFFICES ASSUME NEW p \in DOMAIN c  PROVE \E y \in DOMAIN c \ {p} : c[y] > low
    OBVIOUS
  <2>1. PICK x \in DOMAIN c : c[x] = high  BY <1>1
  <2>2. x \in F  BY <1>1, <1>2, <2>1
  <2>3. F \subseteq DOMAIN c  BY DEF F, Funders
  <2>4. \E y \in F : y # p  BY <1>4, <2>2
  <2> QED  BY <1>2, <2>3, <2>4
<1> HIDE DEF top
<1>6. ASSUME NEW p \in DOMAIN c, p \in out  PROVE Over(c, high, p) = Over(c, low, p)
  <2>1. /\ Others(c, p) \in Nat /\ c[p] \in Nat
        /\ \A y \in DOMAIN c \ {p} : c[y] <= Others(c, p)
    BY <1>2, OthersIs
  <2>2. CASE c[p] <= low
    <3>1. Low(high, c[p]) = c[p] /\ Low(low, c[p]) = c[p]  BY <1>1, <2>1, <2>2 DEF Low
    <3> QED  BY <3>1 DEF Over
  <2>3. CASE c[p] > low
    <3>1. PICK y \in DOMAIN c \ {p} : c[y] > low  BY <1>5
    <3>2. \E x \in DOMAIN c \ {p} : c[x] >= high
      <4>1. CASE c[y] >= high  BY <4>1
      <4>2. CASE c[y] < high
        <5>1. c[y] <= top  BY <1>1, <1>2, <1>3, <3>1, <4>2
        <5>2. top >= high  BY <1>1, <1>2, <1>3, <3>1, <5>1
        <5> QED  BY <1>3, <1>6, <5>2
      <4> QED  BY <1>1, <1>2, <4>1, <4>2
    <3>3. high <= Others(c, p)  BY <1>1, <1>2, <2>1, <3>2
    <3>4. Low(high, c[p]) <= high /\ Low(high, c[p]) \in Nat /\ Low(low, c[p]) = low
      BY <1>1, <2>1, <2>3 DEF Low
    <3>5. Low(high, c[p]) <= Others(c, p) /\ Low(low, c[p]) <= Others(c, p)
      BY <1>1, <2>1, <3>3, <3>4
    <3> QED  BY <3>5 DEF Over
  <2> QED  BY <1>1, <2>1, <2>2, <2>3
<1>7. ASSUME NEW p \in DOMAIN c \ out
      PROVE  /\ c[p] < top => Reach(c, out, p) = c[p]
             /\ c[p] = top => Reach(c, out, p) = IF top <= Matched(c) THEN Matched(c) ELSE top
             /\ Matched(c) \in Nat /\ c[p] \in Nat /\ c[p] <= top
  BY <1>2, <1>3, ReachIs, MatchedIs DEF top
<1>8. ASSUME high <= top, NEW p \in DOMAIN c \ out
      PROVE  high <= Reach(c, out, p) <=> c[p] >= high
  BY <1>1, <1>3, <1>7, <1>8
<1>9. ASSUME high > top, NEW p \in DOMAIN c \ out
      PROVE  high <= Reach(c, out, p) <=> c[p] >= top
  <2>1. top <= low  BY <1>1, <1>3, <1>9
  <2>2. Matched(c) >= high
    <3>1. PICK a \in DOMAIN c : c[a] = high  BY <1>1
    <3>2. PICK b \in DOMAIN c \ {a} : c[b] > low  BY <1>5
    <3>3. c[b] > top  BY <1>1, <1>2, <1>3, <2>1, <3>2
    <3>4. c[b] >= high  BY <1>1, <1>2, <1>3, <3>2, <3>3
    <3>5. c[a] >= high  BY <1>1, <3>1
    <3> QED  BY <1>1, <3>4, <3>5, MatchedIs
  <2> QED  BY <1>1, <1>3, <1>7, <1>9, <2>2
<1> QED  BY <1>6, <1>8, <1>9 DEF top

(* A player who paid for a band alone reaches it, or has it back; nobody   *)
(* else does.                                                              *)
LEMMA AloneReaches ==
  ASSUME NEW c, Pot(c), NEW out, Staked(c, out), NEW low, NEW high, NextCut(c, out, low, high),
         NEW q \in DOMAIN c, c[q] = high, Others(c, q) = low,
         \A p \in DOMAIN c \ {q} : c[p] <= low
  PROVE  /\ \A p \in DOMAIN c \ out : high <= Reach(c, out, p) <=> p = q
         /\ \A p \in DOMAIN c \cap out :
              Over(c, high, p) = Over(c, low, p) + IF p = q THEN high - low ELSE 0
<1> DEFINE top == TopLive(c, out)
<1>1. low \in Nat /\ high \in Nat /\ low < high  BY NextCutIs
<1>2. \A p \in DOMAIN c : c[p] \in Nat  BY PotIs
<1>3. /\ top \in Nat \ {0} /\ (\E z \in DOMAIN c \ out : c[z] = top)
      /\ \A p \in DOMAIN c \ out : c[p] <= top
  BY TopIsCut
<1>4. Matched(c) \in Nat /\ Matched(c) <= low  BY MatchedIs
<1> HIDE DEF top
<1>5. ASSUME NEW p \in DOMAIN c \ out  PROVE high <= Reach(c, out, p) <=> p = q
  <2>1. /\ c[p] < top => Reach(c, out, p) = c[p]
        /\ c[p] = top => Reach(c, out, p) = IF top <= Matched(c) THEN Matched(c) ELSE top
        /\ c[p] \in Nat /\ c[p] <= top
    BY <1>2, <1>3, ReachIs DEF top
  <2>2. CASE p = q
    <3>1. high <= c[p] /\ high <= top  BY <1>1, <2>1, <2>2
    <3> QED  BY <1>1, <1>3, <1>4, <2>1, <2>2, <3>1
  <2>3. CASE p # q
    <3>1. c[p] <= low  BY <2>3
    <3> QED  BY <1>1, <1>3, <1>4, <2>1, <2>3, <3>1
  <2> QED  BY <2>2, <2>3
<1>6. ASSUME NEW p \in DOMAIN c \cap out
      PROVE  Over(c, high, p) = Over(c, low, p) + IF p = q THEN high - low ELSE 0
  <2>1. CASE p = q
    <3>1. Low(high, c[p]) = high /\ Low(low, c[p]) = low /\ Others(c, p) = low
      BY <1>1, <2>1 DEF Low
    <3>2. Over(c, high, p) = high - low /\ Over(c, low, p) = 0  BY <1>1, <3>1 DEF Over
    <3> QED  BY <1>1, <2>1, <3>2
  <2>2. CASE p # q
    <3>1. c[p] \in Nat /\ c[p] <= low  BY <1>2, <2>2
    <3>2. Low(high, c[p]) = c[p] /\ Low(low, c[p]) = c[p]  BY <1>1, <3>1 DEF Low
    <3>3. Over(c, high, p) = Over(c, low, p) /\ Over(c, low, p) \in Nat
      <4>1. Others(c, p) \in Nat  BY OthersIs
      <4> QED  BY <3>1, <3>2, <4>1 DEF Over
    <3> QED  BY <2>2, <3>3
  <2> QED  BY <2>1, <2>2
<1> QED  BY <1>5, <1>6

----------------------------------------------------------------------------
(* What the layers of a sequence give to p.                                *)
GivenTo(ls, p) == [i \in 1 .. Len(ls) |-> IF p \in ls[i].eligible THEN ls[i].amount ELSE 0]

Won(ls, p) == SumFunctionOnSet(GivenTo(ls, p), 1 .. Len(ls))

LEMMA WonIs ==
  ASSUME NEW D, NEW ls \in Seq(Layer(D)), NEW p
  PROVE  /\ Won(ls, p) \in Nat /\ Won(ls, p) = Winnable(ls, p)
         /\ IsFiniteSet(1 .. Len(ls)) /\ Len(ls) \in Nat
         /\ \A i \in 1 .. Len(ls) :
              /\ GivenTo(ls, p)[i] = IF p \in ls[i].eligible THEN ls[i].amount ELSE 0
              /\ GivenTo(ls, p)[i] \in Nat
<1> DEFINE S == 1 .. Len(ls)
           g == GivenTo(ls, p)
           a == Amounts(ls)
           T == {i \in S : p \in ls[i].eligible}
<1>1. /\ IsFiniteSet(S) /\ \A i \in S : a[i] = ls[i].amount /\ ls[i].amount \in Nat
  BY ChipsAre
<1>2. DOMAIN ls = S /\ Len(ls) \in Nat  OBVIOUS
<1>3. \A i \in S : g[i] = IF p \in ls[i].eligible THEN ls[i].amount ELSE 0  BY DEF GivenTo
<1>4. Won(ls, p) = SumFunctionOnSet(g, S)  BY DEF Won
<1>5. Winnable(ls, p) = SumFunctionOnSet(a, T)  BY <1>2, Zenon DEF Winnable
<1> HIDE DEF S, g, a
<1>6. \A i \in S : g[i] \in Nat /\ g[i] \in Int  BY <1>1, <1>3
<1>7. SumFunctionOnSet(g, S) \in Nat  BY <1>1, <1>6, SumNatural
<1>8. T \in SUBSET S /\ IsFiniteSet(T)  BY <1>1, FS_Subset
<1>9. \A i \in S \ T : g[i] = 0  BY <1>3
<1>10. Same(g, a, T)  BY <1>1, <1>3 DEF Same
<1> HIDE DEF T
<1>11. SumFunctionOnSet(g, S) = SumFunctionOnSet(g, T)  BY <1>1, <1>6, <1>8, <1>9, SumWithin
<1>12. SumFunctionOnSet(g, T) = SumFunctionOnSet(a, T)  BY <1>8, <1>10, SumSame
<1>13. \A i \in S : g[i] \in Nat  BY <1>6
<1> QED  BY <1>1, <1>2, <1>3, <1>4, <1>5, <1>7, <1>11, <1>12, <1>13 DEF S, g

LEMMA WonOfNone ==
  ASSUME NEW p
  PROVE  Won(<<>>, p) = 0
<1>1. 1 .. Len(<<>>) = {}  OBVIOUS
<1> QED  BY <1>1, SumEmpty, Zenon DEF Won

LEMMA WonAppend ==
  ASSUME NEW D, NEW ls \in Seq(Layer(D)), NEW x \in Layer(D), NEW p
  PROVE  /\ Won(ls, p) \in Nat
         /\ Won(Append(ls, x), p) = Won(ls, p) + IF p \in x.eligible THEN x.amount ELSE 0
<1> DEFINE u == Append(ls, x)
           n == Len(ls)
           a == GivenTo(ls, p)
           b == GivenTo(u, p)
<1>1. /\ u \in Seq(Layer(D)) /\ Len(u) = n + 1 /\ n \in Nat /\ u[n + 1] = x
      /\ \A i \in 1 .. n : u[i] = ls[i]
  OBVIOUS
<1> HIDE DEF u
<1>2. /\ Won(u, p) = SumFunctionOnSet(b, 1 .. n + 1) /\ IsFiniteSet(1 .. n + 1)
      /\ \A i \in 1 .. n + 1 : /\ b[i] = IF p \in u[i].eligible THEN u[i].amount ELSE 0
                               /\ b[i] \in Nat
  <2>1. /\ Won(u, p) = SumFunctionOnSet(b, 1 .. Len(u)) /\ IsFiniteSet(1 .. Len(u))
        /\ \A i \in 1 .. Len(u) : /\ b[i] = IF p \in u[i].eligible THEN u[i].amount ELSE 0
                                  /\ b[i] \in Nat
    BY <1>1, WonIs DEF Won
  <2> QED  BY <1>1, <2>1
<1>3. /\ Won(ls, p) = SumFunctionOnSet(a, 1 .. n) /\ IsFiniteSet(1 .. n) /\ Won(ls, p) \in Nat
      /\ \A i \in 1 .. n : a[i] = IF p \in ls[i].eligible THEN ls[i].amount ELSE 0
  BY WonIs DEF Won
<1> HIDE DEF a, b, n
<1>4. SumFunctionOnSet(b, 1 .. n + 1) = b[n + 1] + SumFunctionOnSet(b, (1 .. n + 1) \ {n + 1})
  <2>1. n + 1 \in 1 .. n + 1 /\ \A i \in 1 .. n + 1 : b[i] \in Int  BY <1>1, <1>2
  <2> QED  BY <1>2, <2>1, SumRemove
<1>5. (1 .. n + 1) \ {n + 1} = 1 .. n  BY <1>1
<1>6. SumFunctionOnSet(b, 1 .. n) = SumFunctionOnSet(a, 1 .. n)
  <2>1. Same(b, a, 1 .. n)  BY <1>1, <1>2, <1>3 DEF Same
  <2> QED  BY <1>3, <2>1, SumSame
<1>7. b[n + 1] = (IF p \in x.eligible THEN x.amount ELSE 0) /\ b[n + 1] \in Nat
  <2>1. n + 1 \in 1 .. n + 1  BY <1>1
  <2> QED  BY <1>1, <1>2, <2>1
<1>8. SumFunctionOnSet(b, 1 .. n + 1) = b[n + 1] + SumFunctionOnSet(a, 1 .. n)
  BY <1>4, <1>5, <1>6, Zenon
<1>9. Won(u, p) = Won(ls, p) + b[n + 1]  BY <1>2, <1>3, <1>7, <1>8
<1> QED  BY <1>3, <1>7, <1>9 DEF u

LEMMA RaisedIs ==
  ASSUME NEW D, NEW ls \in Seq(Layer(D)), NEW k \in 1 .. Len(ls), NEW m \in Nat,
         NEW v, v = Raised(ls, k, m)
  PROVE  /\ v \in Seq(Layer(D)) /\ Len(v) = Len(ls)
         /\ \A i \in 1 .. Len(ls) : /\ v[i].eligible = ls[i].eligible
                                    /\ v[i].uncalled = ls[i].uncalled
                                    /\ v[i].amount = ls[i].amount + IF i = k THEN m ELSE 0
<1> DEFINE n == Len(ls)
           x == [ls[k] EXCEPT !.amount = @ + m]
           u == [ls EXCEPT ![k] = x]
<1>1. /\ ls[k] \in Layer(D) /\ n \in Nat /\ DOMAIN ls = 1 .. n
      /\ \A i \in 1 .. n : ls[i] \in Layer(D)
  OBVIOUS
<1>2. /\ x \in Layer(D) /\ x.amount = ls[k].amount + m
      /\ x.eligible = ls[k].eligible /\ x.uncalled = ls[k].uncalled
  BY <1>1, LayerGrows
<1>3. u = v
  <2>1. v = [ls EXCEPT ![k].amount = @ + m]  BY DEF Raised
  <2> QED  BY <1>1, <2>1, Zenon
<1>4. \A i \in 1 .. n : ls[i].amount \in Nat  BY <1>1 DEF Layer
<1> HIDE DEF x
<1>5. /\ u \in Seq(Layer(D)) /\ Len(u) = n /\ u[k] = x
      /\ \A i \in (1 .. n) \ {k} : u[i] = ls[i]
  BY <1>1, <1>2
<1> HIDE DEF u
<1>6. ASSUME NEW i \in 1 .. n
      PROVE  /\ u[i].eligible = ls[i].eligible /\ u[i].uncalled = ls[i].uncalled
             /\ u[i].amount = ls[i].amount + IF i = k THEN m ELSE 0
  <2>1. CASE i = k  BY <1>2, <1>5, <2>1
  <2>2. CASE i # k  BY <1>4, <1>5, <2>2
  <2> QED  BY <2>1, <2>2
<1> QED  BY <1>3, <1>5, <1>6

LEMMA WonRaised ==
  ASSUME NEW D, NEW ls \in Seq(Layer(D)), NEW k \in 1 .. Len(ls), NEW m \in Nat,
         NEW v, v = Raised(ls, k, m), NEW p
  PROVE  /\ Won(ls, p) \in Nat
         /\ Won(v, p) = Won(ls, p) + IF p \in ls[k].eligible THEN m ELSE 0
<1> DEFINE S == 1 .. Len(ls)
           a == GivenTo(ls, p)
           b == GivenTo(v, p)
<1>1. /\ v \in Seq(Layer(D)) /\ Len(v) = Len(ls)
      /\ \A i \in S : /\ v[i].eligible = ls[i].eligible
                      /\ v[i].amount = ls[i].amount + IF i = k THEN m ELSE 0
  BY RaisedIs
<1>2. /\ Won(ls, p) = SumFunctionOnSet(a, S) /\ IsFiniteSet(S) /\ Won(ls, p) \in Nat
      /\ \A i \in S : /\ a[i] = IF p \in ls[i].eligible THEN ls[i].amount ELSE 0
                      /\ a[i] \in Nat
  BY WonIs DEF Won
<1>3. /\ Won(v, p) = SumFunctionOnSet(b, S)
      /\ \A i \in S : /\ b[i] = IF p \in v[i].eligible THEN v[i].amount ELSE 0
                      /\ b[i] \in Nat
  <2>1. /\ Won(v, p) = SumFunctionOnSet(b, 1 .. Len(v))
        /\ \A i \in 1 .. Len(v) : /\ b[i] = IF p \in v[i].eligible THEN v[i].amount ELSE 0
                                  /\ b[i] \in Nat
    BY <1>1, WonIs DEF Won
  <2> QED  BY <1>1, <2>1
<1>4. \A i \in S : ls[i].amount \in Nat  BY ChipsAre
<1>5. k \in S  OBVIOUS
<1> HIDE DEF S, a, b
<1>6. Same(b, a, S \ {k})  BY <1>1, <1>2, <1>3, <1>4 DEF Same
<1>7. b[k] = a[k] + IF p \in ls[k].eligible THEN m ELSE 0  BY <1>1, <1>2, <1>3, <1>4, <1>5
<1>8. \A i \in S : a[i] \in Int /\ b[i] \in Int  BY <1>2, <1>3
<1>9. SumFunctionOnSet(b, S) = SumFunctionOnSet(a, S) - a[k] + b[k]
  <2>1. IsFiniteSet(S)  BY <1>2
  <2> QED  BY <1>5, <1>6, <1>8, <2>1, SumChange
<1>10. a[k] \in Nat  BY <1>2, <1>5
<1> QED  BY <1>2, <1>3, <1>7, <1>9, <1>10

----------------------------------------------------------------------------
(* What the rules give p of the chips at or below level l.                 *)
Entitled(c, out, l, p) ==
  IF p \in out THEN Over(c, l, p) ELSE UpTo(c, Low(l, Reach(c, out, p)))

(* Whom the band above low goes to.                                        *)
Takers(c, out, low, high) ==
  CASE Unmatched(c, out, low, high) -> Funders(c, low)
    [] ~Unmatched(c, out, low, high) /\ high <= TopLive(c, out) -> Contenders(c, out, high)
    [] OTHER -> Contenders(c, out, TopLive(c, out))

LEMMA GivenStep ==
  ASSUME NEW c, Pot(c), NEW out, Staked(c, out), NEW low, NEW high, NextCut(c, out, low, high),
         NEW p \in DOMAIN c
  PROVE  /\ Entitled(c, out, low, p) \in Nat /\ BandAmount(c, low, high) \in Nat
         /\ Entitled(c, out, high, p) = Entitled(c, out, low, p) +
              IF p \in Takers(c, out, low, high) THEN BandAmount(c, low, high) ELSE 0
<1> DEFINE top == TopLive(c, out)
           band == BandAmount(c, low, high)
           alone == Unmatched(c, out, low, high)
           takers == Takers(c, out, low, high)
<1>1. low \in Nat /\ high \in Nat /\ low < high  BY NextCutIs
<1>2. band \in Nat  BY <1>1, BandIs
<1>3. /\ alone => takers = Funders(c, low)
      /\ ~alone /\ high <= top => takers = Contenders(c, out, high)
      /\ ~alone /\ ~(high <= top) => takers = Contenders(c, out, top)
  BY Zenon DEF Takers
<1>4. top \in Nat  BY TopIsCut
<1>5. Over(c, low, p) \in Nat
  <2>1. c[p] \in Nat /\ Others(c, p) \in Nat  BY PotIs, OthersIs
  <2>2. Low(low, c[p]) \in Nat  BY <1>1, <2>1 DEF Low
  <2> QED  BY <2>1, <2>2 DEF Over
<1>6. alone =>
        /\ p \in out => Over(c, high, p) = Over(c, low, p) + IF p \in takers THEN band ELSE 0
        /\ p \notin out => (high <= Reach(c, out, p) <=> p \in takers)
  <2> SUFFICES ASSUME alone
               PROVE  /\ p \in out =>
                           Over(c, high, p) = Over(c, low, p) + IF p \in takers THEN band ELSE 0
                      /\ p \notin out => (high <= Reach(c, out, p) <=> p \in takers)
    OBVIOUS
  <2>1. PICK q \in DOMAIN c :
           /\ Funders(c, low) = {q} /\ c[q] = high /\ Others(c, q) = low
           /\ \A x \in DOMAIN c \ {q} : c[x] <= low
           /\ band = high - low
    BY BandAlone
  <2>2. p \in takers <=> p = q  BY <1>3, <2>1
  <2>3. /\ \A x \in DOMAIN c \ out : high <= Reach(c, out, x) <=> x = q
        /\ \A x \in DOMAIN c \cap out :
             Over(c, high, x) = Over(c, low, x) + IF x = q THEN high - low ELSE 0
    BY <2>1, AloneReaches
  <2>4. p \in out => Over(c, high, p) = Over(c, low, p) + IF p = q THEN high - low ELSE 0
    BY <2>3
  <2>5. p \notin out => (high <= Reach(c, out, p) <=> p = q)  BY <2>3
  <2> HIDE DEF band, takers
  <2> QED  BY <2>1, <2>2, <2>4, <2>5
<1>7. ~alone =>
        /\ p \in out => Over(c, high, p) = Over(c, low, p) + IF p \in takers THEN band ELSE 0
        /\ p \notin out => (high <= Reach(c, out, p) <=> p \in takers)
  <2> SUFFICES ASSUME ~alone
               PROVE  /\ p \in out =>
                           Over(c, high, p) = Over(c, low, p) + IF p \in takers THEN band ELSE 0
                      /\ p \notin out => (high <= Reach(c, out, p) <=> p \in takers)
    OBVIOUS
  <2>1. /\ p \in out => Over(c, high, p) = Over(c, low, p)
        /\ high <= top /\ p \notin out => (high <= Reach(c, out, p) <=> c[p] >= high)
        /\ high > top /\ p \notin out => (high <= Reach(c, out, p) <=> c[p] >= top)
    BY BandShared
  <2>2. /\ high <= top => (p \in takers <=> p \notin out /\ c[p] >= high)
        /\ high > top => (p \in takers <=> p \notin out /\ c[p] >= top)
    BY <1>1, <1>3, <1>4 DEF Contenders
  <2> HIDE DEF band, takers, top
  <2>3. high <= top \/ high > top  BY <1>1, <1>4
  <2>4. p \in out => p \notin takers  BY <2>2, <2>3
  <2> QED  BY <1>5, <2>1, <2>2, <2>3, <2>4
<1>8. CASE p \in out
  <2>1. Entitled(c, out, high, p) = Over(c, high, p) /\ Entitled(c, out, low, p) = Over(c, low, p)
    BY <1>8 DEF Entitled
  <2> QED  BY <1>2, <1>5, <1>6, <1>7, <1>8, <2>1
<1>9. CASE p \notin out
  <2> DEFINE r == Reach(c, out, p)
  <2>1. /\ Entitled(c, out, high, p) = UpTo(c, Low(high, r))
        /\ Entitled(c, out, low, p) = UpTo(c, Low(low, r))
    BY <1>9 DEF Entitled
  <2>2. r \in Cut(c, out)  BY <1>9, ReachIs
  <2>3. high <= r <=> p \in takers  BY <1>6, <1>7, <1>9
  <2> HIDE DEF r
  <2>4. /\ UpTo(c, Low(low, r)) \in Nat
        /\ UpTo(c, Low(high, r)) = UpTo(c, Low(low, r)) + IF high <= r THEN band ELSE 0
    BY <2>2, GivenOfBand
  <2> QED  BY <1>2, <2>1, <2>3, <2>4
<1> QED  BY <1>8, <1>9

----------------------------------------------------------------------------
(* How fair the split is once it has reached level l.                      *)
Fairly(c, out, ls, l) == \A p \in DOMAIN c : Won(ls, p) = Entitled(c, out, l, p)

Refund(c, layer) ==
  layer.uncalled => \E q \in DOMAIN c : layer.eligible = {q} /\ layer.amount = c[q] - Others(c, q)

Refunds(c, ls) == \A i \in 1 .. Len(ls) : Refund(c, ls[i])

(* Dead money above every live player has a layer to go to: the one all    *)
(* the deepest live players are in.                                        *)
TopLayer(c, out, pots) ==
  /\ pots.contested # 0
  /\ pots.layers[pots.contested].eligible = Contenders(c, out, TopLive(c, out))

TopHeld(c, out, pots, l) ==
  l >= TopLive(c, out) /\ (\E x \in DOMAIN c : c[x] > TopLive(c, out)) => TopLayer(c, out, pots)

Fair(c, out, pots, l) ==
  /\ Layered(c, out, pots, l) /\ pots.carry = 0
  /\ pots.contested # 0 => ~pots.layers[pots.contested].uncalled
  /\ Fairly(c, out, pots.layers, l) /\ Refunds(c, pots.layers) /\ TopHeld(c, out, pots, l)

LEMMA NothingGiven ==
  ASSUME NEW c, Pot(c), NEW out, Staked(c, out)
  PROVE  Fair(c, out, NoPots, 0)
<1>1. Layered(c, out, NoPots, 0)  BY NothingSplit
<1>2. NoPots.layers = <<>> /\ NoPots.contested = 0 /\ NoPots.carry = 0  BY DEF NoPots
<1>3. Refunds(c, <<>>)  BY DEF Refunds
<1>4. TopHeld(c, out, NoPots, 0)
  <2>1. TopLive(c, out) \in Nat \ {0}  BY TopIsCut
  <2> QED  BY <2>1 DEF TopHeld
<1>5. ASSUME NEW p \in DOMAIN c  PROVE Won(<<>>, p) = Entitled(c, out, 0, p)
  <2>1. Won(<<>>, p) = 0  BY WonOfNone
  <2>2. CASE p \in out
    <3>1. c[p] \in Nat /\ Others(c, p) \in Nat  BY PotIs, OthersIs
    <3>2. Low(0, c[p]) = 0  BY <3>1 DEF Low
    <3>3. Over(c, 0, p) = 0  BY <3>1, <3>2 DEF Over
    <3> QED  BY <2>1, <2>2, <3>3 DEF Entitled
  <2>3. CASE p \notin out
    <3>1. Reach(c, out, p) \in Nat  BY <2>3, ReachIs
    <3>2. Low(0, Reach(c, out, p)) = 0  BY <3>1 DEF Low
    <3>3. UpTo(c, 0) = 0  BY UpToIs
    <3> QED  BY <2>1, <2>3, <3>2, <3>3, Zenon DEF Entitled
  <2> QED  BY <2>2, <2>3
<1>6. Fairly(c, out, <<>>, 0)  BY <1>5 DEF Fairly
<1> QED  BY <1>1, <1>2, <1>3, <1>4, <1>6 DEF Fair

----------------------------------------------------------------------------
(* A layer more.                                                           *)
LEMMA FairAdded ==
  ASSUME NEW c, Pot(c), NEW out, Staked(c, out), NEW low, NEW high, NextCut(c, out, low, high),
         NEW ls \in Seq(Layer(DOMAIN c)), Fairly(c, out, ls, low), Refunds(c, ls),
         NEW x \in Layer(DOMAIN c), x.amount = BandAmount(c, low, high),
         x.eligible = Takers(c, out, low, high), Refund(c, x)
  PROVE  Fairly(c, out, Append(ls, x), high) /\ Refunds(c, Append(ls, x))
<1> DEFINE w == Append(ls, x)
           band == BandAmount(c, low, high)
           takers == Takers(c, out, low, high)
<1>1. /\ Len(w) = Len(ls) + 1 /\ Len(ls) \in Nat /\ w[Len(ls) + 1] = x
      /\ \A i \in 1 .. Len(ls) : w[i] = ls[i]
  OBVIOUS
<1>2. ASSUME NEW p \in DOMAIN c  PROVE Won(w, p) = Entitled(c, out, high, p)
  <2>1. Won(w, p) = Won(ls, p) + IF p \in x.eligible THEN x.amount ELSE 0  BY WonAppend
  <2>2. Won(ls, p) = Entitled(c, out, low, p)  BY DEF Fairly
  <2>3. Entitled(c, out, high, p) = Entitled(c, out, low, p) + IF p \in takers THEN band ELSE 0
    BY GivenStep
  <2> HIDE DEF w, band, takers
  <2> QED  BY <2>1, <2>2, <2>3, Zenon DEF band, takers
<1> HIDE DEF w
<1>3. Fairly(c, out, w, high)  BY <1>2 DEF Fairly
<1>4. Refunds(c, w)
  <2> SUFFICES ASSUME NEW i \in 1 .. Len(ls) + 1  PROVE Refund(c, w[i])
    BY <1>1, Zenon DEF Refunds
  <2>1. CASE i = Len(ls) + 1  BY <1>1, <2>1
  <2>2. CASE i \in 1 .. Len(ls)
    <3>1. w[i] = ls[i]  BY <1>1, <2>2
    <3> QED  BY <2>2, <3>1 DEF Refunds
  <2> QED  BY <1>1, <2>1, <2>2
<1> QED  BY <1>3, <1>4 DEF w

(* Chips put on a layer.                                                   *)
LEMMA FairRaised ==
  ASSUME NEW c, Pot(c), NEW out, Staked(c, out), NEW low, NEW high, NextCut(c, out, low, high),
         NEW ls \in Seq(Layer(DOMAIN c)), Fairly(c, out, ls, low), Refunds(c, ls),
         NEW k \in 1 .. Len(ls), ls[k].eligible = Takers(c, out, low, high), ~ls[k].uncalled,
         NEW w, w = Raised(ls, k, BandAmount(c, low, high))
  PROVE  /\ Fairly(c, out, w, high) /\ Refunds(c, w)
         /\ w[k].eligible = ls[k].eligible /\ ~w[k].uncalled
<1> DEFINE band == BandAmount(c, low, high)
           takers == Takers(c, out, low, high)
<1>1. band \in Nat
  <2>1. low \in Nat /\ high \in Nat /\ low <= high  BY NextCutIs
  <2> QED  BY <2>1, BandIs
<1>2. ASSUME NEW p \in DOMAIN c  PROVE Won(w, p) = Entitled(c, out, high, p)
  <2>1. Won(w, p) = Won(ls, p) + IF p \in ls[k].eligible THEN band ELSE 0
    BY <1>1, WonRaised
  <2>2. Won(ls, p) = Entitled(c, out, low, p)  BY DEF Fairly
  <2>3. Entitled(c, out, high, p) = Entitled(c, out, low, p) + IF p \in takers THEN band ELSE 0
    BY GivenStep
  <2> HIDE DEF band, takers
  <2> QED  BY <2>1, <2>2, <2>3, Zenon DEF takers
<1>3. Fairly(c, out, w, high)  BY <1>2 DEF Fairly
<1>4. /\ Len(w) = Len(ls)
      /\ \A i \in 1 .. Len(ls) : /\ w[i].eligible = ls[i].eligible
                                 /\ w[i].uncalled = ls[i].uncalled
                                 /\ w[i].amount = ls[i].amount + IF i = k THEN band ELSE 0
  BY <1>1, RaisedIs
<1>5. \A i \in 1 .. Len(ls) : ls[i].amount \in Nat  BY ChipsAre
<1>6. Refunds(c, w)
  <2> SUFFICES ASSUME NEW i \in 1 .. Len(ls)  PROVE Refund(c, w[i])
    BY <1>4, Zenon DEF Refunds
  <2>1. CASE i = k
    <3>1. ~w[i].uncalled  BY <1>4, <2>1
    <3> QED  BY <3>1 DEF Refund
  <2>2. CASE i # k
    <3>1. /\ w[i].eligible = ls[i].eligible /\ w[i].uncalled = ls[i].uncalled
          /\ w[i].amount = ls[i].amount
      BY <1>4, <1>5, <2>2
    <3>2. Refund(c, ls[i])  BY DEF Refunds
    <3> QED  BY <3>1, <3>2 DEF Refund
  <2> QED  BY <2>1, <2>2
<1>7. w[k].eligible = ls[k].eligible /\ ~w[k].uncalled  BY <1>4
<1> QED  BY <1>3, <1>6, <1>7

(* What a fair split consists of.                                          *)
LEMMA FairIs ==
  ASSUME NEW c, NEW out, NEW pots, NEW l, Fair(c, out, pots, l)
  PROVE  /\ DOMAIN pots = SplitFields /\ pots.level = l /\ pots.carry = 0
         /\ pots.layers \in Seq(Layer(DOMAIN c)) /\ Len(pots.layers) \in Nat
         /\ pots.contested \in 0 .. Len(pots.layers)
         /\ pots.contested # 0 => ~pots.layers[pots.contested].uncalled
         /\ Fairly(c, out, pots.layers, l) /\ Refunds(c, pots.layers)
         /\ TopHeld(c, out, pots, l)
BY DEF Fair, Layered

(* A band one player paid for goes back to that player.                    *)
LEMMA FairAlone ==
  ASSUME NEW c, Pot(c), NEW out, Staked(c, out), NEW low, NEW high, NextCut(c, out, low, high),
         NEW pots, Fair(c, out, pots, low), Unmatched(c, out, low, high),
         NEW u, u = AddBand(c, out, pots, high)
  PROVE  Fair(c, out, u, high)
<1> DEFINE band == BandAmount(c, low, high)
           top == TopLive(c, out)
           next == [pots EXCEPT !.level = high]
           refund == [amount |-> band, eligible |-> Funders(c, low), uncalled |-> TRUE]
           w == Append(pots.layers, refund)
<1>1. /\ DOMAIN pots = SplitFields /\ pots.level = low /\ pots.carry = 0
      /\ pots.layers \in Seq(Layer(DOMAIN c)) /\ Len(pots.layers) \in Nat
      /\ pots.contested \in 0 .. Len(pots.layers)
      /\ pots.contested # 0 => ~pots.layers[pots.contested].uncalled
      /\ Fairly(c, out, pots.layers, low) /\ Refunds(c, pots.layers)
      /\ TopHeld(c, out, pots, low)
  BY FairIs
<1>2. low \in Nat /\ high \in Nat /\ low < high  BY NextCutIs
<1>3. Layered(c, out, u, high)
  <2>1. low <= high /\ Layered(c, out, pots, low)  BY <1>2 DEF Fair
  <2> QED  BY <1>2, <2>1, BandSplit
<1>4. band \in Nat  BY <1>2, BandIs
<1>5. PICK q \in DOMAIN c :
         /\ Funders(c, low) = {q} /\ c[q] = high /\ Others(c, q) = low
         /\ \A p \in DOMAIN c \ {q} : c[p] <= low
         /\ band = high - low
  BY BandAlone
<1>6. Takers(c, out, low, high) = Funders(c, low)  BY Zenon DEF Takers
<1>7. u = [next EXCEPT !.layers = Append(@, refund)]  BY <1>1, Zenon DEF AddBand
<1> HIDE DEF band
<1>8. /\ refund \in Layer(DOMAIN c) /\ refund.amount = band
      /\ refund.eligible = Funders(c, low) /\ Refund(c, refund)
  BY <1>4, <1>5 DEF Layer, Refund
<1>9. u = [next EXCEPT !.layers = w]  BY <1>1, <1>7 DEF SplitFields
<1>10. Fairly(c, out, w, high) /\ Refunds(c, w)
  <2> HIDE DEF refund
  <2> QED  BY <1>1, <1>6, <1>8, FairAdded DEF band
<1>11. pots.contested # 0 => w[pots.contested] = pots.layers[pots.contested]
  <2> HIDE DEF refund
  <2> QED  BY <1>1
<1> HIDE DEF w, top
<1>12. /\ u.level = high /\ u.layers = w /\ u.contested = pots.contested /\ u.carry = 0
  BY <1>1, <1>9 DEF SplitFields
<1>13. TopHeld(c, out, u, high)
  <2> SUFFICES ASSUME high >= top, \E x \in DOMAIN c : c[x] > top  PROVE TopLayer(c, out, u)
    BY DEF TopHeld, top
  <2>1. PICK x \in DOMAIN c : c[x] > top  OBVIOUS
  <2>2. PICK z \in DOMAIN c : c[z] = top  BY TopIsCut DEF top
  <2>3. /\ top \in Nat /\ (top <= low \/ high <= top)
        /\ \A p \in DOMAIN c : c[p] \in Nat
    BY TopIsCut, NextCutIs, PotIs DEF top
  <2>4. low >= top
    <3> SUFFICES ASSUME ~(low >= top)  PROVE FALSE
      OBVIOUS
    <3>1. top = high  BY <1>2, <2>3
    <3>2. x # z  BY <2>1, <2>2, <2>3
    <3>3. c[x] > low /\ c[z] > low  BY <1>2, <2>1, <2>2, <2>3, <3>1
    <3>4. x = q /\ z = q  BY <1>2, <1>5, <2>3, <3>3
    <3> QED  BY <3>2, <3>4
  <2>5. TopLayer(c, out, pots)  BY <1>1, <2>1, <2>4 DEF TopHeld, top
  <2> QED  BY <1>11, <1>12, <2>5 DEF TopLayer
<1> QED  BY <1>1, <1>3, <1>10, <1>11, <1>12, <1>13 DEF Fair

----------------------------------------------------------------------------
(* A band that players still in paid for makes a layer they contest.       *)
LEMMA FairContested ==
  ASSUME NEW c, Pot(c), NEW out, Staked(c, out), NEW low, NEW high, NextCut(c, out, low, high),
         NEW pots, Fair(c, out, pots, low), ~Unmatched(c, out, low, high),
         high <= TopLive(c, out), NEW u, u = AddBand(c, out, pots, high)
  PROVE  Fair(c, out, u, high)
<1> DEFINE band == BandAmount(c, low, high)
           top == TopLive(c, out)
           live == Contenders(c, out, high)
           n == Len(pots.layers)
           next == [pots EXCEPT !.level = high]
           layer == [amount |-> band + pots.carry, eligible |-> live, uncalled |-> FALSE]
           w == Append(pots.layers, layer)
<1>1. /\ DOMAIN pots = SplitFields /\ pots.level = low /\ pots.carry = 0
      /\ pots.layers \in Seq(Layer(DOMAIN c)) /\ n \in Nat
      /\ Fairly(c, out, pots.layers, low) /\ Refunds(c, pots.layers)
  BY FairIs
<1>2. low \in Nat /\ high \in Nat /\ low < high  BY NextCutIs
<1>3. Layered(c, out, u, high)
  <2>1. low <= high /\ Layered(c, out, pots, low)  BY <1>2 DEF Fair
  <2> QED  BY <1>2, <2>1, BandSplit
<1>4. band \in Nat  BY <1>2, BandIs
<1>5. /\ top \in Nat /\ \E z \in DOMAIN c \ out : c[z] = top
  BY TopIsCut
<1>6. live # {} /\ live \in SUBSET DOMAIN c
  <2>1. PICK z \in DOMAIN c \ out : c[z] = top  BY <1>5
  <2>2. z \in live  BY <1>2, <1>5, <2>1 DEF Contenders
  <2> QED  BY <2>2 DEF Contenders
<1>7. Takers(c, out, low, high) = live  BY Zenon DEF Takers
<1>8. u = [next EXCEPT !.layers = Append(@, layer), !.contested = n + 1, !.carry = 0]
  BY <1>1, <1>6, Zenon DEF AddBand
<1> HIDE DEF band, live
<1>9. /\ layer \in Layer(DOMAIN c) /\ layer.amount = band /\ layer.eligible = live
      /\ ~layer.uncalled
  BY <1>1, <1>4, <1>6 DEF Layer
<1>10. u = [next EXCEPT !.layers = w, !.contested = n + 1, !.carry = 0]
  BY <1>1, <1>8 DEF SplitFields
<1> HIDE DEF layer
<1>11. Fairly(c, out, w, high) /\ Refunds(c, w)
  <2>1. Refund(c, layer)  BY <1>9 DEF Refund
  <2> QED  BY <1>1, <1>7, <1>9, <2>1, FairAdded DEF band
<1>12. w[n + 1] = layer  BY <1>1
<1> HIDE DEF w, top, n
<1>13. /\ u.level = high /\ u.layers = w /\ u.contested = n + 1 /\ u.carry = 0
  BY <1>1, <1>10 DEF SplitFields
<1>14. u.contested # 0 /\ ~u.layers[u.contested].uncalled  BY <1>1, <1>9, <1>12, <1>13
<1>15. TopHeld(c, out, u, high)
  <2> SUFFICES ASSUME high >= top  PROVE TopLayer(c, out, u)
    BY DEF TopHeld, top
  <2>1. high = top
    <3>1. high <= top  BY DEF top
    <3> QED  BY <1>2, <1>5, <3>1
  <2>2. live = Contenders(c, out, top)  BY <2>1 DEF live
  <2> QED  BY <1>9, <1>12, <1>13, <1>14, <2>2 DEF TopLayer, top
<1> QED  BY <1>3, <1>11, <1>13, <1>14, <1>15 DEF Fair

(* Dead money above every live player joins the layer the deepest of them  *)
(* contest.                                                                *)
LEMMA FairRolled ==
  ASSUME NEW c, Pot(c), NEW out, Staked(c, out), NEW low, NEW high, NextCut(c, out, low, high),
         NEW pots, Fair(c, out, pots, low), ~Unmatched(c, out, low, high),
         high > TopLive(c, out), NEW u, u = AddBand(c, out, pots, high)
  PROVE  Fair(c, out, u, high)
<1> DEFINE band == BandAmount(c, low, high)
           top == TopLive(c, out)
           k == pots.contested
           next == [pots EXCEPT !.level = high]
           w == Raised(pots.layers, k, band)
<1>1. /\ DOMAIN pots = SplitFields /\ pots.level = low /\ pots.carry = 0
      /\ pots.layers \in Seq(Layer(DOMAIN c)) /\ Len(pots.layers) \in Nat
      /\ k \in 0 .. Len(pots.layers)
      /\ k # 0 => ~pots.layers[k].uncalled
      /\ Fairly(c, out, pots.layers, low) /\ Refunds(c, pots.layers)
      /\ TopHeld(c, out, pots, low)
  BY FairIs
<1>2. low \in Nat /\ high \in Nat /\ low < high  BY NextCutIs
<1>3. Layered(c, out, u, high)
  <2>1. low <= high /\ Layered(c, out, pots, low)  BY <1>2 DEF Fair
  <2> QED  BY <1>2, <2>1, BandSplit
<1>4. /\ top \in Nat /\ top <= low /\ \A p \in DOMAIN c \ out : c[p] \in Nat /\ c[p] <= top
  <2>1. /\ top \in Nat /\ top \in Cut(c, out)
        /\ \A p \in DOMAIN c \ out : c[p] \in Nat /\ c[p] <= top
    BY TopIsCut
  <2>2. top <= low \/ high <= top  BY <2>1, NextCutIs
  <2> QED  BY <1>2, <2>1, <2>2
<1>5. Contenders(c, out, high) = {}
  BY <1>2, <1>4 DEF Contenders
<1>6. Takers(c, out, low, high) = Contenders(c, out, top)
  <2>1. ~(high <= top)  BY <1>2, <1>4
  <2> QED  BY <2>1, Zenon DEF Takers
<1>7. TopLayer(c, out, pots)
  <2>1. PICK x \in DOMAIN c : c[x] = high  BY NextCutIs
  <2>2. low >= top /\ c[x] > top  BY <1>2, <1>4, <2>1
  <2> QED  BY <1>1, <2>2 DEF TopHeld
<1>8. /\ k \in 1 .. Len(pots.layers) /\ ~pots.layers[k].uncalled
      /\ pots.layers[k].eligible = Contenders(c, out, top)
  BY <1>1, <1>7 DEF TopLayer
<1>9. u = RollDown(next, band)  BY <1>1, <1>5, Zenon DEF AddBand
<1> HIDE DEF band
<1>10. next.contested = k /\ k # 0 /\ next.layers = pots.layers  BY <1>1, <1>8 DEF SplitFields
<1>11. u = [next EXCEPT !.layers[next.contested].amount = @ + band]
  BY <1>9, <1>10 DEF RollDown
<1>12. u = [next EXCEPT !.layers = w]  BY <1>1, <1>10, <1>11 DEF SplitFields, Raised
<1>13. w = Raised(pots.layers, k, band)  OBVIOUS
<1> HIDE DEF w
<1>14. /\ u.level = high /\ u.layers = w /\ u.contested = k /\ u.carry = 0
  BY <1>1, <1>12 DEF SplitFields
<1>15. /\ Fairly(c, out, w, high) /\ Refunds(c, w)
       /\ w[k].eligible = pots.layers[k].eligible /\ ~w[k].uncalled
  <2> HIDE DEF k
  <2> QED  BY <1>1, <1>6, <1>8, <1>13, FairRaised DEF band, top
<1>16. TopHeld(c, out, u, high)
  <2>1. TopLayer(c, out, u)  BY <1>8, <1>14, <1>15 DEF TopLayer
  <2> QED  BY <2>1 DEF TopHeld
<1> QED  BY <1>3, <1>14, <1>15, <1>16 DEF Fair

LEMMA FairBand ==
  ASSUME NEW c, Pot(c), NEW out, Staked(c, out), NEW low, NEW high, NextCut(c, out, low, high),
         NEW pots, Fair(c, out, pots, low)
  PROVE  Fair(c, out, AddBand(c, out, pots, high), high)
<1>1. high \in Nat /\ TopLive(c, out) \in Nat  BY NextCutIs, TopIsCut
<1>2. CASE Unmatched(c, out, low, high)  BY <1>2, FairAlone
<1>3. CASE ~Unmatched(c, out, low, high) /\ high <= TopLive(c, out)  BY <1>3, FairContested
<1>4. CASE ~Unmatched(c, out, low, high) /\ high > TopLive(c, out)  BY <1>4, FairRolled
<1> QED  BY <1>1, <1>2, <1>3, <1>4

LEMMA AllFair ==
  ASSUME NEW c, Pot(c), NEW out, Staked(c, out)
  PROVE  \E pots : /\ Fair(c, out, pots, Max(Cut(c, out)))
                   /\ ComputeSidePots(c, out) = PlaceCarry(c, pots)
<1> DEFINE D == Cut(c, out)
           g == CHOOSE h : Splits(h, c, out, D)
           G == {l \in D : Fair(c, out, g[l], l)}
<1>1. D \in SUBSET Nat /\ 0 \in D /\ Max(D) \in D  BY CutIs
<1>2. Splits(g, c, out, D)  BY SplitExists
<1>3. ComputeSidePots(c, out) = PlaceCarry(c, g[Max(D)])  BY SplitIs
<1>4. \A l \in D : g[l] = IF l = 0 THEN NoPots ELSE AddBand(c, out, g[Under(D, l)], l)
  <2> HIDE DEF g
  <2> QED  BY <1>2, Zenon DEF Splits
<1> HIDE DEF g
<1>5. 0 \in G  BY <1>1, <1>4, NothingGiven
<1>6. ASSUME NEW l \in D \ {0}, Under(D, l) \in G  PROVE l \in G
  <2>1. Fair(c, out, g[Under(D, l)], Under(D, l))  BY <1>6
  <2>2. g[l] = AddBand(c, out, g[Under(D, l)], l)  BY <1>4
  <2>3. NextCut(c, out, Under(D, l), l)  BY DEF NextCut
  <2> HIDE DEF D
  <2>4. Fair(c, out, g[l], l)  BY <2>1, <2>2, <2>3, FairBand
  <2> QED  BY <2>4
<1>7. \A l \in D : l \in G
  <2> HIDE DEF D, G
  <2> QED  BY <1>1, <1>5, <1>6, AllLevels
<1>8. Fair(c, out, g[Max(D)], Max(D))  BY <1>1, <1>7
<1> QED  BY <1>3, <1>8

----------------------------------------------------------------------------
(* A whole pot.                                                            *)
LEMMA SplitIsFair ==
  ASSUME NEW c, Pot(c), NEW out, Staked(c, out)
  PROVE  /\ Refunds(c, ComputeSidePots(c, out))
         /\ \A p \in DOMAIN c : Winnable(ComputeSidePots(c, out), p) = Share(c, out, p)
<1> DEFINE top == Max(Cut(c, out))
           ls == ComputeSidePots(c, out)
<1>1. PICK pots : Fair(c, out, pots, top) /\ ls = PlaceCarry(c, pots)  BY AllFair
<1>2. top \in Nat /\ Cut(c, out) \in SUBSET Nat /\ (\A l \in Cut(c, out) : l <= top)
      /\ \A p \in DOMAIN c : c[p] \in Nat /\ c[p] <= top
  <2>1. /\ Cut(c, out) \in SUBSET Nat /\ 0 \in Cut(c, out) /\ Whole(c) \in Nat
        /\ \A l \in Cut(c, out) : l <= Whole(c)
    BY CutIs, PotIs
  <2>2. \A l \in Cut(c, out) : l <= top  BY <2>1, MaxIs
  <2>3. top \in Nat /\ \A p \in DOMAIN c : c[p] \in Nat /\ c[p] <= top  BY CutIs, PotIs
  <2> QED  BY <2>1, <2>2, <2>3
<1> HIDE DEF top
<1>3. /\ pots.carry = 0 /\ pots.layers \in Seq(Layer(DOMAIN c))
      /\ Fairly(c, out, pots.layers, top) /\ Refunds(c, pots.layers)
  BY <1>1, FairIs
<1>4. ls = pots.layers  BY <1>1, <1>3 DEF PlaceCarry
<1> HIDE DEF ls
<1>5. ASSUME NEW p \in DOMAIN c  PROVE Winnable(ls, p) = Share(c, out, p)
  <2>1. Winnable(ls, p) = Entitled(c, out, top, p)
    <3>1. Won(ls, p) = Winnable(ls, p)  BY <1>3, <1>4, WonIs
    <3> QED  BY <1>3, <1>4, <3>1 DEF Fairly
  <2>2. CASE p \in out
    <3> DEFINE d == c[p] - Others(c, p)
    <3>1. c[p] \in Nat /\ Others(c, p) \in Nat /\ c[p] <= top  BY <1>2, OthersIs
    <3>2. Low(top, c[p]) = c[p]  BY <1>2, <3>1 DEF Low
    <3>3. Over(c, top, p) = IF c[p] <= Others(c, p) THEN 0 ELSE d  BY <3>2 DEF Over
    <3>4. Share(c, out, p) = Max({0, d})  BY <2>2 DEF Share
    <3>5. d \in Int /\ (c[p] <= Others(c, p) <=> d <= 0)  BY <3>1
    <3> HIDE DEF d
    <3>6. Max({0, d}) = IF d <= 0 THEN 0 ELSE d
      <4>1. \E x \in {0, d} : \A y \in {0, d} : x >= y  BY <3>5
      <4> QED  BY <3>5, <4>1 DEF Max
    <3>7. Entitled(c, out, top, p) = Over(c, top, p)  BY <2>2 DEF Entitled
    <3> QED  BY <2>1, <3>3, <3>4, <3>5, <3>6, <3>7
  <2>3. CASE p \notin out
    <3> DEFINE r == Reach(c, out, p)
    <3>1. r \in Cut(c, out) /\ r \in Nat  BY <2>3, ReachIs
    <3>2. r <= top  BY <1>2, <3>1
    <3>3. Low(top, r) = r  BY <1>2, <3>1, <3>2 DEF Low
    <3>4. Entitled(c, out, top, p) = UpTo(c, r)  BY <2>3, <3>3 DEF Entitled
    <3>5. Share(c, out, p) = SumFunction(Capped(c, r))  BY <2>3 DEF Share
    <3>6. DOMAIN Capped(c, r) = DOMAIN c  BY DEF Capped
    <3> HIDE DEF r
    <3>7. SumFunction(Capped(c, r)) = UpTo(c, r)  BY <3>6, Zenon DEF SumFunction, UpTo
    <3> QED  BY <2>1, <3>4, <3>5, <3>7
  <2> QED  BY <2>2, <2>3
<1>6. Refunds(c, ls)  BY <1>3, <1>4
<1> QED  BY <1>5, <1>6 DEF ls

----------------------------------------------------------------------------
(* PotSplit: a pot, and its split once it has been made.                   *)
PotInv ==
  /\ contributed \in [Bettors -> Nat]
  /\ layers = <<>> \/ layers = ComputeSidePots(contributed, folded)

LEMMA PotStays == PotSpec => []PotInv
<1>1. PotInit => PotInv
  <2> SUFFICES ASSUME PotInit  PROVE PotInv
    OBVIOUS
  <2>1. contributed \in [Bettors -> 0 .. MaxIn] /\ layers = <<>>  BY DEF PotInit
  <2>2. contributed \in [Bettors -> Nat]  BY <2>1, PotAssumption
  <2> QED  BY <2>1, <2>2 DEF PotInv
<1>2. PotInv /\ [PotNext]_potVars => PotInv'
  <2> SUFFICES ASSUME PotInv, [PotNext]_potVars  PROVE PotInv'
    OBVIOUS
  <2>1. CASE SplitPot
    <3>1. /\ layers' = ComputeSidePots(contributed, folded)
          /\ contributed' = contributed /\ folded' = folded
      BY <2>1 DEF SplitPot
    <3> QED  BY <3>1, Zenon DEF PotInv
  <2>2. CASE UNCHANGED potVars
    <3>1. contributed' = contributed /\ folded' = folded /\ layers' = layers
      BY <2>2 DEF potVars
    <3> QED  BY <3>1, Zenon DEF PotInv
  <2> QED  BY <2>1, <2>2 DEF PotNext
<1> QED  BY <1>1, <1>2, PTL DEF PotSpec

LEMMA BettorsPut ==
  ASSUME contributed \in [Bettors -> Nat]
  PROVE  Pot(contributed) /\ DOMAIN contributed = Bettors
<1>1. DOMAIN contributed = Bettors  OBVIOUS
<1> QED  BY <1>1, PotAssumption DEF Pot

LEMMA SomebodyIsIn ==
  ASSUME Pot(contributed), LiveIn # {}
  PROVE  Staked(contributed, folded)
<1>1. PICK p \in DOMAIN contributed \ folded : contributed[p] > 0  BY DEF LiveIn, In
<1>2. contributed[p] \in Nat /\ contributed[p] <= TopLive(contributed, folded)
      /\ TopLive(contributed, folded) \in Nat
  BY PotIs, TopLiveIs
<1> QED  BY <1>1, <1>2 DEF Staked

(* The layers a pot is split into hold its chips, no more and no less.     *)
THEOREM ChipsAreLayered == PotSpec => []EveryChipLayered
<1>1. PotInv => EveryChipLayered
  <2> SUFFICES ASSUME PotInv, layers # <<>>
               PROVE  SumFunction(Amounts(layers)) = SumFunction(contributed)
    BY DEF EveryChipLayered
  <2>1. Pot(contributed)  BY BettorsPut DEF PotInv
  <2>2. Chips(layers) = Whole(contributed)
    <3>1. layers = ComputeSidePots(contributed, folded)  BY DEF PotInv
    <3> QED  BY <2>1, <3>1, EveryChipIsLayered
  <2> QED  BY <2>2, Zenon DEF Chips, Whole, SumFunction
<1> QED  BY <1>1, PotStays, PTL

(* Out of the layers each player can win what the rules of the game give   *)
(* that player, whatever was put in and whoever folded.                    *)
THEOREM SharesAreFair == PotSpec => []FairShares
<1>1. PotInv => FairShares
  <2> SUFFICES ASSUME PotInv, layers # <<>>, LiveIn # {}, NEW p \in Bettors
               PROVE  Winnable(layers, p) = Share(contributed, folded, p)
    BY DEF FairShares
  <2>1. Pot(contributed) /\ DOMAIN contributed = Bettors  BY BettorsPut DEF PotInv
  <2>2. Staked(contributed, folded)  BY <2>1, SomebodyIsIn
  <2>3. layers = ComputeSidePots(contributed, folded)  BY DEF PotInv
  <2> QED  BY <2>1, <2>2, <2>3, SplitIsFair
<1> QED  BY <1>1, PotStays, PTL

(* What is given back as a refund is what nobody but its owner paid for.   *)
THEOREM RefundsAreUnmatched == PotSpec => []RefundIsUnmatched
<1>1. PotInv => RefundIsUnmatched
  <2> SUFFICES ASSUME PotInv, LiveIn # {}, NEW i \in DOMAIN layers, layers[i].uncalled
               PROVE  \E p \in Bettors :
                        /\ layers[i].eligible = {p}
                        /\ layers[i].amount = contributed[p] - Others(contributed, p)
    BY DEF RefundIsUnmatched
  <2>1. Pot(contributed) /\ DOMAIN contributed = Bettors  BY BettorsPut DEF PotInv
  <2>2. Staked(contributed, folded)  BY <2>1, SomebodyIsIn
  <2>3. layers = ComputeSidePots(contributed, folded)  BY DEF PotInv
  <2>4. Refunds(contributed, layers)  BY <2>1, <2>2, <2>3, SplitIsFair
  <2>5. layers \in Seq(Layer(DOMAIN contributed))  BY <2>1, <2>3, EveryChipIsLayered
  <2>6. i \in 1 .. Len(layers)  BY <2>5
  <2>7. Refund(contributed, layers[i])  BY <2>4, <2>6 DEF Refunds
  <2> QED  BY <2>1, <2>7 DEF Refund
<1> QED  BY <1>1, PotStays, PTL

----------------------------------------------------------------------------
(* Seats: a sequence of players, none of them twice.                       *)
Distinct(s) == \A i, j \in DOMAIN s : s[i] = s[j] => i = j

Seats(t) == t.seats \in Seq(Players) /\ Distinct(t.seats)

LEMMA SeatOfIs ==
  ASSUME NEW t, Seats(t), NEW p \in Seated(t)
  PROVE  /\ SeatOf(t, p) \in 1 .. Len(t.seats) /\ t.seats[SeatOf(t, p)] = p
         /\ \A i \in 1 .. Len(t.seats) : t.seats[i] = p => i = SeatOf(t, p)
<1>1. PICK i \in DOMAIN t.seats : t.seats[i] = p  BY DEF Seated, ToSet
<1>2. DOMAIN t.seats = 1 .. Len(t.seats)  BY DEF Seats
<1> QED  BY <1>1, <1>2 DEF SeatOf, Seats, Distinct

LEMMA SeatedAt ==
  ASSUME NEW t, Seats(t), NEW i \in 1 .. Len(t.seats)
  PROVE  t.seats[i] \in Seated(t) /\ SeatOf(t, t.seats[i]) = i /\ t.seats[i] \in Players
<1>1. DOMAIN t.seats = 1 .. Len(t.seats)  BY DEF Seats
<1>2. t.seats[i] \in Seated(t)  BY <1>1 DEF Seated, ToSet
<1> QED  BY <1>1, <1>2, SeatOfIs DEF Seats

LEMMA SeatedArePlayers ==
  ASSUME NEW t, Seats(t)
  PROVE  Seated(t) \subseteq Players
BY DEF Seats, Seated, ToSet

LEMMA AsManySeats ==
  ASSUME NEW t, Seats(t)
  PROVE  IsFiniteSet(Seated(t)) /\ Cardinality(Seated(t)) = Len(t.seats)
<1>1. /\ Len(t.seats) \in Nat /\ DOMAIN t.seats = 1 .. Len(t.seats)
      /\ t.seats \in [1 .. Len(t.seats) -> Seated(t)]
  BY DEF Seats, Seated, ToSet
<1>2. t.seats \in Injection(1 .. Len(t.seats), Seated(t))
  BY <1>1 DEF Seats, Distinct, Injection, IsInjective
<1>3. t.seats \in Surjection(1 .. Len(t.seats), Seated(t))
  BY <1>1 DEF Surjection, Seated, ToSet
<1>4. ExistsBijection(1 .. Len(t.seats), Seated(t))
  BY <1>2, <1>3, Zenon DEF Bijection, ExistsBijection
<1>5. IsFiniteSet(1 .. Len(t.seats)) /\ Cardinality(1 .. Len(t.seats)) = Len(t.seats)
  BY <1>1, FS_Interval
<1> QED  BY <1>4, <1>5, FS_Bijection

----------------------------------------------------------------------------
(* Around the table.  Steps(n, i, j) is how many seats clockwise j is from *)
(* i, which may be one past the last.                                      *)
Steps(n, i, j) == IF j >= i THEN j - i ELSE j - i + n

Around(n, i, d) == ((i - 1 + d) % n) + 1

LEMMA AroundTable ==
  ASSUME NEW n \in Nat, NEW i \in 1 .. n + 1, NEW d \in 0 .. n - 1
  PROVE  /\ Around(n, i, d) \in 1 .. n
         /\ \A j \in 1 .. n : Around(n, i, d) = j <=> d = Steps(n, i, j)
<1> DEFINE k == IF i - 1 + d < n THEN i - 1 + d ELSE i - 1 + d - n
<1>1. k \in 0 .. n - 1  OBVIOUS
<1>2. (i - 1 + d) % n = k  BY Z3
<1> HIDE DEF k
<1>3. ((i - 1 + d) % n) + 1 \in 1 .. n  BY <1>1, <1>2
<1>4. ASSUME NEW j \in 1 .. n  PROVE k + 1 = j <=> d = Steps(n, i, j)
  BY DEF k, Steps
<1> QED  BY <1>2, <1>3, <1>4 DEF Around

(* FirstFrom is the member of S that is the fewest seats away.             *)
Nearest(t, i, S, p) ==
  /\ p \in S /\ p \in Seated(t)
  /\ \A q \in S \cap Seated(t) :
       Steps(Len(t.seats), i, SeatOf(t, p)) <= Steps(Len(t.seats), i, SeatOf(t, q))

LEMMA FirstFromIs ==
  ASSUME NEW t, Seats(t), NEW i \in 1 .. Len(t.seats) + 1, NEW S, S \cap Seated(t) # {}
  PROVE  Nearest(t, i, S, FirstFrom(t, i, S))
<1> DEFINE n == Len(t.seats)
           at(d) == t.seats[Around(n, i, d)]
           T == {d \in 0 .. n - 1 : at(d) \in S}
           m == Min(T)
<1>1. n \in Nat  BY DEF Seats
<1>2. ASSUME NEW q \in S \cap Seated(t)
      PROVE  LET d == Steps(n, i, SeatOf(t, q)) IN d \in T /\ at(d) = q
  <2> DEFINE d == Steps(n, i, SeatOf(t, q))
  <2>1. SeatOf(t, q) \in 1 .. n /\ t.seats[SeatOf(t, q)] = q  BY SeatOfIs
  <2>2. i \in 1 .. n + 1  OBVIOUS
  <2> HIDE DEF n
  <2>3. d \in 0 .. n - 1  BY <1>1, <2>1, <2>2 DEF Steps
  <2> HIDE DEF d
  <2>4. Around(n, i, d) = SeatOf(t, q)  BY <1>1, <2>1, <2>2, <2>3, AroundTable DEF d
  <2> QED  BY <2>1, <2>3, <2>4 DEF d
<1>3. T # {} /\ T \in SUBSET Nat  BY <1>1, <1>2
<1>4. m \in T /\ \A x \in T : m <= x  BY <1>3, MinIs
<1>5. m \in 0 .. n - 1 /\ at(m) \in S  BY <1>4
<1>6. /\ Around(n, i, m) \in 1 .. n
      /\ \A j \in 1 .. n : Around(n, i, m) = j <=> m = Steps(n, i, j)
  <2>1. i \in 1 .. n + 1  OBVIOUS
  <2> HIDE DEF n, m
  <2> QED  BY <1>1, <1>5, <2>1, AroundTable
<1>7. at(m) \in Seated(t) /\ SeatOf(t, at(m)) = Around(n, i, m)
  BY <1>6, SeatedAt
<1>8. Steps(n, i, SeatOf(t, at(m))) = m  BY <1>6, <1>7
<1>9. FirstFrom(t, i, S) = at(m)  BY DEF FirstFrom, Around
<1> HIDE DEF at, T, m
<1>10. \A q \in S \cap Seated(t) : m <= Steps(n, i, SeatOf(t, q))
  BY <1>2, <1>4
<1> QED  BY <1>5, <1>7, <1>8, <1>9, <1>10 DEF Nearest

LEMMA FirstFromSeated ==
  ASSUME NEW t, Seats(t), NEW i \in 1 .. Len(t.seats) + 1, NEW S, S \cap Seated(t) # {}
  PROVE  /\ FirstFrom(t, i, S) \in S \cap Seated(t)
         /\ SeatOf(t, FirstFrom(t, i, S)) \in 1 .. Len(t.seats)
         /\ FirstFrom(t, i, S) \in Players
BY FirstFromIs, SeatOfIs, SeatedArePlayers DEF Nearest

----------------------------------------------------------------------------
(* The inductive invariant, of a table t.                                  *)
Fields ==
  {"seats", "stack", "in", "state", "ready", "exiting", "owes", "post", "dealer",
   "drawn", "stage", "dealt", "round", "runout", "rake"}

RoundFields ==
  {"stack", "contributed", "folded", "allIn", "acted", "currentBet", "minRaise", "lastActor"}

StreetSet == {"PreFlop", "Flop", "Turn", "River"}
InHand    == {"Active", "AllIn", "Folded", "SittingOut"}

Shape(t) ==
  /\ DOMAIN t = Fields
  /\ DOMAIN t.stack = Players /\ DOMAIN t.in = Players /\ DOMAIN t.state = Players

(* The seats: who sits, who has no business at the table, and the button.  *)
Sits(t) ==
  /\ Shape(t)
  /\ Seats(t)
  /\ \A p \in Players : p \in Seated(t) <=> t.state[p] # "Away"
  /\ t.ready \subseteq Seated(t) /\ t.exiting \subseteq Seated(t)
  /\ t.dealer \in 1 .. Len(t.seats) + 1

Staged(t) ==
  /\ t.stage \in StreetSet \cup {"Waiting", "Complete"}
  /\ DOMAIN t.runout = {"phase", "split", "twice"}
  /\ t.runout.split \in StreetSet
  /\ t.runout.phase = 1 => t.runout.split # "River"

(* The hand: who was dealt in is still seated and still of the hand.       *)
Dealt(t) ==
  /\ t.dealt # {} /\ t.dealt \subseteq Seated(t)
  /\ \A p \in t.dealt : t.state[p] \in InHand

(* Nobody's chips are topped up while the betting round counts them.       *)
ChipsStay == "rebuy in hand" \notin Commands

(* The betting round r against the hand: whoever is dealt in and not in    *)
(* the round has folded.                                                   *)
Fits(t, r) ==
  /\ DOMAIN r = RoundFields
  /\ DOMAIN r.contributed = DOMAIN r.stack
  /\ DOMAIN r.stack \subseteq t.dealt
  /\ r.lastActor \in t.dealt \cup {Nobody}
  /\ \A p \in t.dealt \ DOMAIN r.stack : t.state[p] = "Folded"
  /\ \A p \in DOMAIN r.stack :
       /\ p \in r.folded <=> t.state[p] = "Folded"
       /\ p \in r.allIn <=> t.state[p] = "AllIn"
       /\ ChipsStay /\ p \notin r.allIn => t.stack[p] = r.stack[p]

Sound(t) ==
  /\ Sits(t) /\ Staged(t)
  /\ InProgress(t) => Dealt(t) /\ Fits(t, t.round)

(* The blinds put everybody all-in, or somebody is waited for.             *)
Blinded(t) == t.stage = "PreFlop" /\ t.round.lastActor = Nobody /\ IsComplete(t.round)

Awaits(t) ==
  InProgress(t) /\ Waited(t) = {} => AwaitingRunout(t) \/ Blinded(t)

LEMMA StreetsAre ==
  /\ \A t : InProgress(t) <=> t.stage \in StreetSet
  /\ \A s \in StreetSet \ {"River"} : NextStreet[s] \in StreetSet /\ NextStreet[s] # s
  /\ NextStreet["PreFlop"] = "Flop" /\ NextStreet["Flop"] = "Turn" /\ NextStreet["Turn"] = "River"
<1>1. Streets = <<"PreFlop", "Flop", "Turn", "River">>  BY DEF Streets
<1>2. ToSet(Streets) = {Streets[i] : i \in 1 .. 4}  BY <1>1 DEF ToSet
<1>3. ToSet(Streets) = StreetSet  BY <1>1, <1>2 DEF StreetSet
<1>4. \A t : InProgress(t) <=> t.stage \in StreetSet  BY <1>3, Zenon DEF InProgress
<1> QED  BY <1>4 DEF NextStreet, StreetSet

(* The button and the blinds are seats of the hand.                        *)
LEMMA ButtonSeated ==
  ASSUME NEW t, Seats(t), t.dealer \in Nat \ {0}, NEW S, S # {}, S \subseteq Seated(t)
  PROVE  Button(t, S) \in S /\ Button(t, S) \in Seated(t)
<1> DEFINE i == IF t.dealer <= Len(t.seats) THEN t.dealer ELSE 1
<1>1. i \in 1 .. Len(t.seats) + 1  BY DEF Seats
<1> HIDE DEF i
<1>2. FirstFrom(t, i, S) \in S \cap Seated(t)  BY <1>1, FirstFromSeated
<1> QED  BY <1>2 DEF Button, i

LEMMA AfterSeated ==
  ASSUME NEW t, Seats(t), NEW p \in Seated(t), NEW S, S # {}, S \subseteq Seated(t)
  PROVE  After(t, p, S) \in S /\ After(t, p, S) \in Seated(t)
<1>1. SeatOf(t, p) + 1 \in 1 .. Len(t.seats) + 1
  <2>1. SeatOf(t, p) \in 1 .. Len(t.seats) /\ Len(t.seats) \in Nat  BY SeatOfIs DEF Seats
  <2> QED  BY <2>1
<1>2. FirstFrom(t, SeatOf(t, p) + 1, S) \in S \cap Seated(t)  BY <1>1, FirstFromSeated
<1> QED  BY <1>2 DEF After

LEMMA BlindsSeated ==
  ASSUME NEW t, Seats(t), t.dealer \in Nat \ {0}, NEW S, S # {}, S \subseteq Seated(t)
  PROVE  BigBlindSeat(t, S) \in S /\ BigBlindSeat(t, S) \in Seated(t)
<1>1. Button(t, S) \in S /\ Button(t, S) \in Seated(t)  BY ButtonSeated
<1>2. SmallBlindSeat(t, S) \in Seated(t)  BY <1>1, AfterSeated DEF SmallBlindSeat
<1> QED  BY <1>2, AfterSeated DEF BigBlindSeat

----------------------------------------------------------------------------
(* Going on with the hand, to the next street or to its end, leaves the    *)
(* seats and who is dealt in alone; a street that goes on keeps its round. *)
Onward(t, u) ==
  /\ u.seats = t.seats /\ u.ready = t.ready /\ u.exiting = t.exiting /\ u.dealt = t.dealt
  /\ InProgress(u) => u.dealer = t.dealer
  /\ InProgress(u) /\ u.stage = t.stage => u.round = t.round

LEMMA SettleSound ==
  ASSUME NEW t, Sits(t), Dealt(t), NEW ranks
  PROVE  LET u == Settle(t, ranks) IN
         Sound(u) /\ ~InProgress(u) /\ Onward(t, u)
<1> DEFINE paid  == Settlement(t, ranks)
           stack == Plus(t.stack, paid.won)
           state == [p \in Players |-> IF p \in t.dealt /\ stack[p] = 0
                                       THEN "SittingOut" ELSE t.state[p]]
           seat  == SeatOf(t, After(t, Button(t, t.dealt), t.dealt))
           u     == Settle(t, ranks)
<1>1. DOMAIN stack = Players /\ DOMAIN state = Players  BY DEF Plus
<1>2. /\ u = [t EXCEPT !.stack = stack, !.rake = paid.rake, !.state = state,
                       !.stage = "Complete", !.round = NoRound, !.runout = NoRunout,
                       !.dealer = seat]
  BY Zenon DEF Settle
<1>3. seat \in 1 .. Len(t.seats)
  <2>1. Seats(t) /\ t.dealer \in Nat \ {0}  BY DEF Sits, Seats
  <2>2. Button(t, t.dealt) \in Seated(t)  BY <2>1, ButtonSeated DEF Dealt
  <2>3. After(t, Button(t, t.dealt), t.dealt) \in Seated(t)  BY <2>1, <2>2, AfterSeated DEF Dealt
  <2> QED  BY <2>1, <2>3, SeatOfIs
<1>4. \A p \in Players : p \in Seated(t) <=> state[p] # "Away"
  BY DEF Sits, Dealt
<1> HIDE DEF paid, stack, state, seat, u
<1>5. /\ DOMAIN u = Fields
      /\ u.seats = t.seats /\ u.ready = t.ready /\ u.exiting = t.exiting /\ u.dealt = t.dealt
      /\ u.stack = stack /\ u.in = t.in /\ u.state = state /\ u.dealer = seat
      /\ u.stage = "Complete" /\ u.runout = NoRunout
  BY <1>2 DEF Sits, Shape, Fields
<1>6. Seated(u) = Seated(t)  BY <1>5 DEF Seated
<1>7. Sits(u)
  BY <1>1, <1>3, <1>4, <1>5, <1>6 DEF Sits, Shape, Seats
<1>8. ~InProgress(u) /\ Staged(u)
  BY <1>5, StreetsAre DEF Staged, StreetSet, NoRunout
<1> QED  BY <1>5, <1>7, <1>8 DEF Sound, Onward, u

LEMMA ShowdownSound ==
  ASSUME NEW t, Sits(t), Dealt(t), NEW u \in Showdown(t)
  PROVE  Sound(u) /\ ~InProgress(u) /\ Onward(t, u)
<1>1. PICK ranks : u = Settle(t, ranks)  BY Zenon DEF Showdown
<1> QED  BY <1>1, SettleSound, Zenon

(* u is t on another street, or at another point of its runout.            *)
Restaged(t, u) ==
  /\ DOMAIN u = Fields
  /\ u.seats = t.seats /\ u.stack = t.stack /\ u.in = t.in /\ u.state = t.state
  /\ u.ready = t.ready /\ u.exiting = t.exiting /\ u.dealer = t.dealer
  /\ u.dealt = t.dealt /\ u.round = t.round
  /\ u.stage \in StreetSet /\ Staged(u)

LEMMA RestagedSound ==
  ASSUME NEW t, Sound(t), InProgress(t), NEW u, Restaged(t, u)
  PROVE  /\ Sound(u) /\ Sits(u) /\ Dealt(u) /\ InProgress(u) /\ Onward(t, u)
         /\ Remaining(u) = Remaining(t) /\ Able(u) = Able(t)
<1>1. Seated(u) = Seated(t)  BY DEF Restaged, Seated
<1>2. Sits(u)  BY <1>1 DEF Restaged, Sound, Sits, Shape, Seats
<1>3. InProgress(u)  BY StreetsAre DEF Restaged
<1>4. Dealt(u) /\ Fits(u, u.round)
  BY <1>1 DEF Restaged, Sound, Dealt, Fits
<1>5. Remaining(u) = Remaining(t) /\ Able(u) = Able(t)
  BY DEF Restaged, Remaining, Able
<1>6. Onward(t, u)  BY DEF Restaged, Onward
<1>7. Staged(u)  BY DEF Restaged
<1> QED  BY <1>2, <1>3, <1>4, <1>5, <1>6, <1>7 DEF Sound

(* The betting is over and at least two players are left in the hand.      *)
AllIn(t) ==
  IsComplete(t.round) /\ Cardinality(Remaining(t)) > 1 /\ Cardinality(Able(t)) <= 1

LEMMA AdvanceRunoutSound ==
  ASSUME NEW t, Sound(t), InProgress(t), AllIn(t), NEW u \in AdvanceRunout(t)
  PROVE  /\ Sound(u) /\ Onward(t, u)
         /\ InProgress(u) => u.round = t.round /\ AwaitingRunout(u)
<1> DEFINE w == IF t.stage = "River" THEN t ELSE [t EXCEPT !.stage = NextStreet[@]]
<1>1. t.stage \in StreetSet  BY StreetsAre
<1>2. Restaged(t, w)
  <2>1. CASE t.stage = "River"
    BY <1>1, <2>1 DEF Restaged, Sound, Sits, Shape
  <2>2. CASE t.stage # "River"
    <3>1. w = [t EXCEPT !.stage = NextStreet[t.stage]] /\ NextStreet[t.stage] \in StreetSet
      BY <1>1, <2>2, StreetsAre
    <3> HIDE DEF w
    <3>2. /\ DOMAIN w = Fields
          /\ w.seats = t.seats /\ w.stack = t.stack /\ w.in = t.in /\ w.state = t.state
          /\ w.ready = t.ready /\ w.exiting = t.exiting /\ w.dealer = t.dealer
          /\ w.dealt = t.dealt /\ w.round = t.round /\ w.runout = t.runout
          /\ w.stage \in StreetSet
      BY <3>1 DEF Sound, Sits, Shape, Fields
    <3> QED  BY <3>2 DEF Restaged, Sound, Staged
  <2> QED  BY <2>1, <2>2
<1>3. w.stage \in {"Flop", "Turn", "River"}
  BY <1>1, StreetsAre DEF Sound, Sits, Shape, Fields, StreetSet
<1>4. w.runout = t.runout  BY DEF Sound, Sits, Shape, Fields
<1>5. u \in IF w.stage # "River" THEN {w}
            ELSE IF w.runout.twice /\ w.runout.phase = 1
            THEN {[w EXCEPT !.stage = w.runout.split, !.runout.phase = 2]}
            ELSE Showdown(w)
  BY Zenon DEF AdvanceRunout
<1> HIDE DEF w
<1>6. /\ Sound(w) /\ Sits(w) /\ Dealt(w) /\ Onward(t, w) /\ InProgress(w)
      /\ Remaining(w) = Remaining(t) /\ Able(w) = Able(t) /\ w.round = t.round
  BY <1>2, RestagedSound DEF Restaged
<1>7. CASE w.stage # "River"
  <2>1. u = w  BY <1>5, <1>7
  <2> QED  BY <1>3, <1>6, <1>7, <2>1 DEF AllIn, AwaitingRunout
<1>8. CASE w.stage = "River" /\ w.runout.twice /\ w.runout.phase = 1
  <2> DEFINE runout == [w.runout EXCEPT !.phase = 2]
  <2>1. u = [w EXCEPT !.stage = w.runout.split, !.runout = runout]
    BY <1>5, <1>8, Zenon
  <2>2. /\ DOMAIN runout = {"phase", "split", "twice"}
        /\ runout.phase = 2 /\ runout.split = w.runout.split /\ runout.twice = w.runout.twice
        /\ w.runout.split \in StreetSet \ {"River"}
    BY <1>6, <1>8 DEF Sound, Staged
  <2> HIDE DEF runout
  <2>3. /\ DOMAIN u = Fields
        /\ u.seats = w.seats /\ u.stack = w.stack /\ u.in = w.in /\ u.state = w.state
        /\ u.ready = w.ready /\ u.exiting = w.exiting /\ u.dealer = w.dealer
        /\ u.dealt = w.dealt /\ u.round = w.round /\ u.runout = runout
        /\ u.stage = w.runout.split
    BY <1>6, <2>1 DEF Sits, Shape, Fields
  <2>4. Staged(u)  BY <2>2, <2>3 DEF Staged
  <2>5. Restaged(w, u)  BY <2>2, <2>3, <2>4 DEF Restaged
  <2>6. /\ Sound(u) /\ Onward(w, u)
        /\ Remaining(u) = Remaining(t) /\ Able(u) = Able(t) /\ u.round = t.round
    BY <1>6, <2>3, <2>5, RestagedSound
  <2>7. AwaitingRunout(u)
    BY <1>8, <2>2, <2>3, <2>6 DEF AllIn, AwaitingRunout, StreetSet
  <2>8. Onward(t, u)  BY <1>6, <2>3, <2>6 DEF Onward
  <2> QED  BY <2>6, <2>7, <2>8
<1>9. CASE w.stage = "River" /\ ~(w.runout.twice /\ w.runout.phase = 1)
  <2>1. u \in Showdown(w)  BY <1>5, <1>9, Zenon
  <2>2. Sound(u) /\ ~InProgress(u) /\ Onward(w, u)  BY <1>6, <2>1, ShowdownSound
  <2>3. Onward(t, u)  BY <1>6, <2>2 DEF Onward
  <2> QED  BY <2>2, <2>3
<1> QED  BY <1>7, <1>8, <1>9

----------------------------------------------------------------------------
(* A new round fits the hand, and waits for everybody who is not all-in.   *)
LEMMA OpenRoundSound ==
  ASSUME NEW t, Sits(t), Staged(t), Dealt(t), InProgress(t), NEW bet,
         NEW S \in SUBSET t.dealt,
         \A p \in S : t.state[p] # "Folded", \A p \in t.dealt \ S : t.state[p] = "Folded"
  PROVE  LET u == OpenRound(t, S, bet) IN
         /\ Sound(u) /\ InProgress(u)
         /\ u.seats = t.seats /\ u.ready = t.ready /\ u.exiting = t.exiting
         /\ u.dealt = t.dealt /\ u.dealer = t.dealer /\ u.stage = t.stage
         /\ u.state = t.state /\ u.in = t.in
         /\ \A p \in S : t.state[p] # "AllIn" => p \in Waited(u)
         /\ u.round.lastActor = Nobody
         /\ DOMAIN u.round.stack = S
         /\ DOMAIN u = Fields /\ DOMAIN u.round = RoundFields
<1> DEFINE stack == [p \in S |-> t.stack[p]]
           allIn == {p \in S : t.state[p] = "AllIn"}
           round == NewRound(stack, allIn, bet, BigBlind)
           u     == OpenRound(t, S, bet)
<1>1. u = [t EXCEPT !.round = round]  BY Zenon DEF OpenRound
<1>2. /\ DOMAIN round = RoundFields
      /\ round.stack = stack /\ DOMAIN round.contributed = S
      /\ round.folded = {} /\ round.allIn = allIn /\ round.acted = {}
      /\ round.lastActor = Nobody
  BY DEF NewRound, RoundFields
<1>3. DOMAIN stack = S /\ \A p \in S : stack[p] = t.stack[p]  OBVIOUS
<1> HIDE DEF u, round, stack
<1>4. /\ DOMAIN u = Fields
      /\ u.seats = t.seats /\ u.stack = t.stack /\ u.in = t.in /\ u.state = t.state
      /\ u.ready = t.ready /\ u.exiting = t.exiting /\ u.dealer = t.dealer
      /\ u.dealt = t.dealt /\ u.runout = t.runout /\ u.stage = t.stage
      /\ u.round = round
  BY <1>1 DEF Sits, Shape, Fields
<1>5. Seated(u) = Seated(t)  BY <1>4 DEF Seated
<1>6. Sits(u)  BY <1>4, <1>5 DEF Sits, Shape, Seats
<1>7. Staged(u) /\ InProgress(u)  BY <1>4, StreetsAre DEF Staged
<1>8. Dealt(u)  BY <1>4, <1>5 DEF Dealt
<1>9. Fits(u, round)
  BY <1>2, <1>3, <1>4 DEF Fits
<1>10. ASSUME NEW p \in S, t.state[p] # "AllIn"  PROVE p \in Waited(u)
  BY <1>2, <1>3, <1>4, <1>10 DEF Waited, Pending, MayAct
<1>11. Sound(u)  BY <1>4, <1>6, <1>7, <1>8, <1>9 DEF Sound
<1> QED  BY <1>2, <1>3, <1>4, <1>7, <1>10, <1>11 DEF u

LEMMA AbleAreLive ==
  ASSUME NEW t
  PROVE  /\ Able(t) \subseteq Remaining(t) /\ Remaining(t) \subseteq t.dealt
         /\ \A p \in Able(t) : t.state[p] # "AllIn"
         /\ \A p \in Remaining(t) : t.state[p] # "Folded"
BY DEF Able, Remaining

LEMMA AbleIfMany ==
  ASSUME NEW S, ~(Cardinality(S) <= 1)
  PROVE  S # {}
BY FS_EmptySet

(* Who closes a street goes on to the next, runs the board out, or settles *)
(* the hand.                                                               *)
LEMMA BeginRunoutSound ==
  ASSUME NEW t, Sound(t), InProgress(t), NEW u \in BeginRunout(t)
  PROVE  Restaged(t, u) /\ u.stage = t.stage
<1>1. t.stage \in StreetSet /\ DOMAIN t = Fields  BY StreetsAre DEF Sound, Sits, Shape
<1>2. CASE t.runout.phase # 0 \/ t.stage = "River"
  <2>1. u = t  BY <1>2, Zenon DEF BeginRunout
  <2> QED  BY <1>1, <2>1 DEF Restaged, Sound
<1>3. CASE ~(t.runout.phase # 0 \/ t.stage = "River")
  <2>1. PICK twice \in {FALSE, TwiceEnabled} :
               u = [t EXCEPT !.runout = [phase |-> 1, split |-> t.stage, twice |-> twice]]
    BY <1>3, Zenon DEF BeginRunout
  <2> DEFINE runout == [phase |-> 1, split |-> t.stage, twice |-> twice]
  <2>2. /\ DOMAIN runout = {"phase", "split", "twice"}
        /\ runout.phase = 1 /\ runout.split = t.stage
    OBVIOUS
  <2>3. u = [t EXCEPT !.runout = runout]  BY <2>1, Zenon
  <2> HIDE DEF runout
  <2>4. /\ DOMAIN u = Fields
        /\ u.seats = t.seats /\ u.stack = t.stack /\ u.in = t.in /\ u.state = t.state
        /\ u.ready = t.ready /\ u.exiting = t.exiting /\ u.dealer = t.dealer
        /\ u.dealt = t.dealt /\ u.round = t.round /\ u.stage = t.stage
        /\ u.runout = runout
    BY <1>1, <2>3 DEF Fields
  <2>5. Staged(u)  BY <1>1, <1>3, <2>2, <2>4 DEF Staged
  <2> QED  BY <1>1, <2>4, <2>5 DEF Restaged
<1> QED  BY <1>2, <1>3

LEMMA AdvanceStageSound ==
  ASSUME NEW t, Sound(t), InProgress(t), IsComplete(t.round), NEW u \in AdvanceStage(t)
  PROVE  Sound(u) /\ Onward(t, u) /\ Awaits(u)
<1>1. t.stage \in StreetSet /\ Sits(t) /\ Staged(t) /\ Dealt(t) /\ Fits(t, t.round)
  BY StreetsAre DEF Sound
<1>2. ASSUME u \in Showdown(t)  PROVE Sound(u) /\ Onward(t, u) /\ Awaits(u)
  BY <1>1, <1>2, ShowdownSound DEF Awaits
<1>3. CASE Cardinality(Remaining(t)) <= 1
  <2>1. u \in Showdown(t)  BY <1>3, Zenon DEF AdvanceStage
  <2> QED  BY <1>2, <2>1
<1>4. CASE ~(Cardinality(Remaining(t)) <= 1) /\ Cardinality(Able(t)) <= 1
  <2>1. PICK w \in BeginRunout(t) : u \in AdvanceRunout(w)
    BY <1>4, Zenon DEF AdvanceStage
  <2>2. Restaged(t, w)  BY BeginRunoutSound
  <2>3. /\ Sound(w) /\ InProgress(w) /\ Onward(t, w) /\ w.round = t.round /\ w.stage = t.stage
        /\ Remaining(w) = Remaining(t) /\ Able(w) = Able(t)
    BY <2>2, RestagedSound, BeginRunoutSound DEF Restaged
  <2>4. Cardinality(Remaining(t)) > 1
    <3>1. Remaining(t) \subseteq Seated(t)  BY <1>1, AbleAreLive DEF Dealt
    <3>2. IsFiniteSet(Seated(t))  BY <1>1, AsManySeats DEF Sits
    <3>3. Cardinality(Remaining(t)) \in Nat
      BY <3>1, <3>2, FS_Subset, FS_CardinalityType
    <3> QED  BY <1>4, <3>3
  <2>5. AllIn(w)  BY <1>4, <2>3, <2>4 DEF AllIn
  <2>6. /\ Sound(u) /\ Onward(w, u)
        /\ InProgress(u) => u.round = w.round /\ AwaitingRunout(u)
    BY <2>1, <2>3, <2>5, AdvanceRunoutSound
  <2>7. Onward(t, u)  BY <2>3, <2>6 DEF Onward
  <2> QED  BY <2>6, <2>7 DEF Awaits
<1>5. CASE /\ ~(Cardinality(Remaining(t)) <= 1) /\ ~(Cardinality(Able(t)) <= 1)
           /\ t.stage = "River"
  <2>1. u \in Showdown(t)  BY <1>5, Zenon DEF AdvanceStage
  <2> QED  BY <1>2, <2>1
<1>6. CASE /\ ~(Cardinality(Remaining(t)) <= 1) /\ ~(Cardinality(Able(t)) <= 1)
           /\ t.stage # "River"
  <2> DEFINE w == [t EXCEPT !.stage = NextStreet[t.stage]]
             S == Remaining(t)
  <2>1. u = OpenRound(w, S, 0)  BY <1>6, Zenon DEF AdvanceStage
  <2>2. NextStreet[t.stage] \in StreetSet /\ NextStreet[t.stage] # t.stage
    BY <1>1, <1>6, StreetsAre
  <2>3. /\ DOMAIN w = Fields
        /\ w.seats = t.seats /\ w.stack = t.stack /\ w.in = t.in /\ w.state = t.state
        /\ w.ready = t.ready /\ w.exiting = t.exiting /\ w.dealer = t.dealer
        /\ w.dealt = t.dealt /\ w.round = t.round /\ w.runout = t.runout
        /\ w.stage = NextStreet[t.stage]
    BY <1>1 DEF Sits, Shape, Fields
  <2> HIDE DEF w
  <2>4. Restaged(t, w)  BY <1>1, <2>2, <2>3 DEF Restaged, Staged
  <2>5. /\ Sits(w) /\ Staged(w) /\ Dealt(w) /\ InProgress(w) /\ Onward(t, w)
        /\ Able(w) = Able(t)
    BY <2>4, RestagedSound DEF Restaged
  <2>6. /\ S \subseteq w.dealt
        /\ \A p \in S : w.state[p] # "Folded"
        /\ \A p \in w.dealt \ S : w.state[p] = "Folded"
    BY <1>1, <2>3 DEF Remaining, Dealt, InHand
  <2>7. /\ Sound(u) /\ InProgress(u)
        /\ u.seats = w.seats /\ u.ready = w.ready /\ u.exiting = w.exiting
        /\ u.dealt = w.dealt /\ u.dealer = w.dealer /\ u.stage = w.stage
        /\ \A p \in S : w.state[p] # "AllIn" => p \in Waited(u)
    BY <2>1, <2>5, <2>6, OpenRoundSound
  <2>8. PICK p : p \in Able(t)  BY <1>6, AbleIfMany
  <2>9. p \in Waited(u)  BY <2>3, <2>7, <2>8, AbleAreLive
  <2>10. Onward(t, u)  BY <2>2, <2>3, <2>7 DEF Onward
  <2> QED  BY <2>7, <2>9, <2>10 DEF Awaits
<1> QED  BY <1>3, <1>4, <1>5, <1>6

LEMMA IfClosedSound ==
  ASSUME NEW t, Sound(t), InProgress(t), NEW u \in IfClosed(t)
  PROVE  Sound(u) /\ Onward(t, u) /\ Awaits(u)
<1>1. CASE IsComplete(t.round)
  <2>1. u \in AdvanceStage(t)  BY <1>1, Zenon DEF IfClosed
  <2> QED  BY <1>1, <2>1, AdvanceStageSound
<1>2. CASE ~IsComplete(t.round)
  <2>1. u = t  BY <1>2, Zenon DEF IfClosed
  <2>2. Waited(t) # {}  BY <1>2 DEF IsComplete, Waited
  <2>3. Onward(t, t)  BY DEF Onward
  <2> QED  BY <2>1, <2>2, <2>3 DEF Awaits
<1> QED  BY <1>1, <1>2

----------------------------------------------------------------------------
(* A decision of p changes the round for p alone.                          *)
Decides(r, p, q) ==
  /\ DOMAIN q = RoundFields
  /\ DOMAIN q.stack = DOMAIN r.stack /\ DOMAIN q.contributed = DOMAIN r.contributed
  /\ q.lastActor = p
  /\ ~(p \in q.folded /\ p \in q.allIn)
  /\ \A s \in DOMAIN r.stack \ {p} :
       /\ q.stack[s] = r.stack[s]
       /\ s \in q.folded <=> s \in r.folded
       /\ s \in q.allIn <=> s \in r.allIn

LEMMA FoldDecides ==
  ASSUME NEW r, DOMAIN r = RoundFields, NEW p, MayAct(r, p)
  PROVE  Decides(r, p, Fold(r, p))
<1> DEFINE f == r.folded \cup {p}
           q == Fold(r, p)
<1>1. q = [r EXCEPT !.folded = f, !.lastActor = p]  BY Zenon DEF Fold
<1>2. \A s : s # p => (s \in f <=> s \in r.folded)  OBVIOUS
<1> HIDE DEF f, q
<1>3. /\ DOMAIN q = RoundFields
      /\ q.stack = r.stack /\ q.contributed = r.contributed
      /\ q.folded = f /\ q.allIn = r.allIn /\ q.lastActor = p
  BY <1>1 DEF RoundFields
<1> QED  BY <1>2, <1>3 DEF Decides, MayAct, q

LEMMA RespondedDecides ==
  ASSUME NEW r, DOMAIN r = RoundFields, NEW p
  PROVE  LET q == Responded(r, p) IN
         /\ DOMAIN q = RoundFields
         /\ q.stack = r.stack /\ q.contributed = r.contributed
         /\ q.folded = r.folded /\ q.allIn = r.allIn /\ q.lastActor = p
<1> DEFINE a == r.acted \cup {p}
           q == Responded(r, p)
<1>1. q = [r EXCEPT !.acted = a, !.lastActor = p]  BY Zenon DEF Responded
<1> HIDE DEF a, q
<1>2. /\ DOMAIN q = RoundFields
      /\ q.stack = r.stack /\ q.contributed = r.contributed
      /\ q.folded = r.folded /\ q.allIn = r.allIn /\ q.lastActor = p
  BY <1>1 DEF RoundFields
<1> QED  BY <1>2 DEF q

LEMMA CheckDecides ==
  ASSUME NEW r, DOMAIN r = RoundFields, NEW p, MayAct(r, p)
  PROVE  Decides(r, p, Check(r, p))
BY RespondedDecides DEF Decides, Check, MayAct

LEMMA PayDecides ==
  ASSUME NEW r, DOMAIN r = RoundFields, NEW p, NEW n
  PROVE  LET q == Pay(r, p, n) IN
         /\ DOMAIN q = RoundFields
         /\ DOMAIN q.stack = DOMAIN r.stack /\ DOMAIN q.contributed = DOMAIN r.contributed
         /\ q.folded = r.folded
         /\ \A s \in DOMAIN r.stack \ {p} :
              q.stack[s] = r.stack[s] /\ (s \in q.allIn <=> s \in r.allIn)
<1> DEFINE s == [r.stack EXCEPT ![p] = @ - n]
           c == [r.contributed EXCEPT ![p] = @ + n]
           a == IF n = r.stack[p] THEN r.allIn \cup {p} ELSE r.allIn
           q == Pay(r, p, n)
<1>1. q = [r EXCEPT !.stack = s, !.contributed = c, !.allIn = a]
  BY DEF Pay, RoundFields
<1>2. /\ DOMAIN s = DOMAIN r.stack /\ DOMAIN c = DOMAIN r.contributed
      /\ \A x \in DOMAIN r.stack \ {p} : s[x] = r.stack[x] /\ (x \in a <=> x \in r.allIn)
  OBVIOUS
<1> HIDE DEF s, c, a, q
<1>3. /\ DOMAIN q = RoundFields
      /\ q.stack = s /\ q.contributed = c /\ q.allIn = a /\ q.folded = r.folded
  BY <1>1 DEF RoundFields
<1> QED  BY <1>2, <1>3 DEF q

LEMMA CallDecides ==
  ASSUME NEW r, DOMAIN r = RoundFields, NEW p, MayAct(r, p)
  PROVE  Decides(r, p, Call(r, p))
<1> DEFINE n    == Least(Owed(r, p), r.stack[p])
           paid == Pay(r, p, n)
<1>1. Call(r, p) = Responded(paid, p)  BY Zenon DEF Call
<1> HIDE DEF n
<1>2. /\ DOMAIN paid = RoundFields
      /\ DOMAIN paid.stack = DOMAIN r.stack /\ DOMAIN paid.contributed = DOMAIN r.contributed
      /\ paid.folded = r.folded
      /\ \A s \in DOMAIN r.stack \ {p} :
           paid.stack[s] = r.stack[s] /\ (s \in paid.allIn <=> s \in r.allIn)
  BY PayDecides
<1> HIDE DEF paid
<1> QED  BY <1>1, <1>2, RespondedDecides DEF Decides, MayAct

LEMMA RaiseDecides ==
  ASSUME NEW r, DOMAIN r = RoundFields, NEW p, MayAct(r, p), NEW amount
  PROVE  Decides(r, p, Raise(r, p, amount))
<1> DEFINE target == RaiseTarget(r, p, amount)
           open   == Reopened(r, p, amount)
           n      == target - r.contributed[p]
           paid   == Pay(open, p, n)
           bet    == [paid EXCEPT !.currentBet = target]
<1>1. Raise(r, p, amount) = Responded(bet, p)  BY Zenon DEF Raise
<1>2. /\ DOMAIN open = RoundFields
      /\ open.stack = r.stack /\ open.contributed = r.contributed
      /\ open.folded = r.folded /\ open.allIn = r.allIn
  BY DEF Reopened, RoundFields
<1> HIDE DEF target, open, n
<1>3. /\ DOMAIN paid = RoundFields
      /\ DOMAIN paid.stack = DOMAIN r.stack /\ DOMAIN paid.contributed = DOMAIN r.contributed
      /\ paid.folded = r.folded
      /\ \A s \in DOMAIN r.stack \ {p} :
           paid.stack[s] = r.stack[s] /\ (s \in paid.allIn <=> s \in r.allIn)
  BY <1>2, PayDecides
<1> HIDE DEF paid
<1>4. /\ DOMAIN bet = RoundFields
      /\ bet.stack = paid.stack /\ bet.contributed = paid.contributed
      /\ bet.folded = paid.folded /\ bet.allIn = paid.allIn
  BY <1>3 DEF RoundFields
<1> HIDE DEF bet
<1> QED  BY <1>1, <1>3, <1>4, RespondedDecides DEF Decides, MayAct

----------------------------------------------------------------------------
(* What follows p's decision: the seats and the button stay, and a street  *)
(* that goes on remembers who acted.                                       *)
Played(t, p, u) ==
  /\ u.seats = t.seats /\ u.dealt = t.dealt
  /\ InProgress(u) => u.dealer = t.dealer
  /\ InProgress(u) /\ u.stage = t.stage => u.round.lastActor = p

(* w is t after p's decision r, before the street is looked at.            *)
Decided(t, p, r, w) ==
  /\ DOMAIN w = Fields
  /\ DOMAIN w.stack = Players /\ DOMAIN w.in = Players /\ DOMAIN w.state = Players
  /\ w.seats = t.seats /\ w.dealer = t.dealer /\ w.dealt = t.dealt
  /\ w.exiting = t.exiting /\ w.ready \subseteq t.ready
  /\ w.round = r /\ w.runout = t.runout /\ w.stage = t.stage
  /\ (ChipsStay => w.stack[p] = r.stack[p]) /\ \A q \in Players \ {p} : w.stack[q] = t.stack[q]
  /\ w.state[p] = IF p \in r.allIn THEN "AllIn"
                  ELSE IF p \in r.folded THEN "Folded" ELSE t.state[p]
  /\ \A q \in Players \ {p} : w.state[q] = t.state[q]

LEMMA DecidedSound ==
  ASSUME NEW t, Sound(t), InProgress(t), NEW p \in DOMAIN t.round.stack,
         MayAct(t.round, p), NEW r, Decides(t.round, p, r), NEW w, Decided(t, p, r, w)
  PROVE  Sound(w) /\ InProgress(w)
<1>1. /\ Sits(t) /\ Staged(t) /\ Dealt(t) /\ Fits(t, t.round) /\ t.stage \in StreetSet
  BY StreetsAre DEF Sound
<1>2. p \in Players /\ p \in t.dealt /\ p \in Seated(t)
  BY <1>1, SeatedArePlayers DEF Fits, Dealt, Sits
<1>3. Seated(w) = Seated(t)  BY DEF Seated, Decided
<1>4. t.state[p] \in InHand \ {"AllIn", "Folded"}
  BY <1>1, <1>2 DEF Fits, Dealt, MayAct
<1>5. Sits(w)
  <2>1. \A q \in Players : q \in Seated(t) <=> w.state[q] # "Away"
    BY <1>1, <1>2, <1>4 DEF Sits, InHand, Decided
  <2> QED  BY <1>1, <1>3, <2>1 DEF Sits, Shape, Seats, Decided
<1>6. Staged(w) /\ InProgress(w)  BY <1>1, StreetsAre DEF Staged, Decided
<1>7. t.dealt \subseteq Players  BY <1>1, SeatedArePlayers DEF Dealt, Sits
<1>8. Dealt(w)
  BY <1>1, <1>3, <1>4, <1>7 DEF Dealt, InHand, Decided
<1>9. Fits(w, r)
  <2>1. ASSUME NEW q \in DOMAIN r.stack
        PROVE  /\ q \in r.folded <=> w.state[q] = "Folded"
               /\ q \in r.allIn <=> w.state[q] = "AllIn"
               /\ ChipsStay /\ q \notin r.allIn => w.stack[q] = r.stack[q]
    <3>1. CASE q = p  BY <1>4, <3>1 DEF Decides, Decided
    <3>2. CASE q # p
      <4>1. q \in DOMAIN t.round.stack \ {p} /\ q \in Players
        BY <1>1, <1>7, <2>1, <3>2 DEF Decides, Fits
      <4> QED  BY <1>1, <4>1 DEF Decides, Fits, Decided
    <3> QED  BY <3>1, <3>2
  <2>2. \A q \in t.dealt \ DOMAIN r.stack : w.state[q] = "Folded"
    BY <1>1, <1>7 DEF Decides, Fits, Decided
  <2> QED  BY <1>1, <1>2, <2>1, <2>2 DEF Decides, Fits, Decided
<1> QED  BY <1>5, <1>6, <1>8, <1>9 DEF Sound, Decided

LEMMA ActedSound ==
  ASSUME NEW t, Sound(t), InProgress(t), NEW p \in DOMAIN t.round.stack,
         MayAct(t.round, p), NEW r, Decides(t.round, p, r), NEW u \in Acted(t, p, r)
  PROVE  Sound(u) /\ Awaits(u) /\ Played(t, p, u) /\ u.ready = t.ready /\ u.exiting = t.exiting
<1> DEFINE stack == [t.stack EXCEPT ![p] = r.stack[p]]
           in    == [t.in EXCEPT ![p] = @ + r.contributed[p] - t.round.contributed[p]]
           state == [t.state EXCEPT ![p] = IF p \in r.allIn THEN "AllIn"
                       ELSE IF p \in r.folded THEN "Folded" ELSE @]
           w     == [t EXCEPT !.round = r, !.stack = stack, !.in = in, !.state = state]
<1>1. /\ DOMAIN t = Fields /\ DOMAIN t.stack = Players /\ DOMAIN t.in = Players
      /\ DOMAIN t.state = Players
  BY DEF Sound, Sits, Shape
<1>2. u \in IfClosed(w)
  <2>1. w = [t EXCEPT
               !.round    = r,
               !.stack[p] = r.stack[p],
               !.in[p]    = @ + r.contributed[p] - t.round.contributed[p],
               !.state[p] = IF p \in r.allIn THEN "AllIn"
                            ELSE IF p \in r.folded THEN "Folded" ELSE @]
    BY <1>1 DEF Fields
  <2> HIDE DEF w
  <2> QED  BY <2>1, Zenon DEF Acted
<1>3. p \in Players  BY SeatedArePlayers DEF Sound, Fits, Dealt, Sits
<1>4. /\ DOMAIN stack = Players /\ DOMAIN in = Players /\ DOMAIN state = Players
      /\ stack[p] = r.stack[p] /\ \A q \in Players \ {p} : stack[q] = t.stack[q]
      /\ state[p] = IF p \in r.allIn THEN "AllIn"
                    ELSE IF p \in r.folded THEN "Folded" ELSE t.state[p]
      /\ \A q \in Players \ {p} : state[q] = t.state[q]
  BY <1>1, <1>3
<1> HIDE DEF stack, in, state
<1>5. /\ DOMAIN w = Fields
      /\ w.seats = t.seats /\ w.stack = stack /\ w.in = in /\ w.state = state
      /\ w.ready = t.ready /\ w.exiting = t.exiting /\ w.dealer = t.dealer
      /\ w.dealt = t.dealt /\ w.round = r /\ w.runout = t.runout /\ w.stage = t.stage
  BY <1>1 DEF Fields
<1> HIDE DEF w
<1>6. Decided(t, p, r, w)  BY <1>4, <1>5 DEF Decided
<1>7. Sound(w) /\ InProgress(w)  BY <1>6, DecidedSound
<1>8. Sound(u) /\ Onward(w, u) /\ Awaits(u)  BY <1>2, <1>7, IfClosedSound
<1> QED  BY <1>5, <1>8 DEF Onward, Played, Decides

----------------------------------------------------------------------------
(* A hand is dealt to players who are seated and ready.                    *)
Started(t, u) ==
  /\ u.seats = t.seats /\ u.ready = t.ready /\ u.exiting = t.exiting
  /\ InProgress(u) => u.dealt \subseteq u.ready

LEMMA IdleSound ==
  ASSUME NEW t, Sits(t)
  PROVE  LET u == Idle(t) IN Sound(u) /\ ~InProgress(u) /\ Started(t, u)
<1> DEFINE u == Idle(t)
<1>1. u = [t EXCEPT !.stage = "Waiting", !.dealt = {}, !.in = NoChips, !.runout = NoRunout]
  BY Zenon DEF Idle
<1> HIDE DEF u
<1>2. /\ DOMAIN u = Fields
      /\ u.seats = t.seats /\ u.ready = t.ready /\ u.exiting = t.exiting
      /\ u.stack = t.stack /\ u.in = NoChips /\ u.state = t.state /\ u.dealer = t.dealer
      /\ u.stage = "Waiting" /\ u.runout = NoRunout
  BY <1>1 DEF Sits, Shape, Fields
<1>3. Seated(u) = Seated(t)  BY <1>2 DEF Seated
<1>4. DOMAIN NoChips = Players  BY DEF NoChips
<1>5. Sits(u)  BY <1>2, <1>3, <1>4 DEF Sits, Shape, Seats
<1>6. ~InProgress(u) /\ Staged(u)
  BY <1>2, StreetsAre DEF Staged, StreetSet, NoRunout
<1> QED  BY <1>2, <1>5, <1>6 DEF Sound, Started, u

(* Where the button can be.                                                *)
DealerSeats(t) == 1 .. Len(t.seats) + 1

AllActive(t) == \A p \in t.dealt : t.state[p] = "Active"

LEMMA SeatHandSound ==
  ASSUME NEW t, Sits(t), NEW S \in SUBSET Seated(t), S # {},
         NEW dealer \in DealerSeats(t), NEW u, u = SeatHand(t, S, dealer)
  PROVE  /\ Sits(u) /\ Staged(u) /\ Dealt(u) /\ InProgress(u)
         /\ u.seats = t.seats /\ u.ready = t.ready /\ u.exiting = t.exiting
         /\ u.dealt = S /\ u.stage = "PreFlop"
         /\ AllActive(u)
<1> DEFINE state == [p \in Players |-> IF p \in S THEN "Active"
                       ELSE IF t.state[p] \in {"Away", "PendingEntry"} THEN t.state[p]
                       ELSE "SittingOut"]
           post  == t.post \ {p \in S : t.state[p] = "PendingEntry"}
           owes  == t.owes \ {p \in S : t.state[p] = "SittingOut"}
<1>1. u = [t EXCEPT !.dealer = dealer, !.drawn = TRUE, !.stage = "PreFlop", !.dealt = S,
                    !.in = NoChips, !.runout = NoRunout, !.rake = 0,
                    !.state = state, !.post = post, !.owes = owes]
  BY Zenon DEF SeatHand
<1>2. S \subseteq Players  BY SeatedArePlayers DEF Sits
<1>3. /\ DOMAIN state = Players /\ \A p \in S : state[p] = "Active"
      /\ \A p \in Players : p \in Seated(t) <=> state[p] # "Away"
  BY <1>2 DEF Sits
<1> HIDE DEF state, post, owes
<1>4. /\ DOMAIN u = Fields
      /\ u.seats = t.seats /\ u.ready = t.ready /\ u.exiting = t.exiting
      /\ u.stack = t.stack /\ u.in = NoChips /\ u.state = state /\ u.dealer = dealer
      /\ u.stage = "PreFlop" /\ u.runout = NoRunout /\ u.dealt = S
  <2>1. DOMAIN t = Fields  BY DEF Sits, Shape
  <2>2. DOMAIN u = Fields /\ u.seats = t.seats /\ u.ready = t.ready  BY <1>1, <2>1 DEF Fields
  <2>3. u.exiting = t.exiting /\ u.stack = t.stack /\ u.in = NoChips  BY <1>1, <2>1 DEF Fields
  <2>4. u.state = state /\ u.dealer = dealer /\ u.stage = "PreFlop"  BY <1>1, <2>1 DEF Fields
  <2>5. u.runout = NoRunout /\ u.dealt = S  BY <1>1, <2>1 DEF Fields
  <2> QED  BY <2>2, <2>3, <2>4, <2>5
<1>5. Seated(u) = Seated(t)  BY <1>4 DEF Seated
<1>6. DOMAIN NoChips = Players  BY DEF NoChips
<1>7. Sits(u)
  <2>1. Shape(u)  BY <1>3, <1>4, <1>6 DEF Sits, Shape
  <2>2. Seats(u) /\ u.dealer \in 1 .. Len(u.seats) + 1  BY <1>4 DEF Sits, Seats, DealerSeats
  <2>3. u.ready \subseteq Seated(u) /\ u.exiting \subseteq Seated(u)  BY <1>4, <1>5 DEF Sits
  <2>4. \A p \in Players : p \in Seated(u) <=> u.state[p] # "Away"  BY <1>3, <1>4, <1>5
  <2> QED  BY <2>1, <2>2, <2>3, <2>4 DEF Sits
<1>8. Staged(u) /\ InProgress(u)
  BY <1>4, StreetsAre DEF Staged, StreetSet, NoRunout
<1>9. Dealt(u)  BY <1>3, <1>4, <1>5 DEF Dealt, InHand
<1> QED  BY <1>3, <1>4, <1>7, <1>8, <1>9 DEF AllActive

LEMMA PostSound ==
  ASSUME NEW t, Sits(t), Staged(t), Dealt(t), InProgress(t), NEW due,
         AllActive(t)
  PROVE  LET u == Post(t, due) IN
         /\ Sits(u) /\ Staged(u) /\ Dealt(u) /\ InProgress(u)
         /\ u.seats = t.seats /\ u.ready = t.ready /\ u.exiting = t.exiting
         /\ u.dealt = t.dealt /\ u.stage = t.stage
         /\ \A p \in t.dealt : u.state[p] # "Folded"
<1> DEFINE paid  == [p \in Players |-> IF p \in t.dealt THEN Min({due[p], t.stack[p]}) ELSE 0]
           stack == [p \in Players |-> t.stack[p] - paid[p]]
           state == [p \in Players |->
                       IF p \in t.dealt /\ due[p] > 0 /\ due[p] >= t.stack[p]
                       THEN "AllIn" ELSE t.state[p]]
           u     == Post(t, due)
<1>1. u = [t EXCEPT !.stack = stack, !.in = paid, !.state = state]
  BY Zenon DEF Post
<1>2. t.dealt \subseteq Players  BY SeatedArePlayers DEF Sits, Dealt
<1>3. /\ DOMAIN stack = Players /\ DOMAIN paid = Players /\ DOMAIN state = Players
      /\ \A p \in t.dealt : state[p] \in {"Active", "AllIn"}
      /\ \A p \in Players \ t.dealt : state[p] = t.state[p]
  BY <1>2 DEF AllActive
<1> HIDE DEF paid, stack, state, u
<1>4. /\ DOMAIN u = Fields
      /\ u.seats = t.seats /\ u.ready = t.ready /\ u.exiting = t.exiting
      /\ u.stack = stack /\ u.in = paid /\ u.state = state /\ u.dealer = t.dealer
      /\ u.stage = t.stage /\ u.runout = t.runout /\ u.dealt = t.dealt
  BY <1>1 DEF Sits, Shape, Fields
<1>5. Seated(u) = Seated(t)  BY <1>4 DEF Seated
<1>6. \A p \in Players : p \in Seated(t) <=> state[p] # "Away"
  BY <1>3 DEF Sits, Dealt
<1>7. Sits(u)  BY <1>3, <1>4, <1>5, <1>6 DEF Sits, Shape, Seats
<1>8. Staged(u) /\ InProgress(u)  BY <1>4, StreetsAre DEF Staged
<1>9. Dealt(u)  BY <1>3, <1>4, <1>5 DEF Dealt, InHand
<1> QED  BY <1>3, <1>4, <1>7, <1>8, <1>9 DEF u

LEMMA DealSound ==
  ASSUME NEW t, Sits(t), NEW S \in SUBSET Seated(t), S # {},
         NEW dealer \in DealerSeats(t)
  PROVE  LET u == Deal(t, S, dealer) IN
         /\ Sound(u) /\ InProgress(u) /\ Awaits(u)
         /\ u.seats = t.seats /\ u.ready = t.ready /\ u.exiting = t.exiting
         /\ u.dealt = S
<1> DEFINE seated == SeatHand(t, S, dealer)
           posted == Post(seated, Due(seated, Entrants(t, S)))
           opened == OpenRound(posted, S, BigBlind)
           c      == [p \in S |-> posted.in[p]]
           round  == [opened.round EXCEPT !.contributed = c]
           u      == Deal(t, S, dealer)
<1> HIDE DEF posted, opened, c, round, u
<1>1. seated = SeatHand(t, S, dealer)  OBVIOUS
<1> HIDE DEF seated
<1>2. /\ Sits(seated) /\ Staged(seated) /\ Dealt(seated) /\ InProgress(seated)
      /\ seated.seats = t.seats /\ seated.ready = t.ready /\ seated.exiting = t.exiting
      /\ seated.dealt = S /\ seated.stage = "PreFlop"
      /\ AllActive(seated)
  BY <1>1, SeatHandSound
<1>3. /\ Sits(posted) /\ Staged(posted) /\ Dealt(posted) /\ InProgress(posted)
      /\ posted.seats = t.seats /\ posted.ready = t.ready /\ posted.exiting = t.exiting
      /\ posted.dealt = S /\ posted.stage = "PreFlop"
      /\ \A p \in S : posted.state[p] # "Folded"
  BY <1>2, PostSound DEF posted
<1>4. /\ Sound(opened) /\ InProgress(opened)
      /\ opened.seats = t.seats /\ opened.ready = t.ready /\ opened.exiting = t.exiting
      /\ opened.dealt = S /\ opened.stage = "PreFlop"
      /\ opened.round.lastActor = Nobody /\ DOMAIN opened.round.stack = S
      /\ DOMAIN opened = Fields /\ DOMAIN opened.round = RoundFields
  BY <1>3, OpenRoundSound DEF opened
<1>5. u = [opened EXCEPT !.round = round]
  BY <1>4 DEF u, round, c, opened, Deal, seated, posted, Fields
<1>6. DOMAIN c = S  BY DEF c
<1>7. /\ DOMAIN round = RoundFields /\ round.contributed = c
      /\ round.stack = opened.round.stack /\ round.folded = opened.round.folded
      /\ round.allIn = opened.round.allIn /\ round.lastActor = Nobody
  BY <1>4 DEF RoundFields, round
<1>8. /\ DOMAIN u = Fields
      /\ u.seats = opened.seats /\ u.stack = opened.stack /\ u.in = opened.in
      /\ u.state = opened.state /\ u.ready = opened.ready /\ u.exiting = opened.exiting
      /\ u.dealer = opened.dealer /\ u.dealt = opened.dealt /\ u.stage = opened.stage
      /\ u.runout = opened.runout /\ u.round = round
  BY <1>4, <1>5 DEF Fields
<1>9. Seated(u) = Seated(opened)  BY <1>8 DEF Seated
<1>10. Sits(u)  BY <1>4, <1>8, <1>9 DEF Sound, Sits, Shape, Seats
<1>11. Staged(u) /\ InProgress(u)  BY <1>4, <1>8, StreetsAre DEF Sound, Staged
<1>12. Dealt(u)  BY <1>4, <1>8, <1>9 DEF Sound, Dealt
<1>13. Fits(u, round)
  BY <1>4, <1>6, <1>7, <1>8 DEF Sound, Fits
<1>14. Sound(u)  BY <1>8, <1>10, <1>11, <1>12, <1>13 DEF Sound
<1>15. ASSUME Waited(u) = {}  PROVE Blinded(u)
  <2>1. IsComplete(round)  BY <1>8, <1>15 DEF Waited, IsComplete
  <2> QED  BY <1>4, <1>7, <1>8, <2>1 DEF Blinded
<1>16. Awaits(u)  BY <1>15 DEF Awaits
<1> QED  BY <1>4, <1>8, <1>11, <1>14, <1>16 DEF u

LEMMA StartHandSound ==
  ASSUME NEW t, Sits(t), NEW u \in StartHand(t)
  PROVE  Sound(u) /\ Awaits(u) /\ Started(t, u)
<1>1. CASE Cardinality(NextPlayers(t)) < 2
  <2>1. u = Idle(t)  BY <1>1, Zenon DEF StartHand
  <2> QED  BY <2>1, IdleSound DEF Awaits
<1>2. CASE ~(Cardinality(NextPlayers(t)) < 2)
  <2> DEFINE S == NextPlayers(t)
             D == IF t.drawn THEN {t.dealer} ELSE {SeatOf(t, p) : p \in S}
  <2>1. PICK dealer \in D : u = Deal(t, S, dealer)  BY <1>2, Zenon DEF StartHand
  <2>2. S \subseteq Seated(t) /\ S \subseteq t.ready  BY DEF NextPlayers, Eligible
  <2>3. S # {}  BY <1>2, FS_EmptySet
  <2> HIDE DEF S
  <2>4. D \subseteq DealerSeats(t)
    <3>1. Seats(t) /\ Len(t.seats) \in Nat /\ t.dealer \in 1 .. Len(t.seats) + 1
      BY DEF Sits, Seats
    <3>2. \A p \in S : SeatOf(t, p) \in 1 .. Len(t.seats)  BY <2>2, <3>1, SeatOfIs
    <3> QED  BY <3>1, <3>2 DEF DealerSeats
  <2> HIDE DEF D
  <2>5. /\ Sound(u) /\ InProgress(u) /\ Awaits(u)
        /\ u.seats = t.seats /\ u.ready = t.ready /\ u.exiting = t.exiting
        /\ u.dealt = S
    BY <2>1, <2>2, <2>3, <2>4, DealSound
  <2> QED  BY <2>2, <2>5 DEF Started
<1> QED  BY <1>1, <1>2

LEMMA TryStartSound ==
  ASSUME NEW t, Sound(t), Awaits(t), NEW u \in TryStart(t)
  PROVE  Sound(u) /\ Awaits(u) /\ (u = t \/ (~InProgress(t) /\ Started(t, u)))
<1>1. CASE t.stage = "Waiting"
  <2>1. u \in StartHand(t)  BY <1>1, Zenon DEF TryStart
  <2>2. ~InProgress(t)  BY <1>1, StreetsAre DEF StreetSet
  <2> QED  BY <2>1, <2>2, StartHandSound DEF Sound
<1>2. CASE t.stage # "Waiting"
  <2>1. u = t  BY <1>2, Zenon DEF TryStart
  <2> QED  BY <2>1
<1> QED  BY <1>1, <1>2

----------------------------------------------------------------------------
(* Who is on the clock is in the round and may act; nobody is on it only   *)
(* if no decision is wanted.                                               *)
LEMMA CurrentIs ==
  ASSUME NEW t, Sound(t)
  PROVE  /\ Current(t) # Nobody =>
              /\ InProgress(t)
              /\ Current(t) \in Waited(t) /\ Current(t) \in DOMAIN t.round.stack
              /\ Current(t) \in t.dealt /\ Current(t) \in Seated(t) /\ Current(t) \in Players
              /\ MayAct(t.round, Current(t))
         /\ InProgress(t) /\ Waited(t) # {} => Current(t) # Nobody
<1>1. CASE ~InProgress(t) \/ Waited(t) = {}
  BY <1>1 DEF Current
<1>2. CASE InProgress(t) /\ Waited(t) # {}
  <2>1. Current(t) = FirstFrom(t, ScanFrom(t), Waited(t))  BY <1>2 DEF Current
  <2>2. /\ Seats(t) /\ Len(t.seats) \in Nat /\ t.dealer \in Nat \ {0}
        /\ Dealt(t) /\ Fits(t, t.round)
    BY <1>2 DEF Sound, Sits, Seats
  <2>3. Waited(t) \subseteq DOMAIN t.round.stack /\ Waited(t) \subseteq Seated(t)
    BY <2>2 DEF Waited, Fits, Dealt
  <2>4. ScanFrom(t) \in 1 .. Len(t.seats) + 1
    <3> DEFINE a == IF t.round.lastActor # Nobody THEN t.round.lastActor
                    ELSE IF t.stage = "PreFlop" THEN BigBlindSeat(t, t.dealt)
                    ELSE Button(t, t.dealt)
    <3>1. a \in Seated(t)
      BY <2>2, ButtonSeated, BlindsSeated DEF Dealt, Fits
    <3>2. ScanFrom(t) = SeatOf(t, a) + 1  BY Zenon DEF ScanFrom
    <3> HIDE DEF a
    <3>3. SeatOf(t, a) \in 1 .. Len(t.seats)  BY <2>2, <3>1, SeatOfIs
    <3> QED  BY <2>2, <3>2, <3>3
  <2>5. Current(t) \in Waited(t) /\ Current(t) \in Seated(t) /\ Current(t) \in Players
    BY <1>2, <2>1, <2>2, <2>3, <2>4, FirstFromSeated
  <2>6. Current(t) # Nobody  BY <2>5, StakesAssumption
  <2>7. Pending(t.round, Current(t))  BY <2>5 DEF Waited
  <2> QED  BY <1>2, <2>2, <2>3, <2>5, <2>6, <2>7 DEF Pending, Fits
<1> QED  BY <1>1, <1>2

LEMMA AwaitsSomebody ==
  ASSUME NEW t, Sound(t), Awaits(t), InProgress(t)
  PROVE  Current(t) # Nobody \/ AwaitingRunout(t) \/ Blinded(t)
BY CurrentIs DEF Awaits

----------------------------------------------------------------------------
(* What happens beside the play: the hand of u is the hand of t, and a     *)
(* player dealt in may have paused or come back.                           *)
Aside(t, u) ==
  /\ u.stage = t.stage /\ u.runout = t.runout /\ u.round = t.round /\ u.dealer \in Nat
  /\ InProgress(t) =>
       /\ u.dealt = t.dealt
       /\ t.dealt \subseteq Seated(u)
       /\ \A p \in t.dealt : \/ u.state[p] = t.state[p]
                             \/ /\ t.state[p] \in {"Active", "SittingOut"}
                                /\ u.state[p] \in {"Active", "SittingOut"}
       /\ \A p \in DOMAIN t.round.stack \ t.round.allIn : ChipsStay => u.stack[p] = t.stack[p]

LEMMA AsideSound ==
  ASSUME NEW t, Sound(t), NEW u, Sits(u), Aside(t, u)
  PROVE  Sound(u) /\ (Awaits(t) => Awaits(u)) /\ (InProgress(u) <=> InProgress(t))
<1>1. Staged(u) /\ (InProgress(u) <=> InProgress(t))
  BY StreetsAre DEF Sound, Staged, Aside
<1>2. ASSUME InProgress(t)
      PROVE  /\ Dealt(u) /\ Fits(u, u.round)
             /\ Remaining(u) = Remaining(t) /\ Able(u) = Able(t) /\ Waited(u) = Waited(t)
  <2>1. Dealt(t) /\ Fits(t, t.round)  BY <1>2 DEF Sound
  <2>2. Dealt(u)  BY <1>2, <2>1 DEF Aside, Dealt, InHand
  <2>3. Fits(u, u.round)
    <3>1. u.dealt = t.dealt /\ u.round = t.round  BY <1>2 DEF Aside
    <3>2. ASSUME NEW p \in DOMAIN t.round.stack
          PROVE  /\ p \in t.round.folded <=> u.state[p] = "Folded"
                 /\ p \in t.round.allIn <=> u.state[p] = "AllIn"
                 /\ ChipsStay /\ p \notin t.round.allIn => u.stack[p] = t.round.stack[p]
      BY <1>2, <2>1 DEF Aside, Fits
    <3>3. \A p \in t.dealt \ DOMAIN t.round.stack : u.state[p] = "Folded"
      BY <1>2, <2>1 DEF Aside, Fits
    <3> QED  BY <2>1, <3>1, <3>2, <3>3 DEF Fits
  <2>4. Remaining(u) = Remaining(t) /\ Able(u) = Able(t)
    <3>1. \A p \in t.dealt : /\ u.state[p] \in {"Active", "AllIn", "SittingOut"}
                                  <=> t.state[p] \in {"Active", "AllIn", "SittingOut"}
                             /\ u.state[p] = "AllIn" <=> t.state[p] = "AllIn"
      BY <1>2 DEF Aside
    <3>2. u.dealt = t.dealt  BY <1>2 DEF Aside
    <3>3. Remaining(u) = Remaining(t)  BY <3>1, <3>2 DEF Remaining
    <3> QED  BY <3>1, <3>2, <3>3 DEF Able, Remaining
  <2>5. Waited(u) = Waited(t)  BY DEF Waited, Aside
  <2> QED  BY <2>2, <2>3, <2>4, <2>5
<1>3. Sound(u)  BY <1>1, <1>2 DEF Sound
<1>4. ASSUME Awaits(t)  PROVE Awaits(u)
  BY <1>1, <1>2, <1>4 DEF Awaits, AwaitingRunout, Blinded, Aside
<1> QED  BY <1>1, <1>3, <1>4

(* A command of p's that stays in the seat: it changes p's chips only if   *)
(* the round does not count them, and p's state only among the seated's.   *)
Touches(t, p, u) ==
  /\ Shape(u)
  /\ u.seats = t.seats /\ u.dealer = t.dealer /\ u.dealt = t.dealt
  /\ u.stage = t.stage /\ u.runout = t.runout /\ u.round = t.round
  /\ u.ready \subseteq t.ready \cup {p} /\ u.exiting \subseteq t.exiting \cup {p}
  /\ \A q \in Players \ {p} : u.stack[q] = t.stack[q] /\ u.state[q] = t.state[q]
  /\ ChipsStay /\ InProgress(t) /\ p \in DOMAIN t.round.stack \ t.round.allIn =>
       u.stack[p] = t.stack[p]
  /\ u.state[p] # "Away"
  /\ InProgress(t) /\ p \in t.dealt /\ u.state[p] # t.state[p] =>
       t.state[p] \in {"Active", "SittingOut"} /\ u.state[p] \in {"Active", "SittingOut"}

LEMMA TouchSound ==
  ASSUME NEW t, Sound(t), NEW p \in Seated(t), NEW u, Touches(t, p, u)
  PROVE  Sound(u) /\ (Awaits(t) => Awaits(u)) /\ Aside(t, u) /\ p \in Seated(u)
<1>1. Sits(t) /\ (InProgress(t) => Dealt(t) /\ Fits(t, t.round))  BY DEF Sound
<1>2. p \in Players /\ (InProgress(t) => t.dealt \subseteq Players)
  BY <1>1, SeatedArePlayers DEF Sits, Dealt
<1>3. Seated(u) = Seated(t)  BY DEF Touches, Seated
<1>4. Sits(u)
  <2>1. \A q \in Players : q \in Seated(t) <=> u.state[q] # "Away"
    BY <1>1, <1>2 DEF Sits, Touches
  <2>2. u.ready \subseteq Seated(t) /\ u.exiting \subseteq Seated(t)
    BY <1>1 DEF Sits, Touches
  <2>3. Seats(u) /\ Shape(u) /\ u.dealer \in 1 .. Len(u.seats) + 1
    BY <1>1 DEF Sits, Touches, Seats
  <2> QED  BY <1>3, <2>1, <2>2, <2>3 DEF Sits
<1>5. Aside(t, u)
  <2>1. t.dealer \in Nat  BY <1>1 DEF Sits, Seats
  <2>2. ASSUME InProgress(t)
        PROVE  /\ t.dealt \subseteq Seated(u)
               /\ \A q \in t.dealt : \/ u.state[q] = t.state[q]
                                     \/ /\ t.state[q] \in {"Active", "SittingOut"}
                                        /\ u.state[q] \in {"Active", "SittingOut"}
               /\ \A q \in DOMAIN t.round.stack \ t.round.allIn : ChipsStay => u.stack[q] = t.stack[q]
    BY <1>1, <1>2, <1>3, <2>2 DEF Touches, Dealt, Fits
  <2> QED  BY <2>1, <2>2 DEF Aside, Touches
<1> QED  BY <1>3, <1>4, <1>5, AsideSound

----------------------------------------------------------------------------
(* The commands of a seated player.  Beside: a hand in progress goes on    *)
(* with the same seats, button and round.  FromReady: a hand that starts   *)
(* is dealt to players who are ready.                                      *)
Beside(t, u) ==
  InProgress(t) => /\ u.seats = t.seats /\ u.dealer = t.dealer /\ u.dealt = t.dealt
                   /\ u.stage = t.stage /\ u.round = t.round

FromReady(t, u) == Dealing(t, u) => u.dealt \subseteq u.ready

LEMMA ReturnTouches ==
  ASSUME NEW t, Sound(t), NEW p \in Seated(t)
  PROVE  LET u == Return(t, p) IN
         Touches(t, p, u) /\ u.ready = t.ready /\ u.exiting = t.exiting
<1> DEFINE u == Return(t, p)
<1>1. /\ Shape(t) /\ p \in Players /\ t.state[p] # "Away"
      /\ DOMAIN t = Fields
  BY SeatedArePlayers DEF Sound, Sits, Shape
<1>2. CASE t.state[p] # "SittingOut"
  <2>1. u = t  BY <1>2, Zenon DEF Return
  <2> QED  BY <1>1, <2>1 DEF Touches
<1>3. CASE t.state[p] = "SittingOut" /\ WouldBeNextBlind(t, p)
  <2> DEFINE owes == t.owes \cup {p}
  <2>1. u = [t EXCEPT !.owes = owes]  BY <1>3, Zenon DEF Return
  <2> HIDE DEF owes, u
  <2>2. /\ DOMAIN u = Fields
        /\ u.seats = t.seats /\ u.stack = t.stack /\ u.in = t.in /\ u.state = t.state
        /\ u.ready = t.ready /\ u.exiting = t.exiting /\ u.dealer = t.dealer
        /\ u.dealt = t.dealt /\ u.round = t.round /\ u.runout = t.runout /\ u.stage = t.stage
    BY <1>1, <2>1 DEF Fields
  <2>3. Touches(t, p, u) /\ u.ready = t.ready /\ u.exiting = t.exiting
    BY <1>1, <2>2 DEF Touches, Shape
  <2> QED  BY <2>3 DEF u
<1>4. CASE t.state[p] = "SittingOut" /\ ~WouldBeNextBlind(t, p)
  <2> DEFINE state == [t.state EXCEPT ![p] = "Active"]
  <2>1. u = [t EXCEPT !.state = state]  BY <1>1, <1>4 DEF Return, Fields
  <2>2. /\ DOMAIN state = Players /\ state[p] = "Active"
        /\ \A q \in Players \ {p} : state[q] = t.state[q]
    BY <1>1 DEF Shape
  <2> HIDE DEF state, u
  <2>3. /\ DOMAIN u = Fields
        /\ u.seats = t.seats /\ u.stack = t.stack /\ u.in = t.in /\ u.state = state
        /\ u.ready = t.ready /\ u.exiting = t.exiting /\ u.dealer = t.dealer
        /\ u.dealt = t.dealt /\ u.round = t.round /\ u.runout = t.runout /\ u.stage = t.stage
    BY <1>1, <2>1 DEF Fields
  <2>4. Touches(t, p, u) /\ u.ready = t.ready /\ u.exiting = t.exiting
    BY <1>1, <1>4, <2>2, <2>3 DEF Touches, Shape
  <2> QED  BY <2>4 DEF u
<1> QED  BY <1>2, <1>3, <1>4

(* w is t with p made ready; then p returns and a waiting table is dealt.  *)
LEMMA ReturnSound ==
  ASSUME NEW t, Sound(t), Awaits(t), NEW p \in Seated(t), NEW w, Touches(t, p, w),
         NEW u \in TryStart(Return(w, p))
  PROVE  /\ Sound(u) /\ Awaits(u) /\ Beside(t, u) /\ FromReady(t, u)
         /\ u.ready = w.ready /\ u.exiting = w.exiting
<1> DEFINE v == Return(w, p)
<1>1. Sound(w) /\ Awaits(w) /\ Aside(t, w) /\ p \in Seated(w)  BY TouchSound
<1>2. Touches(w, p, v) /\ v.ready = w.ready /\ v.exiting = w.exiting
  BY <1>1, ReturnTouches
<1> HIDE DEF v
<1>3. Sound(v) /\ Awaits(v)  BY <1>1, <1>2, TouchSound
<1>4. /\ Sound(u) /\ Awaits(u)
      /\ u = v \/ (~InProgress(v) /\ Started(v, u))
  BY <1>3, TryStartSound DEF v
<1>5. /\ InProgress(v) <=> InProgress(t)
      /\ v.seats = t.seats /\ v.dealer = t.dealer /\ v.dealt = t.dealt
      /\ v.stage = t.stage /\ v.round = t.round
  BY <1>2, StreetsAre DEF Touches
<1>6. Beside(t, u)  BY <1>4, <1>5 DEF Beside
<1>7. FromReady(t, u)  BY <1>4, <1>5 DEF FromReady, Dealing, Started
<1> QED  BY <1>2, <1>4, <1>6, <1>7 DEF Started

LEMMA SitInSound ==
  ASSUME NEW t, Sound(t), Awaits(t), NEW p \in Seated(t), NEW u \in SitIn(t, p)
  PROVE  /\ Sound(u) /\ Awaits(u) /\ Beside(t, u) /\ FromReady(t, u)
         /\ u.ready = t.ready \cup {p} /\ u.exiting = t.exiting
<1> DEFINE ready == t.ready \cup {p}
           w == [t EXCEPT !.ready = ready]
<1>1. Shape(t) /\ p \in Players /\ t.state[p] # "Away"
  BY SeatedArePlayers DEF Sound, Sits
<1>2. u \in TryStart(Return(w, p))  BY Zenon DEF SitIn
<1> HIDE DEF ready
<1>3. /\ DOMAIN w = Fields
      /\ w.seats = t.seats /\ w.stack = t.stack /\ w.in = t.in /\ w.state = t.state
      /\ w.ready = ready /\ w.exiting = t.exiting /\ w.dealer = t.dealer
      /\ w.dealt = t.dealt /\ w.round = t.round /\ w.runout = t.runout /\ w.stage = t.stage
  BY <1>1 DEF Shape, Fields
<1> HIDE DEF w
<1>4. Touches(t, p, w)  BY <1>1, <1>3 DEF Touches, Shape, ready
<1> QED  BY <1>2, <1>3, <1>4, ReturnSound DEF ready

LEMMA CancelExitSound ==
  ASSUME NEW t, Sound(t), Awaits(t), NEW p \in Seated(t), NEW u \in CancelExit(t, p)
  PROVE  /\ Sound(u) /\ Awaits(u) /\ Beside(t, u) /\ FromReady(t, u)
         /\ u.ready = t.ready \cup {p} /\ u.exiting = t.exiting \ {p}
<1> DEFINE ready   == t.ready \cup {p}
           exiting == t.exiting \ {p}
           w == [t EXCEPT !.exiting = exiting, !.ready = ready]
<1>1. Shape(t) /\ p \in Players /\ t.state[p] # "Away"
  BY SeatedArePlayers DEF Sound, Sits
<1>2. u \in TryStart(Return(w, p))  BY Zenon DEF CancelExit
<1> HIDE DEF ready, exiting
<1>3. /\ DOMAIN w = Fields
      /\ w.seats = t.seats /\ w.stack = t.stack /\ w.in = t.in /\ w.state = t.state
      /\ w.ready = ready /\ w.exiting = exiting /\ w.dealer = t.dealer
      /\ w.dealt = t.dealt /\ w.round = t.round /\ w.runout = t.runout /\ w.stage = t.stage
  BY <1>1 DEF Shape, Fields
<1> HIDE DEF w
<1>4. Touches(t, p, w)  BY <1>1, <1>3 DEF Touches, Shape, ready, exiting
<1> QED  BY <1>2, <1>3, <1>4, ReturnSound DEF ready, exiting

LEMMA RebuySound ==
  ASSUME NEW t, Sound(t), Awaits(t), NEW p \in Seated(t), NEW u \in Rebuy(t, p),
         ChipsStay /\ InProgress(t) => p \notin DOMAIN t.round.stack \ t.round.allIn
  PROVE  /\ Sound(u) /\ Awaits(u) /\ Beside(t, u) /\ FromReady(t, u)
         /\ u.ready = t.ready \cup {p} /\ u.exiting = t.exiting
<1> DEFINE ready == t.ready \cup {p}
           stack == [t.stack EXCEPT ![p] = BuyIn]
           w == [t EXCEPT !.stack = stack, !.ready = ready]
<1>1. Shape(t) /\ p \in Players /\ t.state[p] # "Away"
  BY SeatedArePlayers DEF Sound, Sits
<1>2. u \in TryStart(Return(w, p))
  <2>1. w = [t EXCEPT !.stack[p] = BuyIn, !.ready = @ \cup {p}]
    BY <1>1 DEF Shape, Fields
  <2> HIDE DEF w
  <2> QED  BY <2>1, Zenon DEF Rebuy
<1>3. DOMAIN stack = Players /\ \A q \in Players \ {p} : stack[q] = t.stack[q]
  BY <1>1 DEF Shape
<1> HIDE DEF ready, stack
<1>4. /\ DOMAIN w = Fields
      /\ w.seats = t.seats /\ w.stack = stack /\ w.in = t.in /\ w.state = t.state
      /\ w.ready = ready /\ w.exiting = t.exiting /\ w.dealer = t.dealer
      /\ w.dealt = t.dealt /\ w.round = t.round /\ w.runout = t.runout /\ w.stage = t.stage
  BY <1>1 DEF Shape, Fields
<1> HIDE DEF w
<1>5. Touches(t, p, w)  BY <1>1, <1>3, <1>4 DEF Touches, Shape, ready
<1> QED  BY <1>2, <1>4, <1>5, ReturnSound DEF ready

LEMMA MarkSound ==
  ASSUME NEW t, Sound(t), Awaits(t), NEW p \in Seated(t)
  PROVE  LET u == MarkReadyToPost(t, p) IN
         /\ Sound(u) /\ Awaits(u) /\ Beside(t, u) /\ FromReady(t, u)
         /\ u.ready = t.ready /\ u.exiting = t.exiting
<1> DEFINE post == t.post \cup {p}
           u == MarkReadyToPost(t, p)
<1>1. Shape(t) /\ p \in Players /\ t.state[p] # "Away"
  BY SeatedArePlayers DEF Sound, Sits
<1>2. CASE t.state[p] # "PendingEntry"
  <2>1. u = t  BY <1>2, Zenon DEF MarkReadyToPost
  <2> QED  BY <2>1 DEF Beside, FromReady, Dealing
<1>3. CASE t.state[p] = "PendingEntry"
  <2>1. u = [t EXCEPT !.post = post]  BY <1>3, Zenon DEF MarkReadyToPost
  <2> HIDE DEF post, u
  <2>2. /\ DOMAIN u = Fields
        /\ u.seats = t.seats /\ u.stack = t.stack /\ u.in = t.in /\ u.state = t.state
        /\ u.ready = t.ready /\ u.exiting = t.exiting /\ u.dealer = t.dealer
        /\ u.dealt = t.dealt /\ u.round = t.round /\ u.runout = t.runout /\ u.stage = t.stage
    BY <1>1, <2>1 DEF Shape, Fields
  <2>3. Touches(t, p, u)  BY <1>1, <2>2 DEF Touches, Shape
  <2>4. Sound(u) /\ Awaits(u)  BY <2>3, TouchSound
  <2>5. Beside(t, u) /\ FromReady(t, u)  BY <2>2, StreetsAre DEF Beside, FromReady, Dealing
  <2> QED  BY <2>2, <2>4, <2>5 DEF u
<1> QED  BY <1>2, <1>3

(* What p's command or decision may do to the play.                        *)
Moves(t, p, u) ==
  \/ Beside(t, u)
  \/ Current(t) = p /\ Played(t, p, u)

(* p, who is on the clock, folds and will not be dealt the next hand.      *)
FoldedOut(t, p) ==
  [t EXCEPT !.ready = @ \ {p}, !.round = Fold(@, p), !.state[p] = "Folded"]

LEMMA FoldedOutIs ==
  ASSUME NEW t, Sound(t), NEW p \in Players, Current(t) = p, NEW w, w = FoldedOut(t, p)
  PROVE  /\ Sound(w) /\ InProgress(w) /\ InProgress(t)
         /\ p \in DOMAIN t.round.stack /\ DOMAIN t.round = RoundFields
         /\ w.seats = t.seats /\ w.stack = t.stack /\ w.in = t.in
         /\ w.ready = t.ready \ {p} /\ w.exiting = t.exiting /\ w.dealer = t.dealer
         /\ w.dealt = t.dealt /\ w.stage = t.stage
         /\ w.round = Fold(t.round, p) /\ w.round.lastActor = p
<1> DEFINE ready == t.ready \ {p}
           round == Fold(t.round, p)
           state == [t.state EXCEPT ![p] = "Folded"]
<1>1. /\ Shape(t) /\ DOMAIN t = Fields /\ p # Nobody /\ ready \subseteq t.ready
  <2>1. Shape(t) /\ DOMAIN t = Fields  BY DEF Sound, Sits, Shape
  <2>2. ready \subseteq t.ready  OBVIOUS
  <2> QED  BY <2>1, <2>2, StakesAssumption
<1>2. /\ InProgress(t) /\ p \in DOMAIN t.round.stack /\ MayAct(t.round, p)
  BY <1>1, CurrentIs
<1>3. w = [t EXCEPT !.ready = ready, !.round = round, !.state = state]
  BY <1>1 DEF FoldedOut, Fields
<1>4. DOMAIN t.round = RoundFields /\ p \in t.dealt  BY <1>2 DEF Sound, Fits
<1>5. Decides(t.round, p, round)  BY <1>2, <1>4, FoldDecides
<1>6. /\ round.stack = t.round.stack /\ round.allIn = t.round.allIn /\ p \in round.folded
      /\ p \notin round.allIn /\ (ChipsStay => t.stack[p] = t.round.stack[p])
  BY <1>2, <1>4 DEF Fold, RoundFields, MayAct, Sound, Fits
<1>7. /\ DOMAIN state = Players /\ state[p] = "Folded"
      /\ \A q \in Players \ {p} : state[q] = t.state[q]
  BY <1>1 DEF Shape
<1> HIDE DEF ready, round, state
<1>8. /\ DOMAIN w = Fields
      /\ w.seats = t.seats /\ w.stack = t.stack /\ w.in = t.in /\ w.state = state
      /\ w.ready = ready /\ w.exiting = t.exiting /\ w.dealer = t.dealer
      /\ w.dealt = t.dealt /\ w.round = round /\ w.runout = t.runout /\ w.stage = t.stage
  BY <1>1, <1>3 DEF Fields
<1>9. Decided(t, p, round, w)
  BY <1>1, <1>6, <1>7, <1>8 DEF Decided, Shape
<1>10. Sound(w) /\ InProgress(w)  BY <1>2, <1>5, <1>9, DecidedSound
<1> QED  BY <1>2, <1>4, <1>5, <1>8, <1>10 DEF Decides, ready, round

LEMMA SitOutSound ==
  ASSUME NEW t, Sound(t), Awaits(t), NEW p \in Seated(t), NEW u \in SitOut(t, p)
  PROVE  /\ Sound(u) /\ Awaits(u) /\ Moves(t, p, u) /\ FromReady(t, u)
         /\ u.ready = t.ready \ {p} /\ u.exiting = t.exiting
<1> DEFINE ready == t.ready \ {p}
           v == [t EXCEPT !.ready = ready]
<1>1. /\ Shape(t) /\ DOMAIN t = Fields /\ p \in Players /\ p # Nobody
      /\ t.state[p] # "Away" /\ ready \subseteq t.ready
  <2>1. Sits(t) /\ Shape(t) /\ Seats(t)  BY DEF Sound, Sits
  <2>2. p \in Players  BY <2>1, SeatedArePlayers
  <2>3. DOMAIN t = Fields  BY <2>1 DEF Shape
  <2>4. ready \subseteq t.ready  OBVIOUS
  <2>5. t.state[p] # "Away"  BY <2>1, <2>2 DEF Sits
  <2> QED  BY <2>1, <2>2, <2>3, <2>4, <2>5, StakesAssumption
<1>2. u \in IF FoldsNow(t, p)
            THEN IfClosed([v EXCEPT !.round = Fold(@, p), !.state[p] = "Folded"])
            ELSE {IF KeepsState(t, p) THEN v ELSE [v EXCEPT !.state[p] = "SittingOut"]}
  <2>1. SitOut(t, p) = IF FoldsNow(t, p)
            THEN IfClosed([v EXCEPT !.round = Fold(@, p), !.state[p] = "Folded"])
            ELSE {IF KeepsState(t, p) THEN v ELSE [v EXCEPT !.state[p] = "SittingOut"]}
    BY Zenon DEF SitOut
  <2> HIDE DEF v
  <2> QED  BY <2>1
<1> HIDE DEF ready
<1>3. /\ DOMAIN v = Fields
      /\ v.seats = t.seats /\ v.stack = t.stack /\ v.in = t.in /\ v.state = t.state
      /\ v.ready = ready /\ v.exiting = t.exiting /\ v.dealer = t.dealer
      /\ v.dealt = t.dealt /\ v.round = t.round /\ v.runout = t.runout /\ v.stage = t.stage
  BY <1>1 DEF Fields
<1> HIDE DEF v
<1>4. CASE FoldsNow(t, p)
  <2> DEFINE w == FoldedOut(t, p)
  <2>1. Current(t) = p  BY <1>4 DEF FoldsNow
  <2>2. u \in IfClosed(w)
    <3>1. w = [v EXCEPT !.round = Fold(@, p), !.state[p] = "Folded"]
      BY <1>1 DEF FoldedOut, Fields, v, ready
    <3> HIDE DEF w
    <3> QED  BY <1>2, <1>4, <3>1, Zenon
  <2>3. /\ Sound(w) /\ InProgress(w) /\ InProgress(t)
        /\ w.seats = t.seats /\ w.ready = ready /\ w.exiting = t.exiting
        /\ w.dealer = t.dealer /\ w.dealt = t.dealt /\ w.stage = t.stage
        /\ w.round.lastActor = p
    BY <1>1, <2>1, FoldedOutIs DEF ready
  <2> HIDE DEF w
  <2>4. Sound(u) /\ Onward(w, u) /\ Awaits(u)  BY <2>2, <2>3, IfClosedSound
  <2>5. Played(t, p, u) /\ u.ready = ready /\ u.exiting = t.exiting
    BY <2>3, <2>4 DEF Onward, Played
  <2> QED  BY <2>1, <2>3, <2>4, <2>5 DEF Moves, FromReady, Dealing, ready
<1>5. CASE ~FoldsNow(t, p) /\ KeepsState(t, p)
  <2>1. u = v  BY <1>2, <1>5, Zenon
  <2>2. Touches(t, p, v)  BY <1>1, <1>3 DEF Touches, Shape
  <2>3. Sound(u) /\ Awaits(u)  BY <2>1, <2>2, TouchSound
  <2>4. Beside(t, u) /\ FromReady(t, u)
    BY <1>3, <2>1, StreetsAre DEF Beside, FromReady, Dealing
  <2> QED  BY <1>3, <2>1, <2>3, <2>4 DEF Moves, ready
<1>6. CASE ~FoldsNow(t, p) /\ ~KeepsState(t, p)
  <2> DEFINE state == [t.state EXCEPT ![p] = "SittingOut"]
  <2>1. u = [v EXCEPT !.state = state]
    BY <1>2, <1>3, <1>6 DEF Fields
  <2>2. /\ DOMAIN state = Players /\ state[p] = "SittingOut"
        /\ \A q \in Players \ {p} : state[q] = t.state[q]
    BY <1>1 DEF Shape
  <2> HIDE DEF state
  <2>3. /\ DOMAIN u = Fields
        /\ u.seats = t.seats /\ u.stack = t.stack /\ u.in = t.in /\ u.state = state
        /\ u.ready = ready /\ u.exiting = t.exiting /\ u.dealer = t.dealer
        /\ u.dealt = t.dealt /\ u.round = t.round /\ u.runout = t.runout /\ u.stage = t.stage
    BY <1>3, <2>1 DEF Fields
  <2>4. InProgress(t) /\ p \in t.dealt => t.state[p] \in {"Active", "SittingOut"}
    BY <1>6 DEF Sound, Dealt, InHand, KeepsState
  <2>5. Touches(t, p, u)  BY <1>1, <2>2, <2>3, <2>4 DEF Touches, Shape
  <2>6. Sound(u) /\ Awaits(u)  BY <2>5, TouchSound
  <2>7. Beside(t, u) /\ FromReady(t, u)
    BY <2>3, StreetsAre DEF Beside, FromReady, Dealing
  <2> QED  BY <2>3, <2>6, <2>7 DEF Moves, ready
<1> QED  BY <1>4, <1>5, <1>6

LEMMA RequestExitSound ==
  ASSUME NEW t, Sound(t), Awaits(t), NEW p \in Seated(t), NEW u \in RequestExit(t, p)
  PROVE  /\ Sound(u) /\ Awaits(u) /\ Moves(t, p, u) /\ FromReady(t, u)
         /\ u.ready = t.ready \ {p} /\ u.exiting = t.exiting \cup {p}
<1> DEFINE exiting == t.exiting \cup {p}
           ready   == t.ready \ {p}
           state   == [t.state EXCEPT ![p] =
                         IF @ \in {"Active", "AllIn"} \/ KeepsState(t, p) THEN @
                         ELSE "SittingOut"]
           v == [t EXCEPT !.exiting = exiting]
           w == [v EXCEPT !.ready = ready, !.state = state]
<1>1. Shape(t) /\ p \in Players /\ t.state[p] # "Away"
  BY SeatedArePlayers DEF Sound, Sits
<1> HIDE DEF exiting
<1>2. /\ DOMAIN v = Fields
      /\ v.seats = t.seats /\ v.stack = t.stack /\ v.in = t.in /\ v.state = t.state
      /\ v.ready = t.ready /\ v.exiting = exiting /\ v.dealer = t.dealer
      /\ v.dealt = t.dealt /\ v.round = t.round /\ v.runout = t.runout /\ v.stage = t.stage
  BY <1>1 DEF Shape, Fields
<1>3. u \in IF Current(t) = p THEN SitOut(v, p) ELSE {w}
  <2>1. w = [v EXCEPT !.ready = @ \ {p},
                      !.state[p] = IF \/ @ \in {"Active", "AllIn"}
                                      \/ KeepsState(t, p) THEN @ ELSE "SittingOut"]
    BY <1>2 DEF Fields
  <2> HIDE DEF w
  <2>2. u \in IF Current(t) = p THEN SitOut([t EXCEPT !.exiting = exiting], p)
              ELSE {[v EXCEPT !.ready = @ \ {p},
                      !.state[p] = IF \/ @ \in {"Active", "AllIn"}
                                      \/ KeepsState(t, p) THEN @ ELSE "SittingOut"]}
    BY Zenon DEF RequestExit, exiting
  <2> QED  BY <2>1, <2>2, Zenon
<1>4. /\ DOMAIN state = Players /\ \A q \in Players \ {p} : state[q] = t.state[q]
      /\ state[p] = t.state[p] \/ (state[p] = "SittingOut" /\ ~KeepsState(t, p))
  BY <1>1 DEF Shape
<1> HIDE DEF ready, state, v
<1>5. Touches(t, p, v)  BY <1>1, <1>2 DEF Touches, Shape, exiting
<1>6. Sound(v) /\ Awaits(v) /\ p \in Seated(v)  BY <1>5, TouchSound
<1>7. CASE Current(t) = p
  <2>1. u \in SitOut(v, p)  BY <1>3, <1>7
  <2>2. /\ Sound(u) /\ Awaits(u) /\ Moves(v, p, u) /\ FromReady(v, u)
        /\ u.ready = v.ready \ {p} /\ u.exiting = v.exiting
    BY <1>6, <2>1, SitOutSound
  <2>3. InProgress(v) <=> InProgress(t)  BY <1>2, StreetsAre
  <2>4. Beside(v, u) => Beside(t, u)  BY <1>2, <2>3 DEF Beside
  <2>5. Played(v, p, u) => Played(t, p, u)  BY <1>2, <2>3 DEF Played
  <2>6. FromReady(t, u)  BY <2>2, <2>3 DEF FromReady, Dealing
  <2> QED  BY <1>2, <1>7, <2>2, <2>4, <2>5, <2>6 DEF Moves, exiting
<1>8. CASE Current(t) # p
  <2>1. u = w  BY <1>3, <1>8
  <2>2. /\ DOMAIN w = Fields
        /\ w.seats = t.seats /\ w.stack = t.stack /\ w.in = t.in /\ w.state = state
        /\ w.ready = ready /\ w.exiting = exiting /\ w.dealer = t.dealer
        /\ w.dealt = t.dealt /\ w.round = t.round /\ w.runout = t.runout /\ w.stage = t.stage
    BY <1>2 DEF Fields
  <2> HIDE DEF w
  <2>3. InProgress(t) /\ p \in t.dealt /\ ~KeepsState(t, p) =>
          t.state[p] \in {"Active", "SittingOut"}
    BY DEF Sound, Dealt, InHand, KeepsState
  <2>4. w.exiting \subseteq t.exiting \cup {p} /\ w.ready \subseteq t.ready \cup {p}
    BY <2>2 DEF ready, exiting
  <2>5. Touches(t, p, w)  BY <1>1, <1>4, <2>2, <2>3, <2>4 DEF Touches, Shape
  <2>6. Sound(u) /\ Awaits(u)  BY <2>1, <2>5, TouchSound
  <2>7. Beside(t, u) /\ FromReady(t, u)
    BY <2>1, <2>2, StreetsAre DEF Beside, FromReady, Dealing
  <2> QED  BY <2>1, <2>2, <2>6, <2>7 DEF Moves, ready, exiting
<1> QED  BY <1>7, <1>8

----------------------------------------------------------------------------
(* Somebody sits down, somebody leaves.                                    *)
LEMMA AppendSeats ==
  ASSUME NEW t, Seats(t), NEW p \in Players \ Seated(t), NEW u, u.seats = Append(t.seats, p)
  PROVE  /\ Seats(u) /\ Seated(u) = Seated(t) \cup {p}
         /\ Len(u.seats) = Len(t.seats) + 1
         /\ \A i \in 1 .. Len(t.seats) : u.seats[i] = t.seats[i]
<1>1. /\ Len(t.seats) \in Nat /\ DOMAIN t.seats = 1 .. Len(t.seats)  BY DEF Seats
<1>2. /\ u.seats \in Seq(Players) /\ Len(u.seats) = Len(t.seats) + 1
      /\ \A i \in 1 .. Len(t.seats) : u.seats[i] = t.seats[i]
      /\ u.seats[Len(t.seats) + 1] = p
      /\ DOMAIN u.seats = 1 .. Len(t.seats) + 1
  BY <1>1 DEF Seats
<1>3. \A i \in 1 .. Len(t.seats) : t.seats[i] \in Seated(t)  BY SeatedAt
<1>4. Distinct(u.seats)
  <2> SUFFICES ASSUME NEW i \in 1 .. Len(t.seats) + 1, NEW j \in 1 .. Len(t.seats) + 1,
                      u.seats[i] = u.seats[j]
               PROVE  i = j
    BY <1>2 DEF Distinct
  <2>1. CASE i \in 1 .. Len(t.seats) /\ j \in 1 .. Len(t.seats)
    BY <1>1, <1>2, <2>1 DEF Seats, Distinct
  <2>2. CASE i = Len(t.seats) + 1 \/ j = Len(t.seats) + 1
    BY <1>1, <1>2, <1>3, <2>2
  <2> QED  BY <1>1, <2>1, <2>2
<1>5. Seated(u) = Seated(t) \cup {p}
  <2>1. Seated(u) = {u.seats[i] : i \in 1 .. Len(t.seats) + 1}  BY <1>2, Zenon DEF Seated, ToSet
  <2>2. Seated(t) = {t.seats[i] : i \in 1 .. Len(t.seats)}  BY <1>1, Zenon DEF Seated, ToSet
  <2>3. ASSUME NEW q \in Seated(u)  PROVE q \in Seated(t) \cup {p}
    BY <1>1, <1>2, <2>1, <2>2
  <2>4. ASSUME NEW q \in Seated(t)  PROVE q \in Seated(u)
    BY <1>1, <1>2, <2>1, <2>2
  <2>5. p \in Seated(u)  BY <1>1, <1>2, <2>1
  <2> QED  BY <2>3, <2>4, <2>5
<1> QED  BY <1>2, <1>4, <1>5 DEF Seats

LEMMA RemovedAt ==
  ASSUME NEW s \in Seq(Players), NEW k \in 1 .. Len(s), NEW u, u = RemoveAt(s, k)
  PROVE  /\ u \in Seq(Players)
         /\ Len(u) = Len(s) - 1
         /\ \A i \in 1 .. Len(s) - 1 : u[i] = IF i < k THEN s[i] ELSE s[i + 1]
<1> DEFINE a == SubSeq(s, 1, k - 1)
           b == SubSeq(s, k + 1, Len(s))
<1>1. Len(s) \in Nat  OBVIOUS
<1>2. a \in Seq(Players) /\ Len(a) = k - 1 /\ \A i \in 1 .. k - 1 : a[i] = s[i]
  BY <1>1
<1>3. b \in Seq(Players) /\ Len(b) = Len(s) - k /\ \A i \in 1 .. Len(s) - k : b[i] = s[i + k]
  BY <1>1
<1> HIDE DEF a, b
<1>4. /\ a \o b \in Seq(Players) /\ Len(a \o b) = Len(a) + Len(b)
      /\ \A i \in 1 .. Len(a) + Len(b) :
           (a \o b)[i] = IF i <= Len(a) THEN a[i] ELSE b[i - Len(a)]
  BY <1>2, <1>3, ConcatProperties
<1>5. \A i \in 1 .. Len(s) - 1 : (a \o b)[i] = IF i < k THEN s[i] ELSE s[i + 1]
  BY <1>1, <1>2, <1>3, <1>4
<1>6. Len(a \o b) = Len(s) - 1  BY <1>1, <1>2, <1>3, <1>4
<1> QED  BY <1>4, <1>5, <1>6 DEF RemoveAt, a, b

LEMMA RemoveSeats ==
  ASSUME NEW t, Seats(t), NEW p \in Seated(t), NEW u, u.seats = RemoveAt(t.seats, SeatOf(t, p))
  PROVE  /\ Seats(u) /\ Seated(u) = Seated(t) \ {p}
         /\ Len(u.seats) = Len(t.seats) - 1
         /\ \A i \in 1 .. Len(u.seats) :
              u.seats[i] = IF i < SeatOf(t, p) THEN t.seats[i] ELSE t.seats[i + 1]
<1> DEFINE k == SeatOf(t, p)
           n == Len(t.seats)
<1>1. n \in Nat /\ DOMAIN t.seats = 1 .. n /\ k \in 1 .. n /\ t.seats[k] = p
  BY SeatOfIs DEF Seats
<1> HIDE DEF k, n
<1>2. /\ u.seats \in Seq(Players) /\ Len(u.seats) = n - 1
      /\ \A i \in 1 .. n - 1 : u.seats[i] = IF i < k THEN t.seats[i] ELSE t.seats[i + 1]
  BY <1>1, RemovedAt DEF Seats, n, k
<1>3. DOMAIN u.seats = 1 .. n - 1  BY <1>1, <1>2
<1>4. \A i, j \in 1 .. n : t.seats[i] = t.seats[j] => i = j
  BY <1>1 DEF Seats, Distinct
<1>5. Distinct(u.seats)
  <2> SUFFICES ASSUME NEW i \in 1 .. n - 1, NEW j \in 1 .. n - 1, u.seats[i] = u.seats[j]
               PROVE  i = j
    BY <1>3 DEF Distinct
  <2> DEFINE x == IF i < k THEN i ELSE i + 1
             y == IF j < k THEN j ELSE j + 1
  <2>1. x \in 1 .. n /\ y \in 1 .. n  BY <1>1
  <2>2. u.seats[i] = t.seats[x] /\ u.seats[j] = t.seats[y]  BY <1>2
  <2>3. x = y  BY <1>4, <2>1, <2>2
  <2> QED  BY <1>1, <2>3
<1>6. Seated(u) = {u.seats[i] : i \in 1 .. n - 1}  BY <1>3, Zenon DEF Seated, ToSet
<1>7. Seated(t) = {t.seats[i] : i \in 1 .. n}  BY <1>1, Zenon DEF Seated, ToSet
<1>8. ASSUME NEW q \in Seated(u)  PROVE q \in Seated(t) \ {p}
  <2>1. PICK i \in 1 .. n - 1 : q = u.seats[i]  BY <1>6
  <2> DEFINE x == IF i < k THEN i ELSE i + 1
  <2>2. x \in 1 .. n /\ x # k  BY <1>1
  <2>3. q = t.seats[x]  BY <1>2, <2>1
  <2> HIDE DEF x
  <2> QED  BY <1>1, <1>4, <1>7, <2>2, <2>3
<1>9. ASSUME NEW q \in Seated(t), q # p  PROVE q \in Seated(u)
  <2>1. PICK x \in 1 .. n : q = t.seats[x]  BY <1>7
  <2> DEFINE i == IF x < k THEN x ELSE x - 1
  <2>2. x # k  BY <1>1, <1>9, <2>1
  <2>3. i \in 1 .. n - 1 /\ x = IF i < k THEN i ELSE i + 1  BY <1>1, <2>2
  <2>4. q = u.seats[i]  BY <1>2, <2>1, <2>3
  <2> QED  BY <1>6, <2>3, <2>4
<1>10. Seated(u) = Seated(t) \ {p}  BY <1>8, <1>9
<1> QED  BY <1>2, <1>5, <1>10 DEF Seats, n, k

(* Somebody else sat down, somebody else left: the hand goes on as it was. *)
Joined(t, p, u) ==
  InProgress(t) => /\ p \notin Seated(t) /\ u.seats = Append(t.seats, p)
                   /\ u.dealer = t.dealer /\ u.dealt = t.dealt
                   /\ u.stage = t.stage /\ u.round = t.round

Parted(t, p, u) ==
  InProgress(t) => /\ p \in Seated(t) \ t.dealt /\ u.seats = RemoveAt(t.seats, SeatOf(t, p))
                   /\ u.dealer = DealerWithout(t, p) /\ u.dealt = t.dealt
                   /\ u.stage = t.stage /\ u.round = t.round

(* p in a seat of their own, with the chips they bought.                   *)
SatDown(t, p) ==
  [t EXCEPT !.seats = Append(@, p), !.stack[p] = BuyIn, !.ready = @ \cup {p},
            !.state[p] = IF InProgress(t) THEN "PendingEntry" ELSE "Active"]

Joining(t, p, w) ==
  /\ w.seats = Append(t.seats, p) /\ Seated(w) = Seated(t) \cup {p}
  /\ w.stack = [t.stack EXCEPT ![p] = BuyIn] /\ w.in = t.in
  /\ w.ready = t.ready \cup {p} /\ w.exiting = t.exiting
  /\ w.dealer = t.dealer /\ w.dealt = t.dealt
  /\ w.stage = t.stage /\ w.round = t.round

LEMMA SatDownIs ==
  ASSUME NEW t, Sound(t), Awaits(t), NEW p \in Players, p \notin Seated(t),
         NEW w, w = SatDown(t, p)
  PROVE  Sound(w) /\ Awaits(w) /\ Joining(t, p, w)
<1> DEFINE seats == Append(t.seats, p)
           stack == [t.stack EXCEPT ![p] = BuyIn]
           ready == t.ready \cup {p}
           state == [t.state EXCEPT ![p] = IF InProgress(t) THEN "PendingEntry" ELSE "Active"]
<1>1. Sits(t) /\ Shape(t) /\ Seats(t)  BY DEF Sound, Sits
<1>2. w = [t EXCEPT !.seats = seats, !.stack = stack, !.ready = ready, !.state = state]
  BY <1>1 DEF SatDown, Shape, Fields
<1>3. /\ DOMAIN stack = Players /\ \A q \in Players \ {p} : stack[q] = t.stack[q]
      /\ DOMAIN state = Players /\ \A q \in Players \ {p} : state[q] = t.state[q]
      /\ state[p] # "Away"
  BY <1>1 DEF Shape
<1> HIDE DEF seats, ready, stack, state
<1>4. /\ DOMAIN w = Fields
      /\ w.seats = seats /\ w.stack = stack /\ w.in = t.in /\ w.state = state
      /\ w.ready = ready /\ w.exiting = t.exiting /\ w.dealer = t.dealer
      /\ w.dealt = t.dealt /\ w.round = t.round /\ w.runout = t.runout /\ w.stage = t.stage
  BY <1>1, <1>2 DEF Shape, Fields
<1>5. /\ Seats(w) /\ Seated(w) = Seated(t) \cup {p} /\ Len(w.seats) = Len(t.seats) + 1
      /\ Len(t.seats) \in Nat
  <2>1. w.seats = Append(t.seats, p)  BY <1>4 DEF seats
  <2>2. Len(t.seats) \in Nat  BY <1>1 DEF Seats
  <2> QED  BY <1>1, <2>1, <2>2, AppendSeats
<1>6. Sits(w)
  <2>1. \A q \in Players : q \in Seated(w) <=> w.state[q] # "Away"
    BY <1>1, <1>3, <1>4, <1>5 DEF Sits
  <2>2. w.ready \subseteq Seated(w) /\ w.exiting \subseteq Seated(w)
    BY <1>1, <1>4, <1>5 DEF Sits, ready
  <2>3. w.dealer \in 1 .. Len(w.seats) + 1  BY <1>1, <1>4, <1>5 DEF Sits
  <2>4. Shape(w)  BY <1>1, <1>3, <1>4 DEF Shape
  <2> QED  BY <1>5, <2>1, <2>2, <2>3, <2>4 DEF Sits
<1>7. Aside(t, w)
  <2>1. ASSUME InProgress(t)
        PROVE  /\ t.dealt \subseteq Seated(w)
               /\ \A q \in t.dealt : w.state[q] = t.state[q]
               /\ \A q \in DOMAIN t.round.stack : w.stack[q] = t.stack[q]
    <3>1. t.dealt \subseteq Seated(t) /\ t.dealt \subseteq Players \ {p}
      BY <1>1, <2>1, SeatedArePlayers DEF Sound, Dealt
    <3>2. DOMAIN t.round.stack \subseteq t.dealt  BY <2>1 DEF Sound, Fits
    <3> QED  BY <1>3, <1>4, <1>5, <3>1, <3>2
  <2>2. w.dealer \in Nat  BY <1>1, <1>4, <1>5 DEF Sits
  <2> QED  BY <1>4, <2>1, <2>2 DEF Aside
<1>8. Sound(w) /\ Awaits(w)  BY <1>6, <1>7, AsideSound
<1>9. /\ w.seats = Append(t.seats, p) /\ w.stack = [t.stack EXCEPT ![p] = BuyIn]
      /\ w.ready = t.ready \cup {p}
  BY <1>4 DEF seats, stack, ready
<1>10. Joining(t, p, w)  BY <1>4, <1>5, <1>9, Zenon DEF Joining
<1> QED  BY <1>8, <1>10

LEMMA SeatSound ==
  ASSUME NEW t, Sound(t), Awaits(t), NEW p \in Players \ Seated(t), NEW u \in Seat(t, p)
  PROVE  /\ Sound(u) /\ Awaits(u) /\ Joined(t, p, u) /\ FromReady(t, u)
         /\ u.ready = t.ready \cup {p} /\ u.exiting = t.exiting
<1> DEFINE w == SatDown(t, p)
<1>1. u \in TryStart(w) /\ w = SatDown(t, p)  BY Zenon DEF Seat, SatDown
<1> HIDE DEF w
<1>2. Sound(w) /\ Awaits(w) /\ Joining(t, p, w)  BY <1>1, SatDownIs
<1>3. InProgress(w) <=> InProgress(t)  BY <1>2, StreetsAre DEF Joining
<1>4. /\ Sound(u) /\ Awaits(u)
      /\ u = w \/ (~InProgress(w) /\ Started(w, u))
  BY <1>1, <1>2, TryStartSound
<1>5. Joined(t, p, u)  BY <1>2, <1>3, <1>4 DEF Joined, Joining
<1>6. FromReady(t, u)  BY <1>2, <1>3, <1>4 DEF FromReady, Dealing, Started
<1> QED  BY <1>2, <1>4, <1>5, <1>6 DEF Started, Joining

LEMMA RemoveSound ==
  ASSUME NEW t, Sound(t), Awaits(t), NEW p \in Seated(t),
         InProgress(t) => p \notin t.dealt
  PROVE  LET u == RemovePlayer(t, p) IN
         /\ Sound(u) /\ Awaits(u) /\ Parted(t, p, u) /\ FromReady(t, u)
         /\ u.ready = t.ready \ {p} /\ u.exiting = t.exiting \ {p}
<1> DEFINE seats   == RemoveAt(t.seats, SeatOf(t, p))
           stack   == [t.stack EXCEPT ![p] = 0]
           in      == [t.in EXCEPT ![p] = 0]
           state   == [t.state EXCEPT ![p] = "Away"]
           ready   == t.ready \ {p}
           exiting == t.exiting \ {p}
           dealer  == DealerWithout(t, p)
           dealt   == IF Seated(t) = {p} THEN {} ELSE t.dealt
           u       == RemovePlayer(t, p)
<1>1. Sits(t) /\ Shape(t) /\ Seats(t) /\ p \in Players
  BY SeatedArePlayers DEF Sound, Sits
<1>2. u = [t EXCEPT !.seats = seats, !.stack = stack, !.in = in, !.state = state,
                    !.ready = ready, !.exiting = exiting, !.dealer = dealer, !.dealt = dealt]
  BY <1>1 DEF RemovePlayer, Shape, Fields
<1>3. /\ DOMAIN stack = Players /\ \A q \in Players \ {p} : stack[q] = t.stack[q]
      /\ DOMAIN in = Players
      /\ DOMAIN state = Players /\ \A q \in Players \ {p} : state[q] = t.state[q]
      /\ state[p] = "Away"
  BY <1>1 DEF Shape
<1> HIDE DEF seats, ready, exiting, stack, in, state, dealer, dealt, u
<1>4. /\ DOMAIN u = Fields
      /\ u.seats = seats /\ u.stack = stack /\ u.in = in /\ u.state = state
      /\ u.ready = ready /\ u.exiting = exiting /\ u.dealer = dealer
      /\ u.dealt = dealt /\ u.round = t.round /\ u.runout = t.runout /\ u.stage = t.stage
  BY <1>1, <1>2 DEF Shape, Fields
<1>5. /\ Seats(u) /\ Seated(u) = Seated(t) \ {p} /\ Len(u.seats) = Len(t.seats) - 1
      /\ Len(t.seats) \in Nat /\ SeatOf(t, p) \in 1 .. Len(t.seats)
  <2>1. u.seats = RemoveAt(t.seats, SeatOf(t, p))  BY <1>4 DEF seats
  <2>2. Len(t.seats) \in Nat  BY <1>1 DEF Seats
  <2> QED  BY <1>1, <2>1, <2>2, RemoveSeats, SeatOfIs
<1>6. u.dealer \in 1 .. Len(u.seats) + 1
  BY <1>1, <1>4, <1>5 DEF Sits, dealer, DealerWithout
<1>7. Sits(u)
  <2>1. \A q \in Players : q \in Seated(u) <=> u.state[q] # "Away"
    BY <1>1, <1>3, <1>4, <1>5 DEF Sits
  <2>2. u.ready \subseteq Seated(u) /\ u.exiting \subseteq Seated(u)
    BY <1>1, <1>4, <1>5 DEF Sits, ready, exiting
  <2>3. Shape(u)  BY <1>1, <1>3, <1>4 DEF Shape
  <2> QED  BY <1>5, <1>6, <2>1, <2>2, <2>3 DEF Sits
<1>8. InProgress(t) => u.dealt = t.dealt
  BY <1>4 DEF Sound, Dealt, dealt
<1>9. Aside(t, u)
  <2>1. ASSUME InProgress(t)
        PROVE  /\ t.dealt \subseteq Seated(u)
               /\ \A q \in t.dealt : u.state[q] = t.state[q]
               /\ \A q \in DOMAIN t.round.stack : u.stack[q] = t.stack[q]
    <3>1. t.dealt \subseteq Seated(t) /\ t.dealt \subseteq Players \ {p}
      BY <1>1, <2>1, SeatedArePlayers DEF Sound, Dealt
    <3>2. DOMAIN t.round.stack \subseteq t.dealt  BY <2>1 DEF Sound, Fits
    <3> QED  BY <1>3, <1>4, <1>5, <3>1, <3>2
  <2>2. u.dealer \in Nat  BY <1>5, <1>6
  <2> QED  BY <1>4, <1>8, <2>1, <2>2 DEF Aside
<1>10. Sound(u) /\ Awaits(u) /\ (InProgress(u) <=> InProgress(t))
  BY <1>7, <1>9, AsideSound
<1>11. Parted(t, p, u) /\ FromReady(t, u)
  BY <1>4, <1>8, <1>10 DEF Parted, FromReady, Dealing, seats, dealer
<1> QED  BY <1>4, <1>10, <1>11 DEF u, ready, exiting

----------------------------------------------------------------------------
(* Every step keeps the invariant, and is one of these: the play goes on   *)
(* beside it or by p's decision, p joins, p leaves, or the board runs out. *)
RunsOut(t, u) == AwaitingRunout(t) /\ Onward(t, u)

Step(t, p, u) ==
  Moves(t, p, u) \/ Joined(t, p, u) \/ Parted(t, p, u) \/ RunsOut(t, u)

(* Whoever asks to leave gives none of the commands that make one ready    *)
(* for the next hand, save the one that takes the request back.            *)
NobodyReadiesAgain == {"ready", "rebuy", "rebuy in hand"} \cap Commands = {}

GoodStep(t, u) ==
  /\ Sound(u) /\ Awaits(u) /\ FromReady(t, u)
  /\ NobodyReadiesAgain => u.exiting \cap u.ready \subseteq t.exiting \cap t.ready
  /\ InProgress(t) => \E p \in Players : Step(t, p, u)

LEMMA DecisionIsGood ==
  ASSUME NEW t, Sound(t), NEW p \in Players, p # Nobody, Current(t) = p,
         NEW r, Decides(t.round, p, r), NEW u \in Acted(t, p, r)
  PROVE  GoodStep(t, u)
<1>1. InProgress(t) /\ p \in DOMAIN t.round.stack /\ MayAct(t.round, p)
  BY CurrentIs
<1>2. Sound(u) /\ Awaits(u) /\ Played(t, p, u) /\ u.ready = t.ready /\ u.exiting = t.exiting
  BY <1>1, ActedSound
<1> QED  BY <1>1, <1>2 DEF GoodStep, Step, Moves, FromReady, Dealing

LEMMA RoundOnClock ==
  ASSUME NEW t, Sound(t), NEW p, p # Nobody, Current(t) = p
  PROVE  DOMAIN t.round = RoundFields /\ MayAct(t.round, p) /\ p \in Seated(t)
BY CurrentIs DEF Sound, Fits

LEMMA ChangesTable ==
  ASSUME NEW tables, NEW bought, Changes(tables, bought)
  PROVE  table' \in tables
BY Zenon DEF Changes

LEMMA ActIsGood ==
  ASSUME Sound(table), NEW p \in Players, Act(p) \/ AutoFold(p)
  PROVE  GoodStep(table, table')
<1>1. p # Nobody /\ Current(table) = p
  BY DEF Act, ActFold, ActCheck, ActCall, ActRaise, AutoFold, OnClock
<1>2. DOMAIN table.round = RoundFields /\ MayAct(table.round, p)  BY <1>1, RoundOnClock
<1>3. ASSUME NEW r, Decides(table.round, p, r), Decide(p, r)  PROVE GoodStep(table, table')
  <2>1. table' \in Acted(table, p, r)  BY <1>3, ChangesTable DEF Decide, Becomes
  <2> QED  BY <1>1, <1>3, <2>1, DecisionIsGood
<1>4. CASE ActFold(p) \/ AutoFold(p)
  <2>1. Decide(p, Fold(table.round, p))  BY <1>4 DEF ActFold, AutoFold
  <2> QED  BY <1>2, <1>3, <2>1, FoldDecides
<1>5. CASE ActCheck(p)
  <2>1. Decide(p, Check(table.round, p))  BY <1>5 DEF ActCheck
  <2> QED  BY <1>2, <1>3, <2>1, CheckDecides
<1>6. CASE ActCall(p)
  <2>1. Decide(p, Call(table.round, p))  BY <1>6 DEF ActCall
  <2> QED  BY <1>2, <1>3, <2>1, CallDecides
<1>7. CASE ActRaise(p)
  <2>1. PICK amount \in 1 .. AllInTo(table.round, p) : Decide(p, Raise(table.round, p, amount))
    BY <1>7 DEF ActRaise
  <2> QED  BY <1>2, <1>3, <2>1, RaiseDecides
<1> QED  BY <1>4, <1>5, <1>6, <1>7 DEF Act

LEMMA TimeoutIsGood ==
  ASSUME Sound(table), Awaits(table), NEW p \in Players, TurnTimeout(p)
  PROVE  GoodStep(table, table')
<1>1. p # Nobody /\ Current(table) = p  BY DEF TurnTimeout, OnClock
<1>2. DOMAIN table.round = RoundFields /\ MayAct(table.round, p) /\ p \in Seated(table)
  BY <1>1, RoundOnClock
<1>3. ASSUME NEW r, Decides(table.round, p, r), Decide(p, r)  PROVE GoodStep(table, table')
  <2>1. table' \in Acted(table, p, r)  BY <1>3, ChangesTable DEF Decide, Becomes
  <2> QED  BY <1>1, <1>3, <2>1, DecisionIsGood
<1>4. CASE Decide(p, Check(table.round, p))  BY <1>2, <1>3, <1>4, CheckDecides
<1>5. CASE Decide(p, Fold(table.round, p))  BY <1>2, <1>3, <1>5, FoldDecides
<1>6. CASE Becomes(SitOut(table, p), 0)
  <2>1. table' \in SitOut(table, p)  BY <1>6, ChangesTable DEF Becomes
  <2>2. /\ Sound(table') /\ Awaits(table') /\ Moves(table, p, table') /\ FromReady(table, table')
        /\ table'.ready = table.ready \ {p} /\ table'.exiting = table.exiting
    BY <1>2, <2>1, SitOutSound
  <2> QED  BY <2>2 DEF GoodStep, Step
<1> QED  BY <1>4, <1>5, <1>6 DEF TurnTimeout

LEMMA SeatCommandIsGood ==
  ASSUME Sound(table), Awaits(table), NEW p \in Players,
         Ready(p) \/ StandDown(p) \/ AskToLeave(p) \/ StayAfterAll(p) \/ PostBigBlind(p)
  PROVE  GoodStep(table, table')
<1>1. p \in Seated(table)
  BY DEF Ready, StandDown, AskToLeave, StayAfterAll, PostBigBlind, Command
<1>2. CASE Ready(p)
  <2>1. table' \in SitIn(table, p) /\ "ready" \in Commands
    BY <1>2, ChangesTable DEF Ready, Called, Command
  <2>2. Sound(table') /\ Awaits(table') /\ Beside(table, table') /\ FromReady(table, table')
    BY <1>1, <2>1, SitInSound
  <2> QED  BY <2>1, <2>2 DEF GoodStep, Step, Moves, NobodyReadiesAgain
<1>3. CASE StandDown(p)
  <2>1. table' \in SitOut(table, p)  BY <1>3, ChangesTable DEF StandDown, Called
  <2>2. /\ Sound(table') /\ Awaits(table') /\ Moves(table, p, table') /\ FromReady(table, table')
        /\ table'.ready = table.ready \ {p} /\ table'.exiting = table.exiting
    BY <1>1, <2>1, SitOutSound
  <2> QED  BY <2>2 DEF GoodStep, Step
<1>4. CASE AskToLeave(p)
  <2>1. table' \in RequestExit(table, p)  BY <1>4, ChangesTable DEF AskToLeave, Called
  <2>2. /\ Sound(table') /\ Awaits(table') /\ Moves(table, p, table') /\ FromReady(table, table')
        /\ table'.ready = table.ready \ {p} /\ table'.exiting = table.exiting \cup {p}
    BY <1>1, <2>1, RequestExitSound
  <2> QED  BY <2>2 DEF GoodStep, Step
<1>5. CASE StayAfterAll(p)
  <2>1. table' \in CancelExit(table, p)  BY <1>5, ChangesTable DEF StayAfterAll, Called
  <2>2. /\ Sound(table') /\ Awaits(table') /\ Beside(table, table') /\ FromReady(table, table')
        /\ table'.ready = table.ready \cup {p} /\ table'.exiting = table.exiting \ {p}
    BY <1>1, <2>1, CancelExitSound
  <2> QED  BY <2>2 DEF GoodStep, Step, Moves
<1>6. CASE PostBigBlind(p)
  <2>1. table' = MarkReadyToPost(table, p)  BY <1>6, ChangesTable DEF PostBigBlind, Called
  <2>2. /\ Sound(table') /\ Awaits(table') /\ Beside(table, table') /\ FromReady(table, table')
        /\ table'.ready = table.ready /\ table'.exiting = table.exiting
    BY <1>1, <2>1, MarkSound
  <2> QED  BY <2>2 DEF GoodStep, Step, Moves
<1> QED  BY <1>2, <1>3, <1>4, <1>5, <1>6

LEMMA ComingAndGoingIsGood ==
  ASSUME Sound(table), Awaits(table), NEW p \in Players,
         Join(p) \/ RebuyChips(p) \/ Leave(p) \/ ExitSweep(p)
  PROVE  GoodStep(table, table')
<1>1. CASE Join(p)
  <2>1. table' \in Seat(table, p) /\ p \notin Seated(table)
    BY <1>1, ChangesTable DEF Join, Becomes
  <2>2. /\ Sound(table') /\ Awaits(table') /\ Joined(table, p, table') /\ FromReady(table, table')
        /\ table'.ready = table.ready \cup {p} /\ table'.exiting = table.exiting
    BY <2>1, SeatSound
  <2>3. p \notin table.exiting  BY <2>1 DEF Sound, Sits
  <2> QED  BY <2>2, <2>3 DEF GoodStep, Step
<1>2. CASE RebuyChips(p)
  <2>1. table' \in Rebuy(table, p)  BY <1>2, ChangesTable DEF RebuyChips, Called
  <2>2. p \in Seated(table) /\ ~NobodyReadiesAgain
    BY <1>2 DEF RebuyChips, Command, NobodyReadiesAgain
  <2>3. ChipsStay => ~DealtInBusted(p)  BY <1>2 DEF RebuyChips, Command, ChipsStay
  <2>4. Sound(table') /\ Awaits(table') /\ Beside(table, table') /\ FromReady(table, table')
    BY <2>1, <2>2, <2>3, RebuySound DEF DealtInBusted
  <2> QED  BY <2>2, <2>4 DEF GoodStep, Step, Moves
<1>3. CASE Leave(p) \/ ExitSweep(p)
  <2>1. table' = RemovePlayer(table, p)
    BY <1>3, ChangesTable DEF Leave, ExitSweep, Called, Becomes
  <2>2. p \in Seated(table) /\ (InProgress(table) => p \notin table.dealt)
    BY <1>3 DEF Leave, ExitSweep, MayLeave, Sound, Sits
  <2>3. /\ Sound(table') /\ Awaits(table') /\ Parted(table, p, table') /\ FromReady(table, table')
        /\ table'.ready = table.ready \ {p} /\ table'.exiting = table.exiting \ {p}
    BY <2>1, <2>2, RemoveSound
  <2> QED  BY <2>3 DEF GoodStep, Step
<1> QED  BY <1>1, <1>2, <1>3

LEMMA RunoutIsGood ==
  ASSUME Sound(table), RunoutStep
  PROVE  GoodStep(table, table')
<1>1. table' \in AdvanceRunout(table) /\ AwaitingRunout(table)
  BY ChangesTable DEF RunoutStep, Becomes
<1>2. InProgress(table) /\ AllIn(table)
  BY <1>1, StreetsAre DEF AwaitingRunout, AllIn, StreetSet
<1>3. /\ Sound(table') /\ Onward(table, table')
      /\ InProgress(table') => AwaitingRunout(table')
  BY <1>1, <1>2, AdvanceRunoutSound
<1>4. Players # {}  BY <1>2, SeatedArePlayers DEF Sound, Sits, Dealt
<1> QED  BY <1>1, <1>2, <1>3, <1>4 DEF GoodStep, Step, RunsOut, Awaits, FromReady, Dealing, Onward

LEMMA NextHandIsGood ==
  ASSUME Sound(table), NextHand
  PROVE  GoodStep(table, table')
<1>1. table' \in StartHand(table) /\ ~InProgress(table)
  BY ChangesTable, StreetsAre DEF NextHand, Becomes, StreetSet
<1>2. Sound(table') /\ Awaits(table') /\ Started(table, table')
  BY <1>1, StartHandSound DEF Sound
<1> QED  BY <1>1, <1>2 DEF GoodStep, FromReady, Dealing, Started

LEMMA NextIsGood ==
  ASSUME Sound(table), Awaits(table), Next
  PROVE  GoodStep(table, table')
<1>1. CASE \E q \in Players : PlayerCommand(q) \/ System(q)
  <2>1. PICK q \in Players : PlayerCommand(q) \/ System(q)  BY <1>1
  <2> QED
    BY <2>1, ActIsGood, TimeoutIsGood, SeatCommandIsGood, ComingAndGoingIsGood
    DEF PlayerCommand, System
<1>2. CASE RunoutStep \/ NextHand
  BY <1>2, RunoutIsGood, NextHandIsGood
<1> QED  BY <1>1, <1>2 DEF Next

----------------------------------------------------------------------------
(* The invariant of the table, and the theorems that follow from it.       *)
IInv == Sound(table) /\ Awaits(table)

LEMMA StartsSound ==
  ASSUME Init
  PROVE  IInv /\ table.exiting \cap table.ready = {}
<1>1. table = EmptyTable /\ Shape(table)
  BY DEF Init, EmptyTable, Shape, Fields, NoChips
<1>2. /\ table.seats = <<>> /\ table.ready = {} /\ table.exiting = {} /\ table.dealer = 1
      /\ table.stage = "Waiting" /\ table.runout = NoRunout
      /\ table.state = [p \in Players |-> "Away"]
  BY <1>1 DEF EmptyTable
<1>3. Seats(table) /\ Seated(table) = {}  BY <1>2 DEF Seats, Distinct, Seated, ToSet
<1>4. Sits(table)  BY <1>1, <1>2, <1>3 DEF Sits
<1>5. Staged(table) /\ ~InProgress(table)
  BY <1>2, StreetsAre DEF Staged, NoRunout, StreetSet
<1> QED  BY <1>2, <1>4, <1>5 DEF IInv, Sound, Awaits

LEMMA KeepsSound ==
  ASSUME IInv, [Next]_vars
  PROVE  IInv'
<1>1. CASE Next  BY <1>1, NextIsGood DEF IInv, GoodStep
<1>2. CASE UNCHANGED vars
  <2>1. table' = table  BY <1>2 DEF vars
  <2> QED  BY <2>1 DEF IInv
<1> QED  BY <1>1, <1>2

(* The table stays sound: who sits, who is dealt in, who decided, and that *)
(* a hand is never left with nobody to wait for.                           *)
THEOREM TableIsSound == Spec => []IInv
BY StartsSound, KeepsSound, PTL DEF Spec

(* The seats, the hand and the betting round keep three records of who     *)
(* plays (Player.State, roundIdx, roundBaseline), and they never drift     *)
(* apart, for any number of players and hands, as long as nobody dealt in  *)
(* without a chip is topped up during the hand.                            *)
THEOREM RecordsAgree == ASSUME ChipsStay PROVE Spec => []HandMatchesRound
<1>1. ASSUME Sound(table)  PROVE HandMatchesRound
  <2>1. /\ Sits(table) /\ Seats(table)
        /\ InProgress(table) => Dealt(table) /\ Fits(table, table.round)
    BY <1>1 DEF Sound, Sits
  <2>2. Cardinality(Seated(table)) = Len(table.seats)  BY <2>1, AsManySeats
  <2>3. /\ \A p \in Players : p \in Seated(table) <=> table.state[p] # "Away"
        /\ table.ready \cup table.exiting \subseteq Seated(table)
        /\ table.dealer \in 1 .. Len(table.seats) + 1
    BY <2>1 DEF Sits
  <2>4. ASSUME InProgress(table)
        PROVE  /\ table.dealt \subseteq Seated(table)
               /\ DOMAIN table.round.stack \subseteq table.dealt
               /\ \A p \in DOMAIN table.round.stack :
                    LET r == table.round
                    IN  /\ p \in r.folded <=> table.state[p] = "Folded"
                        /\ p \in r.allIn  <=> table.state[p] = "AllIn"
                        /\ p \notin r.allIn => table.stack[p] = r.stack[p]
    BY <2>1, <2>4, ChipsStay DEF Dealt, Fits
  <2> QED  BY <2>2, <2>3, <2>4 DEF HandMatchesRound
<1>2. IInv => HandMatchesRound  BY <1>1 DEF IInv
<1> QED  BY <1>2, TableIsSound, PTL

(* While a hand runs somebody is on the clock or the runout timer is due,  *)
(* unless the blinds themselves put everyone all-in (stillInHand,          *)
(* IsAwaitingRunoutForActor): whatever players join, pause or leave.       *)
THEOREM HandsAreMoved == Spec => []SomebodyIsAwaited
<1>1. IInv => SomebodyIsAwaited
  BY AwaitsSomebody DEF IInv, SomebodyIsAwaited, BlindsClosedBetting, Blinded
<1> QED  BY <1>1, TableIsSound, PTL

(* Whoever asked to leave is dealt no further hand (RequestExit), as long  *)
(* as nobody who asked readies up again but by taking the request back.    *)
THEOREM LeaversSitOut == ASSUME NobodyReadiesAgain PROVE Spec => LeaversNotDealt
<1> DEFINE Inv == IInv /\ table.exiting \cap table.ready = {}
<1>1. Init => Inv  BY StartsSound
<1>2. ASSUME Inv, Next
      PROVE  Inv' /\ (Dealing(table, table') => table.exiting \cap (table.exiting \cap table.dealt)' = {})
  <2>1. GoodStep(table, table')  BY <1>2, NextIsGood DEF IInv
  <2>2. table'.exiting \cap table'.ready = {}  BY <1>2, <2>1, NobodyReadiesAgain DEF GoodStep
  <2> QED  BY <2>1, <2>2 DEF GoodStep, IInv, FromReady
<1>3. Inv /\ [Next]_vars => Inv'
  <2>1. CASE Next  BY <1>2, <2>1
  <2>2. CASE UNCHANGED vars
    <3>1. table' = table  BY <2>2 DEF vars
    <3> QED  BY <3>1 DEF IInv
  <2> QED  BY <2>1, <2>2
<1>4. Inv /\ [Next]_vars =>
        [Dealing(table, table') => table.exiting \cap (table.exiting \cap table.dealt)' = {}]_vars
  BY <1>2
<1> HIDE DEF Inv
<1> QED  BY <1>1, <1>3, <1>4, PTL DEF Spec, LeaversNotDealt

----------------------------------------------------------------------------
(* The order of action.  Who follows whom among the players of S does not  *)
(* depend on the others' seats.                                            *)
SameOrder(t, u, S) ==
  \A X \in SUBSET S : X # {} =>
    /\ FirstFrom(u, u.dealer, X) = FirstFrom(t, t.dealer, X)
    /\ \A p \in S : After(u, p, X) = After(t, p, X)

LEMMA AppendSteps ==
  ASSUME NEW n \in Nat, NEW i \in 1 .. n + 1, NEW a \in 1 .. n, NEW b \in 1 .. n
  PROVE  Steps(n, i, a) <= Steps(n, i, b) => Steps(n + 1, i, a) <= Steps(n + 1, i, b)
BY DEF Steps

(* Where a seat, or one past a seat, is once seat k is gone.               *)
Without(k, i) == IF k < i THEN i - 1 ELSE i

LEMMA RemoveSteps ==
  ASSUME NEW n \in Nat \ {0}, NEW k \in 1 .. n, NEW i \in 1 .. n + 1,
         NEW a \in (1 .. n) \ {k}, NEW b \in (1 .. n) \ {k}
  PROVE  Steps(n, i, a) <= Steps(n, i, b)
           => Steps(n - 1, Without(k, i), Without(k, a)) <= Steps(n - 1, Without(k, i), Without(k, b))
BY DEF Steps, Without

LEMMA OneStepsApart ==
  ASSUME NEW n \in Nat, NEW i \in 1 .. n + 1, NEW a \in 1 .. n, NEW b \in 1 .. n,
         Steps(n, i, a) <= Steps(n, i, b), Steps(n, i, b) <= Steps(n, i, a)
  PROVE  a = b
BY DEF Steps

(* Two tables on which the players of X come in the same order, from seat  *)
(* i of the one and seat j of the other, have the same first of them.      *)
Aligned(t, i, u, j, X) ==
  \A p, q \in X :
    Steps(Len(t.seats), i, SeatOf(t, p)) <= Steps(Len(t.seats), i, SeatOf(t, q))
      => Steps(Len(u.seats), j, SeatOf(u, p)) <= Steps(Len(u.seats), j, SeatOf(u, q))

LEMMA FirstIsFirst ==
  ASSUME NEW t, Seats(t), NEW u, Seats(u), NEW i \in 1 .. Len(t.seats) + 1,
         NEW j \in 1 .. Len(u.seats) + 1, NEW X, X # {}, X \subseteq Seated(t), X \subseteq Seated(u),
         Aligned(t, i, u, j, X)
  PROVE  FirstFrom(u, j, X) = FirstFrom(t, i, X)
<1> DEFINE p == FirstFrom(t, i, X)
           q == FirstFrom(u, j, X)
<1>1. Nearest(t, i, X, p) /\ Nearest(u, j, X, q)  BY FirstFromIs
<1> HIDE DEF p, q
<1>2. p \in X /\ q \in X  BY <1>1 DEF Nearest
<1>3. Steps(Len(u.seats), j, SeatOf(u, p)) <= Steps(Len(u.seats), j, SeatOf(u, q))
  BY <1>1, <1>2 DEF Nearest, Aligned
<1>4. Steps(Len(u.seats), j, SeatOf(u, q)) <= Steps(Len(u.seats), j, SeatOf(u, p))
  BY <1>1, <1>2 DEF Nearest
<1>5. /\ SeatOf(u, p) \in 1 .. Len(u.seats) /\ SeatOf(u, q) \in 1 .. Len(u.seats)
      /\ u.seats[SeatOf(u, p)] = p /\ u.seats[SeatOf(u, q)] = q /\ Len(u.seats) \in Nat
  <2>1. p \in Seated(u) /\ q \in Seated(u)  BY <1>2
  <2>2. Len(u.seats) \in Nat  BY DEF Seats
  <2> QED  BY <2>1, <2>2, SeatOfIs
<1>6. SeatOf(u, p) = SeatOf(u, q)  BY <1>3, <1>4, <1>5, OneStepsApart
<1> QED  BY <1>5, <1>6 DEF p, q

LEMMA AppendOrder ==
  ASSUME NEW t, Seats(t), t.dealer \in 1 .. Len(t.seats) + 1, NEW p \in Players \ Seated(t),
         NEW u, u.seats = Append(t.seats, p), u.dealer = t.dealer, NEW S, S \subseteq Seated(t)
  PROVE  SameOrder(t, u, S)
<1> DEFINE n == Len(t.seats)
<1>1. /\ Seats(u) /\ Seated(u) = Seated(t) \cup {p} /\ Len(u.seats) = n + 1 /\ n \in Nat
      /\ \A i \in 1 .. n : u.seats[i] = t.seats[i]
  <2>1. n \in Nat  BY DEF Seats
  <2> QED  BY <2>1, AppendSeats
<1> HIDE DEF n
<1>2. ASSUME NEW q \in Seated(t)
      PROVE  SeatOf(t, q) \in 1 .. n /\ SeatOf(u, q) = SeatOf(t, q)
  <2>1. SeatOf(t, q) \in 1 .. n /\ t.seats[SeatOf(t, q)] = q  BY SeatOfIs DEF n
  <2>2. SeatOf(t, q) \in 1 .. Len(u.seats) /\ u.seats[SeatOf(t, q)] = q  BY <1>1, <2>1
  <2>3. q \in Seated(u)  BY <1>1
  <2> QED  BY <1>1, <2>1, <2>2, <2>3, SeatOfIs
<1>3. ASSUME NEW X \in SUBSET S, X # {}, NEW i \in 1 .. n + 1
      PROVE  FirstFrom(u, i, X) = FirstFrom(t, i, X)
  <2>1. Aligned(t, i, u, i, X)
    <3> SUFFICES ASSUME NEW a \in X, NEW b \in X, Steps(n, i, SeatOf(t, a)) <= Steps(n, i, SeatOf(t, b))
                 PROVE  Steps(n + 1, i, SeatOf(u, a)) <= Steps(n + 1, i, SeatOf(u, b))
      BY <1>1 DEF Aligned, n
    <3>1. SeatOf(t, a) \in 1 .. n /\ SeatOf(u, a) = SeatOf(t, a)  BY <1>2
    <3>2. SeatOf(t, b) \in 1 .. n /\ SeatOf(u, b) = SeatOf(t, b)  BY <1>2
    <3> QED  BY <1>1, <3>1, <3>2, AppendSteps
  <2>2. i \in 1 .. Len(u.seats) + 1 /\ X \subseteq Seated(t) /\ X \subseteq Seated(u)  BY <1>1
  <2> QED  BY <1>1, <1>3, <2>1, <2>2, FirstIsFirst DEF n
<1>4. ASSUME NEW X \in SUBSET S, X # {}, NEW q \in S
      PROVE  After(u, q, X) = After(t, q, X)
  <2>1. SeatOf(t, q) + 1 \in 1 .. n + 1 /\ SeatOf(u, q) = SeatOf(t, q)  BY <1>1, <1>2
  <2> QED  BY <1>3, <1>4, <2>1 DEF After
<1>5. t.dealer \in 1 .. n + 1  BY DEF n
<1> QED  BY <1>3, <1>4, <1>5 DEF SameOrder

LEMMA RemoveOrder ==
  ASSUME NEW t, Seats(t), t.dealer \in 1 .. Len(t.seats) + 1, NEW p \in Seated(t),
         NEW u, u.seats = RemoveAt(t.seats, SeatOf(t, p)), u.dealer = DealerWithout(t, p),
         NEW S, S \subseteq Seated(t) \ {p}
  PROVE  SameOrder(t, u, S)
<1> DEFINE n == Len(t.seats)
           k == SeatOf(t, p)
<1>1. /\ Seats(u) /\ Seated(u) = Seated(t) \ {p} /\ Len(u.seats) = n - 1
      /\ \A i \in 1 .. n - 1 : u.seats[i] = IF i < k THEN t.seats[i] ELSE t.seats[i + 1]
  <2>1. /\ Seats(u) /\ Seated(u) = Seated(t) \ {p} /\ Len(u.seats) = n - 1
        /\ \A i \in 1 .. Len(u.seats) : u.seats[i] = IF i < k THEN t.seats[i] ELSE t.seats[i + 1]
    BY RemoveSeats
  <2> QED  BY <2>1
<1>2. n \in Nat \ {0} /\ k \in 1 .. n /\ t.seats[k] = p  BY SeatOfIs DEF Seats
<1>3. u.dealer = Without(k, t.dealer) /\ t.dealer \in 1 .. n + 1
  BY DEF DealerWithout, Without
<1> HIDE DEF n, k
<1>4. ASSUME NEW q \in Seated(t) \ {p}
      PROVE  SeatOf(t, q) \in (1 .. n) \ {k} /\ SeatOf(u, q) = Without(k, SeatOf(t, q))
  <2> DEFINE i == SeatOf(t, q)
             j == Without(k, i)
  <2>1. i \in 1 .. n /\ t.seats[i] = q  BY SeatOfIs DEF n
  <2>2. i # k  BY <1>2, <2>1
  <2> HIDE DEF i
  <2>3. j \in 1 .. n - 1 /\ i = IF j < k THEN j ELSE j + 1  BY <1>2, <2>1, <2>2 DEF Without
  <2> HIDE DEF j
  <2>4. j \in 1 .. Len(u.seats) /\ u.seats[j] = q  BY <1>1, <2>1, <2>3
  <2>5. q \in Seated(u)  BY <1>1
  <2>6. j = SeatOf(u, q)  BY <1>1, <2>4, <2>5, SeatOfIs
  <2> QED  BY <2>1, <2>2, <2>6 DEF i, j
<1>5. ASSUME NEW X \in SUBSET S, X # {}, NEW i \in 1 .. n + 1
      PROVE  FirstFrom(u, Without(k, i), X) = FirstFrom(t, i, X)
  <2> DEFINE j == Without(k, i)
  <2>1. Aligned(t, i, u, j, X)
    <3> SUFFICES ASSUME NEW a \in X, NEW b \in X, Steps(n, i, SeatOf(t, a)) <= Steps(n, i, SeatOf(t, b))
                 PROVE  Steps(n - 1, j, SeatOf(u, a)) <= Steps(n - 1, j, SeatOf(u, b))
      BY <1>1 DEF Aligned, n
    <3>1. SeatOf(t, a) \in (1 .. n) \ {k} /\ SeatOf(u, a) = Without(k, SeatOf(t, a))  BY <1>4
    <3>2. SeatOf(t, b) \in (1 .. n) \ {k} /\ SeatOf(u, b) = Without(k, SeatOf(t, b))  BY <1>4
    <3> QED  BY <1>2, <3>1, <3>2, RemoveSteps
  <2>2. j \in 1 .. Len(u.seats) + 1 /\ X \subseteq Seated(t) /\ X \subseteq Seated(u)
    BY <1>1, <1>2 DEF Without
  <2> HIDE DEF j
  <2>3. i \in 1 .. Len(t.seats) + 1
    BY DEF n
  <2>4. FirstFrom(u, j, X) = FirstFrom(t, i, X)
    BY <1>1, <1>5, <2>1, <2>2, <2>3, FirstIsFirst
  <2> QED  BY <2>4 DEF j
<1>6. ASSUME NEW X \in SUBSET S, X # {}, NEW q \in S
      PROVE  After(u, q, X) = After(t, q, X)
  <2>1. SeatOf(t, q) \in (1 .. n) \ {k} /\ SeatOf(u, q) = Without(k, SeatOf(t, q))  BY <1>4
  <2>2. SeatOf(t, q) + 1 \in 1 .. n + 1 /\ SeatOf(u, q) + 1 = Without(k, SeatOf(t, q) + 1)
    BY <1>2, <2>1 DEF Without
  <2>3. FirstFrom(u, SeatOf(u, q) + 1, X) = FirstFrom(t, SeatOf(t, q) + 1, X)
    BY <1>5, <1>6, <2>2
  <2> QED  BY <2>3, Zenon DEF After
<1> QED  BY <1>3, <1>5, <1>6 DEF SameOrder

(* The button and the blinds of a hand, and who is on the clock, depend on *)
(* that order alone.                                                       *)
LEMMA SameBlinds ==
  ASSUME NEW t, Seats(t), t.dealer \in 1 .. Len(t.seats) + 1,
         NEW u, Seats(u), u.dealer \in 1 .. Len(u.seats) + 1,
         NEW S, S # {}, S \subseteq Seated(t), S \subseteq Seated(u), SameOrder(t, u, S)
  PROVE  Button(u, S) = Button(t, S) /\ BigBlindSeat(u, S) = BigBlindSeat(t, S)
<1>1. ASSUME NEW v, Seats(v), v.dealer \in 1 .. Len(v.seats) + 1, S \subseteq Seated(v)
      PROVE  Button(v, S) = FirstFrom(v, v.dealer, S) /\ Button(v, S) \in S
  <2> DEFINE n == Len(v.seats)
             i == IF v.dealer <= n THEN v.dealer ELSE 1
  <2>1. n \in Nat  BY <1>1 DEF Seats
  <2>2. S \cap Seated(v) # {}  BY <1>1
  <2>3. PICK q \in S : q \in Seated(v)  BY <1>1
  <2>4. SeatOf(v, q) \in 1 .. n  BY <1>1, <2>3, SeatOfIs
  <2>5. i \in 1 .. n + 1 /\ v.dealer \in 1 .. n + 1  BY <1>1, <2>1, <2>4
  <2>6. Aligned(v, v.dealer, v, i, S)
    <3> SUFFICES ASSUME NEW a \in S, NEW b \in S,
                        Steps(n, v.dealer, SeatOf(v, a)) <= Steps(n, v.dealer, SeatOf(v, b))
                 PROVE  Steps(n, i, SeatOf(v, a)) <= Steps(n, i, SeatOf(v, b))
      BY DEF Aligned
    <3>1. SeatOf(v, a) \in 1 .. n /\ SeatOf(v, b) \in 1 .. n  BY <1>1, SeatOfIs
    <3> HIDE DEF n
    <3>2. CASE v.dealer <= n  BY <3>2
    <3>3. CASE v.dealer = n + 1  BY <2>1, <3>1, <3>3 DEF Steps
    <3> QED  BY <2>1, <2>5, <3>2, <3>3
  <2> HIDE DEF i
  <2>7. FirstFrom(v, i, S) = FirstFrom(v, v.dealer, S)
    BY <1>1, <2>2, <2>5, <2>6, FirstIsFirst
  <2>8. Button(v, S) = FirstFrom(v, i, S)  BY DEF Button, i
  <2>9. FirstFrom(v, i, S) \in S  BY <1>1, <2>2, <2>5, FirstFromSeated
  <2> QED  BY <2>7, <2>8, <2>9
<1>2. Button(u, S) = Button(t, S) /\ Button(t, S) \in S  BY <1>1 DEF SameOrder
<1>3. \A p \in S : After(u, p, S) = After(t, p, S)  BY DEF SameOrder
<1>4. \A p \in S : After(t, p, S) \in S  BY AfterSeated
<1>5. SmallBlindSeat(u, S) = SmallBlindSeat(t, S) /\ SmallBlindSeat(t, S) \in S
  BY <1>2, <1>3, <1>4 DEF SmallBlindSeat
<1> QED  BY <1>2, <1>3, <1>5 DEF BigBlindSeat

LEMMA SameClock ==
  ASSUME NEW t, Sound(t), NEW u, Sound(u), InProgress(t),
         u.dealt = t.dealt, u.stage = t.stage, u.round = t.round, SameOrder(t, u, t.dealt)
  PROVE  Button(u, t.dealt) = Button(t, t.dealt) /\ Current(u) = Current(t)
<1>1. InProgress(u)  BY StreetsAre
<1>2. /\ Seats(t) /\ t.dealer \in 1 .. Len(t.seats) + 1 /\ Dealt(t) /\ Fits(t, t.round)
      /\ Seats(u) /\ u.dealer \in 1 .. Len(u.seats) + 1 /\ Dealt(u)
  BY <1>1 DEF Sound, Sits
<1>3. t.dealt # {} /\ t.dealt \subseteq Seated(t) /\ t.dealt \subseteq Seated(u)
  BY <1>2 DEF Dealt
<1>4. /\ Button(u, t.dealt) = Button(t, t.dealt)
      /\ BigBlindSeat(u, t.dealt) = BigBlindSeat(t, t.dealt)
  BY <1>2, <1>3, SameBlinds
<1> DEFINE a == IF t.round.lastActor # Nobody THEN t.round.lastActor
                ELSE IF t.stage = "PreFlop" THEN BigBlindSeat(t, t.dealt)
                ELSE Button(t, t.dealt)
<1>5. a \in t.dealt
  <2>1. Button(t, t.dealt) \in t.dealt /\ BigBlindSeat(t, t.dealt) \in t.dealt
    <3>1. t.dealer \in Nat \ {0}  BY <1>2 DEF Seats
    <3> QED  BY <1>2, <1>3, <3>1, ButtonSeated, BlindsSeated
  <2> QED  BY <1>2, <2>1 DEF Fits
<1>6. ScanFrom(t) = SeatOf(t, a) + 1 /\ ScanFrom(u) = SeatOf(u, a) + 1
  <2>1. ScanFrom(t) = SeatOf(t, a) + 1  BY Zenon DEF ScanFrom
  <2>2. ScanFrom(u) = SeatOf(u, a) + 1  BY <1>4 DEF ScanFrom
  <2> QED  BY <2>1, <2>2
<1> HIDE DEF a
<1>7. Waited(u) = Waited(t) /\ Waited(t) \subseteq t.dealt  BY <1>2 DEF Waited, Fits
<1>8. CASE Waited(t) = {}  BY <1>4, <1>7, <1>8 DEF Current
<1>9. CASE Waited(t) # {}
  <2>1. After(u, a, Waited(t)) = After(t, a, Waited(t))  BY <1>5, <1>7, <1>9 DEF SameOrder
  <2>2. Current(u) = After(u, a, Waited(t)) /\ Current(t) = After(t, a, Waited(t))
    BY <1>1, <1>6, <1>7, <1>9 DEF Current, After
  <2> QED  BY <1>4, <2>1, <2>2
<1> QED  BY <1>8, <1>9

LEMMA SameSeats ==
  ASSUME NEW t, NEW u, u.seats = t.seats, u.dealer = t.dealer, NEW S
  PROVE  SameOrder(t, u, S)
<1>1. \A q : SeatOf(u, q) = SeatOf(t, q)  BY DEF SeatOf
<1>2. \A i, X : FirstFrom(u, i, X) = FirstFrom(t, i, X)  BY DEF FirstFrom
<1> QED  BY <1>1, <1>2 DEF SameOrder, After

(* A step of the play: the button stays, and the clock leaves p only if p  *)
(* decided.                                                                *)
LEMMA StepKeepsOrder ==
  ASSUME NEW t, Sound(t), NEW u, Sound(u), InProgress(t), InProgress(u),
         NEW p \in Players, Step(t, p, u)
  PROVE  /\ Button(u, t.dealt) = Button(t, t.dealt)
         /\ u.stage = t.stage => Current(u) = Current(t) \/ u.round.lastActor = Current(t)
<1>1. /\ Sits(t) /\ Seats(t) /\ t.dealer \in 1 .. Len(t.seats) + 1
      /\ t.dealt \subseteq Seated(t) /\ t.dealt # {}
  BY DEF Sound, Sits, Dealt
<1>2. ASSUME u.seats = t.seats, u.dealer = t.dealer
      PROVE  SameOrder(t, u, t.dealt) /\ Button(u, t.dealt) = Button(t, t.dealt)
  <2>1. SameOrder(t, u, t.dealt)  BY <1>2, SameSeats
  <2>2. Seats(u) /\ Seated(u) = Seated(t) /\ u.dealer \in 1 .. Len(u.seats) + 1
    BY <1>1, <1>2 DEF Seats, Seated
  <2> QED  BY <1>1, <2>1, <2>2, SameBlinds
<1>3. CASE Beside(t, u)
  BY <1>2, <1>3, SameClock DEF Beside
<1>4. CASE Current(t) = p /\ Played(t, p, u)
  BY <1>2, <1>4 DEF Played
<1>5. CASE Joined(t, p, u)
  <2>1. SameOrder(t, u, t.dealt)  BY <1>1, <1>5, AppendOrder DEF Joined
  <2> QED  BY <1>5, <2>1, SameClock DEF Joined
<1>6. CASE Parted(t, p, u)
  <2>1. t.dealt \subseteq Seated(t) \ {p}  BY <1>1, <1>6 DEF Parted
  <2>2. SameOrder(t, u, t.dealt)  BY <1>1, <1>6, <2>1, RemoveOrder DEF Parted
  <2> QED  BY <1>6, <2>2, SameClock DEF Parted
<1>7. CASE RunsOut(t, u)
  <2>1. SameOrder(t, u, t.dealt) /\ Button(u, t.dealt) = Button(t, t.dealt)
    BY <1>2, <1>7 DEF RunsOut, Onward
  <2>2. ASSUME u.stage = t.stage  PROVE Current(u) = Current(t)
    BY <1>7, <2>1, <2>2, SameClock DEF RunsOut, Onward
  <2> QED  BY <2>1, <2>2
<1> QED  BY <1>3, <1>4, <1>5, <1>6, <1>7 DEF Step, Moves

(* While a hand is played, nobody joining or leaving moves the button, so  *)
(* the order of action stays what it was (RemovePlayerForActor).           *)
THEOREM ButtonStays == Spec => ButtonHolds
<1>1. IInv /\ [Next]_vars =>
        [InProgress(table) /\ InProgress(table)' =>
           Button(table', table.dealt) = Button(table, table.dealt)]_vars
  <2> SUFFICES ASSUME IInv, Next, InProgress(table), InProgress(table)'
               PROVE  Button(table', table.dealt) = Button(table, table.dealt)
    OBVIOUS
  <2>1. GoodStep(table, table')  BY NextIsGood DEF IInv
  <2> QED  BY <2>1, StepKeepsOrder DEF GoodStep, IInv
<1> QED  BY <1>1, StartsSound, KeepsSound, PTL DEF Spec, ButtonHolds

(* The clock leaves a player only by that player's decision: no command of *)
(* somebody else skips a turn or takes it twice (SitOutForActor).          *)
THEOREM TurnsAreTaken == Spec => ClockIsKept
<1>1. IInv /\ [Next]_vars =>
        [\A p \in Players :
           Current(table) = p /\ InProgress(table)' /\ table'.stage = table.stage =>
             Current(table)' = p \/ table'.round.lastActor = p]_vars
  <2> SUFFICES ASSUME IInv, Next, NEW p \in Players, Current(table) = p,
                      InProgress(table)', table'.stage = table.stage
               PROVE  Current(table)' = p \/ table'.round.lastActor = p
    OBVIOUS
  <2>1. InProgress(table)  BY StreetsAre
  <2>2. GoodStep(table, table')  BY NextIsGood DEF IInv
  <2> QED  BY <2>1, <2>2, StepKeepsOrder DEF GoodStep, IInv
<1> QED  BY <1>1, StartsSound, KeepsSound, PTL DEF Spec, ClockIsKept

----------------------------------------------------------------------------
(* Sums over the players, and what a share is.                             *)
Stacks == [Players -> Nat]

LEMMA TotalIs ==
  ASSUME NEW f \in Stacks
  PROVE  Total(f) \in Nat /\ \A p \in Players : f[p] \in Nat /\ f[p] <= Total(f)
<1>1. IsFiniteSet(Players) /\ \A p \in Players : f[p] \in Nat  BY StakesAssumption DEF Stacks
<1> QED  BY <1>1, SumNatural DEF Total

LEMMA TotalOfNone == NoChips \in Stacks /\ Total(NoChips) = 0
<1>1. NoChips \in Stacks /\ \A p \in Players : NoChips[p] = 0  BY DEF NoChips, Stacks
<1>2. IsFiniteSet(Players)  BY StakesAssumption
<1>3. Total(NoChips) = Cardinality(Players) * 0  BY <1>1, <1>2, SumEqual DEF Total
<1>4. Cardinality(Players) \in Nat  BY <1>2, FS_CardinalityType
<1> QED  BY <1>1, <1>3, <1>4

LEMMA TotalPlus ==
  ASSUME NEW f \in Stacks, NEW g \in Stacks
  PROVE  Plus(f, g) \in Stacks /\ Total(Plus(f, g)) = Total(f) + Total(g)
<1> DEFINE h == Plus(f, g)
<1>1. h \in Stacks /\ \A p \in Players : h[p] = f[p] + g[p]  BY DEF Plus, Stacks
<1>2. IsFiniteSet(Players)  BY StakesAssumption
<1>3. \A p \in Players : f[p] \in Int /\ g[p] \in Int  BY DEF Stacks
<1> HIDE DEF h
<1>4. \A p \in Players : f[p] \in Int /\ g[p] \in Int /\ h[p] = f[p] + g[p]  BY <1>1, <1>3
<1>5. Total(h) = Total(f) + Total(g)  BY <1>2, <1>4, SumPlus DEF Total
<1> QED  BY <1>1, <1>5 DEF h

(* One player's chips change.                                              *)
LEMMA TotalChange ==
  ASSUME NEW f \in Stacks, NEW g \in Stacks, NEW p \in Players, Same(g, f, Players \ {p})
  PROVE  Total(g) = Total(f) - f[p] + g[p]
<1>1. IsFiniteSet(Players) /\ \A x \in Players : f[x] \in Int /\ g[x] \in Int
  <2>1. \A x \in Players : f[x] \in Nat /\ g[x] \in Nat  BY DEF Stacks
  <2> QED  BY <2>1, StakesAssumption
<1> QED  BY <1>1, SumChange DEF Total

(* The chips of the players of S.                                          *)
LEMMA TotalWithin ==
  ASSUME NEW f \in Stacks, NEW S \in SUBSET Players, \A p \in Players \ S : f[p] = 0
  PROVE  Total(f) = SumFunctionOnSet(f, S) /\ IsFiniteSet(S)
<1>1. IsFiniteSet(Players) /\ \A x \in Players : f[x] \in Int
  BY StakesAssumption DEF Stacks
<1>2. IsFiniteSet(S)  BY <1>1, FS_Subset
<1> QED  BY <1>1, <1>2, SumWithin DEF Total

LEMMA DivideBy ==
  ASSUME NEW a \in Nat, NEW n \in Nat \ {0}, NEW d, d = a \div n, NEW m, m = a % n
  PROVE  d \in Nat /\ m \in Nat /\ a = n * d + m
<1>1. d \in Nat /\ m \in Nat  BY Z3
<1>2. m = a - d * n  BY Z3
<1> DEFINE w == d * n
<1>3. n * d = w /\ w \in Nat /\ m = a - w  BY <1>1, <1>2
<1> HIDE DEF w
<1>4. a = w + m  BY <1>1, <1>3
<1> QED  BY <1>1, <1>3, <1>4, Zenon

(* An amount that is shared out is shared out in full, to those it is      *)
(* shared among.                                                           *)
Given(f, amount, S) ==
  f \in Stacks /\ Total(f) = amount /\ \A p \in Players \ S : f[p] = 0

LEMMA SharesGive ==
  ASSUME NEW amount \in Nat, NEW S \in SUBSET Players, NEW first \in S
  PROVE  Given(Shares(amount, S, first), amount, S)
<1> DEFINE n == Cardinality(S)
           d == amount \div n
           m == amount % n
           f == Shares(amount, S, first)
           e == [p \in Players |-> IF p \in S THEN d ELSE 0]
<1>1. IsFiniteSet(S)  BY StakesAssumption, FS_Subset
<1>2. n \in Nat \ {0}  BY <1>1, FS_CardinalityType, FS_EmptySet
<1>3. d \in Nat /\ m \in Nat /\ amount = n * d + m
  <2> HIDE DEF n
  <2> QED  BY <1>2, DivideBy
<1>4. f = [p \in Players |-> IF p \notin S THEN 0 ELSE d + (IF p = first THEN m ELSE 0)]
  BY Zenon DEF Shares
<1> HIDE DEF d, m, f
<1>5. f \in Stacks /\ e \in Stacks  BY <1>3, <1>4 DEF Stacks
<1>6. /\ Same(f, e, Players \ {first}) /\ f[first] = d + m /\ e[first] = d
      /\ \A p \in Players \ S : f[p] = 0 /\ e[p] = 0
      /\ \A p \in S : e[p] = d
  BY <1>3, <1>4 DEF Same
<1> HIDE DEF e, n
<1>7. Total(f) = Total(e) - e[first] + f[first]  BY <1>5, <1>6, TotalChange
<1>8. Total(e) = SumFunctionOnSet(e, S)  BY <1>5, <1>6, TotalWithin
<1>9. SumFunctionOnSet(e, S) = n * d
  <2>1. d \in Int  BY <1>3
  <2> QED  BY <1>1, <1>6, <2>1, SumEqual DEF n
<1>10. Total(f) = amount
  <2>1. n * d \in Nat  BY <1>2, <1>3
  <2> DEFINE w == n * d
  <2>2. Total(f) = w - d + (d + m) /\ amount = w + m /\ w \in Nat
    BY <1>3, <1>6, <1>7, <1>8, <1>9, <2>1
  <2> HIDE DEF w
  <2> QED  BY <1>3, <2>2
<1> QED  BY <1>5, <1>6, <1>10 DEF Given, f

LEMMA GivenBoth ==
  ASSUME NEW S \in SUBSET Players, NEW a \in Nat, NEW b \in Nat,
         NEW f, Given(f, a, S), NEW g, Given(g, b, S)
  PROVE  Given(Plus(f, g), a + b, S)
<1>1. f \in Stacks /\ g \in Stacks /\ Total(f) = a /\ Total(g) = b  BY DEF Given
<1>2. Plus(f, g) \in Stacks /\ Total(Plus(f, g)) = a + b  BY <1>1, TotalPlus
<1>3. \A p \in Players \ S : Plus(f, g)[p] = 0  BY DEF Given, Plus
<1> QED  BY <1>2, <1>3 DEF Given

LEMMA GivenWithin ==
  ASSUME NEW S, NEW T, S \subseteq T, NEW a, NEW f, Given(f, a, S)
  PROVE  Given(f, a, T)
BY DEF Given

(* Nobody is given more than there is, and only those it is shared among.  *)
LEMMA GivenAtMost ==
  ASSUME NEW S, NEW a, NEW f, Given(f, a, S)
  PROVE  \A p \in Players : f[p] \in Nat /\ f[p] <= IF p \in S THEN a ELSE 0
<1>1. f \in Stacks /\ Total(f) = a /\ \A p \in Players \ S : f[p] = 0  BY DEF Given
<1>2. \A p \in Players : f[p] \in Nat /\ f[p] <= Total(f)  BY <1>1, TotalIs
<1> QED  BY <1>1, <1>2

----------------------------------------------------------------------------
(* Who a layer goes to.                                                    *)
LEMMA WinnersAre ==
  ASSUME NEW E, IsFiniteSet(E), E # {}, NEW b \in Nat, NEW rank, \A p \in E : rank[p] \in 0 .. b
  PROVE  Winners(E, rank) \subseteq E /\ Winners(E, rank) # {}
<1> DEFINE T == {rank[p] : p \in E}
<1>1. T \in SUBSET Nat /\ T # {} /\ \A x \in T : x <= b  OBVIOUS
<1>2. Max(T) \in T /\ \A x \in T : x <= Max(T)
  <2> HIDE DEF T
  <2> QED  BY <1>1, MaxIs
<1>3. PICK p \in E : rank[p] = Max(T)  BY <1>2
<1>4. \A q \in E : rank[p] >= rank[q]
  <2> SUFFICES ASSUME NEW q \in E  PROVE rank[q] <= rank[p] /\ rank[q] \in Nat /\ rank[p] \in Nat
    OBVIOUS
  <2> QED  BY <1>2, <1>3
<1> QED  BY <1>3, <1>4 DEF Winners

(* The players still in the hand at its end, and how their cards compare.  *)
FoldedIn(t) == {p \in t.dealt : t.state[p] = "Folded"}

Ranked(t, rank) == \E b \in Nat : \A p \in t.dealt \ FoldedIn(t) : rank[p] \in 0 .. b

LEMMA DealtAreFinite ==
  ASSUME NEW t, Sits(t), Dealt(t), NEW S \in SUBSET t.dealt
  PROVE  IsFiniteSet(S) /\ S \subseteq Players /\ S \subseteq Seated(t)
<1>1. t.dealt \subseteq Players  BY SeatedArePlayers DEF Sits, Dealt
<1> QED  BY <1>1, StakesAssumption, FS_Subset DEF Dealt

LEMMA RankingsAre ==
  ASSUME NEW t, Sits(t), Dealt(t), NEW ranks \in Rankings(t)
  PROVE  Ranked(t, ranks[1]) /\ Ranked(t, ranks[2])
<1> DEFINE live   == {p \in t.dealt : t.state[p] # "Folded"}
           n      == Cardinality(live)
           orders == {r \in [live -> 1 .. n] :
                        \A p \in live : r[p] > 1 => \E q \in live : r[q] = r[p] - 1}
<1>1. n \in Nat  BY DealtAreFinite, FS_CardinalityType
<1>2. ranks \in orders \X orders \/ ranks \in {<<r, r>> : r \in orders}
  BY Zenon DEF Rankings
<1>3. orders \subseteq [live -> 1 .. n]  OBVIOUS
<1> HIDE DEF n, orders
<1>4. ranks[1] \in orders /\ ranks[2] \in orders  BY <1>2
<1>5. t.dealt \ FoldedIn(t) = live  BY DEF FoldedIn
<1>6. \A r \in orders : \A p \in live : r[p] \in 0 .. n
  <2> SUFFICES ASSUME NEW r \in orders, NEW p \in live  PROVE r[p] \in 0 .. n
    OBVIOUS
  <2>1. r \in [live -> 1 .. n]  BY <1>3
  <2>2. r[p] \in 1 .. n  BY <2>1
  <2> QED  BY <1>1, <2>2
<1> HIDE DEF live
<1> QED  BY <1>1, <1>4, <1>5, <1>6 DEF Ranked

LEMMA AwardGives ==
  ASSUME NEW t, Sits(t), Dealt(t), NEW amount \in Nat, NEW E \in SUBSET t.dealt, E # {},
         E \cap FoldedIn(t) = {}, NEW rank, Ranked(t, rank)
  PROVE  Given(Award(t, amount, E, rank), amount, E)
<1> DEFINE best == Winners(E, rank)
           i == SeatOf(t, Button(t, t.dealt)) + 1
           first == FirstFrom(t, i, best)
<1>1. IsFiniteSet(E) /\ E \subseteq Players /\ E \subseteq Seated(t)  BY DealtAreFinite
<1>2. best \subseteq E /\ best # {}
  <2>1. PICK b \in Nat : \A p \in t.dealt \ FoldedIn(t) : rank[p] \in 0 .. b  BY DEF Ranked
  <2>2. \A p \in E : rank[p] \in 0 .. b  BY <2>1
  <2> QED  BY <1>1, <2>2, WinnersAre
<1>3. i \in 1 .. Len(t.seats) + 1
  <2>1. Seats(t) /\ t.dealer \in Nat \ {0}  BY DEF Sits, Seats
  <2>2. Button(t, t.dealt) \in Seated(t)  BY <2>1, ButtonSeated DEF Dealt
  <2>3. SeatOf(t, Button(t, t.dealt)) \in 1 .. Len(t.seats) /\ Len(t.seats) \in Nat
    BY <2>1, <2>2, SeatOfIs DEF Seats
  <2> QED  BY <2>3
<1>4. Award(t, amount, E, rank) = Shares(amount, best, first)  BY Zenon DEF Award
<1> HIDE DEF best, i
<1>5. first \in best
  <2>1. Seats(t) /\ best \cap Seated(t) # {}  BY <1>1, <1>2 DEF Sits
  <2> QED  BY <1>3, <2>1, FirstFromSeated
<1> HIDE DEF first
<1>6. Given(Shares(amount, best, first), amount, best)  BY <1>1, <1>2, <1>5, SharesGive
<1>7. Given(Award(t, amount, E, rank), amount, best) /\ best \subseteq E
  BY <1>2, <1>4, <1>6
<1> QED  BY <1>7, GivenWithin

LEMMA RefundGives ==
  ASSUME NEW t, Sits(t), Dealt(t), NEW amount \in Nat, NEW E \in SUBSET t.dealt, E # {}
  PROVE  Given(Shares(amount, E, FirstFrom(t, 1, E)), amount, E)
<1> DEFINE first == FirstFrom(t, 1, E)
<1>1. E \subseteq Players /\ E \subseteq Seated(t)  BY DealtAreFinite
<1>2. first \in E
  <2>1. Seats(t) /\ E \cap Seated(t) # {} /\ 1 \in 1 .. Len(t.seats) + 1  BY <1>1 DEF Sits, Seats
  <2> QED  BY <2>1, FirstFromSeated
<1> HIDE DEF first
<1>3. Given(Shares(amount, E, first), amount, E)  BY <1>1, <1>2, SharesGive
<1> QED  BY <1>3 DEF first

LEMMA RakeIs ==
  ASSUME NEW amount \in Nat, NEW cap \in Nat
  PROVE  RakeOf(amount, cap) \in Nat /\ RakeOf(amount, cap) <= amount /\ RakeOf(amount, cap) <= cap
<1> DEFINE x == amount * RakeBPS
           y == x \div 10000
<1>1. RakeBPS \in Nat /\ 10000 - RakeBPS \in Nat  BY StakesAssumption
<1>2. x \in Nat /\ x <= 10000 * amount
  <2> DEFINE k == 10000 - RakeBPS
             z == amount * k
  <2>1. z \in Nat /\ x \in Nat  BY <1>1
  <2>2. x = 10000 * amount - z  BY <1>1, Z3
  <2> HIDE DEF z, x
  <2> QED  BY <2>1, <2>2
<1>3. RakeOf(amount, cap) = Min({cap, y})  BY SMT DEF RakeOf
<1> HIDE DEF x
<1>4. y \in Nat /\ y <= amount  BY <1>2, Z3
<1> HIDE DEF y
<1>5. Min({cap, y}) = IF cap <= y THEN cap ELSE y  BY <1>4, MinOfTwo
<1> QED  BY <1>3, <1>4, <1>5

(* What has been paid once layers of n chips have been.                    *)
PaidOut(t, paid, n) ==
  /\ DOMAIN paid = {"won", "cap", "rake"}
  /\ paid.cap \in Nat /\ paid.rake \in Nat
  /\ \E k \in Nat : n = k + paid.rake /\ Given(paid.won, k, t.dealt)

LEMMA LayerPaid ==
  ASSUME NEW t, Sits(t), Dealt(t), NEW ranks \in Rankings(t),
         NEW layer \in Layer(t.dealt), HasTaker(layer, FoldedIn(t)),
         NEW n, NEW paid, PaidOut(t, paid, n)
  PROVE  LET u == PayLayer(t, paid, layer, ranks) IN
         /\ PaidOut(t, u, n + layer.amount)
         /\ \A p \in Players : u.won[p] <= paid.won[p] + IF p \in layer.eligible THEN layer.amount ELSE 0
<1> DEFINE amount == layer.amount
           E      == layer.eligible
           given  == Shares(amount, E, FirstFrom(t, 1, E))
           rake   == RakeOf(amount, paid.cap)
           net    == amount - rake
           second == IF t.runout.phase = 2 THEN net \div 2 ELSE 0
           a      == Award(t, net - second, E, ranks[1])
           b      == Award(t, second, E, ranks[2])
           u      == PayLayer(t, paid, layer, ranks)
           S      == t.dealt
           most   == \A p \in Players : u.won[p] <= paid.won[p] + IF p \in E THEN amount ELSE 0
<1>1. /\ amount \in Nat /\ E \in SUBSET t.dealt /\ E # {}
      /\ ~layer.uncalled => E \cap FoldedIn(t) = {}
  BY DEF Layer, HasTaker
<1>2. PICK k \in Nat : n = k + paid.rake /\ Given(paid.won, k, t.dealt)
  BY Zenon DEF PaidOut
<1>3. DOMAIN paid = {"won", "cap", "rake"} /\ paid.cap \in Nat /\ paid.rake \in Nat
  BY DEF PaidOut
<1>4. S \in SUBSET Players  BY DealtAreFinite
<1>5. /\ layer.uncalled => u = [paid EXCEPT !.won = Plus(@, given)]
      /\ ~layer.uncalled => u = [won |-> Plus(paid.won, Plus(a, b)),
                                 cap |-> paid.cap - rake, rake |-> paid.rake + rake]
  BY Zenon DEF PayLayer
<1>6. SUFFICES /\ DOMAIN u = {"won", "cap", "rake"}
               /\ u.cap \in Nat /\ u.rake \in Nat
               /\ \E m \in Nat : k + paid.rake + amount = m + u.rake /\ Given(u.won, m, S)
               /\ most
  <2> HIDE DEF u
  <2> QED  BY <1>2 DEF PaidOut, u
<1>7. \A p \in Players : paid.won[p] \in Nat  BY <1>2, GivenAtMost
<1>8. E \subseteq S  BY <1>1
<1>9. CASE layer.uncalled
  <2>1. Given(given, amount, E)  BY <1>1, RefundGives
  <2>2. \A p \in Players : given[p] \in Nat /\ given[p] <= IF p \in E THEN amount ELSE 0
    <3> HIDE DEF given, amount, E
    <3> QED  BY <2>1, GivenAtMost
  <2>3. Given(given, amount, S)
    <3> HIDE DEF given, amount, E
    <3> QED  BY <1>8, <2>1, GivenWithin
  <2> HIDE DEF given, amount, E, S, u
  <2>4. Given(Plus(paid.won, given), k + amount, S)  BY <1>1, <1>2, <1>4, <2>3, GivenBoth DEF S
  <2>5. /\ DOMAIN u = {"won", "cap", "rake"} /\ u.won = Plus(paid.won, given)
        /\ u.cap = paid.cap /\ u.rake = paid.rake
    <3>1. u = [paid EXCEPT !.won = Plus(paid.won, given)]  BY <1>5, <1>9
    <3> QED  BY <1>3, <3>1
  <2>6. k + amount \in Nat /\ k + paid.rake + amount = (k + amount) + u.rake
    BY <1>1, <1>3, <2>5
  <2>7. Given(u.won, k + amount, S)  BY <2>4, <2>5, Zenon
  <2>8. most
    <3>1. \A p \in Players : u.won[p] = paid.won[p] + given[p]  BY <2>5 DEF Plus
    <3> QED  BY <1>1, <1>7, <2>2, <3>1
  <2> QED  BY <1>3, <2>5, <2>6, <2>7, <2>8
<1>10. CASE ~layer.uncalled
  <2>1. rake \in Nat /\ rake <= amount /\ rake <= paid.cap  BY <1>1, <1>3, RakeIs
  <2> HIDE DEF rake, amount
  <2>2. net \in Nat  BY <1>1, <2>1
  <2>3. second \in Nat /\ second <= net
    <3> HIDE DEF net
    <3>1. net \div 2 \in Nat /\ net \div 2 <= net  BY <2>2, Z3
    <3> QED  BY <2>2, <3>1
  <2>4. net - second \in Nat /\ net - second + second = net
    <3> HIDE DEF net, second
    <3> QED  BY <2>2, <2>3
  <2>5. Ranked(t, ranks[1]) /\ Ranked(t, ranks[2])  BY RankingsAre
  <2> DEFINE first == net - second
  <2> HIDE DEF net, second
  <2>6. Given(a, first, E) /\ Given(b, second, E)
    <3>1. E \in SUBSET t.dealt /\ E # {} /\ E \cap FoldedIn(t) = {}  BY <1>1, <1>10
    <3>2. first \in Nat /\ second \in Nat  BY <2>3, <2>4
    <3> HIDE DEF first, E
    <3>3. Given(Award(t, first, E, ranks[1]), first, E)  BY <2>5, <3>1, <3>2, AwardGives
    <3>4. Given(Award(t, second, E, ranks[2]), second, E)  BY <2>5, <3>1, <3>2, AwardGives
    <3> QED  BY <3>3, <3>4 DEF first
  <2> DEFINE g == Plus(a, b)
  <2>7. E \in SUBSET Players  BY <1>4, <1>8
  <2> HIDE DEF a, b, E, S, u
  <2>8. Given(g, net, E)
    <3>1. first \in Nat /\ second \in Nat /\ first + second = net  BY <2>3, <2>4
    <3> HIDE DEF first
    <3>2. Given(Plus(a, b), first + second, E)  BY <2>7, <2>6, <3>1, GivenBoth
    <3> QED  BY <3>1, <3>2
  <2> HIDE DEF g
  <2>9. \A p \in Players : g[p] \in Nat /\ g[p] <= IF p \in E THEN net ELSE 0
    BY <2>8, GivenAtMost
  <2>10. Given(g, net, S)  BY <1>8, <2>8, GivenWithin
  <2>11. Given(Plus(paid.won, g), k + net, S)
    BY <1>2, <1>4, <2>2, <2>10, GivenBoth DEF S
  <2>12. /\ DOMAIN u = {"won", "cap", "rake"} /\ u.won = Plus(paid.won, g)
         /\ u.cap = paid.cap - rake /\ u.rake = paid.rake + rake
    <3>1. u = [won |-> Plus(paid.won, g), cap |-> paid.cap - rake, rake |-> paid.rake + rake]
      BY <1>5, <1>10 DEF g
    <3> QED  BY <3>1
  <2>13. /\ u.cap \in Nat /\ u.rake \in Nat
         /\ k + net \in Nat /\ k + paid.rake + amount = (k + net) + u.rake
    BY <1>1, <1>3, <2>1, <2>12 DEF net
  <2>14. Given(u.won, k + net, S)  BY <2>11, <2>12, Zenon
  <2>15. most
    <3>1. \A p \in Players : u.won[p] = paid.won[p] + g[p]  BY <2>12 DEF Plus
    <3>2. net <= amount  BY <1>1, <2>1 DEF net
    <3> QED  BY <1>1, <1>7, <2>2, <2>9, <3>1, <3>2
  <2> QED  BY <2>12, <2>13, <2>14, <2>15
<1> QED  BY <1>9, <1>10

(* The layers are paid one after the other.                                *)
Pays(g, t, ls, ranks, U) ==
  g = [k \in U |-> IF k = 0 THEN [won |-> NoChips, cap |-> RakeCap(t), rake |-> 0]
                   ELSE PayLayer(t, g[k - 1], ls[k], ranks)]

LayersOf(t) == ComputeSidePots([p \in t.dealt |-> t.in[p]], FoldedIn(t))

LEMMA SettlementIs ==
  ASSUME NEW t, NEW ranks
  PROVE  Settlement(t, ranks)
           = (CHOOSE g : Pays(g, t, LayersOf(t), ranks, 0 .. Len(LayersOf(t))))[Len(LayersOf(t))]
BY Zenon DEF Settlement, Pays, LayersOf, FoldedIn

LEMMA PaysExists ==
  ASSUME NEW t, NEW ls, NEW ranks
  PROVE  \A n \in Nat : \E g : Pays(g, t, ls, ranks, 0 .. n)
<1> DEFINE start == [won |-> NoChips, cap |-> RakeCap(t), rake |-> 0]
           N == {n \in Nat : \E g : Pays(g, t, ls, ranks, 0 .. n)}
<1>1. 0 \in N
  <2> DEFINE g == [k \in 0 .. 0 |-> start]
  <2>1. \A k \in 0 .. 0 : k = 0  OBVIOUS
  <2>2. g = [k \in 0 .. 0 |-> IF k = 0 THEN start ELSE PayLayer(t, g[k - 1], ls[k], ranks)]
    BY <2>1
  <2> QED  BY <2>2 DEF Pays
<1>2. ASSUME NEW n \in N  PROVE n + 1 \in N
  <2>1. PICK g : Pays(g, t, ls, ranks, 0 .. n)  BY <1>2
  <2> DEFINE step(k) == IF k = 0 THEN start ELSE PayLayer(t, g[k - 1], ls[k], ranks)
             h == [k \in 0 .. n + 1 |-> step(k)]
  <2>2. ASSUME NEW k \in 0 .. n  PROVE h[k] = g[k]
    <3>1. k \in 0 .. n + 1  OBVIOUS
    <3>2. g[k] = step(k)  BY <2>1, Zenon DEF Pays
    <3> QED  BY <3>1, <3>2
  <2> HIDE DEF h
  <2>3. \A k \in 0 .. n + 1 : h[k] = IF k = 0 THEN start ELSE PayLayer(t, h[k - 1], ls[k], ranks)
    <3> SUFFICES ASSUME NEW k \in 0 .. n + 1
                 PROVE  h[k] = IF k = 0 THEN start ELSE PayLayer(t, h[k - 1], ls[k], ranks)
      OBVIOUS
    <3>1. h[k] = step(k)  BY DEF h
    <3>2. CASE k = 0  BY <3>1, <3>2
    <3>3. CASE k # 0
      <4>1. k - 1 \in 0 .. n  BY <3>3
      <4>2. h[k - 1] = g[k - 1]  BY <2>2, <4>1
      <4> QED  BY <3>1, <3>3, <4>2
    <3> QED  BY <3>2, <3>3
  <2>4. h = [k \in 0 .. n + 1 |-> h[k]]  BY DEF h
  <2>5. Pays(h, t, ls, ranks, 0 .. n + 1)  BY <2>3, <2>4, Zenon DEF Pays
  <2> QED  BY <2>5
<1>3. N = Nat
  <2> HIDE DEF N
  <2>1. N \in SUBSET Nat  BY DEF N
  <2> QED  BY <1>1, <1>2, <2>1, AllNumbers
<1> QED  BY <1>3

LEMMA SumNext ==
  ASSUME NEW a, NEW n \in Nat, NEW k \in Nat, k + 1 <= n, \A i \in 1 .. n : a[i] \in Nat
  PROVE  /\ SumFunctionOnSet(a, 1 .. k + 1) = SumFunctionOnSet(a, 1 .. k) + a[k + 1]
         /\ SumFunctionOnSet(a, 1 .. k) \in Nat
<1> DEFINE S == 1 .. k + 1
<1>1. /\ IsFiniteSet(S) /\ k + 1 \in S /\ \A i \in S : a[i] \in Int
      /\ IsFiniteSet(1 .. k) /\ \A i \in 1 .. k : a[i] \in Nat
  BY FS_Interval
<1>2. S \ {k + 1} = 1 .. k  OBVIOUS
<1> HIDE DEF S
<1>3. SumFunctionOnSet(a, S) = a[k + 1] + SumFunctionOnSet(a, S \ {k + 1})  BY <1>1, SumRemove
<1>4. SumFunctionOnSet(a, 1 .. k) \in Nat  BY <1>1, SumNatural
<1>5. SumFunctionOnSet(a, S) = a[k + 1] + SumFunctionOnSet(a, 1 .. k)  BY <1>2, <1>3, Zenon
<1>6. a[k + 1] \in Nat  BY <1>1
<1> QED  BY <1>4, <1>5, <1>6 DEF S

LEMMA CapIs == \A t : RakeCap(t) \in Nat
<1>1. BigBlind \in Nat  BY StakesAssumption
<1>2. BigBlind \div 2 \in Nat /\ BigBlind * 3 \in Nat  BY <1>1, Z3
<1>3. (BigBlind * 3) \div 4 \in Nat
  <2> DEFINE x == BigBlind * 3
  <2>1. x \in Nat  BY <1>2
  <2> HIDE DEF x
  <2>2. x \div 4 \in Nat  BY <2>1, Z3
  <2> QED  BY <2>2 DEF x
<1> QED  BY <1>1, <1>2, <1>3, Zenon DEF RakeCap

(* All of the pot is paid, and nobody is paid more than the layers they    *)
(* are eligible for hold.                                                  *)
LEMMA PotPaid ==
  ASSUME NEW t, Sits(t), Dealt(t), t.in \in Stacks, NEW ranks \in Rankings(t)
  PROVE  /\ PaidOut(t, Settlement(t, ranks), SumFunctionOnSet(t.in, t.dealt))
         /\ \A p \in Players : Settlement(t, ranks).won[p] <= Winnable(LayersOf(t), p)
<1> DEFINE c == [p \in t.dealt |-> t.in[p]]
           ls == LayersOf(t)
           n == Len(ls)
           a == Amounts(ls)
           g == CHOOSE h : Pays(h, t, ls, ranks, 0 .. n)
           done(k) == SumFunctionOnSet(a, 1 .. k)
           due(p, k) == SumFunctionOnSet(GivenTo(ls, p), 1 .. k)
           N == {k \in Nat : k <= n => /\ PaidOut(t, g[k], done(k))
                                      /\ \A p \in Players : g[k].won[p] <= due(p, k)}
<1>1. IsFiniteSet(t.dealt) /\ t.dealt \subseteq Players  BY DealtAreFinite
<1>2. Pot(c) /\ DOMAIN c = t.dealt  BY <1>1 DEF Pot, Stacks
<1>3. ls = ComputeSidePots(c, FoldedIn(t))  BY Zenon DEF LayersOf
<1>4. Whole(c) = SumFunctionOnSet(t.in, t.dealt)
  <2>1. Same(c, t.in, t.dealt)  BY DEF Same
  <2> QED  BY <1>1, <1>2, <2>1, SumSame, Zenon DEF Whole
<1> HIDE DEF c, ls
<1>5. /\ ls \in Seq(Layer(t.dealt)) /\ GoesTo(ls, FoldedIn(t))
      /\ Chips(ls) = Whole(c)
  <2>1. /\ ls \in Seq(Layer(DOMAIN c)) /\ GoesTo(ls, FoldedIn(t))
        /\ Chips(ls) = Whole(c)
    BY <1>2, <1>3, EveryChipIsLayered
  <2> QED  BY <1>2, <2>1
<1>6. n \in Nat /\ \A k \in 1 .. n : ls[k] \in Layer(t.dealt)  BY <1>5
<1>7. /\ Chips(ls) = done(n)
      /\ \A k \in 1 .. n : a[k] = ls[k].amount /\ a[k] \in Nat
  BY <1>5, ChipsAre
<1>8. \A k \in 0 .. n : g[k] = IF k = 0 THEN [won |-> NoChips, cap |-> RakeCap(t), rake |-> 0]
                               ELSE PayLayer(t, g[k - 1], ls[k], ranks)
  <2>1. Pays(g, t, ls, ranks, 0 .. n)
    <3> HIDE DEF n
    <3> QED  BY <1>6, PaysExists
  <2> HIDE DEF g
  <2> QED  BY <2>1, Zenon DEF Pays
<1>9. Settlement(t, ranks) = g[n]  BY SettlementIs DEF ls
<1> HIDE DEF n, a, g
<1>10. 0 \in N
  <2>1. g[0] = [won |-> NoChips, cap |-> RakeCap(t), rake |-> 0]  BY <1>6, <1>8
  <2>2. done(0) = 0
    <3>1. 1 .. 0 = {}  OBVIOUS
    <3> QED  BY <3>1, SumEmpty
  <2>3. Given(NoChips, 0, t.dealt)  BY TotalOfNone DEF Given, NoChips
  <2> DEFINE u == g[0]
             z == done(0)
  <2>4. /\ DOMAIN u = {"won", "cap", "rake"} /\ u.won = NoChips /\ u.cap = RakeCap(t) /\ u.rake = 0
    BY <2>1
  <2>5. z = 0  BY <2>2
  <2> HIDE DEF u, z
  <2>6. 0 \in Nat /\ z = 0 + u.rake /\ Given(u.won, 0, t.dealt)  BY <2>3, <2>4, <2>5
  <2>7. PaidOut(t, u, z)  BY <2>4, <2>6, CapIs DEF PaidOut
  <2>8. \A p \in Players : u.won[p] <= due(p, 0)
    <3>1. 1 .. 0 = {}  OBVIOUS
    <3>2. \A p : due(p, 0) = 0  BY <3>1, SumEmpty
    <3> HIDE DEF due
    <3> QED  BY <2>4, <3>2 DEF NoChips
  <2> HIDE DEF due
  <2> QED  BY <2>7, <2>8 DEF u, z
<1>11. ASSUME NEW k \in N  PROVE k + 1 \in N
  <2> SUFFICES ASSUME k + 1 <= n
               PROVE  /\ PaidOut(t, g[k + 1], done(k + 1))
                      /\ \A p \in Players : g[k + 1].won[p] <= due(p, k + 1)
    <3> HIDE DEF due, done
    <3> QED  OBVIOUS
  <2>1. k \in Nat /\ PaidOut(t, g[k], done(k)) /\ \A p \in Players : g[k].won[p] <= due(p, k)
    <3> HIDE DEF due, done
    <3> QED  BY <1>6
  <2>2. k + 1 \in 1 .. n /\ k + 1 \in 0 .. n /\ k + 1 # 0 /\ (k + 1) - 1 = k  BY <1>6, <2>1
  <2> DEFINE layer == ls[k + 1]
             u == g[k + 1]
             x == g[k]
  <2>3. u = PayLayer(t, x, layer, ranks)  BY <1>8, <2>2
  <2>4. layer \in Layer(t.dealt) /\ HasTaker(layer, FoldedIn(t))
    BY <1>5, <1>6, <2>2 DEF GoesTo, n
  <2>5. done(k + 1) = done(k) + layer.amount
    <3>1. a[k + 1] = layer.amount  BY <1>7, <2>2
    <3>2. \A i \in 1 .. n : a[i] \in Nat  BY <1>7
    <3>3. SumFunctionOnSet(a, 1 .. k + 1) = SumFunctionOnSet(a, 1 .. k) + a[k + 1]
      BY <1>6, <2>1, <3>2, SumNext
    <3> QED  BY <3>1, <3>3
  <2>6. PaidOut(t, x, done(k))  BY <2>1
  <2> DEFINE d == done(k)
             e == done(k + 1)
  <2> HIDE DEF layer, u, x, d, e
  <2>7. /\ PaidOut(t, u, d + layer.amount)
        /\ \A p \in Players :
             u.won[p] <= x.won[p] + IF p \in layer.eligible THEN layer.amount ELSE 0
    BY <2>3, <2>4, <2>6, LayerPaid DEF d
  <2>8. e = d + layer.amount  BY <2>5 DEF d, e
  <2>9. PaidOut(t, u, e)  BY <2>7, <2>8, Zenon
  <2>10. ASSUME NEW p \in Players
         PROVE  u.won[p] <= due(p, k + 1)
    <3> DEFINE h == GivenTo(ls, p)
    <3>1. \A i \in 1 .. n : h[i] \in Nat  BY <1>5, WonIs DEF n
    <3>2. h[k + 1] = IF p \in layer.eligible THEN layer.amount ELSE 0
      BY <1>5, <2>2, WonIs DEF n, layer
    <3> HIDE DEF h
    <3>3. /\ SumFunctionOnSet(h, 1 .. k + 1) = SumFunctionOnSet(h, 1 .. k) + h[k + 1]
          /\ SumFunctionOnSet(h, 1 .. k) \in Nat /\ h[k + 1] \in Nat
      BY <1>6, <2>1, <2>2, <3>1, SumNext
    <3> DEFINE a0 == due(p, k)
               a1 == due(p, k + 1)
    <3>4. a1 = a0 + h[k + 1] /\ a0 \in Nat  BY <3>3 DEF h
    <3>5. x.won[p] <= a0  BY <2>1 DEF x
    <3>6. x.won[p] \in Nat /\ u.won[p] \in Nat
      BY <2>6, <2>9, GivenAtMost, Zenon DEF PaidOut
    <3> HIDE DEF a0, a1
    <3>7. u.won[p] <= x.won[p] + h[k + 1]  BY <2>7, <3>2
    <3>8. u.won[p] <= a1  BY <3>3, <3>4, <3>5, <3>6, <3>7
    <3> QED  BY <3>8 DEF a1
  <2> HIDE DEF due
  <2> QED  BY <2>9, <2>10 DEF u, e
<1>12. N = Nat
  <2>1. N \in SUBSET Nat  OBVIOUS
  <2> HIDE DEF N
  <2> QED  BY <1>10, <1>11, <2>1, AllNumbers
<1>13. PaidOut(t, g[n], done(n)) /\ \A p \in Players : g[n].won[p] <= due(p, n)
  <2> HIDE DEF due, done
  <2>1. n \in N /\ n <= n  BY <1>6, <1>12
  <2> QED  BY <2>1 DEF N
<1>14. done(n) = SumFunctionOnSet(t.in, t.dealt)  BY <1>4, <1>5, <1>7, Zenon
<1>15. \A p : due(p, n) = Winnable(LayersOf(t), p)
  <2>1. \A p : Won(ls, p) = Winnable(ls, p)  BY <1>5, WonIs
  <2>2. \A p : due(p, n) = Won(ls, p)  BY DEF Won, n
  <2> QED  BY <2>1, <2>2 DEF ls
<1> HIDE DEF due, done
<1>16. \A p \in Players : Settlement(t, ranks).won[p] <= Winnable(LayersOf(t), p)
  BY <1>9, <1>13, <1>15, Zenon
<1> QED  BY <1>9, <1>13, <1>14, <1>16, Zenon

----------------------------------------------------------------------------
(* The chips of a table: the stacks, what was put in, and while a hand     *)
(* runs, the round.                                                        *)
Money(t) ==
  /\ t.stack \in Stacks /\ t.in \in Stacks
  /\ \A p \in Players \ Seated(t) : t.stack[p] = 0
  /\ InProgress(t) => \A p \in Players \ t.dealt : t.in[p] = 0

Counts(r) ==
  /\ r.stack \in [DOMAIN r.stack -> Nat]
  /\ r.contributed \in [DOMAIN r.stack -> Nat]
  /\ r.currentBet \in Nat
  /\ \A p \in DOMAIN r.stack : r.contributed[p] <= r.currentBet

(* On the streets before, whoever is able to act put in as much as anybody *)
(* they compete with.                                                      *)
Before(t, p) == t.in[p] - t.round.contributed[p]

Level(t) == \A p \in Able(t), q \in Remaining(t) : Before(t, q) <= Before(t, p)

(* Who has no chips and is not all-in was dealt in without any.            *)
Broke(t) ==
  /\ \A p \in t.dealt : t.state[p] # "AllIn" /\ t.stack[p] = 0 => t.in[p] = 0
  /\ \A p \in DOMAIN t.round.stack \ t.round.allIn : t.round.stack[p] = 0 => t.in[p] = 0

Bets(t) == Counts(t.round) /\ Level(t) /\ Broke(t)

Purse(t) == Money(t) /\ (InProgress(t) => Bets(t))

(* Nobody comes back into the hand, and nobody is or stops being all-in.   *)
Abides(t, u) ==
  \A p \in t.dealt : /\ t.state[p] = "Folded" => u.state[p] = "Folded"
                     /\ t.state[p] = "AllIn" <=> u.state[p] = "AllIn"

LEMMA BetsStay ==
  ASSUME NEW t, Dealt(t), Bets(t),
         NEW u, u.dealt = t.dealt, Abides(t, u), \A p \in t.dealt : u.in[p] = t.in[p],
         \A p \in t.dealt : u.stack[p] = t.stack[p] \/ u.stack[p] # 0,
         u.round.stack = t.round.stack, u.round.contributed = t.round.contributed,
         u.round.currentBet = t.round.currentBet, u.round.allIn = t.round.allIn,
         DOMAIN t.round.stack \subseteq t.dealt
  PROVE  Bets(u) /\ Remaining(u) \subseteq Remaining(t) /\ Able(u) \subseteq Able(t)
<1>1. Remaining(u) \subseteq Remaining(t)
  BY DEF Remaining, Abides, Dealt, InHand
<1>2. Able(u) \subseteq Able(t) /\ Remaining(t) \subseteq t.dealt
  BY <1>1 DEF Able, Remaining, Abides
<1>3. \A p \in Remaining(t) : Before(u, p) = Before(t, p)
  BY <1>2 DEF Before
<1>4. Level(u)  BY <1>1, <1>2, <1>3 DEF Level, Bets, Able
<1>5. Broke(u)
  <2>1. \A p \in t.dealt : u.state[p] # "AllIn" /\ u.stack[p] = 0 => u.in[p] = 0
    BY DEF Bets, Broke, Abides
  <2>2. \A p \in DOMAIN u.round.stack \ u.round.allIn : u.round.stack[p] = 0 => u.in[p] = 0
    BY DEF Bets, Broke
  <2> QED  BY <2>1, <2>2 DEF Broke
<1> QED  BY <1>1, <1>2, <1>4, <1>5 DEF Bets, Counts

Worth(t) == Total(t.stack) + IF InProgress(t) THEN Total(t.in) ELSE 0

Raked(t, u) == IF Completing(t, u) THEN u.rake ELSE 0

(* u has the chips of t, but for b more and what was raked.                *)
Balances(t, u, b) == Raked(t, u) \in Nat /\ (ChipsStay => Worth(u) + Raked(t, u) = Worth(t) + b)

(* Who folded is out of the hand, and wins nothing of anybody else's at    *)
(* its end, if a player who paid is left to win it.                        *)
Outs(t, u) == InProgress(t) /\ InProgress(u) => FoldedIn(t) \subseteq FoldedIn(u)

Unmatchable(t, c, p) == t.in[p] - Max({0} \cup {c[q] : q \in t.dealt \ {p}})

Forfeits(t, u) ==
  Completing(t, u) /\ (\E q \in t.dealt : u.in[q] > 0 /\ u.state[q] # "Folded") =>
    \A p \in FoldedIn(t) : u.stack[p] - t.stack[p] <= Max({0, Unmatchable(t, u.in, p)})

(* Who waits to come in goes on waiting, or pauses, or leaves, until they  *)
(* are dealt in; then they post.  Who sits down during a hand waits.       *)
Newcomer(t, u, p) == t.state[p] = "PendingEntry" \/ (InProgress(t) /\ p \in Seated(u) \ Seated(t))

Enters(t, u, p) == Dealing(t, u) /\ p \in u.dealt

Waits(t, u) ==
  \A p \in Players : Newcomer(t, u, p) =>
    IF Enters(t, u, p) THEN u.in[p] > 0 \/ t.stack[p] = 0
    ELSE u.state[p] \in {"PendingEntry", "SittingOut"} \/ p \notin Seated(u)

Keeps(t, u, b) ==
  Purse(u) /\ Balances(t, u, b) /\ Outs(t, u) /\ Forfeits(t, u) /\ Waits(t, u)

LEMMA WorthIs ==
  ASSUME NEW t, Money(t)
  PROVE  Worth(t) \in Nat /\ Total(t.stack) \in Nat /\ Total(t.in) \in Nat
BY TotalIs DEF Money, Worth

(* w comes between t and u: nobody enters, and who waits does so in w.     *)
Leads(t, w, u) ==
  /\ InProgress(w) <=> InProgress(t)
  /\ InProgress(t) => w.dealt = t.dealt
  /\ Completing(t, u) => \A p \in FoldedIn(t) : w.in[p] = t.in[p] /\ w.stack[p] = t.stack[p]
  /\ \A p \in Players : Newcomer(t, w, p) =>
       w.state[p] = "PendingEntry" /\ (w.stack[p] = 0 => t.stack[p] = 0)

LEMMA KeepsThrough ==
  ASSUME NEW t, NEW w, NEW u, NEW b, Leads(t, w, u), Keeps(t, w, b), Keeps(w, u, 0)
  PROVE  Keeps(t, u, b)
<1>1. /\ InProgress(w) <=> InProgress(t)
      /\ Completing(w, u) <=> Completing(t, u)
      /\ Dealing(w, u) <=> Dealing(t, u)
      /\ Raked(t, w) = 0 /\ Raked(w, u) = Raked(t, u)
  BY DEF Leads, Raked, Completing, Dealing
<1>2. Balances(t, u, b)
  <2>1. Worth(w) \in Nat  BY WorthIs DEF Keeps, Purse
  <2>2. ASSUME ChipsStay  PROVE Worth(u) + Raked(t, u) = Worth(t) + b
    <3>1. Worth(w) + 0 = Worth(t) + b /\ Worth(u) + Raked(t, u) = Worth(w) + 0
      BY <1>1, <2>2, Zenon DEF Keeps, Balances
    <3> QED  BY <2>1, <3>1
  <2>3. Raked(t, u) \in Nat  BY <1>1 DEF Keeps, Balances
  <2> QED  BY <2>2, <2>3 DEF Balances
<1>3. InProgress(t) /\ InProgress(u) => FoldedIn(t) \subseteq FoldedIn(u)
  BY <1>1 DEF Keeps, Outs
<1>4. Forfeits(t, u)
  <2> SUFFICES ASSUME Completing(t, u), \E q \in t.dealt : u.in[q] > 0 /\ u.state[q] # "Folded",
                      NEW p \in FoldedIn(t)
               PROVE  u.stack[p] - t.stack[p] <= Max({0, Unmatchable(t, u.in, p)})
    BY DEF Forfeits
  <2>1. InProgress(t) /\ InProgress(w) /\ w.dealt = t.dealt
    BY <1>1 DEF Leads, Completing
  <2>2. p \in FoldedIn(w)  BY <2>1 DEF Keeps, Outs
  <2>3. w.in[p] = t.in[p] /\ w.stack[p] = t.stack[p]  BY DEF Leads
  <2>4. u.stack[p] - w.stack[p] <= Max({0, Unmatchable(w, u.in, p)})
    BY <1>1, <2>1, <2>2, Zenon DEF Keeps, Forfeits
  <2>5. Unmatchable(w, u.in, p) = Unmatchable(t, u.in, p)
    BY <2>1, <2>3, Zenon DEF Unmatchable
  <2> QED  BY <2>3, <2>4, <2>5, Zenon
<1>5. Waits(t, u)
  <2> SUFFICES ASSUME NEW p \in Players, Newcomer(t, u, p)
               PROVE  IF Enters(t, u, p) THEN u.in[p] > 0 \/ t.stack[p] = 0
                      ELSE u.state[p] \in {"PendingEntry", "SittingOut"} \/ p \notin Seated(u)
    BY DEF Waits
  <2>1. Enters(t, u, p) <=> Enters(w, u, p)  BY <1>1 DEF Enters
  <2>2. CASE Newcomer(t, w, p)
    <3>1. w.state[p] = "PendingEntry" /\ (w.stack[p] = 0 => t.stack[p] = 0)
      BY <2>2 DEF Leads
    <3>2. IF Enters(w, u, p) THEN u.in[p] > 0 \/ w.stack[p] = 0
          ELSE u.state[p] \in {"PendingEntry", "SittingOut"} \/ p \notin Seated(u)
      BY <3>1, Zenon DEF Keeps, Waits, Newcomer
    <3> QED  BY <2>1, <3>1, <3>2
  <2>3. CASE ~Newcomer(t, w, p)
    <3>1. InProgress(t) /\ p \in Seated(u) \ Seated(w)  BY <2>3 DEF Newcomer
    <3>2. Newcomer(w, u, p)  BY <1>1, <3>1 DEF Newcomer
    <3>3. ~Enters(t, u, p)  BY <3>1 DEF Enters, Dealing
    <3> QED  BY <2>1, <3>2, <3>3, Zenon DEF Keeps, Waits
  <2> QED  BY <2>2, <2>3
<1> QED  BY <1>2, <1>3, <1>4, <1>5 DEF Keeps, Outs

(* Nothing moves.                                                          *)
StillWaits(t, u) ==
  \A p \in Players : t.state[p] = "PendingEntry" => u.state[p] \in {"PendingEntry", "SittingOut"}

LEMMA KeepsSame ==
  ASSUME NEW t, Purse(t), NEW u, u.stack = t.stack, u.in = t.in, Seated(u) = Seated(t),
         InProgress(u) <=> InProgress(t),
         InProgress(t) => u.dealt = t.dealt /\ Bets(u) /\ Abides(t, u),
         StillWaits(t, u)
  PROVE  Keeps(t, u, 0)
<1>1. Purse(u)  BY DEF Purse, Money
<1>2. Worth(u) = Worth(t) /\ Raked(t, u) = 0  BY DEF Worth, Raked, Completing
<1>3. Worth(t) \in Nat  BY WorthIs DEF Purse
<1>4. Outs(t, u)  BY DEF Outs, FoldedIn, Abides
<1>5. Forfeits(t, u)  BY DEF Forfeits, Completing
<1>6. Waits(t, u)  BY DEF Waits, Newcomer, Enters, Dealing, StillWaits
<1> QED  BY <1>1, <1>2, <1>3, <1>4, <1>5, <1>6 DEF Keeps, Balances

(* Nothing of the round moves either.                                      *)
LEMMA KeepsStill ==
  ASSUME NEW t, Sound(t), Purse(t),
         NEW u, u.seats = t.seats, u.stack = t.stack, u.in = t.in,
         InProgress(u) <=> InProgress(t),
         InProgress(t) => u.dealt = t.dealt /\ u.round = t.round /\ Abides(t, u),
         StillWaits(t, u)
  PROVE  Keeps(t, u, 0)
<1>1. Seated(u) = Seated(t)  BY DEF Seated
<1>2. InProgress(t) => Bets(u)
  <2> SUFFICES ASSUME InProgress(t)  PROVE Bets(u)
    OBVIOUS
  <2>1. Dealt(t) /\ Bets(t) /\ DOMAIN t.round.stack \subseteq t.dealt
    BY DEF Sound, Fits, Purse
  <2> QED  BY <2>1, BetsStay
<1> QED  BY <1>1, <1>2, KeepsSame

LEMMA StaysItself ==
  ASSUME NEW t, Sound(t), Purse(t)
  PROVE  Keeps(t, t, 0)
BY KeepsStill DEF Abides, StillWaits

(* Of a pot somebody who paid is left to win, a player who folded can only *)
(* have back what nobody matched.                                          *)
LEMMA FoldersShare ==
  ASSUME NEW t, Sits(t), Dealt(t), t.in \in Stacks, NEW p \in FoldedIn(t),
         NEW q \in t.dealt \ FoldedIn(t), t.in[q] > 0
  PROVE  Winnable(LayersOf(t), p) = Max({0, Unmatchable(t, t.in, p)})
<1> DEFINE c   == [s \in t.dealt |-> t.in[s]]
           out == FoldedIn(t)
<1>1. IsFiniteSet(t.dealt) /\ t.dealt \subseteq Players  BY DealtAreFinite
<1>2. /\ DOMAIN c = t.dealt /\ Pot(c) /\ \A s \in t.dealt : c[s] = t.in[s]
      /\ p \in t.dealt /\ p \in out
  BY <1>1 DEF Pot, Stacks, FoldedIn
<1>3. LayersOf(t) = ComputeSidePots(c, out)  BY Zenon DEF LayersOf
<1>4. Unmatchable(t, t.in, p) = c[p] - Others(c, p)
  <2>1. {t.in[s] : s \in t.dealt \ {p}} = {c[s] : s \in t.dealt \ {p}}  BY <1>2
  <2> HIDE DEF c
  <2> QED  BY <1>2, <2>1, Zenon DEF Unmatchable, Others
<1> HIDE DEF c, out
<1>5. Staked(c, out)
  <2>1. q \in DOMAIN c \ out /\ c[q] > 0  BY <1>2 DEF out
  <2>2. TopLive(c, out) \in Nat /\ c[q] <= TopLive(c, out)  BY <1>2, <2>1, TopLiveIs
  <2>3. c[q] \in Nat  BY <1>2, <2>1, PotIs
  <2> QED  BY <2>1, <2>2, <2>3 DEF Staked
<1>6. Winnable(ComputeSidePots(c, out), p) = Share(c, out, p)  BY <1>2, <1>5, SplitIsFair
<1>7. Share(c, out, p) = Max({0, c[p] - Others(c, p)})  BY <1>2, Zenon DEF Share
<1> QED  BY <1>3, <1>4, <1>6, <1>7, Zenon

(* The showdown pays out the pot, but for the rake.                        *)
LEMMA SettleKeeps ==
  ASSUME NEW t, Sits(t), Dealt(t), InProgress(t), Purse(t), NEW u \in Showdown(t)
  PROVE  Keeps(t, u, 0) /\ ~InProgress(u)
<1>1. PICK ranks \in Rankings(t) : u = Settle(t, ranks)  BY Zenon DEF Showdown
<1> DEFINE paid  == Settlement(t, ranks)
           stack == Plus(t.stack, paid.won)
           state == [p \in Players |-> IF p \in t.dealt /\ stack[p] = 0
                                       THEN "SittingOut" ELSE t.state[p]]
           seat  == SeatOf(t, After(t, Button(t, t.dealt), t.dealt))
<1>2. /\ u = [t EXCEPT !.stack = stack, !.rake = paid.rake, !.state = state,
                       !.stage = "Complete", !.round = NoRound, !.runout = NoRunout,
                       !.dealer = seat]
  BY <1>1, Zenon DEF Settle
<1>3. ~InProgress(u) /\ u.seats = t.seats  BY <1>1, SettleSound DEF Onward
<1>4. /\ t.stack \in Stacks /\ t.in \in Stacks /\ t.dealt \in SUBSET Players
      /\ \A p \in Players \ t.dealt : t.in[p] = 0
  BY DealtAreFinite DEF Money, Purse
<1>5. PICK k \in Nat : /\ SumFunctionOnSet(t.in, t.dealt) = k + paid.rake
                       /\ Given(paid.won, k, t.dealt)
  <2>1. PaidOut(t, paid, SumFunctionOnSet(t.in, t.dealt))  BY <1>4, PotPaid
  <2> HIDE DEF paid
  <2> QED  BY <2>1, Zenon DEF PaidOut
<1>6. paid.rake \in Nat
  <2>1. PaidOut(t, paid, SumFunctionOnSet(t.in, t.dealt))  BY <1>4, PotPaid
  <2> QED  BY <2>1, Zenon DEF PaidOut
<1>7. \A p \in Players : paid.won[p] <= Winnable(LayersOf(t), p)  BY <1>4, PotPaid
<1> HIDE DEF paid
<1>8. Total(t.in) = SumFunctionOnSet(t.in, t.dealt)  BY <1>4, TotalWithin
<1>9. stack \in Stacks /\ Total(stack) = Total(t.stack) + k
  <2>1. paid.won \in Stacks /\ Total(paid.won) = k  BY <1>5 DEF Given
  <2> QED  BY <1>4, <2>1, TotalPlus
<1>10. \A p \in Players \ Seated(t) : stack[p] = 0
  <2>1. \A p \in Players \ t.dealt : paid.won[p] = 0  BY <1>5 DEF Given
  <2>2. \A p \in Players \ Seated(t) : p \notin t.dealt  BY DEF Dealt
  <2> QED  BY <2>1, <2>2 DEF Money, Plus, Purse
<1>11. /\ \A p \in Players : stack[p] = t.stack[p] + paid.won[p] /\ paid.won[p] \in Nat
       /\ \A p \in Players : state[p] = IF p \in t.dealt /\ stack[p] = 0
                                        THEN "SittingOut" ELSE t.state[p]
  BY <1>5, GivenAtMost DEF Plus
<1> HIDE DEF stack, state, seat
<1>12. u.stack = stack /\ u.in = t.in /\ u.rake = paid.rake /\ u.state = state
  BY <1>2 DEF Sits, Shape, Fields
<1>13. Seated(u) = Seated(t)  BY <1>3 DEF Seated
<1>14. Purse(u)  BY <1>3, <1>4, <1>9, <1>10, <1>12, <1>13 DEF Purse, Money
<1>15. Worth(u) = Total(stack) /\ Raked(t, u) = paid.rake /\ Worth(t) = Total(t.stack) + Total(t.in)
  <2>1. Total(stack) \in Nat  BY <1>9, TotalIs
  <2> QED  BY <1>3, <1>12, <2>1 DEF Worth, Raked, Completing
<1>16. Total(t.stack) \in Nat /\ Total(t.in) \in Nat  BY WorthIs DEF Purse
<1>17. Worth(u) + Raked(t, u) = Worth(t) + 0  BY <1>5, <1>6, <1>8, <1>9, <1>15, <1>16
<1>18. Forfeits(t, u)
  <2> SUFFICES ASSUME NEW q \in t.dealt, u.in[q] > 0, u.state[q] # "Folded", NEW p \in FoldedIn(t)
               PROVE  u.stack[p] - t.stack[p] <= Max({0, Unmatchable(t, u.in, p)})
    BY DEF Forfeits
  <2>1. q \in Players /\ p \in Players  BY <1>4 DEF FoldedIn
  <2>2. t.in[q] > 0 /\ t.in[q] # 0  BY <1>12
  <2>3. q \notin FoldedIn(t)
    <3> SUFFICES ASSUME t.state[q] = "Folded"  PROVE FALSE
      BY DEF FoldedIn
    <3>1. stack[q] = 0  BY <1>11, <1>12, <2>1
    <3>2. t.stack[q] = 0  BY <1>4, <1>11, <2>1, <3>1 DEF Stacks
    <3> QED  BY <2>2, <3>2 DEF Purse, Bets, Broke
  <2>4. Winnable(LayersOf(t), p) = Max({0, Unmatchable(t, t.in, p)})
    BY <1>4, <2>2, <2>3, FoldersShare
  <2>5. u.stack[p] - t.stack[p] = paid.won[p]
    <3>1. t.stack[p] \in Nat /\ paid.won[p] \in Nat  BY <1>4, <1>11, <2>1 DEF Stacks
    <3> QED  BY <1>11, <1>12, <2>1, <3>1
  <2>6. paid.won[p] <= Max({0, Unmatchable(t, t.in, p)})  BY <1>7, <2>1, <2>4
  <2> QED  BY <1>12, <2>5, <2>6
<1>19. Waits(t, u)
  <2> SUFFICES ASSUME NEW p \in Players, Newcomer(t, u, p)
               PROVE  ~Enters(t, u, p) /\ u.state[p] = "PendingEntry"
    BY DEF Waits
  <2>1. t.state[p] = "PendingEntry" /\ ~Enters(t, u, p)
    BY <1>3, <1>13 DEF Newcomer, Enters, Dealing
  <2>2. p \notin t.dealt  BY <2>1 DEF Dealt, InHand
  <2> QED  BY <1>11, <1>12, <2>1, <2>2
<1>20. Outs(t, u)  BY <1>3 DEF Outs
<1>21. Balances(t, u, 0)  BY <1>6, <1>15, <1>17 DEF Balances
<1> QED  BY <1>3, <1>14, <1>18, <1>19, <1>20, <1>21 DEF Keeps

LEMMA RestagedKeeps ==
  ASSUME NEW t, Sound(t), InProgress(t), Purse(t), NEW u, Restaged(t, u)
  PROVE  Keeps(t, u, 0) /\ \A v : Leads(t, u, v)
<1>1. InProgress(u)  BY RestagedSound
<1>2. /\ u.seats = t.seats /\ u.stack = t.stack /\ u.in = t.in /\ u.state = t.state
      /\ u.dealt = t.dealt /\ u.round = t.round
  BY DEF Restaged
<1>3. Abides(t, u) /\ StillWaits(t, u)  BY <1>2 DEF Abides, StillWaits
<1>4. Keeps(t, u, 0)  BY <1>1, <1>2, <1>3, KeepsStill
<1>5. \A v : Leads(t, u, v)  BY <1>1, <1>2 DEF Leads, Newcomer, Seated
<1> QED  BY <1>4, <1>5

LEMMA AdvanceRunoutKeeps ==
  ASSUME NEW t, Sound(t), InProgress(t), Purse(t), NEW u \in AdvanceRunout(t)
  PROVE  Keeps(t, u, 0)
<1> DEFINE w == IF t.stage = "River" THEN t ELSE [t EXCEPT !.stage = NextStreet[@]]
<1>1. t.stage \in StreetSet  BY StreetsAre
<1>2. Restaged(t, w)
  <2>1. CASE t.stage = "River"
    BY <1>1, <2>1 DEF Restaged, Sound, Sits, Shape
  <2>2. CASE t.stage # "River"
    <3>1. w = [t EXCEPT !.stage = NextStreet[t.stage]] /\ NextStreet[t.stage] \in StreetSet
      BY <1>1, <2>2, StreetsAre
    <3> HIDE DEF w
    <3>2. /\ DOMAIN w = Fields
          /\ w.seats = t.seats /\ w.stack = t.stack /\ w.in = t.in /\ w.state = t.state
          /\ w.ready = t.ready /\ w.exiting = t.exiting /\ w.dealer = t.dealer
          /\ w.dealt = t.dealt /\ w.round = t.round /\ w.runout = t.runout
          /\ w.stage \in StreetSet
      BY <3>1 DEF Sound, Sits, Shape, Fields
    <3> QED  BY <3>2 DEF Restaged, Sound, Staged
  <2> QED  BY <2>1, <2>2
<1>3. u \in IF w.stage # "River" THEN {w}
            ELSE IF w.runout.twice /\ w.runout.phase = 1
            THEN {[w EXCEPT !.stage = w.runout.split, !.runout.phase = 2]}
            ELSE Showdown(w)
  BY Zenon DEF AdvanceRunout
<1> HIDE DEF w
<1>4. /\ Sound(w) /\ Sits(w) /\ Dealt(w) /\ InProgress(w)
      /\ Keeps(t, w, 0) /\ Purse(w) /\ Leads(t, w, u)
  BY <1>2, RestagedSound, RestagedKeeps DEF Keeps
<1>5. SUFFICES Keeps(w, u, 0)  BY <1>4, KeepsThrough
<1>6. CASE w.stage # "River"
  <2>1. u = w  BY <1>3, <1>6
  <2> QED  BY <1>4, <2>1, StaysItself
<1>7. CASE w.stage = "River" /\ w.runout.twice /\ w.runout.phase = 1
  <2> DEFINE runout == [w.runout EXCEPT !.phase = 2]
  <2>1. u = [w EXCEPT !.stage = w.runout.split, !.runout = runout]
    BY <1>3, <1>7, Zenon
  <2>2. w.runout.split \in StreetSet  BY <1>4 DEF Sound, Staged
  <2> HIDE DEF runout
  <2>3. /\ u.seats = w.seats /\ u.stack = w.stack /\ u.in = w.in
        /\ u.dealt = w.dealt /\ u.round = w.round /\ u.stage = w.runout.split
        /\ u.state = w.state
    BY <1>4, <2>1 DEF Sits, Shape, Fields
  <2>4. InProgress(u)  BY <2>2, <2>3, StreetsAre
  <2>5. Abides(w, u) /\ StillWaits(w, u)  BY <2>3 DEF Abides, StillWaits
  <2> QED  BY <1>4, <2>3, <2>4, <2>5, KeepsStill
<1>8. CASE w.stage = "River" /\ ~(w.runout.twice /\ w.runout.phase = 1)
  <2>1. u \in Showdown(w)  BY <1>3, <1>8, Zenon
  <2> QED  BY <1>4, <2>1, SettleKeeps
<1> QED  BY <1>6, <1>7, <1>8

(* The stacks become those of the round.                                   *)
LEMMA OpenRoundCounts ==
  ASSUME NEW t, Sits(t), Money(t), NEW bet \in Nat, NEW S \in SUBSET t.dealt,
         t.dealt \subseteq Players, NEW u, u = OpenRound(t, S, bet)
  PROVE  /\ u.stack = t.stack /\ Counts(u.round)
         /\ DOMAIN u.round.stack = S /\ u.round.currentBet = bet
         /\ \A p \in S : /\ u.round.stack[p] = t.stack[p] /\ u.round.contributed[p] = 0
                         /\ p \in u.round.allIn <=> t.state[p] = "AllIn"
<1> DEFINE stack == [p \in S |-> t.stack[p]]
           allIn == {p \in S : t.state[p] = "AllIn"}
           round == NewRound(stack, allIn, bet, BigBlind)
<1>1. u = [t EXCEPT !.round = round]  BY Zenon DEF OpenRound
<1>2. /\ round.stack = stack /\ round.contributed = [p \in S |-> 0] /\ round.currentBet = bet
      /\ round.allIn = allIn
  BY DEF NewRound
<1>3. DOMAIN stack = S /\ stack \in [S -> Nat]  BY DEF Money, Stacks
<1> HIDE DEF round, stack, allIn
<1>4. Counts(round)  BY <1>2, <1>3 DEF Counts
<1>5. u.round = round /\ u.stack = t.stack  BY <1>1 DEF Sits, Shape, Fields
<1> QED  BY <1>2, <1>3, <1>4, <1>5 DEF stack, allIn

(* Whoever is able to act on a closed street has put in the bet.           *)
LEMMA ClosedIsLevel ==
  ASSUME NEW t, Sound(t), InProgress(t), Purse(t), IsComplete(t.round),
         ~(Cardinality(Remaining(t)) <= 1)
  PROVE  \A p \in Able(t), q \in Remaining(t) : t.in[q] <= t.in[p]
<1> DEFINE r == t.round
<1>1. Dealt(t) /\ Fits(t, r) /\ Counts(r) /\ Level(t) /\ t.in \in Stacks /\ t.dealt \subseteq Players
  BY SeatedArePlayers DEF Sound, Sits, Dealt, Purse, Bets, Money
<1>2. /\ Remaining(t) \subseteq DOMAIN r.stack /\ Able(t) \subseteq Remaining(t)
      /\ Remaining(t) \subseteq Players
      /\ \A p \in Remaining(t) : p \notin r.folded
      /\ \A p \in Able(t) : p \notin r.allIn
  BY <1>1 DEF Remaining, Able, Fits
<1>3. \A p \in DOMAIN r.stack : ~Pending(r, p)
  <2> SUFFICES ASSUME \A p, q \in DOMAIN r.stack : Live(r, p) /\ Live(r, q) => p = q
               PROVE  FALSE
    BY Zenon DEF IsComplete
  <2>1. \A p, q \in Remaining(t) : p = q  BY <1>2 DEF Live
  <2>2. CASE Remaining(t) = {}  BY <2>2, FS_EmptySet
  <2>3. CASE Remaining(t) # {}
    <3>1. PICK p \in Remaining(t) : TRUE  BY <2>3
    <3>2. Remaining(t) = {p}  BY <2>1, <3>1
    <3> DEFINE n == Cardinality(Remaining(t))
    <3>3. Cardinality({p}) = 1  BY FS_Singleton
    <3>4. n = 1  BY <3>2, <3>3
    <3>5. ~(n <= 1)  OBVIOUS
    <3> HIDE DEF n
    <3> QED  BY <3>4, <3>5
  <2> QED  BY <2>2, <2>3
<1> SUFFICES ASSUME NEW p \in Able(t), NEW q \in Remaining(t)  PROVE t.in[q] <= t.in[p]
  OBVIOUS
<1>4. r.contributed[p] = r.currentBet  BY <1>2, <1>3 DEF Pending, MayAct
<1>5. r.contributed[q] <= r.currentBet /\ r.contributed[q] \in Nat /\ r.contributed[p] \in Nat
  BY <1>1, <1>2 DEF Counts
<1>6. t.in[q] - r.contributed[q] <= t.in[p] - r.contributed[p]
  BY <1>1 DEF Level, Before
<1>7. t.in[q] \in Nat /\ t.in[p] \in Nat  BY <1>1, <1>2 DEF Stacks
<1> QED  BY <1>4, <1>5, <1>6, <1>7

LEMMA AdvanceStageKeeps ==
  ASSUME NEW t, Sound(t), InProgress(t), Purse(t), IsComplete(t.round), NEW u \in AdvanceStage(t)
  PROVE  Keeps(t, u, 0)
<1>1. t.stage \in StreetSet /\ Sits(t) /\ Staged(t) /\ Dealt(t) /\ Fits(t, t.round)
  BY StreetsAre DEF Sound
<1>2. u \in Showdown(t) => Keeps(t, u, 0)  BY <1>1, SettleKeeps
<1>3. CASE Cardinality(Remaining(t)) <= 1
  <2>1. u \in Showdown(t)  BY <1>3, Zenon DEF AdvanceStage
  <2> QED  BY <1>2, <2>1
<1>4. CASE ~(Cardinality(Remaining(t)) <= 1) /\ Cardinality(Able(t)) <= 1
  <2>1. PICK w \in BeginRunout(t) : u \in AdvanceRunout(w)
    BY <1>4, Zenon DEF AdvanceStage
  <2>2. Restaged(t, w)  BY BeginRunoutSound
  <2>3. Sound(w) /\ InProgress(w) /\ Keeps(t, w, 0) /\ Leads(t, w, u)
    BY <2>2, RestagedSound, RestagedKeeps
  <2>4. Keeps(w, u, 0)  BY <2>1, <2>3, AdvanceRunoutKeeps DEF Keeps
  <2> QED  BY <2>3, <2>4, KeepsThrough
<1>5. CASE /\ ~(Cardinality(Remaining(t)) <= 1) /\ ~(Cardinality(Able(t)) <= 1)
           /\ t.stage = "River"
  <2>1. u \in Showdown(t)  BY <1>5, Zenon DEF AdvanceStage
  <2> QED  BY <1>2, <2>1
<1>6. CASE /\ ~(Cardinality(Remaining(t)) <= 1) /\ ~(Cardinality(Able(t)) <= 1)
           /\ t.stage # "River"
  <2> DEFINE w == [t EXCEPT !.stage = NextStreet[t.stage]]
             S == Remaining(t)
  <2>1. u = OpenRound(w, S, 0)  BY <1>6, Zenon DEF AdvanceStage
  <2>2. NextStreet[t.stage] \in StreetSet  BY <1>1, <1>6, StreetsAre
  <2>3. /\ DOMAIN w = Fields
        /\ w.seats = t.seats /\ w.stack = t.stack /\ w.in = t.in /\ w.state = t.state
        /\ w.ready = t.ready /\ w.exiting = t.exiting /\ w.dealer = t.dealer
        /\ w.dealt = t.dealt /\ w.round = t.round /\ w.runout = t.runout
        /\ w.stage = NextStreet[t.stage]
    BY <1>1 DEF Sits, Shape, Fields
  <2> HIDE DEF w
  <2>4. Restaged(t, w)  BY <1>1, <2>2, <2>3 DEF Restaged, Staged
  <2>5. /\ Sits(w) /\ Staged(w) /\ Dealt(w) /\ InProgress(w) /\ Keeps(t, w, 0) /\ Purse(w)
        /\ Leads(t, w, u)
    BY <2>4, RestagedSound, RestagedKeeps DEF Keeps, Restaged
  <2>6. /\ S \subseteq w.dealt
        /\ \A p \in S : w.state[p] # "Folded"
        /\ \A p \in w.dealt \ S : w.state[p] = "Folded"
    BY <1>1, <2>3 DEF Remaining, Dealt, InHand
  <2>7. /\ InProgress(u) /\ u.seats = w.seats /\ u.dealt = w.dealt /\ u.in = w.in
        /\ u.state = w.state
    BY <2>1, <2>5, <2>6, OpenRoundSound
  <2>8. w.dealt \subseteq Players  BY <2>5, SeatedArePlayers DEF Sits, Dealt
  <2>9. /\ u.stack = w.stack /\ Counts(u.round) /\ DOMAIN u.round.stack = S
        /\ \A p \in S : /\ u.round.stack[p] = w.stack[p] /\ u.round.contributed[p] = 0
                        /\ p \in u.round.allIn <=> w.state[p] = "AllIn"
    BY <2>1, <2>5, <2>6, <2>8, OpenRoundCounts DEF Purse
  <2>10. Seated(u) = Seated(w)  BY <2>7 DEF Seated
  <2>11. Level(u)
    <3>1. \A p \in Able(t), q \in Remaining(t) : t.in[q] <= t.in[p]  BY <1>6, ClosedIsLevel
    <3>2. Remaining(u) = S /\ Able(u) = Able(t) /\ Able(t) \subseteq S /\ S \subseteq Players
      BY <2>3, <2>6, <2>7, <2>8 DEF Remaining, Able
    <3>3. \A p \in S : Before(u, p) = t.in[p] - 0  BY <2>3, <2>7, <2>9 DEF Before
    <3>4. \A p \in S : t.in[p] \in Nat  BY <3>2 DEF Purse, Money, Stacks
    <3> HIDE DEF S
    <3> QED  BY <3>1, <3>2, <3>3, <3>4 DEF Level, S
  <2>12. Broke(u)
    <3>1. Broke(w)  BY <2>5 DEF Purse, Bets
    <3>2. \A p \in u.dealt : u.state[p] # "AllIn" /\ u.stack[p] = 0 => u.in[p] = 0
      BY <2>7, <2>9, <3>1 DEF Broke
    <3>3. \A p \in DOMAIN u.round.stack \ u.round.allIn : u.round.stack[p] = 0 => u.in[p] = 0
      BY <2>6, <2>7, <2>9, <3>2
    <3> QED  BY <3>2, <3>3 DEF Broke
  <2>13. Bets(u) /\ Abides(w, u) /\ StillWaits(w, u)
    BY <2>7, <2>9, <2>11, <2>12 DEF Bets, Abides, StillWaits
  <2>14. Keeps(w, u, 0)  BY <2>5, <2>7, <2>9, <2>10, <2>13, KeepsSame
  <2> QED  BY <2>5, <2>14, KeepsThrough
<1> QED  BY <1>3, <1>4, <1>5, <1>6

LEMMA IfClosedKeeps ==
  ASSUME NEW t, Sound(t), InProgress(t), Purse(t), NEW u \in IfClosed(t)
  PROVE  Keeps(t, u, 0)
<1>1. CASE IsComplete(t.round)
  <2>1. u \in AdvanceStage(t)  BY <1>1, Zenon DEF IfClosed
  <2> QED  BY <1>1, <2>1, AdvanceStageKeeps
<1>2. CASE ~IsComplete(t.round)
  <2>1. u = t  BY <1>2, Zenon DEF IfClosed
  <2> QED  BY <2>1, StaysItself
<1> QED  BY <1>1, <1>2

----------------------------------------------------------------------------
(* A decision moves chips of p's from the stack into the round, and p's    *)
(* last ones put p all-in.                                                 *)
Puts(r, p, q) ==
  /\ Counts(q) /\ DOMAIN q.stack = DOMAIN r.stack
  /\ \A s \in DOMAIN r.stack \ {p} : q.contributed[s] = r.contributed[s]
  /\ \E n \in Nat : /\ r.stack[p] = q.stack[p] + n
                    /\ q.contributed[p] = r.contributed[p] + n
                    /\ q.stack[p] = 0 /\ p \notin q.allIn => n = 0

LEMMA NothingPut ==
  ASSUME NEW r, Counts(r), NEW p \in DOMAIN r.stack,
         NEW q, q.stack = r.stack, q.contributed = r.contributed, q.currentBet = r.currentBet
  PROVE  Puts(r, p, q)
<1>1. r.stack[p] \in Nat /\ r.contributed[p] \in Nat  BY DEF Counts
<1>2. 0 \in Nat /\ r.stack[p] = q.stack[p] + 0 /\ q.contributed[p] = r.contributed[p] + 0
  BY <1>1
<1>3. Counts(q)  BY DEF Counts
<1> QED  BY <1>2, <1>3 DEF Puts

LEMMA FoldPuts ==
  ASSUME NEW r, DOMAIN r = RoundFields, Counts(r), NEW p \in DOMAIN r.stack
  PROVE  Puts(r, p, Fold(r, p))
<1> DEFINE f == r.folded \cup {p}
           q == Fold(r, p)
<1>1. q = [r EXCEPT !.folded = f, !.lastActor = p]  BY Zenon DEF Fold
<1> HIDE DEF f, q
<1>2. q.stack = r.stack /\ q.contributed = r.contributed /\ q.currentBet = r.currentBet
  BY <1>1 DEF RoundFields
<1>3. Puts(r, p, q)  BY <1>2, NothingPut
<1> QED  BY <1>3 DEF q

LEMMA CheckPuts ==
  ASSUME NEW r, DOMAIN r = RoundFields, Counts(r), NEW p \in DOMAIN r.stack
  PROVE  Puts(r, p, Check(r, p))
<1> DEFINE a == r.acted \cup {p}
           q == Check(r, p)
<1>1. q = [r EXCEPT !.acted = a, !.lastActor = p]  BY Zenon DEF Check, Responded
<1> HIDE DEF a, q
<1>2. q.stack = r.stack /\ q.contributed = r.contributed /\ q.currentBet = r.currentBet
  BY <1>1 DEF RoundFields
<1>3. Puts(r, p, q)  BY <1>2, NothingPut
<1> QED  BY <1>3 DEF q

(* n chips are put in, and the bet may be what they bring p to.            *)
LEMMA PayPuts ==
  ASSUME NEW r, DOMAIN r = RoundFields, Counts(r), NEW p \in DOMAIN r.stack,
         NEW o, DOMAIN o = RoundFields, o.stack = r.stack, o.contributed = r.contributed,
         NEW n \in Nat, n <= r.stack[p], NEW paid, paid = Pay(o, p, n),
         NEW q, q.stack = paid.stack, q.contributed = paid.contributed, q.allIn = paid.allIn,
         q.currentBet \in Nat, r.currentBet <= q.currentBet,
         r.contributed[p] + n <= q.currentBet
  PROVE  Puts(r, p, q)
<1> DEFINE s == [r.stack EXCEPT ![p] = @ - n]
           c == [r.contributed EXCEPT ![p] = @ + n]
           a == IF n = o.stack[p] THEN o.allIn \cup {p} ELSE o.allIn
<1>1. paid = [o EXCEPT !.stack = s, !.contributed = c, !.allIn = a]
  BY DEF Pay, RoundFields
<1>2. r.stack[p] \in Nat /\ r.contributed[p] \in Nat  BY DEF Counts
<1>3. /\ s \in [DOMAIN r.stack -> Nat] /\ c \in [DOMAIN r.stack -> Nat]
      /\ s[p] = r.stack[p] - n /\ c[p] = r.contributed[p] + n
      /\ \A x \in DOMAIN r.stack \ {p} : c[x] = r.contributed[x]
      /\ n = r.stack[p] => p \in a
  BY <1>2 DEF Counts
<1> HIDE DEF s, c, a
<1>4. q.stack = s /\ q.contributed = c /\ q.allIn = a  BY <1>1 DEF RoundFields
<1>5. DOMAIN s = DOMAIN r.stack  BY <1>3
<1>6. \A x \in DOMAIN r.stack : c[x] <= q.currentBet
  <2> SUFFICES ASSUME NEW x \in DOMAIN r.stack  PROVE c[x] <= q.currentBet
    OBVIOUS
  <2>1. CASE x = p  BY <1>3, <2>1
  <2>2. CASE x # p
    <3>1. r.contributed[x] \in Nat /\ r.contributed[x] <= r.currentBet /\ r.currentBet \in Nat
      BY DEF Counts
    <3> QED  BY <1>3, <2>2, <3>1
  <2> QED  BY <2>1, <2>2
<1>7. Counts(q)  BY <1>3, <1>4, <1>5, <1>6 DEF Counts
<1>8. /\ r.stack[p] = q.stack[p] + n /\ q.contributed[p] = r.contributed[p] + n
      /\ q.stack[p] = 0 /\ p \notin q.allIn => n = 0
  BY <1>2, <1>3, <1>4
<1>9. \A x \in DOMAIN r.stack \ {p} : q.contributed[x] = r.contributed[x]  BY <1>3, <1>4
<1> QED  BY <1>4, <1>5, <1>7, <1>8, <1>9 DEF Puts

LEMMA CallPuts ==
  ASSUME NEW r, DOMAIN r = RoundFields, Counts(r), NEW p \in DOMAIN r.stack, CanCall(r, p)
  PROVE  Puts(r, p, Call(r, p))
<1> DEFINE n    == Least(Owed(r, p), r.stack[p])
           paid == Pay(r, p, n)
           a    == paid.acted \cup {p}
           q    == Call(r, p)
<1>1. q = [paid EXCEPT !.acted = a, !.lastActor = p]  BY Zenon DEF Call, Responded
<1>2. n \in Nat /\ n <= r.stack[p] /\ r.contributed[p] + n <= r.currentBet
  <2>1. r.stack[p] \in Nat /\ r.contributed[p] \in Nat /\ r.currentBet \in Nat  BY DEF Counts
  <2> QED  BY <2>1 DEF CanCall, Owed, Least
<1> HIDE DEF n
<1>3. DOMAIN paid = RoundFields /\ paid.currentBet = r.currentBet
  BY DEF Pay, RoundFields
<1> HIDE DEF paid, a, q
<1>4. /\ q.stack = paid.stack /\ q.contributed = paid.contributed /\ q.currentBet = r.currentBet
      /\ q.allIn = paid.allIn
  BY <1>1, <1>3 DEF RoundFields
<1>5. q.currentBet \in Nat /\ r.currentBet <= q.currentBet  BY <1>4 DEF Counts
<1>6. Puts(r, p, q)
  <2>1. r.contributed[p] + n <= q.currentBet  BY <1>2, <1>4
  <2> QED  BY <1>2, <1>4, <1>5, <2>1, PayPuts DEF paid
<1> QED  BY <1>6 DEF q

LEMMA RaisePuts ==
  ASSUME NEW r, DOMAIN r = RoundFields, Counts(r), NEW p \in DOMAIN r.stack,
         NEW amount \in 1 .. AllInTo(r, p), CanRaise(r, p, amount)
  PROVE  Puts(r, p, Raise(r, p, amount))
<1> DEFINE target == RaiseTarget(r, p, amount)
           o      == Reopened(r, p, amount)
           n      == target - r.contributed[p]
           paid   == Pay(o, p, n)
           bet    == [paid EXCEPT !.currentBet = target]
           a      == bet.acted \cup {p}
           q      == Raise(r, p, amount)
<1>1. q = [bet EXCEPT !.acted = a, !.lastActor = p]  BY Zenon DEF Raise, Responded
<1>2. /\ n \in Nat /\ n <= r.stack[p] /\ target \in Nat
      /\ r.currentBet <= target /\ r.contributed[p] + n <= target
  <2>1. r.stack[p] \in Nat /\ r.contributed[p] \in Nat /\ r.currentBet \in Nat  BY DEF Counts
  <2>2. /\ amount \in Nat /\ amount > r.contributed[p] /\ amount <= r.contributed[p] + r.stack[p]
        /\ amount > r.currentBet
    BY <2>1 DEF CanRaise, AllInTo
  <2>3. target = amount  BY <2>1, <2>2 DEF RaiseTarget, Least, AllInTo
  <2> HIDE DEF target
  <2> QED  BY <2>1, <2>2, <2>3
<1>3. DOMAIN o = RoundFields /\ o.stack = r.stack /\ o.contributed = r.contributed
  BY DEF Reopened, RoundFields
<1> HIDE DEF target, o, n
<1>4. DOMAIN paid = RoundFields  BY <1>3 DEF Pay, RoundFields
<1> HIDE DEF paid
<1>5. /\ DOMAIN bet = RoundFields /\ bet.stack = paid.stack
      /\ bet.contributed = paid.contributed /\ bet.currentBet = target /\ bet.allIn = paid.allIn
  BY <1>4 DEF RoundFields
<1> HIDE DEF bet, a, q
<1>6. /\ q.stack = paid.stack /\ q.contributed = paid.contributed /\ q.currentBet = target
      /\ q.allIn = paid.allIn
  BY <1>1, <1>5 DEF RoundFields
<1>7. q.currentBet \in Nat /\ r.currentBet <= q.currentBet /\ r.contributed[p] + n <= q.currentBet
  BY <1>2, <1>6
<1>8. Puts(r, p, q)  BY <1>2, <1>3, <1>6, <1>7, PayPuts DEF paid
<1> QED  BY <1>8 DEF q

(* What p puts into the round, p has put into the pot.                     *)
LEMMA ActedKeeps ==
  ASSUME NEW t, Sound(t), InProgress(t), Purse(t),
         NEW p \in DOMAIN t.round.stack, MayAct(t.round, p),
         NEW r, Decides(t.round, p, r), Puts(t.round, p, r), NEW u \in Acted(t, p, r)
  PROVE  Keeps(t, u, 0)
<1> DEFINE stack == [t.stack EXCEPT ![p] = r.stack[p]]
           in    == [t.in EXCEPT ![p] = @ + r.contributed[p] - t.round.contributed[p]]
           state == [t.state EXCEPT ![p] = IF p \in r.allIn THEN "AllIn"
                       ELSE IF p \in r.folded THEN "Folded" ELSE @]
           w     == [t EXCEPT !.round = r, !.stack = stack, !.in = in, !.state = state]
<1>1. /\ DOMAIN t = Fields /\ DOMAIN t.stack = Players /\ DOMAIN t.in = Players
      /\ DOMAIN t.state = Players
  BY DEF Sound, Sits, Shape
<1>2. u \in IfClosed(w)
  <2>1. w = [t EXCEPT
               !.round    = r,
               !.stack[p] = r.stack[p],
               !.in[p]    = @ + r.contributed[p] - t.round.contributed[p],
               !.state[p] = IF p \in r.allIn THEN "AllIn"
                            ELSE IF p \in r.folded THEN "Folded" ELSE @]
    BY <1>1 DEF Fields
  <2> HIDE DEF w
  <2> QED  BY <2>1, Zenon DEF Acted
<1>3. /\ p \in Players /\ p \in t.dealt /\ p \in Seated(t) /\ p \notin t.round.allIn
      /\ ChipsStay => t.stack[p] = t.round.stack[p]
      /\ t.state[p] \notin {"Folded", "AllIn", "PendingEntry"}
  BY SeatedArePlayers DEF Sound, Fits, Dealt, InHand, Sits, MayAct
<1>4. PICK n \in Nat : /\ t.round.stack[p] = r.stack[p] + n
                       /\ r.contributed[p] = t.round.contributed[p] + n
                       /\ r.stack[p] = 0 /\ p \notin r.allIn => n = 0
  BY Zenon DEF Puts
<1>5. /\ t.stack \in Stacks /\ t.in \in Stacks
      /\ t.round.contributed[p] \in Nat /\ r.stack[p] \in Nat /\ r.contributed[p] \in Nat
      /\ t.in[p] \in Nat /\ t.stack[p] \in Nat
  BY <1>3 DEF Purse, Bets, Money, Stacks, Counts, Puts
<1>6. /\ stack \in Stacks /\ stack[p] = r.stack[p]
      /\ in \in Stacks /\ in[p] = t.in[p] + n
      /\ \A q \in Players \ {p} : stack[q] = t.stack[q] /\ in[q] = t.in[q]
  BY <1>3, <1>4, <1>5 DEF Stacks
<1>7. /\ DOMAIN state = Players
      /\ state[p] = IF p \in r.allIn THEN "AllIn"
                    ELSE IF p \in r.folded THEN "Folded" ELSE t.state[p]
      /\ \A q \in Players \ {p} : state[q] = t.state[q]
  BY <1>1, <1>3
<1> HIDE DEF stack, in, state
<1>8. /\ DOMAIN w = Fields
      /\ w.seats = t.seats /\ w.stack = stack /\ w.in = in /\ w.state = state
      /\ w.ready = t.ready /\ w.exiting = t.exiting /\ w.dealer = t.dealer
      /\ w.dealt = t.dealt /\ w.round = r /\ w.runout = t.runout /\ w.stage = t.stage
  BY <1>1 DEF Fields
<1> HIDE DEF w
<1>9. DOMAIN stack = Players /\ DOMAIN in = Players  BY <1>6 DEF Stacks
<1>10. Decided(t, p, r, w)  BY <1>6, <1>7, <1>8, <1>9 DEF Decided
<1>11. Sound(w) /\ InProgress(w)  BY <1>10, DecidedSound
<1>12. Fits(t, t.round) /\ Dealt(t) /\ Bets(t) /\ t.dealt \subseteq Players
  BY SeatedArePlayers DEF Sound, Sits, Dealt, Purse
<1>13. Level(w)
  <2>1. Remaining(w) \subseteq Remaining(t)
    BY <1>3, <1>7, <1>8, <1>12 DEF Remaining, Dealt, InHand
  <2>2. Able(w) \subseteq Able(t)
    <3> SUFFICES ASSUME NEW q \in Able(w)  PROVE q \in Remaining(t) /\ t.state[q] # "AllIn"
      BY DEF Able
    <3>1. q \in Remaining(t) /\ w.state[q] # "AllIn" /\ q \in Players
      BY <1>12, <2>1 DEF Able, Remaining
    <3> QED  BY <1>3, <1>7, <1>8, <3>1
  <2>3. Remaining(t) \subseteq DOMAIN t.round.stack  BY <1>12 DEF Fits, Remaining
  <2>4. ASSUME NEW q \in Remaining(t)  PROVE Before(w, q) = Before(t, q)
    <3>1. q \in DOMAIN t.round.stack /\ q \in Players  BY <1>12, <2>3 DEF Remaining
    <3>2. CASE q = p
      <4>1. in[p] - r.contributed[p] = t.in[p] - t.round.contributed[p]
        BY <1>4, <1>5, <1>6
      <4> QED  BY <1>8, <3>2, <4>1 DEF Before
    <3>3. CASE q # p  BY <1>6, <1>8, <3>1, <3>3 DEF Before, Puts
    <3> QED  BY <3>2, <3>3
  <2>5. Able(w) \subseteq Remaining(w)  BY DEF Able
  <2> QED  BY <1>12, <2>1, <2>2, <2>4, <2>5 DEF Level, Bets
<1>14. Broke(w)
  <2>1. ASSUME p \notin r.allIn, r.stack[p] = 0  PROVE in[p] = 0
    <3>1. t.round.stack[p] = 0 /\ n = 0  BY <1>4, <2>1
    <3>2. t.in[p] = 0  BY <1>3, <1>12, <3>1 DEF Bets, Broke
    <3> QED  BY <1>6, <3>1, <3>2
  <2>2. ASSUME NEW q \in t.dealt, state[q] # "AllIn", stack[q] = 0  PROVE in[q] = 0
    <3>1. CASE q = p  BY <1>3, <1>6, <1>7, <2>1, <2>2, <3>1
    <3>2. CASE q # p
      <4>1. q \in Players \ {p}  BY <1>12, <3>2
      <4> QED  BY <1>6, <1>7, <1>12, <2>2, <4>1 DEF Bets, Broke
    <3> QED  BY <3>1, <3>2
  <2>3. ASSUME NEW q \in DOMAIN r.stack \ r.allIn, r.stack[q] = 0  PROVE in[q] = 0
    <3>1. CASE q = p  BY <2>1, <2>3, <3>1
    <3>2. CASE q # p
      <4>1. q \in DOMAIN t.round.stack \ {p} /\ q \in Players
        BY <1>12, <3>2 DEF Decides, Fits
      <4>2. q \notin t.round.allIn /\ t.round.stack[q] = 0  BY <2>3, <4>1 DEF Decides
      <4> QED  BY <1>6, <1>12, <4>1, <4>2 DEF Bets, Broke
    <3> QED  BY <3>1, <3>2
  <2> QED  BY <1>8, <2>2, <2>3 DEF Broke
<1>15. Purse(w)
  <2>1. Seated(w) = Seated(t)  BY <1>8 DEF Seated
  <2>2. \A q \in Players \ Seated(t) : stack[q] = 0  BY <1>3, <1>6 DEF Purse, Money
  <2>3. \A q \in Players \ t.dealt : in[q] = 0  BY <1>3, <1>6 DEF Purse, Money
  <2>4. Counts(w.round)  BY <1>8 DEF Puts
  <2> QED  BY <1>6, <1>8, <1>13, <1>14, <2>1, <2>2, <2>3, <2>4 DEF Purse, Bets, Money
<1>16. ASSUME ChipsStay  PROVE Worth(w) = Worth(t)
  <2>1. Total(stack) = Total(t.stack) - t.stack[p] + stack[p]
    <3>1. Same(stack, t.stack, Players \ {p})  BY <1>6 DEF Same
    <3> QED  BY <1>3, <1>5, <1>6, <3>1, TotalChange
  <2>2. Total(in) = Total(t.in) - t.in[p] + in[p]
    <3>1. Same(in, t.in, Players \ {p})  BY <1>6 DEF Same
    <3> QED  BY <1>3, <1>5, <1>6, <3>1, TotalChange
  <2>3. Total(t.stack) \in Nat /\ Total(t.in) \in Nat  BY WorthIs DEF Purse
  <2>4. Worth(w) = Total(stack) + Total(in) /\ Worth(t) = Total(t.stack) + Total(t.in)
    BY <1>8, <1>11 DEF Worth
  <2>5. t.stack[p] = t.round.stack[p]  BY <1>3, <1>16
  <2> QED  BY <1>4, <1>5, <1>6, <2>1, <2>2, <2>3, <2>4, <2>5
<1>17. Keeps(t, w, 0)
  <2>1. Worth(t) \in Nat  BY WorthIs DEF Purse
  <2>2. Raked(t, w) = 0 /\ ~Completing(t, w) /\ ~Dealing(t, w)
    BY <1>11 DEF Raked, Completing, Dealing
  <2>3. Balances(t, w, 0)  BY <1>16, <2>1, <2>2 DEF Balances
  <2>4. Outs(t, w)  BY <1>3, <1>7, <1>8, <1>12 DEF Outs, FoldedIn
  <2>5. Forfeits(t, w)  BY <2>2 DEF Forfeits
  <2>6. Waits(t, w)  BY <1>3, <1>7, <1>8, <2>2 DEF Waits, Newcomer, Enters, Seated
  <2> QED  BY <1>15, <2>3, <2>4, <2>5, <2>6 DEF Keeps
<1>18. Leads(t, w, u)
  <2>1. \A q \in FoldedIn(t) : w.in[q] = t.in[q] /\ w.stack[q] = t.stack[q]
    BY <1>3, <1>6, <1>8, <1>12 DEF FoldedIn
  <2>2. \A q \in Players : Newcomer(t, w, q) =>
          w.state[q] = "PendingEntry" /\ (w.stack[q] = 0 => t.stack[q] = 0)
    BY <1>3, <1>6, <1>7, <1>8 DEF Newcomer, Seated
  <2> QED  BY <1>8, <1>11, <2>1, <2>2 DEF Leads
<1>19. Keeps(w, u, 0)  BY <1>2, <1>11, <1>15, IfClosedKeeps
<1> QED  BY <1>17, <1>18, <1>19, KeepsThrough

----------------------------------------------------------------------------
(* The next hand.  What is posted leaves the stacks for the pot.           *)
LEMMA IdleKeeps ==
  ASSUME NEW t, Sits(t), Money(t), ~InProgress(t)
  PROVE  Keeps(t, Idle(t), 0)
<1> DEFINE u == Idle(t)
<1>1. u = [t EXCEPT !.stage = "Waiting", !.dealt = {}, !.in = NoChips, !.runout = NoRunout]
  BY Zenon DEF Idle
<1>2. ~InProgress(u)  BY IdleSound
<1> HIDE DEF u
<1>3. u.seats = t.seats /\ u.stack = t.stack /\ u.in = NoChips /\ u.state = t.state
  BY <1>1 DEF Sits, Shape, Fields
<1>4. Seated(u) = Seated(t)  BY <1>3 DEF Seated
<1>5. Purse(u)  BY <1>2, <1>3, <1>4, TotalOfNone DEF Purse, Money
<1>6. Worth(u) = Total(t.stack) + 0 /\ Worth(t) = Total(t.stack) + 0 /\ Raked(t, u) = 0
  BY <1>2, <1>3 DEF Worth, Raked, Completing
<1>7. Total(t.stack) \in Nat  BY WorthIs
<1>8. Outs(t, u) /\ Forfeits(t, u)  BY DEF Outs, Forfeits, Completing
<1>9. Waits(t, u)  BY <1>2, <1>3 DEF Waits, Newcomer, Enters, Dealing
<1> QED  BY <1>5, <1>6, <1>7, <1>8, <1>9 DEF Keeps, Balances, u

LEMMA SeatHandKeeps ==
  ASSUME NEW t, Sits(t), Money(t), NEW S \in SUBSET Seated(t), NEW dealer,
         NEW u, u = SeatHand(t, S, dealer)
  PROVE  /\ Money(u) /\ u.stack = t.stack /\ u.dealt = S
         /\ \A p \in Players \ S : t.state[p] = "PendingEntry" => u.state[p] = "PendingEntry"
<1> DEFINE state == [p \in Players |-> IF p \in S THEN "Active"
                       ELSE IF t.state[p] \in {"Away", "PendingEntry"} THEN t.state[p]
                       ELSE "SittingOut"]
           post  == t.post \ {p \in S : t.state[p] = "PendingEntry"}
           owes  == t.owes \ {p \in S : t.state[p] = "SittingOut"}
<1>1. u = [t EXCEPT !.dealer = dealer, !.drawn = TRUE, !.stage = "PreFlop", !.dealt = S,
                    !.in = NoChips, !.runout = NoRunout, !.rake = 0,
                    !.state = state, !.post = post, !.owes = owes]
  BY Zenon DEF SeatHand
<1>2. \A p \in Players \ S : t.state[p] = "PendingEntry" => state[p] = "PendingEntry"
  OBVIOUS
<1> HIDE DEF state, post, owes
<1>3. DOMAIN t = Fields  BY DEF Sits, Shape
<1>4. u.seats = t.seats /\ u.stack = t.stack  BY <1>1, <1>3 DEF Fields
<1>5. u.in = NoChips /\ u.dealt = S /\ u.state = state  BY <1>1, <1>3 DEF Fields
<1>6. Seated(u) = Seated(t)  BY <1>4 DEF Seated
<1>7. NoChips \in Stacks /\ \A p \in Players : NoChips[p] = 0  BY TotalOfNone DEF NoChips
<1> QED  BY <1>2, <1>4, <1>5, <1>6, <1>7 DEF Money

LEMMA PostKeeps ==
  ASSUME NEW t, Sits(t), Dealt(t), Money(t), NEW due, \A p \in t.dealt : due[p] \in Nat,
         NEW u, u = Post(t, due)
  PROVE  /\ Money(u) /\ \A p \in Players \ t.dealt : u.in[p] = 0
         /\ Total(u.stack) + Total(u.in) = Total(t.stack)
         /\ \A p \in t.dealt : /\ u.in[p] <= due[p]
                               /\ due[p] > 0 => u.in[p] > 0 \/ t.stack[p] = 0
                               /\ u.state[p] # "AllIn" /\ u.stack[p] = 0 => u.in[p] = 0
         /\ \A p \in Players \ t.dealt : u.state[p] = t.state[p]
<1> DEFINE paid  == [p \in Players |-> IF p \in t.dealt THEN Min({due[p], t.stack[p]}) ELSE 0]
           stack == [p \in Players |-> t.stack[p] - paid[p]]
           state == [p \in Players |->
                       IF p \in t.dealt /\ due[p] > 0 /\ due[p] >= t.stack[p]
                       THEN "AllIn" ELSE t.state[p]]
<1>1. u = [t EXCEPT !.stack = stack, !.in = paid, !.state = state]
  BY Zenon DEF Post
<1>2. t.dealt \subseteq Players /\ t.dealt \subseteq Seated(t)  BY DealtAreFinite
<1>3. \A p \in Players : t.stack[p] \in Nat  BY DEF Money, Stacks
<1>4. \A p \in Players :
        /\ paid[p] \in Nat /\ paid[p] <= t.stack[p]
        /\ p \in t.dealt => /\ paid[p] <= due[p]
                            /\ paid[p] = due[p] \/ paid[p] = t.stack[p]
  <2> SUFFICES ASSUME NEW p \in Players
               PROVE  /\ paid[p] \in Nat /\ paid[p] <= t.stack[p]
                      /\ p \in t.dealt => /\ paid[p] <= due[p]
                                          /\ paid[p] = due[p] \/ paid[p] = t.stack[p]
    OBVIOUS
  <2>1. CASE p \in t.dealt
    <3> DEFINE a == due[p]
               b == t.stack[p]
    <3>1. a \in Nat /\ b \in Nat  BY <1>3, <2>1
    <3>2. paid[p] = Min({a, b})  BY <2>1
    <3> HIDE DEF paid, a
    <3>3. Min({a, b}) = IF a <= b THEN a ELSE b
      <4> HIDE DEF b
      <4> QED  BY <3>1, MinOfTwo
    <3>4. /\ paid[p] \in Nat /\ paid[p] <= b /\ paid[p] <= a
          /\ paid[p] = a \/ paid[p] = b
      BY <3>1, <3>2, <3>3
    <3> QED  BY <3>4 DEF a
  <2>2. CASE p \notin t.dealt  BY <1>3, <2>2
  <2> QED  BY <2>1, <2>2
<1>5. \A p \in Players \ t.dealt : paid[p] = 0  OBVIOUS
<1>6. DOMAIN paid = Players  OBVIOUS
<1>7. paid \in Stacks
  <2>1. paid = [p \in Players |-> paid[p]]  OBVIOUS
  <2> HIDE DEF paid
  <2> QED  BY <1>4, <2>1 DEF Stacks
<1> HIDE DEF paid
<1>8. stack \in Stacks /\ Plus(stack, paid) = t.stack
  <2>1. stack \in Stacks  BY <1>3, <1>4 DEF Stacks
  <2>2. \A p \in Players : stack[p] + paid[p] = t.stack[p]  BY <1>3, <1>4
  <2>3. t.stack = [p \in Players |-> t.stack[p]]  BY DEF Money, Stacks
  <2> HIDE DEF stack
  <2> QED  BY <2>1, <2>2, <2>3 DEF Plus
<1>9. \A p \in Players \ Seated(t) : stack[p] = 0
  BY <1>2, <1>5 DEF Money
<1>10. \A p \in t.dealt : /\ paid[p] <= due[p]
                          /\ due[p] > 0 => paid[p] > 0 \/ t.stack[p] = 0
                          /\ state[p] # "AllIn" /\ stack[p] = 0 => paid[p] = 0
  <2> SUFFICES ASSUME NEW p \in t.dealt
               PROVE  /\ paid[p] <= due[p]
                      /\ due[p] > 0 => paid[p] > 0 \/ t.stack[p] = 0
                      /\ state[p] # "AllIn" /\ stack[p] = 0 => paid[p] = 0
    OBVIOUS
  <2>1. /\ paid[p] \in Nat /\ paid[p] <= t.stack[p] /\ paid[p] <= due[p]
        /\ paid[p] = due[p] \/ paid[p] = t.stack[p]
        /\ due[p] \in Nat /\ t.stack[p] \in Nat
        /\ stack[p] = t.stack[p] - paid[p]
        /\ state[p] = IF due[p] > 0 /\ due[p] >= t.stack[p] THEN "AllIn" ELSE t.state[p]
    BY <1>2, <1>3, <1>4
  <2> HIDE DEF stack, state
  <2> QED  BY <2>1
<1>11. \A p \in Players \ t.dealt : state[p] = t.state[p]  OBVIOUS
<1> HIDE DEF stack, state
<1>12. u.seats = t.seats /\ u.stack = stack /\ u.in = paid /\ u.dealt = t.dealt /\ u.state = state
  BY <1>1 DEF Sits, Shape, Fields
<1>13. Seated(u) = Seated(t)  BY <1>12 DEF Seated
<1>14. Money(u) /\ \A p \in Players \ t.dealt : u.in[p] = 0
  BY <1>5, <1>7, <1>8, <1>9, <1>12, <1>13 DEF Money
<1>15. Total(t.stack) = Total(stack) + Total(paid)
  <2>1. Total(Plus(stack, paid)) = Total(stack) + Total(paid)  BY <1>7, <1>8, TotalPlus
  <2> QED  BY <1>8, <2>1, Zenon
<1> QED  BY <1>10, <1>11, <1>12, <1>14, <1>15

LEMMA DealKeeps ==
  ASSUME NEW t, Sits(t), Money(t), ~InProgress(t), NEW S \in SUBSET Seated(t), S # {},
         NEW dealer \in DealerSeats(t), NEW u, u = Deal(t, S, dealer)
  PROVE  Keeps(t, u, 0)
<1> DEFINE seated == SeatHand(t, S, dealer)
           due    == Due(seated, Entrants(t, S))
           posted == Post(seated, due)
           opened == OpenRound(posted, S, BigBlind)
           c      == [p \in S |-> posted.in[p]]
           round  == [opened.round EXCEPT !.contributed = c]
<1>1. u = [opened EXCEPT !.round.contributed = c]  BY Zenon DEF Deal
<1>2. InProgress(u) /\ u.seats = t.seats /\ u.dealt = S  BY DealSound
<1>3. /\ Sits(seated) /\ Staged(seated) /\ Dealt(seated) /\ InProgress(seated)
      /\ AllActive(seated) /\ seated.seats = t.seats
  <2> HIDE DEF seated
  <2>1. seated = SeatHand(t, S, dealer)  BY DEF seated
  <2> QED  BY <2>1, SeatHandSound
<1>4. /\ Money(seated) /\ seated.stack = t.stack /\ seated.dealt = S
      /\ \A p \in Players \ S : t.state[p] = "PendingEntry" => seated.state[p] = "PendingEntry"
  <2> HIDE DEF seated
  <2>1. seated = SeatHand(t, S, dealer)  BY DEF seated
  <2> QED  BY <2>1, SeatHandKeeps
<1> HIDE DEF seated
<1>5. /\ \A p \in seated.dealt : due[p] \in Nat /\ due[p] <= BigBlind
      /\ \A p \in seated.dealt : t.state[p] = "PendingEntry" => due[p] > 0
  <2>1. /\ SmallBlind \in Nat /\ BigBlind \in Nat /\ SmallBlind > 0 /\ BigBlind > 0
        /\ SmallBlind <= BigBlind
    BY StakesAssumption
  <2>2. \A p \in seated.dealt : t.state[p] = "PendingEntry" => p \in Entrants(t, S)
    BY <1>4 DEF Entrants
  <2>3. \A p \in seated.dealt : due[p] \in {0, SmallBlind, BigBlind}  BY DEF Due
  <2>4. \A p \in seated.dealt : p \in Entrants(t, S) => due[p] \in {SmallBlind, BigBlind}
    BY DEF Due
  <2> HIDE DEF due
  <2> QED  BY <2>1, <2>2, <2>3, <2>4
<1> HIDE DEF due
<1>6. /\ Sits(posted) /\ Staged(posted) /\ Dealt(posted) /\ InProgress(posted)
      /\ posted.dealt = S /\ posted.seats = t.seats
      /\ \A p \in S : posted.state[p] # "Folded"
  BY <1>3, <1>4, PostSound
<1>7. /\ Money(posted) /\ \A p \in Players \ S : posted.in[p] = 0
      /\ Total(posted.stack) + Total(posted.in) = Total(t.stack)
      /\ \A p \in S : /\ posted.in[p] <= due[p]
                      /\ due[p] > 0 => posted.in[p] > 0 \/ t.stack[p] = 0
                      /\ posted.state[p] # "AllIn" /\ posted.stack[p] = 0 => posted.in[p] = 0
      /\ \A p \in Players \ S : posted.state[p] = seated.state[p]
  <2> HIDE DEF posted
  <2>1. posted = Post(seated, due)  BY DEF posted
  <2>2. /\ Money(posted) /\ \A p \in Players \ seated.dealt : posted.in[p] = 0
        /\ Total(posted.stack) + Total(posted.in) = Total(seated.stack)
        /\ \A p \in seated.dealt :
             /\ posted.in[p] <= due[p]
             /\ due[p] > 0 => posted.in[p] > 0 \/ seated.stack[p] = 0
             /\ posted.state[p] # "AllIn" /\ posted.stack[p] = 0 => posted.in[p] = 0
        /\ \A p \in Players \ seated.dealt : posted.state[p] = seated.state[p]
    BY <1>3, <1>4, <1>5, <2>1, PostKeeps
  <2> QED  BY <1>4, <2>2
<1> HIDE DEF posted
<1>8. /\ opened.in = posted.in /\ DOMAIN opened = Fields /\ DOMAIN opened.round = RoundFields
      /\ opened.state = posted.state
  BY <1>6, OpenRoundSound
<1>9. /\ opened.stack = posted.stack /\ Counts(opened.round)
      /\ DOMAIN opened.round.stack = S /\ opened.round.currentBet = BigBlind
      /\ \A p \in S : /\ opened.round.stack[p] = posted.stack[p]
                      /\ p \in opened.round.allIn <=> posted.state[p] = "AllIn"
  <2>1. BigBlind \in Nat /\ posted.dealt \subseteq Players /\ S \in SUBSET posted.dealt
    BY <1>6, DealtAreFinite, StakesAssumption
  <2>2. opened = OpenRound(posted, S, BigBlind)  OBVIOUS
  <2> HIDE DEF opened
  <2> QED  BY <1>6, <1>7, <2>1, <2>2, OpenRoundCounts
<1> HIDE DEF opened
<1>10. S \subseteq Players  BY <1>6, DealtAreFinite
<1>11. /\ DOMAIN c = S /\ c \in [S -> Nat] /\ \A p \in S : c[p] = posted.in[p]
       /\ \A p \in S : posted.in[p] \in Nat /\ posted.in[p] <= BigBlind
  <2>1. \A p \in S : posted.in[p] \in Nat  BY <1>7, <1>10 DEF Money, Stacks
  <2>2. \A p \in S : posted.in[p] <= BigBlind
    <3> SUFFICES ASSUME NEW p \in S  PROVE posted.in[p] <= BigBlind
      OBVIOUS
    <3>1. posted.in[p] <= due[p] /\ due[p] <= BigBlind /\ due[p] \in Nat  BY <1>4, <1>5, <1>7
    <3> QED  BY <2>1, <3>1, StakesAssumption
  <2> QED  BY <2>1, <2>2
<1> HIDE DEF c
<1>12. u = [opened EXCEPT !.round = round]  BY <1>1, <1>8 DEF Fields
<1>13. /\ round.stack = opened.round.stack /\ round.contributed = c
       /\ round.currentBet = BigBlind /\ round.allIn = opened.round.allIn
  BY <1>8, <1>9 DEF RoundFields
<1> HIDE DEF round
<1>14. u.stack = posted.stack /\ u.in = posted.in /\ u.round = round /\ u.state = posted.state
  BY <1>8, <1>9, <1>12 DEF Fields
<1>15. Bets(u)
  <2>1. DOMAIN round.stack = S  BY <1>9, <1>13
  <2>2. BigBlind \in Nat  BY StakesAssumption
  <2>3. Counts(round)
    BY <1>9, <1>11, <1>13, <2>1, <2>2 DEF Counts
  <2>4. Level(u)
    <3>1. Able(u) \subseteq S /\ Remaining(u) \subseteq S  BY <1>2 DEF Able, Remaining
    <3>2. \A p \in S : Before(u, p) = 0  BY <1>11, <1>13, <1>14 DEF Before
    <3> QED  BY <3>1, <3>2 DEF Level
  <2>5. Broke(u)
    <3>1. \A p \in S : u.state[p] # "AllIn" /\ u.stack[p] = 0 => u.in[p] = 0
      BY <1>7, <1>14
    <3>2. \A p \in S \ round.allIn : u.state[p] # "AllIn" /\ round.stack[p] = u.stack[p]
      BY <1>9, <1>13, <1>14
    <3> QED  BY <1>2, <1>14, <2>1, <3>1, <3>2 DEF Broke
  <2> QED  BY <1>14, <2>3, <2>4, <2>5 DEF Bets
<1>16. Purse(u)
  <2>1. Seated(u) = Seated(t) /\ Seated(posted) = Seated(t)
    BY <1>2, <1>6 DEF Seated
  <2> QED  BY <1>2, <1>7, <1>14, <1>15, <2>1 DEF Purse, Money
<1>17. Worth(u) = Total(posted.stack) + Total(posted.in) /\ Worth(t) = Total(t.stack) + 0
       /\ Raked(t, u) = 0
  BY <1>2, <1>14 DEF Worth, Raked, Completing
<1>18. Total(t.stack) \in Nat  BY WorthIs
<1>19. Balances(t, u, 0)  BY <1>7, <1>17, <1>18 DEF Balances
<1>20. Outs(t, u) /\ Forfeits(t, u)  BY DEF Outs, Forfeits, Completing
<1>21. Waits(t, u)
  <2> SUFFICES ASSUME NEW p \in Players, t.state[p] = "PendingEntry"
               PROVE  IF Enters(t, u, p) THEN u.in[p] > 0 \/ t.stack[p] = 0
                      ELSE u.state[p] = "PendingEntry"
    BY DEF Waits, Newcomer
  <2>1. Enters(t, u, p) <=> p \in S  BY <1>2 DEF Enters, Dealing
  <2>2. CASE p \in S
    <3>1. due[p] > 0  BY <1>4, <1>5, <2>2
    <3> QED  BY <1>7, <1>14, <2>1, <2>2, <3>1
  <2>3. CASE p \notin S  BY <1>4, <1>7, <1>14, <2>1, <2>3
  <2> QED  BY <2>2, <2>3
<1> QED  BY <1>16, <1>19, <1>20, <1>21 DEF Keeps

LEMMA StartHandKeeps ==
  ASSUME NEW t, Sits(t), Money(t), ~InProgress(t), NEW u \in StartHand(t)
  PROVE  Keeps(t, u, 0)
<1>1. CASE Cardinality(NextPlayers(t)) < 2
  <2>1. u = Idle(t)  BY <1>1, Zenon DEF StartHand
  <2> QED  BY <2>1, IdleKeeps
<1>2. CASE ~(Cardinality(NextPlayers(t)) < 2)
  <2> DEFINE S == NextPlayers(t)
             D == IF t.drawn THEN {t.dealer} ELSE {SeatOf(t, p) : p \in S}
  <2>1. PICK dealer \in D : u = Deal(t, S, dealer)  BY <1>2, Zenon DEF StartHand
  <2>2. S \subseteq Seated(t)  BY DEF NextPlayers
  <2>3. S # {}  BY <1>2, FS_EmptySet
  <2> HIDE DEF S
  <2>4. D \subseteq DealerSeats(t)
    <3>1. Seats(t) /\ Len(t.seats) \in Nat /\ t.dealer \in 1 .. Len(t.seats) + 1
      BY DEF Sits, Seats
    <3>2. \A p \in S : SeatOf(t, p) \in 1 .. Len(t.seats)  BY <2>2, <3>1, SeatOfIs
    <3> QED  BY <3>1, <3>2 DEF DealerSeats
  <2> HIDE DEF D
  <2> QED  BY <2>1, <2>2, <2>3, <2>4, DealKeeps
<1> QED  BY <1>1, <1>2

LEMMA TryStartKeeps ==
  ASSUME NEW t, Sound(t), Purse(t), NEW u \in TryStart(t)
  PROVE  Keeps(t, u, 0) /\ ~Completing(t, u)
<1>1. CASE t.stage = "Waiting"
  <2>1. u \in StartHand(t)  BY <1>1, Zenon DEF TryStart
  <2>2. ~InProgress(t)  BY <1>1, StreetsAre DEF StreetSet
  <2> QED  BY <2>1, <2>2, StartHandKeeps DEF Sound, Purse, Completing
<1>2. CASE t.stage # "Waiting"
  <2>1. u = t  BY <1>2, Zenon DEF TryStart
  <2> QED  BY <2>1, StaysItself DEF Completing
<1> QED  BY <1>1, <1>2

----------------------------------------------------------------------------
(* The commands.  w is t with p made ready, and perhaps topped up by b.    *)
LEMMA ReturnKeeps ==
  ASSUME NEW t, Sound(t), Purse(t), NEW p \in Seated(t)
  PROVE  /\ Keeps(t, Return(t, p), 0) /\ Return(t, p).stack = t.stack
         /\ \A q \in Players : t.state[q] = "PendingEntry" => Return(t, p).state[q] = "PendingEntry"
<1> DEFINE u == Return(t, p)
           owes == t.owes \cup {p}
           state == [t.state EXCEPT ![p] = "Active"]
<1>1. DOMAIN t = Fields /\ DOMAIN t.state = Players /\ p \in Players
  BY SeatedArePlayers DEF Sound, Sits, Shape
<1>2. \/ u = t \/ u = [t EXCEPT !.owes = owes]
      \/ t.state[p] = "SittingOut" /\ u = [t EXCEPT !.state = state]
  BY <1>1 DEF Return, Fields
<1>3. state[p] = "Active" /\ \A q \in Players \ {p} : state[q] = t.state[q]
  BY <1>1
<1> HIDE DEF u, owes, state
<1>4. /\ u.seats = t.seats /\ u.stack = t.stack /\ u.in = t.in
      /\ u.dealt = t.dealt /\ u.stage = t.stage /\ u.round = t.round
      /\ u.state = t.state \/ (t.state[p] = "SittingOut" /\ u.state = state)
  BY <1>1, <1>2 DEF Fields
<1>5. InProgress(u) <=> InProgress(t)  BY <1>4, StreetsAre
<1>6. \A q \in Players : \/ u.state[q] = t.state[q]
                         \/ t.state[q] = "SittingOut" /\ u.state[q] = "Active"
  BY <1>3, <1>4
<1>7. InProgress(t) => t.dealt \subseteq Players  BY DealtAreFinite DEF Sound
<1>8. InProgress(t) => Abides(t, u)  BY <1>6, <1>7 DEF Abides
<1>9. StillWaits(t, u)  BY <1>6 DEF StillWaits
<1>10. Keeps(t, u, 0)  BY <1>4, <1>5, <1>8, <1>9, KeepsStill
<1> QED  BY <1>4, <1>6, <1>10 DEF u

LEMMA ReadiedKeeps ==
  ASSUME NEW t, Sound(t), Awaits(t), Purse(t), NEW p \in Seated(t), NEW w, Touches(t, p, w),
         \A q \in Players : t.state[q] = "PendingEntry" =>
           w.state[q] = "PendingEntry" /\ (w.stack[q] = 0 => t.stack[q] = 0),
         NEW b, Keeps(t, w, b), NEW u \in TryStart(Return(w, p))
  PROVE  Keeps(t, u, b)
<1> DEFINE v == Return(w, p)
<1>1. Sound(w) /\ Awaits(w) /\ p \in Seated(w)  BY TouchSound
<1>2. Touches(w, p, v)  BY <1>1, ReturnTouches
<1>3. /\ Keeps(w, v, 0) /\ v.stack = w.stack
      /\ \A q \in Players : w.state[q] = "PendingEntry" => v.state[q] = "PendingEntry"
  BY <1>1, ReturnKeeps DEF Keeps
<1>4. u \in TryStart(v)  OBVIOUS
<1> HIDE DEF v
<1>5. Sound(v)  BY <1>1, <1>2, TouchSound
<1>6. /\ InProgress(w) <=> InProgress(t)
      /\ InProgress(v) <=> InProgress(t)
      /\ w.dealt = t.dealt /\ v.dealt = t.dealt
      /\ Seated(w) = Seated(t) /\ Seated(v) = Seated(t)
  BY <1>2, StreetsAre DEF Touches, Seated
<1>7. Leads(t, w, v)  BY <1>6 DEF Leads, Completing, Newcomer
<1>8. Keeps(t, v, b)  BY <1>3, <1>7, KeepsThrough
<1>9. Keeps(v, u, 0) /\ ~Completing(v, u)
  BY <1>4, <1>5, <1>8, TryStartKeeps DEF Keeps
<1>10. Leads(t, v, u)
  BY <1>3, <1>6, <1>9 DEF Leads, Completing, Newcomer
<1> QED  BY <1>8, <1>9, <1>10, KeepsThrough

LEMMA SitInKeeps ==
  ASSUME NEW t, Sound(t), Awaits(t), Purse(t), NEW p \in Seated(t),
         NEW u, u \in SitIn(t, p) \/ u \in CancelExit(t, p)
  PROVE  Keeps(t, u, 0)
<1> DEFINE ready   == t.ready \cup {p}
           exiting == t.exiting \ {p}
           a == [t EXCEPT !.ready = ready]
           b == [t EXCEPT !.exiting = exiting, !.ready = ready]
<1>1. Shape(t) /\ p \in Players /\ t.state[p] # "Away"
  BY SeatedArePlayers DEF Sound, Sits
<1>2. u \in TryStart(Return(a, p)) \/ u \in TryStart(Return(b, p))
  BY Zenon DEF SitIn, CancelExit
<1>3. PICK w \in {a, b} : u \in TryStart(Return(w, p))  BY <1>2, Zenon
<1> HIDE DEF ready, exiting
<1>4. /\ DOMAIN w = Fields
      /\ w.seats = t.seats /\ w.stack = t.stack /\ w.in = t.in /\ w.state = t.state
      /\ w.ready = ready /\ w.exiting \in {t.exiting, exiting} /\ w.dealer = t.dealer
      /\ w.dealt = t.dealt /\ w.round = t.round /\ w.runout = t.runout /\ w.stage = t.stage
  BY <1>1, <1>3 DEF Shape, Fields
<1> HIDE DEF a, b
<1>5. Touches(t, p, w)
  <2>1. w.ready \subseteq t.ready \cup {p} /\ w.exiting \subseteq t.exiting \cup {p}
    BY <1>4 DEF ready, exiting
  <2> QED  BY <1>1, <1>4, <2>1 DEF Touches, Shape
<1>6. Seated(w) = Seated(t) /\ (InProgress(w) <=> InProgress(t))
  BY <1>4, StreetsAre DEF Seated
<1>7. Keeps(t, w, 0)
  BY <1>4, <1>6, KeepsStill DEF Abides, StillWaits
<1>8. \A q \in Players : t.state[q] = "PendingEntry" =>
        w.state[q] = "PendingEntry" /\ (w.stack[q] = 0 => t.stack[q] = 0)
  BY <1>4
<1> QED  BY <1>3, <1>5, <1>7, <1>8, ReadiedKeeps

LEMMA MarkKeeps ==
  ASSUME NEW t, Sound(t), Purse(t), NEW p
  PROVE  Keeps(t, MarkReadyToPost(t, p), 0)
<1> DEFINE post == t.post \cup {p}
           u == MarkReadyToPost(t, p)
<1>1. u = t \/ u = [t EXCEPT !.post = post]  BY Zenon DEF MarkReadyToPost
<1> HIDE DEF post, u
<1>2. /\ u.seats = t.seats /\ u.stack = t.stack /\ u.in = t.in
      /\ u.dealt = t.dealt /\ u.stage = t.stage /\ u.round = t.round /\ u.state = t.state
  BY <1>1 DEF Sound, Sits, Shape, Fields
<1>3. InProgress(u) <=> InProgress(t)  BY <1>2, StreetsAre
<1>4. Keeps(t, u, 0)  BY <1>2, <1>3, KeepsStill DEF Abides, StillWaits
<1> QED  BY <1>4 DEF u

LEMMA SitOutKeeps ==
  ASSUME NEW t, Sound(t), Purse(t), NEW p \in Seated(t), NEW u \in SitOut(t, p)
  PROVE  Keeps(t, u, 0)
<1> DEFINE ready == t.ready \ {p}
           state == [t.state EXCEPT ![p] = "SittingOut"]
           v == [t EXCEPT !.ready = ready]
           x == [t EXCEPT !.ready = ready, !.state = state]
           w == FoldedOut(t, p)
<1>1. DOMAIN t = Fields /\ DOMAIN t.state = Players /\ p \in Players
  BY SeatedArePlayers DEF Sound, Sits, Shape
<1>2. \/ FoldsNow(t, p) /\ u \in IfClosed(w)
      \/ u = v
      \/ ~KeepsState(t, p) /\ u = x
  <2>1. /\ w = [v EXCEPT !.round = Fold(@, p), !.state[p] = "Folded"]
        /\ x = [v EXCEPT !.state[p] = "SittingOut"]
    BY <1>1 DEF FoldedOut, Fields
  <2>2. SitOut(t, p) = IF FoldsNow(t, p)
            THEN IfClosed([v EXCEPT !.round = Fold(@, p), !.state[p] = "Folded"])
            ELSE {IF KeepsState(t, p) THEN v ELSE [v EXCEPT !.state[p] = "SittingOut"]}
    BY Zenon DEF SitOut
  <2> HIDE DEF v, w, x
  <2>3. u \in IF FoldsNow(t, p) THEN IfClosed(w) ELSE {IF KeepsState(t, p) THEN v ELSE x}
    BY <2>1, <2>2, Zenon
  <2> QED  BY <2>3
<1>3. CASE FoldsNow(t, p) /\ u \in IfClosed(w)
  <2>1. Current(t) = p /\ w = FoldedOut(t, p)  BY <1>3 DEF FoldsNow
  <2>2. w.state = [t.state EXCEPT ![p] = "Folded"]  BY <1>1 DEF FoldedOut, Fields
  <2> HIDE DEF w
  <2>3. /\ Sound(w) /\ InProgress(w) /\ InProgress(t)
        /\ p \in DOMAIN t.round.stack /\ DOMAIN t.round = RoundFields
        /\ w.stack = t.stack /\ w.in = t.in /\ w.seats = t.seats /\ w.dealt = t.dealt
    BY <1>1, <2>1, FoldedOutIs
  <2>4. w.round = Fold(t.round, p)  BY <1>1, <2>1, FoldedOutIs
  <2>5. /\ w.round.stack = t.round.stack /\ w.round.contributed = t.round.contributed
        /\ w.round.currentBet = t.round.currentBet /\ w.round.allIn = t.round.allIn
    BY <2>3, <2>4 DEF Fold, RoundFields
  <2>6. /\ Dealt(t) /\ Bets(t) /\ DOMAIN t.round.stack \subseteq t.dealt
        /\ t.dealt \subseteq Players /\ t.state[p] # "PendingEntry" /\ t.state[p] # "AllIn"
    BY <1>3, <2>3, DealtAreFinite DEF Sound, Fits, Purse, FoldsNow, Dealt, InHand
  <2>7. Abides(t, w) /\ StillWaits(t, w)
    BY <1>1, <2>2, <2>6 DEF Abides, StillWaits
  <2>8. Bets(w)  BY <2>3, <2>5, <2>6, <2>7, BetsStay
  <2>9. Seated(w) = Seated(t)  BY <2>3 DEF Seated
  <2>10. Keeps(t, w, 0)  BY <2>3, <2>7, <2>8, <2>9, KeepsSame
  <2>11. Keeps(w, u, 0)  BY <1>3, <2>3, <2>10, IfClosedKeeps DEF Keeps
  <2>12. Leads(t, w, u)
    BY <1>1, <2>2, <2>3, <2>6, <2>9 DEF Leads, Newcomer
  <2> QED  BY <2>10, <2>11, <2>12, KeepsThrough
<1>4. CASE u = v \/ (~KeepsState(t, p) /\ u = x)
  <2>1. state[p] = "SittingOut" /\ \A q \in Players \ {p} : state[q] = t.state[q]
    BY <1>1
  <2> HIDE DEF ready, state
  <2>2. /\ u.seats = t.seats /\ u.stack = t.stack /\ u.in = t.in
        /\ u.dealt = t.dealt /\ u.stage = t.stage /\ u.round = t.round
        /\ u.state = t.state \/ (~KeepsState(t, p) /\ u.state = state)
    BY <1>1, <1>4 DEF Fields
  <2>3. InProgress(u) <=> InProgress(t)  BY <2>2, StreetsAre
  <2>4. InProgress(t) => t.dealt \subseteq Players  BY DealtAreFinite DEF Sound
  <2>5. InProgress(t) => Abides(t, u)  BY <2>1, <2>2, <2>4 DEF Abides, KeepsState
  <2>6. StillWaits(t, u)  BY <2>1, <2>2 DEF StillWaits
  <2> QED  BY <2>2, <2>3, <2>5, <2>6, KeepsStill
<1> QED  BY <1>2, <1>3, <1>4

LEMMA RequestExitKeeps ==
  ASSUME NEW t, Sound(t), Purse(t), NEW p \in Seated(t), NEW u \in RequestExit(t, p)
  PROVE  Keeps(t, u, 0)
<1> DEFINE exiting == t.exiting \cup {p}
           ready   == t.ready \ {p}
           state   == [t.state EXCEPT ![p] =
                         IF @ \in {"Active", "AllIn"} \/ KeepsState(t, p) THEN @
                         ELSE "SittingOut"]
           v == [t EXCEPT !.exiting = exiting]
           w == [t EXCEPT !.exiting = exiting, !.ready = ready, !.state = state]
<1>1. /\ DOMAIN t = Fields /\ Shape(t) /\ DOMAIN t.state = Players
      /\ p \in Players /\ t.state[p] # "Away"
  BY SeatedArePlayers DEF Sound, Sits, Shape
<1>2. u \in SitOut(v, p) \/ u = w
  <2>1. w = [v EXCEPT !.ready = @ \ {p},
                      !.state[p] = IF \/ @ \in {"Active", "AllIn"}
                                      \/ KeepsState(t, p) THEN @ ELSE "SittingOut"]
    BY <1>1 DEF Fields
  <2> HIDE DEF w
  <2>2. u \in IF Current(t) = p THEN SitOut([t EXCEPT !.exiting = exiting], p)
              ELSE {[v EXCEPT !.ready = @ \ {p},
                      !.state[p] = IF \/ @ \in {"Active", "AllIn"}
                                      \/ KeepsState(t, p) THEN @ ELSE "SittingOut"]}
    BY Zenon DEF RequestExit
  <2> QED  BY <2>1, <2>2, Zenon
<1>3. /\ \A q \in Players \ {p} : state[q] = t.state[q]
      /\ \/ state[p] = t.state[p]
         \/ /\ state[p] = "SittingOut" /\ t.state[p] # "AllIn"
            /\ InProgress(t) => t.state[p] # "Folded"
  BY <1>1 DEF KeepsState
<1> HIDE DEF exiting, ready, state
<1>4. ASSUME NEW x \in {v, w}  PROVE Keeps(t, x, 0) /\ (InProgress(x) <=> InProgress(t))
  <2>1. /\ x.seats = t.seats /\ x.stack = t.stack /\ x.in = t.in
        /\ x.dealt = t.dealt /\ x.stage = t.stage /\ x.round = t.round
        /\ x.state = t.state \/ x.state = state
    BY <1>1 DEF Fields
  <2>2. InProgress(x) <=> InProgress(t)  BY <2>1, StreetsAre
  <2>3. InProgress(t) => t.dealt \subseteq Players  BY DealtAreFinite DEF Sound
  <2>4. InProgress(t) => Abides(t, x)  BY <1>3, <2>1, <2>3 DEF Abides
  <2>5. StillWaits(t, x)  BY <1>3, <2>1 DEF StillWaits
  <2> QED  BY <2>1, <2>2, <2>4, <2>5, KeepsStill
<1>5. CASE u \in SitOut(v, p)
  <2>1. /\ DOMAIN v = Fields
        /\ v.seats = t.seats /\ v.stack = t.stack /\ v.in = t.in /\ v.state = t.state
        /\ v.ready = t.ready /\ v.exiting = exiting /\ v.dealer = t.dealer
        /\ v.dealt = t.dealt /\ v.round = t.round /\ v.runout = t.runout
        /\ v.stage = t.stage
    BY <1>1 DEF Fields
  <2>2. Touches(t, p, v)
    <3> HIDE DEF v
    <3> QED  BY <1>1, <2>1 DEF Touches, Shape, exiting
  <2>3. Sound(v) /\ p \in Seated(v)  BY <2>2, TouchSound
  <2>4. Keeps(t, v, 0) /\ (InProgress(v) <=> InProgress(t))  BY <1>4
  <2> HIDE DEF v
  <2>5. Keeps(v, u, 0)  BY <1>5, <2>3, <2>4, SitOutKeeps DEF Keeps
  <2>6. Leads(t, v, u)  BY <2>1, <2>4 DEF Leads, Newcomer, Seated
  <2> QED  BY <2>4, <2>5, <2>6, KeepsThrough
<1>6. CASE u = w  BY <1>4, <1>6
<1> QED  BY <1>2, <1>5, <1>6

(* Chips come to the table with p, or leave it with p.                     *)
LEMMA ToppedUp ==
  ASSUME NEW t, Sound(t), Purse(t), NEW p \in Players, t.stack[p] = 0,
         NEW w, w.stack = [t.stack EXCEPT ![p] = BuyIn], w.in = t.in, w.dealt = t.dealt,
         w.round = t.round, w.stage = t.stage, NEW S, S = Seated(w),
         Seated(t) \subseteq S, S \subseteq Seated(t) \cup {p}, p \in S,
         \A q \in Seated(t) : w.state[q] = t.state[q],
         InProgress(t) /\ p \notin Seated(t) => w.state[p] = "PendingEntry"
  PROVE  /\ Keeps(t, w, BuyIn)
         /\ \A q \in Players : Newcomer(t, w, q) =>
              w.state[q] = "PendingEntry" /\ (w.stack[q] = 0 => t.stack[q] = 0)
<1> DEFINE stack == [t.stack EXCEPT ![p] = BuyIn]
<1>1. t.stack \in Stacks /\ t.in \in Stacks /\ BuyIn \in Nat /\ BuyIn # 0
  BY StakesAssumption DEF Purse, Money
<1>2. /\ stack \in Stacks /\ stack[p] = BuyIn
      /\ \A q \in Players \ {p} : stack[q] = t.stack[q]
  BY <1>1 DEF Stacks
<1>3. InProgress(w) <=> InProgress(t)  BY StreetsAre
<1>4. w.stack = stack  OBVIOUS
<1> HIDE DEF stack
<1>5. ASSUME InProgress(t)  PROVE Bets(w) /\ Abides(t, w)
  <2>1. /\ Dealt(t) /\ Bets(t) /\ DOMAIN t.round.stack \subseteq t.dealt
        /\ t.dealt \subseteq Players /\ t.dealt \subseteq Seated(t)
    BY <1>5, DealtAreFinite DEF Sound, Fits, Purse, Dealt
  <2>2. Abides(t, w)  BY <2>1 DEF Abides
  <2>3. \A q \in t.dealt : w.stack[q] = t.stack[q] \/ w.stack[q] # 0
    BY <1>1, <1>2, <1>4, <2>1
  <2> QED  BY <2>1, <2>2, <2>3, BetsStay
<1>6. Purse(w)
  <2>1. \A q \in Players \ Seated(w) : w.stack[q] = 0  BY <1>2, <1>4 DEF Purse, Money
  <2> QED  BY <1>1, <1>2, <1>3, <1>4, <1>5, <2>1 DEF Purse, Money
<1>7. Total(stack) = Total(t.stack) - t.stack[p] + stack[p]
  <2>1. Same(stack, t.stack, Players \ {p})  BY <1>2 DEF Same
  <2> QED  BY <1>1, <1>2, <2>1, TotalChange
<1>8. Total(t.stack) \in Nat /\ Total(t.in) \in Nat  BY WorthIs DEF Purse
<1>9. /\ Worth(w) = Total(stack) + IF InProgress(t) THEN Total(t.in) ELSE 0
      /\ Worth(t) = Total(t.stack) + IF InProgress(t) THEN Total(t.in) ELSE 0
      /\ Raked(t, w) = 0
  BY <1>3, <1>4 DEF Worth, Raked, Completing
<1>10. Worth(w) + Raked(t, w) = Worth(t) + BuyIn  BY <1>1, <1>2, <1>7, <1>8, <1>9
<1>11. Outs(t, w) /\ Forfeits(t, w)
  BY <1>3, <1>5 DEF Outs, FoldedIn, Abides, Forfeits, Completing
<1>12. ASSUME NEW q \in Players, Newcomer(t, w, q)
       PROVE  /\ w.state[q] = "PendingEntry" /\ ~Enters(t, w, q)
              /\ w.stack[q] = 0 => t.stack[q] = 0
  <2>1. w.state[q] = "PendingEntry"
    <3>1. CASE q \in Seated(t)  BY <1>12, <3>1 DEF Newcomer
    <3>2. CASE q \notin Seated(t)
      <4>1. t.state[q] = "Away"  BY <3>2 DEF Sound, Sits
      <4>2. InProgress(t) /\ q \in Seated(w)  BY <1>12, <4>1 DEF Newcomer
      <4> QED  BY <3>2, <4>2
    <3> QED  BY <3>1, <3>2
  <2>2. ~Enters(t, w, q)  BY <1>3 DEF Enters, Dealing
  <2> QED  BY <1>1, <1>2, <1>4, <2>1, <2>2
<1>13. Waits(t, w)  BY <1>12 DEF Waits
<1>14. Balances(t, w, BuyIn)  BY <1>9, <1>10 DEF Balances
<1> QED  BY <1>6, <1>11, <1>12, <1>13, <1>14 DEF Keeps

LEMMA SeatKeeps ==
  ASSUME NEW t, Sound(t), Awaits(t), Purse(t), NEW p \in Players \ Seated(t), NEW u \in Seat(t, p)
  PROVE  Keeps(t, u, BuyIn)
<1> DEFINE w == SatDown(t, p)
<1>1. u \in TryStart(w) /\ w = SatDown(t, p)  BY Zenon DEF Seat, SatDown
<1> HIDE DEF w
<1>2. Sound(w) /\ Joining(t, p, w)  BY <1>1, SatDownIs
<1>3. t.stack[p] = 0  BY DEF Purse, Money
<1>4. /\ Seated(t) \subseteq Seated(w) /\ Seated(w) \subseteq Seated(t) \cup {p}
      /\ p \in Seated(w)
  BY <1>2 DEF Joining
<1>5. /\ w.stack = [t.stack EXCEPT ![p] = BuyIn] /\ w.in = t.in /\ w.dealt = t.dealt
      /\ w.round = t.round /\ w.stage = t.stage
  BY <1>2, Zenon DEF Joining
<1>6. /\ \A q \in Seated(t) : w.state[q] = t.state[q]
      /\ InProgress(t) => w.state[p] = "PendingEntry"
  <2>1. DOMAIN t = Fields /\ DOMAIN t.state = Players /\ Seated(t) \subseteq Players
    BY SeatedArePlayers DEF Sound, Sits, Shape
  <2>2. w.state = [t.state EXCEPT ![p] = IF InProgress(t) THEN "PendingEntry" ELSE "Active"]
    BY <1>1, <2>1 DEF SatDown, Fields
  <2> QED  BY <2>1, <2>2
<1>7. /\ Keeps(t, w, BuyIn)
      /\ \A q \in Players : Newcomer(t, w, q) =>
           w.state[q] = "PendingEntry" /\ (w.stack[q] = 0 => t.stack[q] = 0)
  BY <1>3, <1>4, <1>5, <1>6, ToppedUp
<1>8. Keeps(w, u, 0) /\ ~Completing(w, u)  BY <1>1, <1>2, <1>7, TryStartKeeps DEF Keeps
<1>9. InProgress(w) <=> InProgress(t)  BY <1>5, StreetsAre
<1>10. Leads(t, w, u)  BY <1>5, <1>7, <1>8, <1>9 DEF Leads, Completing
<1> QED  BY <1>7, <1>8, <1>10, KeepsThrough

LEMMA RebuyKeeps ==
  ASSUME NEW t, Sound(t), Awaits(t), Purse(t), NEW p \in Seated(t), NEW u \in Rebuy(t, p),
         t.stack[p] = 0,
         ChipsStay /\ InProgress(t) => p \notin DOMAIN t.round.stack \ t.round.allIn
  PROVE  Keeps(t, u, BuyIn)
<1> DEFINE ready == t.ready \cup {p}
           stack == [t.stack EXCEPT ![p] = BuyIn]
           w == [t EXCEPT !.stack = stack, !.ready = ready]
<1>1. Shape(t) /\ p \in Players /\ t.state[p] # "Away"
  BY SeatedArePlayers DEF Sound, Sits
<1>2. u \in TryStart(Return(w, p))
  <2>1. w = [t EXCEPT !.stack[p] = BuyIn, !.ready = @ \cup {p}]
    BY <1>1 DEF Shape, Fields
  <2> HIDE DEF w
  <2> QED  BY <2>1, Zenon DEF Rebuy
<1>3. DOMAIN stack = Players /\ \A q \in Players \ {p} : stack[q] = t.stack[q]
  BY <1>1 DEF Shape
<1> HIDE DEF ready, stack
<1>4. /\ DOMAIN w = Fields
      /\ w.seats = t.seats /\ w.stack = stack /\ w.in = t.in /\ w.state = t.state
      /\ w.ready = ready /\ w.exiting = t.exiting /\ w.dealer = t.dealer
      /\ w.dealt = t.dealt /\ w.round = t.round /\ w.runout = t.runout /\ w.stage = t.stage
  BY <1>1 DEF Shape, Fields
<1> HIDE DEF w
<1>5. Touches(t, p, w)  BY <1>1, <1>3, <1>4 DEF Touches, Shape, ready
<1>6. Seated(w) = Seated(t) /\ w.stack = [t.stack EXCEPT ![p] = BuyIn]
  BY <1>4 DEF Seated, stack
<1>7. /\ Seated(t) \subseteq Seated(w) /\ Seated(w) \subseteq Seated(t) \cup {p}
      /\ p \in Seated(w)
  BY <1>6
<1>8. /\ Keeps(t, w, BuyIn)
      /\ \A q \in Players : Newcomer(t, w, q) =>
           w.state[q] = "PendingEntry" /\ (w.stack[q] = 0 => t.stack[q] = 0)
  BY <1>1, <1>4, <1>6, <1>7, ToppedUp
<1>9. \A q \in Players : t.state[q] = "PendingEntry" =>
        w.state[q] = "PendingEntry" /\ (w.stack[q] = 0 => t.stack[q] = 0)
  BY <1>8 DEF Newcomer
<1> QED  BY <1>2, <1>5, <1>8, <1>9, ReadiedKeeps

LEMMA RemoveKeeps ==
  ASSUME NEW t, Sound(t), Awaits(t), Purse(t), NEW p \in Seated(t),
         InProgress(t) => p \notin t.dealt
  PROVE  Keeps(t, RemovePlayer(t, p), -t.stack[p])
<1> DEFINE seats   == RemoveAt(t.seats, SeatOf(t, p))
           stack   == [t.stack EXCEPT ![p] = 0]
           in      == [t.in EXCEPT ![p] = 0]
           state   == [t.state EXCEPT ![p] = "Away"]
           ready   == t.ready \ {p}
           exiting == t.exiting \ {p}
           dealer  == DealerWithout(t, p)
           dealt   == IF Seated(t) = {p} THEN {} ELSE t.dealt
           u       == RemovePlayer(t, p)
<1>1. Sits(t) /\ Shape(t) /\ Seats(t) /\ p \in Players
  BY SeatedArePlayers DEF Sound, Sits
<1>2. \A q \in Players \ {p} : state[q] = t.state[q]  BY <1>1 DEF Shape
<1>3. u = [t EXCEPT !.seats = seats, !.stack = stack, !.in = in, !.state = state,
                    !.ready = ready, !.exiting = exiting, !.dealer = dealer, !.dealt = dealt]
  BY <1>1 DEF RemovePlayer, Shape, Fields
<1>4. t.stack \in Stacks /\ t.in \in Stacks  BY DEF Purse, Money
<1>5. /\ stack \in Stacks /\ stack[p] = 0 /\ \A q \in Players \ {p} : stack[q] = t.stack[q]
      /\ in \in Stacks /\ in[p] = 0 /\ \A q \in Players \ {p} : in[q] = t.in[q]
  BY <1>1, <1>4 DEF Stacks
<1>6. InProgress(t) => dealt = t.dealt  BY DEF Sound, Dealt
<1> HIDE DEF seats, ready, exiting, stack, in, state, dealer, dealt, u
<1>7. /\ u.seats = seats /\ u.stack = stack /\ u.in = in /\ u.state = state
      /\ u.dealt = dealt /\ u.round = t.round /\ u.stage = t.stage
  BY <1>1, <1>3 DEF Shape, Fields
<1>8. InProgress(u) <=> InProgress(t)  BY <1>7, StreetsAre
<1>9. Seated(u) = Seated(t) \ {p}  BY <1>1, <1>7, RemoveSeats DEF seats
<1>10. InProgress(t) => t.in[p] = 0  BY <1>1 DEF Purse, Money
<1>11. ASSUME InProgress(t)  PROVE Bets(u) /\ Abides(t, u)
  <2>1. /\ Dealt(t) /\ Bets(t) /\ DOMAIN t.round.stack \subseteq t.dealt
        /\ t.dealt \subseteq Players \ {p}
    BY <1>11, DealtAreFinite DEF Sound, Fits, Purse
  <2>2. /\ u.dealt = t.dealt
        /\ \A q \in t.dealt : /\ u.in[q] = t.in[q] /\ u.stack[q] = t.stack[q]
                              /\ u.state[q] = t.state[q]
    BY <1>11, <1>2, <1>5, <1>6, <1>7, <2>1
  <2>3. Abides(t, u)  BY <2>2 DEF Abides
  <2> QED  BY <1>7, <2>1, <2>2, <2>3, BetsStay
<1>12. Purse(u)
  <2>1. \A q \in Players \ Seated(u) : stack[q] = 0
    BY <1>5, <1>9 DEF Purse, Money
  <2>2. InProgress(t) => \A q \in Players \ t.dealt : in[q] = 0
    BY <1>5 DEF Purse, Money
  <2> QED  BY <1>5, <1>6, <1>7, <1>8, <1>11, <2>1, <2>2 DEF Purse, Money
<1>13. Total(stack) = Total(t.stack) - t.stack[p] + stack[p]
  <2>1. Same(stack, t.stack, Players \ {p})  BY <1>5 DEF Same
  <2> QED  BY <1>1, <1>4, <1>5, <2>1, TotalChange
<1>14. Total(in) = Total(t.in) - t.in[p] + in[p]
  <2>1. Same(in, t.in, Players \ {p})  BY <1>5 DEF Same
  <2> QED  BY <1>1, <1>4, <1>5, <2>1, TotalChange
<1>15. Total(t.stack) \in Nat /\ Total(t.in) \in Nat  BY WorthIs DEF Purse
<1>16. /\ Worth(u) = Total(stack) + IF InProgress(t) THEN Total(in) ELSE 0
       /\ Worth(t) = Total(t.stack) + IF InProgress(t) THEN Total(t.in) ELSE 0
       /\ Raked(t, u) = 0
  BY <1>7, <1>8 DEF Worth, Raked, Completing
<1>17. t.stack[p] \in Nat  BY <1>1, <1>4 DEF Stacks
<1>18. Worth(u) + Raked(t, u) = Worth(t) + (-t.stack[p])
  BY <1>5, <1>10, <1>13, <1>14, <1>15, <1>16, <1>17
<1>19. Outs(t, u) /\ Forfeits(t, u)
  BY <1>6, <1>7, <1>8, <1>11 DEF Outs, FoldedIn, Abides, Forfeits, Completing
<1>20. Waits(t, u)
  BY <1>2, <1>7, <1>8, <1>9 DEF Waits, Newcomer, Enters, Dealing
<1>21. Balances(t, u, -t.stack[p])  BY <1>16, <1>18 DEF Balances
<1> QED  BY <1>12, <1>19, <1>20, <1>21 DEF Keeps, u

----------------------------------------------------------------------------
(* Every step of the table keeps its chips, and the history with them: of  *)
(* whoever quit the hand, and of who has waited since sitting down.        *)
Balanced ==
  /\ Purse(table) /\ (ChipsStay => Worth(table) = chips)
  /\ quitters \subseteq IF InProgress(table) THEN FoldedIn(table) ELSE {}
  /\ \A p \in debtors : p \in Players /\ table.state[p] = "PendingEntry"

Rightful == Forfeits(table, table') /\ Waits(table, table')

LEMMA StaysBalanced ==
  ASSUME Balanced, Sound(table'), NEW tables, NEW b \in Int, Changes(tables, b),
         \A u \in tables : Keeps(table, u, b)
  PROVE  Balanced' /\ Rightful
<1>1. /\ table' \in tables
      /\ chips' = chips + b - IF Completing(table, table') THEN table'.rake ELSE 0
      /\ quitters' = IF InProgress(table')
                     THEN quitters \cup {p \in table'.dealt : table'.state[p] = "Folded"} ELSE {}
      /\ debtors' = {p \in Seated(table') \ table'.dealt :
                       /\ p \in debtors \/ (p \notin Seated(table) /\ InProgress(table))
                       /\ table'.state[p] # "SittingOut"}
  BY Zenon DEF Changes
<1>2. Keeps(table, table', b)  BY <1>1
<1>3. ASSUME ChipsStay  PROVE Worth(table') = chips'
  <2>1. chips' = chips + b - Raked(table, table')  BY <1>1, Zenon DEF Raked
  <2>2. Worth(table) = chips  BY <1>3 DEF Balanced
  <2>3. /\ Raked(table, table') \in Nat
        /\ Worth(table') + Raked(table, table') = Worth(table) + b
    BY <1>2, <1>3, Zenon DEF Keeps, Balances
  <2>4. Worth(table') \in Nat /\ Worth(table) \in Nat
    BY <1>2, WorthIs DEF Keeps, Purse, Balanced
  <2> QED  BY <2>1, <2>2, <2>3, <2>4
<1>4. quitters' \subseteq IF InProgress(table') THEN FoldedIn(table') ELSE {}
  <2>1. InProgress(table) /\ InProgress(table') => FoldedIn(table) \subseteq FoldedIn(table')
    BY <1>2 DEF Keeps, Outs
  <2> QED  BY <1>1, <2>1 DEF Balanced, FoldedIn
<1>5. ASSUME NEW p \in debtors'  PROVE p \in Players /\ table'.state[p] = "PendingEntry"
  <2>1. /\ p \in Seated(table') /\ p \notin table'.dealt /\ table'.state[p] # "SittingOut"
        /\ p \in debtors \/ (p \notin Seated(table) /\ InProgress(table))
    BY <1>1, <1>5
  <2>2. p \in Players  BY <2>1, SeatedArePlayers DEF Sound, Sits
  <2>3. Newcomer(table, table', p)  BY <2>1 DEF Newcomer, Balanced
  <2>4. ~Enters(table, table', p)  BY <2>1 DEF Enters
  <2> QED  BY <1>2, <2>1, <2>2, <2>3, <2>4, Zenon DEF Keeps, Waits
<1>6. Rightful  BY <1>2 DEF Keeps, Rightful
<1>7. Purse(table')  BY <1>2 DEF Keeps
<1> QED  BY <1>3, <1>4, <1>5, <1>6, <1>7 DEF Balanced

LEMMA DecisionBalances ==
  ASSUME Sound(table), Sound(table'), Balanced, NEW p \in Players, p # Nobody, Current(table) = p,
         NEW r, Decides(table.round, p, r), Puts(table.round, p, r), Decide(p, r)
  PROVE  Balanced' /\ Rightful
<1>1. /\ InProgress(table) /\ p \in DOMAIN table.round.stack /\ MayAct(table.round, p)
  BY CurrentIs
<1>2. \A u \in Acted(table, p, r) : Keeps(table, u, 0)
  BY <1>1, ActedKeeps DEF Balanced
<1>3. Changes(Acted(table, p, r), 0)  BY Zenon DEF Decide, Becomes
<1> QED  BY <1>2, <1>3, StaysBalanced

LEMMA ActBalances ==
  ASSUME Sound(table), Sound(table'), Balanced, NEW p \in Players,
         Act(p) \/ AutoFold(p) \/ TurnTimeout(p)
  PROVE  Balanced' /\ Rightful
<1> DEFINE r == table.round
<1>1. p # Nobody /\ Current(table) = p
  BY DEF Act, ActFold, ActCheck, ActCall, ActRaise, AutoFold, TurnTimeout, OnClock
<1>2. /\ DOMAIN r = RoundFields /\ MayAct(r, p) /\ p \in Seated(table)
      /\ p \in DOMAIN r.stack /\ Counts(r)
  BY <1>1, RoundOnClock, CurrentIs DEF Balanced, Purse, Bets
<1>3. Decide(p, Fold(r, p)) => Balanced' /\ Rightful
  <2>1. Decides(r, p, Fold(r, p)) /\ Puts(r, p, Fold(r, p))  BY <1>2, FoldDecides, FoldPuts
  <2> QED  BY <1>1, <2>1, DecisionBalances
<1>4. Decide(p, Check(r, p)) => Balanced' /\ Rightful
  <2>1. Decides(r, p, Check(r, p)) /\ Puts(r, p, Check(r, p))  BY <1>2, CheckDecides, CheckPuts
  <2> QED  BY <1>1, <2>1, DecisionBalances
<1>5. CASE ActCall(p)
  <2>1. CanCall(r, p) /\ Decide(p, Call(r, p))  BY <1>5 DEF ActCall
  <2>2. Decides(r, p, Call(r, p)) /\ Puts(r, p, Call(r, p))
    BY <1>2, <2>1, CallDecides, CallPuts
  <2> QED  BY <1>1, <2>1, <2>2, DecisionBalances
<1>6. CASE ActRaise(p)
  <2>1. PICK amount \in 1 .. AllInTo(r, p) :
               CanRaise(r, p, amount) /\ Decide(p, Raise(r, p, amount))
    BY <1>6 DEF ActRaise
  <2>2. Decides(r, p, Raise(r, p, amount)) /\ Puts(r, p, Raise(r, p, amount))
    BY <1>2, <2>1, RaiseDecides, RaisePuts
  <2> QED  BY <1>1, <2>1, <2>2, DecisionBalances
<1>7. CASE Becomes(SitOut(table, p), 0)
  <2>1. \A u \in SitOut(table, p) : Keeps(table, u, 0)
    BY <1>2, SitOutKeeps DEF Balanced
  <2>2. Changes(SitOut(table, p), 0)  BY <1>7, Zenon DEF Becomes
  <2> QED  BY <2>1, <2>2, StaysBalanced
<1>8. \/ Decide(p, Fold(r, p)) \/ Decide(p, Check(r, p))
      \/ ActCall(p) \/ ActRaise(p) \/ Becomes(SitOut(table, p), 0)
  BY Zenon DEF Act, ActFold, ActCheck, AutoFold, TurnTimeout
<1> QED  BY <1>3, <1>4, <1>5, <1>6, <1>7, <1>8

LEMMA SeatCommandBalances ==
  ASSUME Sound(table), Sound(table'), Awaits(table), Balanced, NEW p \in Players,
         Ready(p) \/ StandDown(p) \/ AskToLeave(p) \/ StayAfterAll(p) \/ PostBigBlind(p)
  PROVE  Balanced' /\ Rightful
<1>1. p \in Seated(table) /\ Purse(table)
  BY DEF Ready, StandDown, AskToLeave, StayAfterAll, PostBigBlind, Command, Balanced
<1>2. CASE Ready(p)
  <2>1. \A u \in SitIn(table, p) : Keeps(table, u, 0)  BY <1>1, SitInKeeps
  <2>2. Changes(SitIn(table, p), 0)  BY <1>2, Zenon DEF Ready, Called
  <2> QED  BY <2>1, <2>2, StaysBalanced
<1>3. CASE StandDown(p)
  <2>1. \A u \in SitOut(table, p) : Keeps(table, u, 0)  BY <1>1, SitOutKeeps
  <2>2. Changes(SitOut(table, p), 0)  BY <1>3, Zenon DEF StandDown, Called
  <2> QED  BY <2>1, <2>2, StaysBalanced
<1>4. CASE AskToLeave(p)
  <2>1. \A u \in RequestExit(table, p) : Keeps(table, u, 0)  BY <1>1, RequestExitKeeps
  <2>2. Changes(RequestExit(table, p), 0)  BY <1>4, Zenon DEF AskToLeave, Called
  <2> QED  BY <2>1, <2>2, StaysBalanced
<1>5. CASE StayAfterAll(p)
  <2>1. \A u \in CancelExit(table, p) : Keeps(table, u, 0)  BY <1>1, SitInKeeps
  <2>2. Changes(CancelExit(table, p), 0)  BY <1>5, Zenon DEF StayAfterAll, Called
  <2> QED  BY <2>1, <2>2, StaysBalanced
<1>6. CASE PostBigBlind(p)
  <2>1. \A u \in {MarkReadyToPost(table, p)} : Keeps(table, u, 0)  BY <1>1, MarkKeeps
  <2>2. Changes({MarkReadyToPost(table, p)}, 0)  BY <1>6, Zenon DEF PostBigBlind, Called
  <2> QED  BY <2>1, <2>2, StaysBalanced
<1> QED  BY <1>2, <1>3, <1>4, <1>5, <1>6

LEMMA ComingAndGoingBalances ==
  ASSUME Sound(table), Sound(table'), Awaits(table), Balanced, NEW p \in Players,
         Join(p) \/ RebuyChips(p) \/ Leave(p) \/ ExitSweep(p)
  PROVE  Balanced' /\ Rightful
<1>1. Purse(table) /\ BuyIn \in Int  BY StakesAssumption DEF Balanced
<1>2. CASE Join(p)
  <2>1. p \notin Seated(table)  BY <1>2 DEF Join
  <2>2. \A u \in Seat(table, p) : Keeps(table, u, BuyIn)  BY <1>1, <2>1, SeatKeeps
  <2>3. Changes(Seat(table, p), BuyIn)  BY <1>2, Zenon DEF Join, Becomes
  <2> QED  BY <1>1, <2>2, <2>3, StaysBalanced
<1>3. CASE RebuyChips(p)
  <2>1. p \in Seated(table) /\ table.stack[p] = 0  BY <1>3 DEF RebuyChips, Command
  <2>2. ChipsStay => ~DealtInBusted(p)  BY <1>3 DEF RebuyChips, Command, ChipsStay
  <2>3. \A u \in Rebuy(table, p) : Keeps(table, u, BuyIn)
    BY <1>1, <2>1, <2>2, RebuyKeeps DEF DealtInBusted
  <2>4. Changes(Rebuy(table, p), BuyIn)  BY <1>3, Zenon DEF RebuyChips, Called
  <2> QED  BY <1>1, <2>3, <2>4, StaysBalanced
<1>4. CASE Leave(p) \/ ExitSweep(p)
  <2> DEFINE b == -table.stack[p]
  <2>1. p \in Seated(table) /\ (InProgress(table) => p \notin table.dealt)
    BY <1>4 DEF Leave, ExitSweep, MayLeave, Sound, Sits
  <2>2. \A u \in {RemovePlayer(table, p)} : Keeps(table, u, b)  BY <1>1, <2>1, RemoveKeeps
  <2>3. Changes({RemovePlayer(table, p)}, b)
    BY <1>4, Zenon DEF Leave, ExitSweep, Called, Becomes
  <2>4. b \in Int  BY <1>1 DEF Purse, Money, Stacks
  <2> HIDE DEF b
  <2> QED  BY <2>2, <2>3, <2>4, StaysBalanced
<1> QED  BY <1>2, <1>3, <1>4

LEMMA TableBalances ==
  ASSUME Sound(table), Sound(table'), Balanced, RunoutStep \/ NextHand
  PROVE  Balanced' /\ Rightful
<1>1. CASE RunoutStep
  <2>1. InProgress(table)
    BY <1>1, StreetsAre DEF RunoutStep, AwaitingRunout, StreetSet
  <2>2. \A u \in AdvanceRunout(table) : Keeps(table, u, 0)
    BY <2>1, AdvanceRunoutKeeps DEF Balanced
  <2>3. Changes(AdvanceRunout(table), 0)  BY <1>1, Zenon DEF RunoutStep, Becomes
  <2> QED  BY <2>2, <2>3, StaysBalanced
<1>2. CASE NextHand
  <2>1. ~InProgress(table)  BY <1>2, StreetsAre DEF NextHand, StreetSet
  <2>2. \A u \in StartHand(table) : Keeps(table, u, 0)
    BY <2>1, StartHandKeeps DEF Balanced, Purse, Sound
  <2>3. Changes(StartHand(table), 0)  BY <1>2, Zenon DEF NextHand, Becomes
  <2> QED  BY <2>2, <2>3, StaysBalanced
<1> QED  BY <1>1, <1>2

LEMMA NextBalances ==
  ASSUME IInv, IInv', Balanced, [Next]_vars
  PROVE  Balanced' /\ (Rightful \/ UNCHANGED vars)
<1>1. Sound(table) /\ Awaits(table) /\ Sound(table')  BY DEF IInv
<1>2. CASE \E q \in Players : PlayerCommand(q) \/ System(q)
  <2>1. PICK q \in Players : PlayerCommand(q) \/ System(q)  BY <1>2
  <2> QED
    BY <1>1, <2>1, ActBalances, SeatCommandBalances, ComingAndGoingBalances
    DEF PlayerCommand, System
<1>3. CASE RunoutStep \/ NextHand  BY <1>1, <1>3, TableBalances
<1>4. CASE UNCHANGED vars
  <2>1. /\ table' = table /\ chips' = chips /\ quitters' = quitters /\ debtors' = debtors
    BY <1>4 DEF vars
  <2> QED  BY <1>4, <2>1 DEF Balanced
<1> QED  BY <1>2, <1>3, <1>4 DEF Next

LEMMA StartsBalanced ==
  ASSUME Init
  PROVE  Balanced
<1>1. /\ table.stack = NoChips /\ table.in = NoChips /\ table.stage = "Waiting" /\ chips = 0
      /\ quitters = {} /\ debtors = {}
  BY DEF Init, EmptyTable
<1>2. ~InProgress(table)  BY <1>1, StreetsAre DEF StreetSet
<1>3. NoChips \in Stacks /\ Total(NoChips) = 0 /\ \A p \in Players : NoChips[p] = 0
  BY TotalOfNone DEF NoChips
<1>4. Total(table.stack) = 0  BY <1>1, <1>3
<1> QED  BY <1>1, <1>2, <1>3, <1>4 DEF Balanced, Purse, Money, Worth

LEMMA TableBalanced == Spec => []Balanced
<1>1. Init => Balanced  BY StartsBalanced
<1>2. IInv /\ IInv' /\ Balanced /\ [Next]_vars => Balanced'  BY NextBalances
<1> QED  BY <1>1, <1>2, TableIsSound, PTL DEF Spec

(* Every chip bought and not cashed out or raked is in a stack or in the   *)
(* pot, for any number of players and hands, any blinds, any rake and any  *)
(* run of the board, as long as nobody's chips are topped up while the     *)
(* betting round counts them (Act's deltas, runShowdown, rebuyExisting).   *)
THEOREM ChipsAreKept == ASSUME ChipsStay PROVE Spec => []ChipsConserved
<1>1. Balanced => ChipsConserved  BY DEF Balanced, Worth, ChipsConserved
<1> QED  BY <1>1, TableBalanced, PTL

(* Nobody able to act reaches a street having put in less than somebody    *)
(* they compete with, through any all-ins, refunds, folds out of turn and  *)
(* commands between two decisions (advanceStage, stillInHand).             *)
THEOREM StreetsStayLevel == Spec => []StreetsAreLevel
<1>1. Balanced => StreetsAreLevel
  BY DEF Balanced, Purse, Bets, Level, Before, StreetsAreLevel
<1> QED  BY <1>1, TableBalanced, PTL

(* Whoever folded in a hand wins no chip another player put in, whatever   *)
(* they did for the rest of it, unless nobody who paid is left to win it   *)
(* (SitOutForActor, RequestExit, runShowdown).                             *)
THEOREM FoldersForfeit == Spec => FoldedForfeit
<1> DEFINE Deprives ==
             /\ Completing(table, table')
             /\ \E q \in table.dealt : table'.in[q] > 0 /\ table'.state[q] # "Folded"
             => \A p \in quitters : WinsNothing(p)
<1>1. IInv /\ IInv' /\ Balanced /\ [Next]_vars => [Deprives]_vars
  <2> SUFFICES ASSUME IInv, IInv', Balanced, [Next]_vars  PROVE [Deprives]_vars
    OBVIOUS
  <2>1. CASE Rightful
    <3> SUFFICES ASSUME Completing(table, table'),
                        \E q \in table.dealt : table'.in[q] > 0 /\ table'.state[q] # "Folded",
                        NEW p \in quitters
                 PROVE  WinsNothing(p)
      OBVIOUS
    <3>1. p \in FoldedIn(table)  BY DEF Balanced, Completing
    <3>2. table'.stack[p] - table.stack[p] <= Max({0, Unmatchable(table, table'.in, p)})
      BY <2>1, <3>1, Zenon DEF Rightful, Forfeits
    <3> QED  BY <3>2, Zenon DEF WinsNothing, Unmatchable
  <2> QED  BY <2>1, NextBalances
<1> QED  BY <1>1, TableIsSound, TableBalanced, PTL DEF Spec, FoldedForfeit

(* Whoever sat down during a hand and waited since posts on the first hand *)
(* they are dealt, or has no chip to post (AddMidHandJoiner, StartHand).   *)
THEOREM EntrantsAllPost == Spec => EntrantsPost
<1> DEFINE Posts == Dealing(table, table') => \A p \in debtors \cap table'.dealt :
                      table'.in[p] > 0 \/ table.stack[p] = 0
<1>1. IInv /\ IInv' /\ Balanced /\ [Next]_vars => [Posts]_vars
  <2> SUFFICES ASSUME IInv, IInv', Balanced, [Next]_vars  PROVE [Posts]_vars
    OBVIOUS
  <2>1. CASE Rightful  BY <2>1, Zenon DEF Rightful, Waits, Newcomer, Enters, Balanced
  <2> QED  BY <2>1, NextBalances
<1> QED  BY <1>1, TableIsSound, TableBalanced, PTL DEF Spec, EntrantsPost
=============================================================================
