----------------------------- MODULE Sums_proofs -----------------------------
(***************************************************************************)
(* Sums over finite sets: what MapThenSumSet computes, for every finite    *)
(* set of indices.  The induction is on the number of elements, in the     *)
(* form of a least counterexample.                                         *)
(***************************************************************************)
EXTENDS FiniteSetsExt, TLAPS, FiniteSetTheorems, WellFoundedInduction

(* A non-empty set of natural numbers has a least element. *)
LEMMA LeastNatural ==
    ASSUME NEW S, S \subseteq Nat, S # {}
    PROVE  \E x \in S : \A y \in S : x <= y
<1>1. IsWellFoundedOn(OpToRel(<, Nat), Nat)
  BY NatLessThanWellFounded
<1>2. PICK x \in S : \A y \in S : ~ (<<y, x>> \in OpToRel(<, Nat))
  BY <1>1, WFMin
<1>3. \A y \in S : ~ (y < x)
  BY <1>2 DEF OpToRel
<1> QED BY <1>3

(* Among the subsets of a finite set there is one without a smaller one. *)
LEMMA SmallestSubset ==
    ASSUME NEW S, IsFiniteSet(S), NEW B \in SUBSET (SUBSET S), B # {}
    PROVE  \E s \in B : \A t \in SUBSET s : t # s => t \notin B
<1> DEFINE N == {n \in Nat : \E s \in B : Cardinality(s) = n}
<1>1. \A s \in B : IsFiniteSet(s) /\ Cardinality(s) \in Nat
  <2> TAKE s \in B
  <2>1. IsFiniteSet(s)
    BY FS_Subset
  <2> QED BY <2>1, FS_CardinalityType
<1>2. N # {} /\ N \subseteq Nat
  BY <1>1
<1>3. PICK n \in N : \A k \in N : n <= k
  <2> HIDE DEF N
  <2> QED BY <1>2, LeastNatural
<1>4. PICK s \in B : Cardinality(s) = n
  BY <1>3
<1>5. ASSUME NEW t \in SUBSET s, t # s, t \in B PROVE FALSE
  <2>1. Cardinality(t) \in Nat /\ Cardinality(t) \in N
    BY <1>1, <1>5
  <2>2. n <= Cardinality(t)
    <3> HIDE DEF N
    <3> QED BY <1>3, <2>1
  <2>3. Cardinality(t) <= Cardinality(s) /\ (Cardinality(s) = Cardinality(t) => s = t)
    BY <1>1, <1>4, FS_Subset
  <2> QED BY <1>1, <1>4, <1>5, <2>1, <2>2, <2>3
<1> QED BY <1>4, <1>5

-----------------------------------------------------------------------------
(* The fold behind MapThenSumSet: a function on the subsets of S, defined  *)
(* by its value on the subset without a chosen element.                    *)

Chosen(s) == CHOOSE x \in s : TRUE

SumStep(f, g, s) == IF s = {} THEN 0 ELSE f[Chosen(s)] + g[s \ {Chosen(s)}]

SumFcn(f, S) == CHOOSE g : g = [s \in SUBSET S |-> SumStep(f, g, s)]

SumOver(f, S) == MapThenSumSet(LAMBDA x : f[x], S)

Summable(f, S) == IsFiniteSet(S) /\ \A x \in S : f[x] \in Int

(* The sum is the value of that function for the whole set. *)
LEMMA SumOverFcn ==
    ASSUME NEW f, NEW S
    PROVE  SumOver(f, S) = SumFcn(f, S)[S]
  BY DEF SumOver, MapThenSumSet, MapThenFoldSet, SumFcn, SumStep, Chosen

(* The chosen element of a non-empty set is one of its elements. *)
LEMMA ChosenElement ==
    ASSUME NEW s, s # {}
    PROVE  Chosen(s) \in s
  BY DEF Chosen

(* There is a function that the definition describes. *)
LEMMA SumFcnExists ==
    ASSUME NEW f, NEW S, Summable(f, S)
    PROVE  \E g \in [SUBSET S -> Int] : g = [s \in SUBSET S |-> SumStep(f, g, s)]
<1> DEFINE Right(g, n) == \A s \in SUBSET S : Cardinality(s) <= n => g[s] = SumStep(f, g, s)
           Reached == {n \in Nat : \E g \in [SUBSET S -> Int] : Right(g, n)}
           N == Nat \ Reached
<1>1. IsFiniteSet(S) /\ \A x \in S : f[x] \in Int
  BY DEF Summable
<1>2. \A s \in SUBSET S : IsFiniteSet(s) /\ Cardinality(s) \in Nat
                          /\ Cardinality(s) <= Cardinality(S)
  <2> TAKE s \in SUBSET S
  <2>1. IsFiniteSet(s) /\ Cardinality(s) <= Cardinality(S)
    BY <1>1, FS_Subset
  <2> QED BY <2>1, FS_CardinalityType
<1>3. \A s \in SUBSET S : s # {} =>
         /\ Chosen(s) \in s /\ Chosen(s) \in S /\ f[Chosen(s)] \in Int
         /\ s \ {Chosen(s)} \in SUBSET S
         /\ Cardinality(s \ {Chosen(s)}) = Cardinality(s) - 1
  <2> TAKE s \in SUBSET S
  <2> HAVE s # {}
  <2>1. Chosen(s) \in s
    BY ChosenElement
  <2>2. Cardinality(s \ {Chosen(s)}) = Cardinality(s) - 1
    BY <1>2, <2>1, FS_RemoveElement
  <2> QED BY <1>1, <2>1, <2>2
<1>4. 0 \in Reached
  <2> DEFINE g == [s \in SUBSET S |-> 0]
  <2>1. \A s \in SUBSET S : Cardinality(s) <= 0 => s = {}
    <3> TAKE s \in SUBSET S
    <3> HAVE Cardinality(s) <= 0
    <3>1. Cardinality(s) = 0
      BY <1>2
    <3> QED BY <1>2, <3>1, FS_EmptySet
  <2>2. g \in [SUBSET S -> Int] /\ Right(g, 0)
    BY <2>1 DEF SumStep
  <2> QED BY <2>2
<1>5. ASSUME NEW n \in Nat, n \in Reached PROVE n + 1 \in Reached
  <2>1. PICK g \in [SUBSET S -> Int] : Right(g, n)
    BY <1>5
  <2> DEFINE h == [s \in SUBSET S |-> IF Cardinality(s) <= n THEN g[s] ELSE SumStep(f, g, s)]
  <2>2. \A s \in SUBSET S : SumStep(f, g, s) \in Int
    <3> TAKE s \in SUBSET S
    <3>1. CASE s = {}
      BY <3>1 DEF SumStep
    <3>2. CASE s # {}
      <4>1. f[Chosen(s)] \in Int /\ s \ {Chosen(s)} \in SUBSET S
        BY <1>3, <3>2
      <4>2. g[s \ {Chosen(s)}] \in Int
        BY <2>1, <4>1
      <4> QED BY <3>2, <4>1, <4>2 DEF SumStep
    <3> QED BY <3>1, <3>2
  <2>3. h \in [SUBSET S -> Int]
    BY <2>2
  <2>4. \A s \in SUBSET S : h[s] = IF Cardinality(s) <= n THEN g[s] ELSE SumStep(f, g, s)
    OBVIOUS
  <2> HIDE DEF h
  <2>5. Right(h, n + 1)
    <3> SUFFICES ASSUME NEW s \in SUBSET S, Cardinality(s) <= n + 1
                 PROVE  h[s] = SumStep(f, h, s)
      OBVIOUS
    <3>1. h[s] = SumStep(f, g, s)
      BY <2>1, <2>4
    <3>2. CASE s = {}
      BY <3>1, <3>2 DEF SumStep
    <3>3. CASE s # {}
      <4> DEFINE t == s \ {Chosen(s)}
      <4>1. t \in SUBSET S /\ Cardinality(t) <= n
        BY <1>2, <1>3, <3>3
      <4>2. h[t] = g[t]
        BY <2>4, <4>1
      <4> QED BY <3>1, <3>3, <4>2 DEF SumStep
    <3> QED BY <3>2, <3>3
  <2> QED BY <2>3, <2>5
<1>6. N = {}
  <2> SUFFICES ASSUME N # {} PROVE FALSE
    OBVIOUS
  <2> HIDE DEF Reached
  <2>1. PICK n \in N : \A k \in N : n <= k
    <3>1. N \subseteq Nat
      OBVIOUS
    <3> HIDE DEF N
    <3> QED BY <3>1, LeastNatural
  <2>2. n \in Nat /\ n # 0 /\ n - 1 \in Nat
    BY <1>4
  <2>3. n - 1 \in Reached
    BY <2>1, <2>2
  <2>4. (n - 1) + 1 \in Reached
    BY <1>5, <2>2, <2>3
  <2> QED BY <2>1, <2>2, <2>4
<1>7. Cardinality(S) \in Reached
  BY <1>2, <1>6
<1>8. PICK g \in [SUBSET S -> Int] : Right(g, Cardinality(S))
  BY <1>7
<1>9. g = [s \in SUBSET S |-> SumStep(f, g, s)]
  BY <1>2, <1>8
<1> QED BY <1>9

(* The function of the definition: its domain, its equation and its type. *)
LEMMA SumFcnDef ==
    ASSUME NEW f, NEW S, Summable(f, S)
    PROVE  /\ \A s \in SUBSET S : SumFcn(f, S)[s] = SumStep(f, SumFcn(f, S), s)
           /\ \A s \in SUBSET S : SumFcn(f, S)[s] \in Int
<1> DEFINE G == SumFcn(f, S)
<1>1. G = [s \in SUBSET S |-> SumStep(f, G, s)]
  <2>0. PICK g \in [SUBSET S -> Int] : g = [s \in SUBSET S |-> SumStep(f, g, s)]
    BY SumFcnExists
  <2>1. \E h : h = [s \in SUBSET S |-> SumStep(f, h, s)]
    BY <2>0
  <2> QED BY <2>1 DEF SumFcn
<1>2. \A s \in SUBSET S : G[s] = SumStep(f, G, s)
  <2> HIDE DEF G
  <2> QED BY <1>1
<1> HIDE DEF G
<1> DEFINE B == {s \in SUBSET S : G[s] \notin Int}
<1>3. B = {}
  <2> SUFFICES ASSUME B # {} PROVE FALSE
    OBVIOUS
  <2>1. PICK s \in B : \A t \in SUBSET s : t # s => t \notin B
    <3>1. IsFiniteSet(S) /\ B \in SUBSET (SUBSET S)
      BY DEF Summable
    <3> HIDE DEF B
    <3> QED BY <3>1, SmallestSubset
  <2>2. s # {}
    <3>1. s \in SUBSET S /\ G[s] \notin Int
      BY <2>1
    <3>2. s = {} => G[s] = 0
      BY <1>2, <3>1 DEF SumStep
    <3> QED BY <3>1, <3>2
  <2>3. Chosen(s) \in s /\ f[Chosen(s)] \in Int
    BY <2>1, <2>2, ChosenElement DEF Summable
  <2>4. G[s \ {Chosen(s)}] \in Int
    BY <2>1, <2>3
  <2>5. G[s] = f[Chosen(s)] + G[s \ {Chosen(s)}]
    BY <1>2, <2>1, <2>2 DEF SumStep
  <2> QED BY <2>1, <2>3, <2>4, <2>5
<1> QED BY <1>2, <1>3 DEF G

(* Any element, not only the chosen one, can be taken out first. *)
LEMMA SumFcnRemove ==
    ASSUME NEW f, NEW S, Summable(f, S), NEW s \in SUBSET S, NEW x \in s
    PROVE  SumFcn(f, S)[s] = f[x] + SumFcn(f, S)[s \ {x}]
<1> DEFINE G == SumFcn(f, S)
           B == {t \in SUBSET S : \E y \in t : G[t] # f[y] + G[t \ {y}]}
<1>1. /\ \A t \in SUBSET S : G[t] = SumStep(f, G, t)
      /\ \A t \in SUBSET S : G[t] \in Int
  BY SumFcnDef
<1> HIDE DEF G
<1>2. B = {}
  <2> SUFFICES ASSUME B # {} PROVE FALSE
    OBVIOUS
  <2>1. PICK t \in B : \A u \in SUBSET t : u # t => u \notin B
    <3>1. IsFiniteSet(S) /\ B \in SUBSET (SUBSET S)
      BY DEF Summable
    <3> HIDE DEF B
    <3> QED BY <3>1, SmallestSubset
  <2>2. PICK y \in t : G[t] # f[y] + G[t \ {y}]
    BY <2>1
  <2> DEFINE c == Chosen(t)
  <2>3. /\ c \in t /\ t \in SUBSET S
        /\ f[c] \in Int /\ f[y] \in Int
    BY <2>1, <2>2, ChosenElement DEF Summable
  <2>4. G[t] = f[c] + G[t \ {c}]
    BY <1>1, <2>2, <2>3 DEF SumStep
  <2>5. c # y
    BY <2>2, <2>4
  <2>6. /\ t \ {c} \in SUBSET S /\ t \ {c} \notin B /\ y \in t \ {c}
        /\ t \ {y} \in SUBSET S /\ t \ {y} \notin B /\ c \in t \ {y}
    BY <2>1, <2>2, <2>3, <2>5
  <2>7. G[t \ {c}] = f[y] + G[(t \ {c}) \ {y}]
    BY <2>6
  <2>8. G[t \ {y}] = f[c] + G[(t \ {y}) \ {c}]
    BY <2>6
  <2>9. (t \ {c}) \ {y} = (t \ {y}) \ {c} /\ (t \ {c}) \ {y} \in SUBSET S
    BY <2>3
  <2>10. G[(t \ {c}) \ {y}] \in Int
    BY <1>1, <2>9
  <2>11. G[(t \ {y}) \ {c}] = G[(t \ {c}) \ {y}]
    BY <2>9
  <2> DEFINE z == G[(t \ {c}) \ {y}]
  <2>12. G[t] = f[c] + (f[y] + z) /\ G[t \ {y}] = f[c] + z /\ z \in Int
    BY <2>4, <2>7, <2>8, <2>10, <2>11
  <2> HIDE DEF z, c
  <2>13. f[c] + (f[y] + z) = f[y] + (f[c] + z)
    BY <2>3, <2>12
  <2> QED BY <2>2, <2>12, <2>13
<1> QED BY <1>2 DEF G

(* The sum over a subset does not depend on the set it is taken from, nor  *)
(* on the values elsewhere.                                                *)
LEMMA SumFcnAgrees ==
    ASSUME NEW f, NEW g, NEW S, NEW T, Summable(f, S), Summable(g, T),
           NEW R \in SUBSET (S \cap T), \A x \in R : f[x] = g[x]
    PROVE  SumFcn(f, S)[R] = SumFcn(g, T)[R]
<1> DEFINE G == SumFcn(f, S)
           H == SumFcn(g, T)
           B == {s \in SUBSET R : G[s] # H[s]}
<1>1. /\ \A s \in SUBSET S : G[s] = SumStep(f, G, s)
      /\ \A s \in SUBSET T : H[s] = SumStep(g, H, s)
  BY SumFcnDef
<1>2. IsFiniteSet(R)
  BY FS_Subset DEF Summable
<1> HIDE DEF G, H
<1>3. B = {}
  <2> SUFFICES ASSUME B # {} PROVE FALSE
    OBVIOUS
  <2>1. PICK s \in B : \A t \in SUBSET s : t # s => t \notin B
    <3>1. B \in SUBSET (SUBSET R)
      OBVIOUS
    <3> HIDE DEF B
    <3> QED BY <1>2, <3>1, SmallestSubset
  <2>2. s \in SUBSET S /\ s \in SUBSET T /\ G[s] # H[s] /\ s \in SUBSET R
    BY <2>1
  <2>3. s # {}
    BY <1>1, <2>2 DEF SumStep
  <2>4. Chosen(s) \in s
    BY <2>3, ChosenElement
  <2>5. f[Chosen(s)] = g[Chosen(s)] /\ G[s \ {Chosen(s)}] = H[s \ {Chosen(s)}]
    BY <2>1, <2>2, <2>4
  <2> QED BY <1>1, <2>2, <2>3, <2>5 DEF SumStep
<1> QED BY <1>3 DEF G, H

-----------------------------------------------------------------------------
(* The facts about sums that the other proofs use.                         *)

(* A sum of integers is one, and the empty sum is 0. *)
LEMMA SumType ==
    ASSUME NEW f, NEW S, Summable(f, S)
    PROVE  SumOver(f, S) \in Int /\ SumOver(f, {}) = 0
<1>1. SumOver(f, S) \in Int
  BY SumFcnDef, SumOverFcn
<1>2. Summable(f, {})
  BY FS_EmptySet DEF Summable
<1>3. SumFcn(f, {})[{}] = SumStep(f, SumFcn(f, {}), {})
  BY <1>2, SumFcnDef
<1> QED BY <1>1, <1>3, SumOverFcn DEF SumStep

(* Taking an element out of a sum. *)
LEMMA SumRemove ==
    ASSUME NEW f, NEW S, Summable(f, S), NEW x \in S
    PROVE  SumOver(f, S) = f[x] + SumOver(f, S \ {x})
<1>1. Summable(f, S \ {x})
  BY FS_Subset DEF Summable
<1>2. SumFcn(f, S)[S] = f[x] + SumFcn(f, S)[S \ {x}]
  BY SumFcnRemove
<1>3. SumFcn(f, S)[S \ {x}] = SumFcn(f, S \ {x})[S \ {x}]
  BY <1>1, SumFcnAgrees
<1> QED BY <1>2, <1>3, SumOverFcn

(* Adding an element to a sum. *)
LEMMA SumAdd ==
    ASSUME NEW f, NEW S, NEW x, x \notin S, Summable(f, S \cup {x})
    PROVE  SumOver(f, S \cup {x}) = f[x] + SumOver(f, S)
<1>1. (S \cup {x}) \ {x} = S
  OBVIOUS
<1> QED BY <1>1, SumRemove

(* Sums of the same values are the same. *)
LEMMA SumSame ==
    ASSUME NEW f, NEW g, NEW S, Summable(f, S), \A x \in S : f[x] = g[x]
    PROVE  SumOver(f, S) = SumOver(g, S)
<1>1. Summable(g, S)
  BY DEF Summable
<1>2. SumFcn(f, S)[S] = SumFcn(g, S)[S]
  BY <1>1, SumFcnAgrees
<1> QED BY <1>2, SumOverFcn

(* Every value of f is that of g plus a step of r downwards. *)
StepsDown(f, g, r, L) ==
    /\ \A i \in 1 .. L : f[i] \in Int /\ g[i] \in Int
    /\ \A i \in 0 .. L : r[i] \in Int
    /\ \A i \in 1 .. L : f[i] = (r[i - 1] - r[i]) + g[i]

(* Sums over an initial segment, one index at a time: they differ by the   *)
(* whole way r goes down.                                                  *)
LEMMA SumTelescopes ==
    ASSUME NEW L \in Nat, NEW f, NEW g, NEW r, StepsDown(f, g, r, L)
    PROVE  SumOver(f, 1 .. L) = (r[0] - r[L]) + SumOver(g, 1 .. L)
<1> USE DEF StepsDown
<1> DEFINE Right(k) == SumOver(f, 1 .. k) = (r[0] - r[k]) + SumOver(g, 1 .. k)
           N == {k \in 0 .. L : ~ Right(k)}
<1>0. \A k \in 0 .. L : Summable(f, 1 .. k) /\ Summable(g, 1 .. k)
  BY FS_Interval DEF Summable
<1>1. Right(0)
  <2>1. 1 .. 0 = {}
    OBVIOUS
  <2>2. Summable(f, {}) /\ Summable(g, {})
    BY FS_EmptySet DEF Summable
  <2>3. SumOver(f, {}) = 0 /\ SumOver(g, {}) = 0
    BY <2>2, SumType
  <2> QED BY <2>1, <2>3
<1>2. ASSUME NEW k \in 1 .. L, Right(k - 1) PROVE Right(k)
  <2> DEFINE S == 1 .. (k - 1)
  <2>1. 1 .. k = S \cup {k} /\ k \notin S
    OBVIOUS
  <2>2. Summable(f, S \cup {k}) /\ Summable(g, S \cup {k})
    <3>1. Summable(f, 1 .. k) /\ Summable(g, 1 .. k)
      BY <1>0
    <3> HIDE DEF S
    <3> QED BY <2>1, <3>1
  <2>3. /\ SumOver(f, S \cup {k}) = f[k] + SumOver(f, S)
        /\ SumOver(g, S \cup {k}) = g[k] + SumOver(g, S)
    <3> HIDE DEF S
    <3> QED BY <2>1, <2>2, SumAdd
  <2>4. SumOver(f, S) \in Int /\ SumOver(g, S) \in Int
    <3>1. Summable(f, S) /\ Summable(g, S)
      BY <1>0
    <3> HIDE DEF S
    <3> QED BY <3>1, SumType
  <2>5. SumOver(f, S) = (r[0] - r[k - 1]) + SumOver(g, S)
    BY <1>2
  <2>6. /\ f[k] = (r[k - 1] - r[k]) + g[k] /\ f[k] \in Int /\ g[k] \in Int
        /\ r[k] \in Int /\ r[k - 1] \in Int /\ r[0] \in Int
    OBVIOUS
  <2> HIDE DEF S
  <2>7. SumOver(f, S \cup {k}) = (r[0] - r[k]) + SumOver(g, S \cup {k})
    BY <2>3, <2>4, <2>5, <2>6
  <2> QED BY <2>1, <2>7
<1>3. N = {}
  <2> SUFFICES ASSUME N # {} PROVE FALSE
    OBVIOUS
  <2>1. PICK k \in N : \A j \in N : k <= j
    <3>1. N \subseteq Nat
      OBVIOUS
    <3> HIDE DEF N
    <3> QED BY <3>1, LeastNatural
  <2>2. k \in 0 .. L /\ ~ Right(k) /\ \A j \in 0 .. L : ~ Right(j) => k <= j
    BY <2>1
  <2> HIDE DEF Right
  <2>3. k \in 1 .. L
    BY <1>1, <2>2
  <2>4. Right(k - 1)
    BY <2>2, <2>3
  <2> QED BY <1>2, <2>2, <2>3, <2>4
<1>4. Right(L)
  <2> HIDE DEF Right
  <2> QED BY <1>3
<1> QED BY <1>4

(* One value changes. *)
LEMMA SumSwap ==
    ASSUME NEW f, NEW g, NEW S, Summable(f, S), Summable(g, S), NEW x \in S,
           \A y \in S \ {x} : f[y] = g[y]
    PROVE  SumOver(g, S) = (SumOver(f, S) - f[x]) + g[x]
<1>1. Summable(f, S \ {x}) /\ Summable(g, S \ {x})
  BY FS_Subset DEF Summable
<1>2. SumOver(f, S \ {x}) = SumOver(g, S \ {x})
  BY <1>1, SumSame
<1>3. SumOver(f, S) = f[x] + SumOver(f, S \ {x}) /\ SumOver(g, S) = g[x] + SumOver(g, S \ {x})
  BY SumRemove
<1>4. f[x] \in Int /\ g[x] \in Int /\ SumOver(f, S \ {x}) \in Int
  BY <1>1, SumType DEF Summable
<1> HIDE DEF SumOver
<1> QED BY <1>2, <1>3, <1>4

(* A sum over two parts. *)
LEMMA SumSplit ==
    ASSUME NEW f, NEW S, Summable(f, S), NEW D \in SUBSET S
    PROVE  SumOver(f, S) = SumOver(f, D) + SumOver(f, S \ D)
<1> DEFINE Right(d) == SumOver(f, S) = SumOver(f, d) + SumOver(f, S \ d)
           B == {d \in SUBSET D : ~Right(d)}
<1>1. /\ IsFiniteSet(D)
      /\ \A s \in SUBSET S : Summable(f, s) /\ SumOver(f, s) \in Int
  <2>1. \A s \in SUBSET S : Summable(f, s)
    BY FS_Subset DEF Summable
  <2> QED BY <2>1, SumType DEF Summable
<1>2. Right({})
  <2>1. S \ {} = S /\ SumOver(f, {}) = 0 /\ SumOver(f, S) \in Int
    BY SumType
  <2> HIDE DEF SumOver
  <2> QED BY <2>1
<1>3. ASSUME NEW d \in B, \A t \in SUBSET d : t # d => t \notin B
      PROVE  FALSE
  <2>1. d # {}
    BY <1>2, <1>3
  <2>2. PICK x \in d : TRUE
    BY <2>1
  <2> DEFINE e == d \ {x}
  <2>3. Right(e)
    <3> HIDE DEF Right
    <3> QED BY <1>3, <2>2
  <2>4. d \in SUBSET S /\ e \in SUBSET S /\ S \ e \in SUBSET S /\ x \in S \ e /\ (S \ e) \ {x} = S \ d
    BY <1>3, <2>2
  <2>5. SumOver(f, d) = f[x] + SumOver(f, e)
    BY <1>1, <2>2, <2>4, SumRemove
  <2>6. SumOver(f, S \ e) = f[x] + SumOver(f, S \ d)
    BY <1>1, <2>4, SumRemove
  <2>7. f[x] \in Int /\ SumOver(f, e) \in Int /\ SumOver(f, S \ d) \in Int
    <3>1. S \ d \in SUBSET S /\ x \in S
      BY <2>4
    <3> QED BY <1>1, <2>4, <3>1 DEF Summable
  <2>8. Right(d)
    <3> HIDE DEF SumOver, e
    <3> QED BY <2>3, <2>5, <2>6, <2>7
  <2> QED BY <1>3, <2>8
<1>4. B = {}
  <2>1. B \in SUBSET (SUBSET D)
    OBVIOUS
  <2> HIDE DEF B
  <2> QED BY <1>1, <1>3, <2>1, SmallestSubset
<1> QED BY <1>4

(* A sum of zeros. *)
LEMMA SumZero ==
    ASSUME NEW f, NEW S, IsFiniteSet(S), \A x \in S : f[x] = 0
    PROVE  SumOver(f, S) = 0
<1> DEFINE B == {s \in SUBSET S : SumOver(f, s) # 0}
<1>1. \A s \in SUBSET S : Summable(f, s)
  BY FS_Subset DEF Summable
<1>2. SumOver(f, {}) = 0
  BY <1>1, SumType
<1>3. ASSUME NEW s \in B, \A t \in SUBSET s : t # s => t \notin B
      PROVE  FALSE
  <2>1. s # {}
    BY <1>2, <1>3
  <2>2. PICK x \in s : TRUE
    BY <2>1
  <2>3. s \ {x} \notin B /\ s \ {x} \in SUBSET S /\ s \in SUBSET S /\ x \in S
    <3>1. s \in SUBSET S
      BY <1>3
    <3> HIDE DEF B
    <3> QED BY <1>3, <2>2, <3>1
  <2>4. SumOver(f, s \ {x}) = 0 /\ SumOver(f, s) = f[x] + SumOver(f, s \ {x})
    BY <1>1, <2>2, <2>3, SumRemove
  <2>5. SumOver(f, s) = 0
    <3> HIDE DEF SumOver
    <3> QED BY <2>3, <2>4
  <2> QED BY <1>3, <2>5
<1>4. B = {}
  <2>1. B \in SUBSET (SUBSET S)
    OBVIOUS
  <2> HIDE DEF B
  <2> QED BY <1>3, <2>1, SmallestSubset
<1> QED BY <1>4

(* A value is at most another, but for c where x is in T. *)
AtMost(f, g, S, T, c) ==
    /\ \A x \in S \ T : f[x] <= g[x]
    /\ \A x \in S \cap T : f[x] <= g[x] + c

(* So are their sums, but for c as often as there are elements in T. *)
LEMMA SumAtMost ==
    ASSUME NEW f, NEW g, NEW S, NEW T \in SUBSET S, NEW c \in Nat,
           Summable(f, S), Summable(g, S), AtMost(f, g, S, T, c)
    PROVE  SumOver(f, S) <= SumOver(g, S) + c * Cardinality(T)
<1> DEFINE Right(s) == SumOver(f, s) <= SumOver(g, s) + c * Cardinality(s \cap T)
           B == {s \in SUBSET S : ~Right(s)}
<1>1. \A s \in SUBSET S : /\ IsFiniteSet(s) /\ Cardinality(s) \in Nat
                          /\ Summable(f, s) /\ SumOver(f, s) \in Int
                          /\ Summable(g, s) /\ SumOver(g, s) \in Int
  <2>1. \A s \in SUBSET S : IsFiniteSet(s) /\ Cardinality(s) \in Nat
    BY FS_Subset, FS_CardinalityType DEF Summable
  <2>2. \A s \in SUBSET S : Summable(f, s) /\ Summable(g, s)
    BY <2>1 DEF Summable
  <2> QED BY <2>1, <2>2, SumType
<1>2. Right({})
  <2>1. SumOver(f, {}) = 0 /\ SumOver(g, {}) = 0
    BY SumType
  <2>2. {} \cap T = {} /\ Cardinality({}) = 0
    BY FS_EmptySet
  <2> HIDE DEF SumOver
  <2>3. Cardinality({} \cap T) = 0
    BY <2>2
  <2> QED BY <2>1, <2>3
<1>3. ASSUME NEW s \in B, \A t \in SUBSET s : t # s => t \notin B
      PROVE  FALSE
  <2>1. s # {}
    BY <1>2, <1>3
  <2>2. PICK x \in s : TRUE
    BY <2>1
  <2> DEFINE e == s \ {x}
  <2>3. Right(e)
    <3> HIDE DEF Right
    <3> QED BY <1>3, <2>2
  <2>4. s \in SUBSET S /\ e \in SUBSET S /\ x \in S
    BY <1>3, <2>2
  <2>5. SumOver(f, s) = f[x] + SumOver(f, e) /\ SumOver(g, s) = g[x] + SumOver(g, e)
    BY <1>1, <2>2, <2>4, SumRemove
  <2>6. /\ f[x] \in Int /\ g[x] \in Int /\ SumOver(f, e) \in Int /\ SumOver(g, e) \in Int
        /\ Cardinality(s \cap T) \in Nat /\ Cardinality(e \cap T) \in Nat
    <3>1. s \cap T \in SUBSET S /\ e \cap T \in SUBSET S
      BY <2>4
    <3> QED BY <1>1, <2>4, <3>1 DEF Summable
  <2>7. CASE x \in T
    <3>1. (e \cap T) \cup {x} = s \cap T /\ x \notin e \cap T /\ e \cap T \in SUBSET S
      BY <2>2, <2>4, <2>7
    <3>2. Cardinality(s \cap T) = Cardinality(e \cap T) + 1
      BY <1>1, <3>1, FS_AddElement
    <3>3. f[x] <= g[x] + c
      BY <2>4, <2>7 DEF AtMost
    <3> HIDE DEF e, SumOver
    <3>4. c * Cardinality(s \cap T) = c * Cardinality(e \cap T) + c
      BY <2>6, <3>2
    <3>5. c * Cardinality(e \cap T) \in Int
      BY <2>6
    <3>6. Right(s)
      BY <2>3, <2>5, <2>6, <3>3, <3>4, <3>5
    <3> QED BY <1>3, <3>6
  <2>8. CASE x \notin T
    <3>1. s \cap T = e \cap T
      BY <2>2, <2>8
    <3>2. f[x] <= g[x]
      BY <2>4, <2>8 DEF AtMost
    <3> HIDE DEF e, SumOver
    <3>3. c * Cardinality(e \cap T) \in Int
      BY <2>6
    <3>4. SumOver(f, e) <= SumOver(g, e) + c * Cardinality(e \cap T)
      BY <2>3
    <3>5. SumOver(f, s) <= SumOver(g, s) + c * Cardinality(e \cap T)
      BY <2>5, <2>6, <3>2, <3>3, <3>4
    <3>6. Right(s)
      BY <3>1, <3>5
    <3> QED BY <1>3, <3>6
  <2> QED BY <2>7, <2>8
<1>4. B = {}
  <2>1. B \in SUBSET (SUBSET S)
    OBVIOUS
  <2>2. IsFiniteSet(S)
    BY DEF Summable
  <2> HIDE DEF B
  <2> QED BY <1>3, <2>1, <2>2, SmallestSubset
<1>5. Right(S) /\ S \cap T = T
  BY <1>4
<1> QED BY <1>5

(* A sum of natural numbers. *)
LEMMA SumNat ==
    ASSUME NEW f, NEW S, IsFiniteSet(S), \A x \in S : f[x] \in Nat
    PROVE  Summable(f, S) /\ SumOver(f, S) \in Nat
<1> DEFINE zero == [x \in S |-> 0]
<1>1. Summable(f, S) /\ Summable(zero, S)
  BY DEF Summable
<1>2. SumOver(zero, S) = 0
  BY SumZero
<1>3. AtMost(zero, f, S, {}, 0)
  BY DEF AtMost
<1> HIDE DEF zero
<1>4. SumOver(zero, S) <= SumOver(f, S) + 0 * Cardinality({})
  BY <1>1, <1>3, SumAtMost
<1>5. 0 * Cardinality({}) = 0 /\ SumOver(f, S) \in Int
  BY <1>1, SumType, FS_EmptySet
<1>6. SumOver(f, S) >= 0
  <2> HIDE DEF SumOver
  <2> QED BY <1>2, <1>4, <1>5
<1> QED BY <1>1, <1>5, <1>6
=============================================================================
