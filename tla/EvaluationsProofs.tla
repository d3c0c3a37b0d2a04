------------------------- MODULE EvaluationsProofs --------------------------
(***************************************************************************)
(* Proofs, for every value of the constants, that evaluation runs tell     *)
(* their results, that reviews are told, and that comparisons agree with   *)
(* the runs they compare.                                                  *)
(***************************************************************************)
EXTENDS GovernanceProofs, WellFoundedInduction

-----------------------------------------------------------------------------
(* Induction *)

LEMMA SetInduction ==
  ASSUME NEW S, 0 \in S, \A n \in Nat : n \in S => n + 1 \in S
  PROVE  Nat \subseteq S
<1> DEFINE T == Nat \ S
<1>1. SUFFICES ASSUME T # {} PROVE FALSE
  OBVIOUS
<1>2. PICK x \in T : \A y \in T : ~ (<<y, x>> \in OpToRel(<, Nat))
  BY <1>1, NatLessThanWellFounded, WFMin
<1>3. \A y \in T : ~ y < x
  BY <1>2 DEF OpToRel
<1>4. x - 1 \in Nat /\ x - 1 < x
  OBVIOUS
<1> QED
  BY <1>3, <1>4

(* A fold of a finite set that picks its elements one by one is defined.   *)
Folds(f, D, base, pick, op) ==
  \A s \in SUBSET D : f[s] = IF s = {} THEN base ELSE op[<<pick[s], f[s \ {pick[s]}]>>]

LEMMA FoldExists ==
  ASSUME NEW D, IsFiniteSet(D), NEW V, NEW base \in V, NEW op \in [D \X V -> V],
         NEW pick, \A s \in SUBSET D : s # {} => pick[s] \in s
  PROVE  \E f \in [SUBSET D -> V] : Folds(f, D, base, pick, op)
<1> DEFINE Next1(f, s) == IF s = {} THEN base ELSE op[<<pick[s], f[s \ {pick[s]}]>>]
           Sound(n) == \E f \in [SUBSET D -> V] :
                         \A s \in SUBSET D : Cardinality(s) <= n => f[s] = Next1(f, s)
           S == {n \in Nat : Sound(n)}
<1>1. ASSUME NEW s \in SUBSET D
      PROVE  /\ IsFiniteSet(s) /\ Cardinality(s) \in Nat
             /\ s # {} => /\ Cardinality(s) > 0
                          /\ s \ {pick[s]} \in SUBSET D
                          /\ Cardinality(s \ {pick[s]}) = Cardinality(s) - 1
  <2>1. IsFiniteSet(s)
    BY FS_Subset
  <2>2. Cardinality(s) \in Nat /\ (Cardinality(s) = 0 <=> s = {})
    BY <2>1, FS_CardinalityType, FS_EmptySet
  <2>3. ASSUME s # {} PROVE Cardinality(s \ {pick[s]}) = Cardinality(s) - 1
    BY <2>1, <2>3, FS_RemoveElement
  <2> QED
    BY <2>1, <2>2, <2>3
<1>2. ASSUME NEW f \in [SUBSET D -> V], NEW s \in SUBSET D PROVE Next1(f, s) \in V
  <2>1. CASE s = {}
    BY <2>1
  <2>2. CASE s # {}
    <3>1. pick[s] \in D /\ s \ {pick[s]} \in SUBSET D
      BY <2>2
    <3> QED
      BY <2>2, <3>1
  <2> QED
    BY <2>1, <2>2
<1>3. 0 \in S
  <2>1. [s \in SUBSET D |-> base] \in [SUBSET D -> V]
    OBVIOUS
  <2>2. ASSUME NEW s \in SUBSET D, Cardinality(s) <= 0 PROVE s = {}
    <3>1. Cardinality(s) \in Nat /\ (s # {} => Cardinality(s) > 0)
      BY <1>1
    <3> QED
      BY <2>2, <3>1
  <2> QED
    BY <2>1, <2>2
<1>4. ASSUME NEW n \in Nat, n \in S PROVE n + 1 \in S
  <2>1. PICK f \in [SUBSET D -> V] : \A s \in SUBSET D : Cardinality(s) <= n => f[s] = Next1(f, s)
    BY <1>4
  <2> DEFINE g == [s \in SUBSET D |-> Next1(f, s)]
  <2>2. g \in [SUBSET D -> V]
    BY <1>2
  <2>3. ASSUME NEW s \in SUBSET D, Cardinality(s) <= n + 1 PROVE g[s] = Next1(g, s)
    <3>1. CASE s = {}
      BY <3>1
    <3>2. CASE s # {}
      <4>1. s \ {pick[s]} \in SUBSET D /\ Cardinality(s \ {pick[s]}) <= n
        <5>1. /\ s \ {pick[s]} \in SUBSET D /\ Cardinality(s) \in Nat
              /\ Cardinality(s \ {pick[s]}) = Cardinality(s) - 1
          BY <1>1, <3>2
        <5> QED
          BY <2>3, <5>1
      <4>2. f[s \ {pick[s]}] = g[s \ {pick[s]}]
        BY <2>1, <4>1
      <4> QED
        BY <3>2, <4>2
    <3> QED
      BY <3>1, <3>2
  <2> HIDE DEF g, Next1
  <2>4. Sound(n + 1)
    BY <2>2, <2>3
  <2> QED
    BY <2>4
<1>5. Cardinality(D) \in S
  <2> HIDE DEF S
  <2>1. Nat \subseteq S
    BY <1>3, <1>4, SetInduction
  <2> QED
    BY <2>1, FS_CardinalityType
<1>6. PICK f \in [SUBSET D -> V] : \A s \in SUBSET D : Cardinality(s) <= Cardinality(D) => f[s] = Next1(f, s)
  BY <1>5
<1>7. \A s \in SUBSET D : Cardinality(s) <= Cardinality(D)
  BY FS_Subset
<1> QED
  BY <1>6, <1>7 DEF Folds

-----------------------------------------------------------------------------
(* Sums over finite sets *)

(* f tells the sum of c over every part of D, however it is added up.      *)
Sums(f, c, D) ==
  /\ f \in [SUBSET D -> Int] /\ f[{}] = 0
  /\ \A s \in SUBSET D : \A x \in s : f[s] = c[x] + f[s \ {x}]

LEMMA AnyOrder ==
  ASSUME NEW D, IsFiniteSet(D), NEW c \in [D -> Int], NEW f \in [SUBSET D -> Int],
         NEW pick, \A s \in SUBSET D : s # {} => pick[s] \in s,
         f[{}] = 0, \A s \in SUBSET D : s # {} => f[s] = c[pick[s]] + f[s \ {pick[s]}]
  PROVE  Sums(f, c, D)
<1> DEFINE AnyPick(s) == \A x \in s : f[s] = c[x] + f[s \ {x}]
           S == {n \in Nat : \A s \in SUBSET D : Cardinality(s) = n => AnyPick(s)}
<1>1. ASSUME NEW s \in SUBSET D
      PROVE  /\ Cardinality(s) \in Nat /\ (Cardinality(s) = 0 <=> s = {})
             /\ \A x \in s : Cardinality(s \ {x}) = Cardinality(s) - 1
  <2>1. IsFiniteSet(s)
    BY FS_Subset
  <2> QED
    BY <2>1, FS_CardinalityType, FS_EmptySet, FS_RemoveElement
<1>2. 0 \in S
  BY <1>1
<1>3. ASSUME NEW n \in Nat, n \in S PROVE n + 1 \in S
  <2>1. ASSUME NEW s \in SUBSET D, Cardinality(s) = n + 1, NEW x \in s PROVE f[s] = c[x] + f[s \ {x}]
    <3> DEFINE p == pick[s]
    <3>1. p \in s /\ f[s] = c[p] + f[s \ {p}]
      BY <2>1
    <3>2. CASE x = p
      BY <3>1, <3>2
    <3>3. CASE x # p
      <4>1. /\ s \ {p} \in SUBSET D /\ Cardinality(s \ {p}) = n
            /\ s \ {x} \in SUBSET D /\ Cardinality(s \ {x}) = n
            /\ x \in s \ {p} /\ p \in s \ {x}
        <5>1. /\ s \ {p} \in SUBSET D /\ s \ {x} \in SUBSET D /\ x \in s \ {p} /\ p \in s \ {x}
          BY <2>1, <3>1, <3>3
        <5>2. Cardinality(s \ {p}) = Cardinality(s) - 1 /\ Cardinality(s \ {x}) = Cardinality(s) - 1
          BY <1>1, <2>1, <3>1
        <5> QED
          BY <2>1, <5>1, <5>2
      <4>2. AnyPick(s \ {p}) /\ AnyPick(s \ {x})
        BY <1>3, <4>1
      <4>3. f[s \ {p}] = c[x] + f[(s \ {p}) \ {x}]
        BY <4>1, <4>2
      <4>4. f[s \ {x}] = c[p] + f[(s \ {x}) \ {p}]
        BY <4>1, <4>2
      <4>5. (s \ {p}) \ {x} = (s \ {x}) \ {p}
        OBVIOUS
      <4>6. c[x] \in Int /\ c[p] \in Int /\ f[(s \ {x}) \ {p}] \in Int
        BY <3>1
      <4> QED
        <5>1. PICK a, b, e : a = c[p] /\ b = c[x] /\ e = f[(s \ {x}) \ {p}]
          OBVIOUS
        <5>2. a \in Int /\ b \in Int /\ e \in Int
          BY <4>6, <5>1
        <5>3. f[s] = a + (b + e) /\ f[s \ {x}] = a + e
          BY <3>1, <4>3, <4>4, <4>5, <5>1
        <5> QED
          BY <5>1, <5>2, <5>3
    <3> QED
      BY <3>2, <3>3
  <2> QED
    BY <2>1
<1>4. Nat \subseteq S
  <2> HIDE DEF S
  <2> QED
    BY <1>2, <1>3, SetInduction
<1>5. ASSUME NEW s \in SUBSET D PROVE AnyPick(s)
  BY <1>1, <1>4
<1> QED
  BY <1>5 DEF Sums

LEMMA SumsExist ==
  ASSUME NEW D, IsFiniteSet(D), NEW c \in [D -> Int]
  PROVE  \E f : Sums(f, c, D)
<1> DEFINE pick == [s \in SUBSET D |-> CHOOSE x \in s : TRUE]
           op == [z \in D \X Int |-> c[z[1]] + z[2]]
<1>1. op \in [D \X Int -> Int] /\ 0 \in Int
  OBVIOUS
<1>2. \A s \in SUBSET D : s # {} => pick[s] \in s
  OBVIOUS
<1> HIDE DEF pick, op
<1>3. PICK f \in [SUBSET D -> Int] : Folds(f, D, 0, pick, op)
  BY <1>1, <1>2, FoldExists
<1>4. f[{}] = 0
  BY <1>3 DEF Folds
<1>5. ASSUME NEW s \in SUBSET D, s # {} PROVE f[s] = c[pick[s]] + f[s \ {pick[s]}]
  <2>1. pick[s] \in D /\ f[s \ {pick[s]}] \in Int
    BY <1>2, <1>5
  <2>2. f[s] = op[<<pick[s], f[s \ {pick[s]}]>>]
    BY <1>3, <1>5 DEF Folds
  <2> QED
    BY <2>1, <2>2 DEF op
<1>6. Sums(f, c, D)
  BY <1>2, <1>4, <1>5, AnyOrder
<1> QED
  BY <1>6

LEMMA SumsAgree ==
  ASSUME NEW D, IsFiniteSet(D), NEW E, D \subseteq E, NEW c, NEW e, \A x \in D : c[x] = e[x],
         NEW f, Sums(f, c, D), NEW g, Sums(g, e, E)
  PROVE  f[D] = g[D]
<1> DEFINE S == {n \in Nat : \A s \in SUBSET D : Cardinality(s) = n => f[s] = g[s]}
<1>1. ASSUME NEW s \in SUBSET D
      PROVE  /\ Cardinality(s) \in Nat /\ (Cardinality(s) = 0 <=> s = {})
             /\ \A x \in s : Cardinality(s \ {x}) = Cardinality(s) - 1
  <2>1. IsFiniteSet(s)
    BY FS_Subset
  <2> QED
    BY <2>1, FS_CardinalityType, FS_EmptySet, FS_RemoveElement
<1>2. 0 \in S
  BY <1>1 DEF Sums
<1>3. ASSUME NEW n \in Nat, n \in S PROVE n + 1 \in S
  <2>1. ASSUME NEW s \in SUBSET D, Cardinality(s) = n + 1 PROVE f[s] = g[s]
    <3>1. PICK x \in s : TRUE
      BY <1>1, <2>1
    <3>2. s \ {x} \in SUBSET D /\ Cardinality(s \ {x}) = n
      BY <1>1, <2>1, <3>1
    <3>3. f[s \ {x}] = g[s \ {x}]
      BY <1>3, <3>2
    <3>4. f[s] = c[x] + f[s \ {x}] /\ g[s] = e[x] + g[s \ {x}]
      BY <3>1 DEF Sums
    <3> QED
      BY <3>1, <3>3, <3>4
  <2> QED
    BY <2>1
<1>4. Nat \subseteq S
  <2> HIDE DEF S
  <2> QED
    BY <1>2, <1>3, SetInduction
<1> QED
  BY <1>1, <1>4

(* v is what the rows at D of a table cost together.                       *)
Totals(v, table, D) == \E f : Sums(f, [n \in D |-> KnownCost(table[n])], D) /\ v = f[D]

LEMMA TotalOfNone ==
  ASSUME NEW table
  PROVE  Totals(0, table, {})
<1> DEFINE f == [s \in SUBSET {} |-> 0]
<1>1. Sums(f, [n \in {} |-> KnownCost(table[n])], {})
  BY DEF Sums
<1> QED
  BY <1>1 DEF Totals

LEMMA TotalGrows ==
  ASSUME NEW v, NEW table, NEW D, IsFiniteSet(D), \A n \in D : KnownCost(table[n]) \in Int,
         Totals(v, table, D), NEW larger, \A n \in D : larger[n] = table[n],
         NEW m, m \notin D, KnownCost(larger[m]) \in Int
  PROVE  v \in Int /\ Totals(v + KnownCost(larger[m]), larger, D \cup {m})
<1> DEFINE E == D \cup {m}
           c == [n \in D |-> KnownCost(table[n])]
           e == [n \in E |-> KnownCost(larger[n])]
<1>1. PICK f : Sums(f, c, D) /\ v = f[D]
  BY DEF Totals
<1>2. IsFiniteSet(E) /\ e \in [E -> Int]
  BY FS_AddElement
<1>3. PICK g : Sums(g, e, E)
  BY <1>2, SumsExist
<1>4. \A x \in D : c[x] = e[x]
  OBVIOUS
<1> HIDE DEF c
<1>5. f[D] = g[D]
  <2> HIDE DEF e
  <2>1. D \subseteq E
    OBVIOUS
  <2> HIDE DEF E
  <2> QED
    BY <1>1, <1>3, <1>4, <2>1, SumsAgree
<1>6. g[E] = e[m] + g[E \ {m}]
  BY <1>3 DEF Sums
<1>7. E \ {m} = D /\ e[m] = KnownCost(larger[m])
  OBVIOUS
<1>8. f[D] \in Int
  BY <1>1 DEF Sums
<1>9. v + KnownCost(larger[m]) = g[E]
  <2>1. PICK a, b : a = e[m] /\ b = f[D]
    OBVIOUS
  <2>2. a \in Int /\ b \in Int /\ v = b /\ a = KnownCost(larger[m])
    BY <1>1, <1>7, <1>8, <2>1
  <2>3. g[E] = a + b
    BY <1>5, <1>6, <1>7, <2>1
  <2> QED
    BY <2>2, <2>3
<1> QED
  BY <1>1, <1>3, <1>8, <1>9 DEF Totals

(* The same rows at other places cost the same.                            *)
LEMMA TotalMoves ==
  ASSUME NEW v, NEW table, NEW D, D \subseteq Int, Totals(v, table, D),
         NEW d \in Int, NEW other, \A n \in D : KnownCost(other[d + n]) = KnownCost(table[n])
  PROVE  Totals(v, other, {d + n : n \in D})
<1> DEFINE E == {d + n : n \in D}
           Back(s) == {n \in D : d + n \in s}
           c == [n \in D |-> KnownCost(table[n])]
           e == [n \in E |-> KnownCost(other[n])]
<1>1. PICK f : Sums(f, c, D) /\ v = f[D]
  BY DEF Totals
<1> DEFINE g == [s \in SUBSET E |-> f[Back(s)]]
<1>2. \A s : Back(s) \in SUBSET D
  OBVIOUS
<1>3. g \in [SUBSET E -> Int] /\ g[{}] = 0
  <2>1. Back({}) = {}
    OBVIOUS
  <2>2. f \in [SUBSET D -> Int] /\ f[{}] = 0
    BY <1>1 DEF Sums
  <2>3. g[{}] = f[Back({})]
    OBVIOUS
  <2> HIDE DEF Back
  <2>4. \A s \in SUBSET E : f[Back(s)] \in Int
    BY <1>2, <2>2
  <2> QED
    BY <2>1, <2>2, <2>3, <2>4
<1>4. ASSUME NEW s \in SUBSET E, NEW x \in s PROVE g[s] = e[x] + g[s \ {x}]
  <2>1. PICK n \in D : x = d + n
    OBVIOUS
  <2>2. n \in Back(s) /\ Back(s \ {x}) = Back(s) \ {n}
    <3>1. \A m \in D : d + m = x <=> m = n
      BY <2>1
    <3> QED
      BY <1>4, <2>1, <3>1
  <2>3. f[Back(s)] = c[n] + f[Back(s) \ {n}]
    BY <1>1, <1>2, <2>2 DEF Sums
  <2>4. c[n] = e[x]
    BY <2>1
  <2>5. g[s] = f[Back(s)] /\ g[s \ {x}] = f[Back(s \ {x})]
    OBVIOUS
  <2> QED
    BY <2>2, <2>3, <2>4, <2>5
<1>5. Back(E) = D
  OBVIOUS
<1>6. v = g[E]
  BY <1>1, <1>5
<1> HIDE DEF g, e, E
<1>7. Sums(g, e, E)
  BY <1>3, <1>4 DEF Sums
<1> QED
  BY <1>6, <1>7 DEF Totals, E, e

(* Two folds of D agree as long as they agreed on one element less.        *)
StepByStep(f, g, D, pick) ==
  /\ f[{}] = g[{}]
  /\ \A s \in SUBSET D :
       s # {} => pick[s] \in s /\ (f[s \ {pick[s]}] = g[s \ {pick[s]}] => f[s] = g[s])

LEMMA FoldsAgree ==
  ASSUME NEW D, IsFiniteSet(D), NEW pick, NEW f, NEW g, StepByStep(f, g, D, pick)
  PROVE  f[D] = g[D]
<1> DEFINE S == {n \in Nat : \A s \in SUBSET D : Cardinality(s) = n => f[s] = g[s]}
<1>1. ASSUME NEW s \in SUBSET D
      PROVE  /\ Cardinality(s) \in Nat /\ (Cardinality(s) = 0 <=> s = {})
             /\ s # {} => Cardinality(s \ {pick[s]}) = Cardinality(s) - 1
  <2>1. IsFiniteSet(s)
    BY FS_Subset
  <2> QED
    BY <2>1, FS_CardinalityType, FS_EmptySet, FS_RemoveElement DEF StepByStep
<1>2. 0 \in S
  BY <1>1 DEF StepByStep
<1>3. ASSUME NEW n \in Nat, n \in S PROVE n + 1 \in S
  <2>1. ASSUME NEW s \in SUBSET D, Cardinality(s) = n + 1 PROVE f[s] = g[s]
    <3>1. s # {} /\ s \ {pick[s]} \in SUBSET D /\ Cardinality(s \ {pick[s]}) = n
      BY <1>1, <2>1
    <3> QED
      BY <1>3, <3>1 DEF StepByStep
  <2> QED
    BY <2>1
<1>4. Nat \subseteq S
  <2> HIDE DEF S
  <2> QED
    BY <1>2, <1>3, SetInduction
<1> QED
  BY <1>1, <1>4

(* The sum that the run's property asks for is the total.                  *)
LEMMA TotalIsSum ==
  ASSUME NEW v, NEW D, IsFiniteSet(D), Totals(v, results, D)
  PROVE  SumOfCosts(D) = v
<1> DEFINE c == [n \in D |-> KnownCost(results[n])]
           pick == [s \in SUBSET D |-> CHOOSE x \in s : TRUE]
           Sum(h, s) == IF s = {} THEN 0
                        ELSE KnownCost(results[CHOOSE x \in s : TRUE]) + h[s \ {CHOOSE x \in s : TRUE}]
<1>1. PICK f : Sums(f, c, D) /\ v = f[D]
  BY DEF Totals
<1>2. PICK g : /\ g = CHOOSE h : h = [s \in SUBSET D |-> Sum(h, s)]
               /\ SumOfCosts(D) = g[D]
  BY DEF SumOfCosts, MapThenSumSet, MapThenFoldSet
<1>3. ASSUME NEW s \in SUBSET D PROVE f[s] = Sum(f, s)
  <2>1. CASE s = {}
    BY <1>1, <2>1 DEF Sums
  <2>2. CASE s # {}
    <3>1. PICK x : x = CHOOSE y \in s : TRUE
      OBVIOUS
    <3>2. x \in s /\ c[x] = KnownCost(results[x])
      BY <2>2, <3>1
    <3>3. f[s] = c[x] + f[s \ {x}]
      BY <1>1, <3>2 DEF Sums
    <3> QED
      BY <2>2, <3>1, <3>2, <3>3
  <2> QED
    BY <2>1, <2>2
<1>4. f = [s \in SUBSET D |-> Sum(f, s)]
  <2>1. f = [s \in SUBSET D |-> f[s]]
    BY <1>1 DEF Sums
  <2> HIDE DEF Sum
  <2> QED
    BY <1>3, <2>1
<1>5. g = [s \in SUBSET D |-> Sum(g, s)]
  <2> HIDE DEF Sum
  <2> QED
    BY <1>2, <1>4
<1>6. \A s \in SUBSET D : s # {} => pick[s] \in s
  OBVIOUS
<1>7. f[{}] = g[{}]
  BY <1>3, <1>5
<1>8. ASSUME NEW s \in SUBSET D, s # {}, f[s \ {pick[s]}] = g[s \ {pick[s]}] PROVE f[s] = g[s]
  <2>1. pick[s] = CHOOSE x \in s : TRUE
    OBVIOUS
  <2>2. f[s] = Sum(f, s) /\ g[s] = Sum(g, s)
    <3> HIDE DEF Sum
    <3> QED
      BY <1>3, <1>5
  <2> QED
    BY <1>8, <2>1, <2>2
<1> HIDE DEF pick, Sum, c
<1>9. f[D] = g[D]
  <2>1. StepByStep(f, g, D, pick)
    BY <1>6, <1>7, <1>8 DEF StepByStep
  <2> QED
    BY <2>1, FoldsAgree
<1> QED
  BY <1>1, <1>2, <1>9

-----------------------------------------------------------------------------
(* Fractions *)

Proper == {s \in Int \X Int : 0 <= s[1] /\ s[1] <= s[2] /\ s[2] >= 1}

Full(s) == s[1] = s[2]

(* s is what k fractions, all full or not, add up to.                      *)
AddsUp(s, k, full) ==
  /\ s \in Int \X Int /\ 0 <= s[1] /\ s[1] <= k * s[2] /\ s[2] >= 1
  /\ s[1] = k * s[2] <=> full

LEMMA PlusAddsUp ==
  ASSUME NEW s, NEW k \in Nat, NEW full \in BOOLEAN, AddsUp(s, k, full), NEW t \in Proper
  PROVE  AddsUp(Plus(s, t), k + 1, full /\ Full(t))
<1>1. PICK a \in Int, b \in Int : s = <<a, b>>
  BY DEF AddsUp
<1>2. PICK n \in Int, d \in Int : t = <<n, d>>
  BY DEF Proper
<1>3. /\ 0 <= a /\ a <= k * b /\ b >= 1 /\ (a = k * b <=> full)
      /\ 0 <= n /\ n <= d /\ d >= 1 /\ (n = d <=> Full(t))
  BY <1>1, <1>2 DEF AddsUp, Proper, Full
<1>4. PICK e \in Nat, f \in Nat : e = k * b - a /\ f = d - n
  BY <1>3
<1>5. PICK p \in Int, q \in Int, u \in Int, v \in Int, w \in Int :
        p = a * d /\ q = n * b /\ u = b * d /\ v = e * d /\ w = f * b
  OBVIOUS
<1>6. Plus(s, t) = <<p + q, u>>
  BY <1>1, <1>2, <1>5 DEF Plus
<1>7. 0 <= p /\ 0 <= q /\ u >= 1
  BY <1>3, <1>5
<1>8. v >= 0 /\ w >= 0 /\ (v = 0 <=> e = 0) /\ (w = 0 <=> f = 0)
  BY <1>3, <1>4, <1>5
<1>9. (k + 1) * u - (p + q) = v + w
  <2>1. v = (k * b) * d - a * d
    BY <1>4, <1>5
  <2>2. w = d * b - n * b
    BY <1>4, <1>5
  <2>3. (k * b) * d = k * u /\ d * b = u
    BY <1>5
  <2>4. (k + 1) * u = k * u + u
    OBVIOUS
  <2> QED
    BY <1>5, <2>1, <2>2, <2>3, <2>4
<1>10. PICK x \in Int : x = (k + 1) * u
  OBVIOUS
<1>11. p + q <= x /\ (p + q = x <=> full /\ Full(t))
  BY <1>3, <1>4, <1>8, <1>9, <1>10
<1>12. 0 <= p + q
  BY <1>7
<1> QED
  BY <1>6, <1>7, <1>10, <1>11, <1>12 DEF AddsUp

(* The mean of fractions is full if and only if each of them is.           *)
LEMMA MeanOfFractions ==
  ASSUME NEW seq, seq \in Seq(Proper), seq # << >>
  PROVE  Mean(seq) \in Proper /\ (Full(Mean(seq)) <=> \A k \in DOMAIN seq : Full(seq[k]))
<1> DEFINE N == Len(seq)
           Fold(h, s) == IF s = {} THEN <<0, 1>> ELSE Plus(h[s \ {Max(s)}], seq[Max(s)])
<1>1. N \in Nat /\ N >= 1 /\ DOMAIN seq = 1 .. N /\ IsFiniteSet(DOMAIN seq)
      /\ \A k \in DOMAIN seq : seq[k] \in Proper
  BY FS_Interval
<1> HIDE DEF N
<1>2. ASSUME NEW s \in SUBSET (1 .. N), s # {} PROVE Max(s) \in s
  <2>1. \E x \in s : \A y \in s : x >= y
    <3> DEFINE T == {N - y : y \in s}
    <3>1. T \subseteq Nat /\ T # {}
      <4>1. \A y \in s : N - y \in Nat
        BY <1>1, <1>2
      <4> QED
        BY <1>2, <4>1
    <3>2. PICK z \in T : \A y \in T : ~ (<<y, z>> \in OpToRel(<, Nat))
      BY <3>1, NatLessThanWellFounded, WFMin
    <3>3. ASSUME NEW y \in T PROVE z <= y
      <4>1. y \in Nat /\ z \in Nat
        BY <3>1
      <4>2. ~ (y < z)
        BY <3>2, <4>1 DEF OpToRel
      <4> HIDE DEF T
      <4> QED
        BY <4>1, <4>2
    <3>4. PICK x \in s : z = N - x
      OBVIOUS
    <3>5. \A y \in s : N - y \in T
      OBVIOUS
    <3> HIDE DEF T
    <3>6. \A y \in s : x >= y
      <4> TAKE y \in s
      <4>1. N - x <= N - y
        BY <3>3, <3>4, <3>5
      <4> QED
        BY <1>1, <4>1
    <3> QED
      BY <3>6
  <2> QED
    BY <2>1 DEF Max
<1>3. ASSUME NEW k \in 1 .. N PROVE Max(1 .. k) = k /\ (1 .. k) \ {k} = 1 .. k - 1
  <2>1. PICK s : s = 1 .. k
    OBVIOUS
  <2>2. k \in s /\ \A y \in s : k >= y
    BY <1>1, <2>1
  <2>3. Max(s) \in s /\ Max(s) >= k
    <3>1. \E x \in s : \A y \in s : x >= y
      BY <2>2
    <3> QED
      BY <2>2, <3>1 DEF Max
  <2> QED
    BY <1>1, <2>1, <2>2, <2>3
<1>4. PICK g : /\ g = CHOOSE h : h = [s \in SUBSET (DOMAIN seq) |-> Fold(h, s)]
               /\ Mean(seq) = <<g[DOMAIN seq][1], g[DOMAIN seq][2] * N>>
  BY DEF Mean, FoldLeft, MapThenFoldSet, N
<1>5. g = [s \in SUBSET (1 .. N) |-> Fold(g, s)]
  <2> DEFINE V == Int \X Int
             D == 1 .. N
             pick == [s \in SUBSET D |-> Max(s)]
             op == [z \in D \X V |-> Plus(z[2], seq[z[1]])]
  <2>1. op \in [D \X V -> V]
    <3>1. ASSUME NEW x \in D, NEW y \in V PROVE Plus(y, seq[x]) \in V
      <4>1. seq[x] \in Int \X Int
        BY <1>1 DEF Proper
      <4> QED
        BY <4>1 DEF Plus
    <3> HIDE DEF D, V
    <3> QED
      BY <3>1
  <2>2. <<0, 1>> \in V
    OBVIOUS
  <2>3. \A s \in SUBSET D : s # {} => pick[s] \in s
    BY <1>2
  <2>4. IsFiniteSet(D)
    BY <1>1
  <2>5. PICK f \in [SUBSET D -> V] : Folds(f, D, <<0, 1>>, pick, op)
    <3> HIDE DEF D, V, pick, op
    <3> QED
      BY <2>1, <2>2, <2>3, <2>4, FoldExists
  <2>6. ASSUME NEW s \in SUBSET D PROVE f[s] = Fold(f, s)
    <3>1. CASE s = {}
      BY <2>5, <3>1 DEF Folds
    <3>2. CASE s # {}
      <4>1. f[s] = op[<<pick[s], f[s \ {pick[s]}]>>]
        BY <2>5, <3>2 DEF Folds
      <4>2. PICK x, y : x = Max(s) /\ y = f[s \ {Max(s)}]
        OBVIOUS
      <4>3. x \in D /\ y \in V
        BY <1>2, <3>2, <4>2
      <4>4. op[<<x, y>>] = Plus(y, seq[x])
        BY <4>3
      <4>5. pick[s] = x
        BY <4>2
      <4> HIDE DEF op, pick
      <4> QED
        BY <3>2, <4>1, <4>2, <4>4, <4>5
    <3> QED
      BY <3>1, <3>2
  <2>7. f = [s \in SUBSET D |-> Fold(f, s)]
    <3> HIDE DEF Fold
    <3> QED
      BY <2>6
  <2> HIDE DEF Fold
  <2> QED
    BY <1>1, <1>4, <2>7
<1>6. g[{}] = <<0, 1>>
  BY <1>5
<1>7. ASSUME NEW k \in 1 .. N PROVE g[1 .. k] = Plus(g[1 .. k - 1], seq[k])
  <2>1. PICK s : s = 1 .. k
    OBVIOUS
  <2>2. s \in SUBSET (1 .. N) /\ s # {} /\ Max(s) = k /\ s \ {k} = 1 .. k - 1
    <3>1. k \in s /\ s \in SUBSET (1 .. N)
      BY <1>1, <2>1
    <3>2. Max(s) = k /\ s \ {k} = 1 .. k - 1
      BY <1>3, <2>1
    <3> QED
      BY <3>1, <3>2
  <2>3. g[s] = Fold(g, s)
    <3> HIDE DEF Fold
    <3> QED
      BY <1>5, <2>2
  <2> QED
    BY <2>1, <2>2, <2>3
<1> DEFINE AllFull(k) == \A i \in 1 .. k : Full(seq[i])
           Sound(k) == AddsUp(g[1 .. k], k, AllFull(k))
           S == {k \in Nat : k <= N => Sound(k)}
<1>8. Sound(0)
  <2>1. 1 .. 0 = {} /\ AllFull(0)
    OBVIOUS
  <2> HIDE DEF AllFull
  <2>2. PICK s, full : s = g[1 .. 0] /\ full = AllFull(0)
    OBVIOUS
  <2>3. s = <<0, 1>> /\ full
    BY <1>6, <2>1, <2>2
  <2>4. AddsUp(s, 0, full)
    BY <2>3 DEF AddsUp
  <2> QED
    BY <2>2, <2>4
<1>9. ASSUME NEW k \in Nat, k + 1 <= N, Sound(k) PROVE Sound(k + 1)
  <2>1. k + 1 \in 1 .. N /\ (k + 1) - 1 = k
    BY <1>1, <1>9
  <2>2. g[1 .. k + 1] = Plus(g[1 .. k], seq[k + 1]) /\ seq[k + 1] \in Proper
    BY <1>1, <1>7, <2>1
  <2>3. AllFull(k + 1) <=> AllFull(k) /\ Full(seq[k + 1])
    <3>1. 1 .. k + 1 = (1 .. k) \cup {k + 1}
      OBVIOUS
    <3> QED
      BY <3>1
  <2>4. AllFull(k) \in BOOLEAN /\ AllFull(k + 1) \in BOOLEAN
    OBVIOUS
  <2> HIDE DEF AllFull
  <2>5. PICK s, t, full, full1 : s = g[1 .. k] /\ t = seq[k + 1] /\ full = AllFull(k) /\ full1 = AllFull(k + 1)
    OBVIOUS
  <2>6. AddsUp(s, k, full) /\ t \in Proper /\ full \in BOOLEAN /\ full1 \in BOOLEAN
    BY <1>9, <2>2, <2>4, <2>5
  <2>7. AddsUp(Plus(s, t), k + 1, full /\ Full(t))
    BY <2>6, PlusAddsUp
  <2>8. AddsUp(Plus(s, t), k + 1, full1)
    <3>1. full1 <=> full /\ Full(t)
      BY <2>3, <2>5
    <3> QED
      BY <2>6, <2>7, <3>1 DEF AddsUp
  <2> QED
    BY <2>2, <2>5, <2>8
<1> HIDE DEF Sound
<1>10. Sound(N)
  <2>1. 0 \in S /\ \A k \in Nat : k \in S => k + 1 \in S
    BY <1>1, <1>8, <1>9
  <2>2. Nat \subseteq S
    <3> HIDE DEF S
    <3> QED
      BY <2>1, SetInduction
  <2> QED
    BY <1>1, <2>2
<1>11. PICK a \in Int, b \in Int : g[1 .. N] = <<a, b>>
  BY <1>10 DEF AddsUp, Sound
<1> HIDE DEF AllFull
<1>12. 0 <= a /\ a <= N * b /\ b >= 1 /\ (a = N * b <=> AllFull(N))
  BY <1>10, <1>11 DEF AddsUp, Sound
<1>13. Mean(seq) = <<a, b * N>>
  <2>1. PICK s : s = g[DOMAIN seq]
    OBVIOUS
  <2>2. s = <<a, b>>
    BY <1>1, <1>11, <2>1
  <2> QED
    BY <1>4, <2>1, <2>2
<1>14. b * N = N * b /\ N * b >= 1
  BY <1>1, <1>12
<1>15. Mean(seq) \in Proper /\ (Full(Mean(seq)) <=> AllFull(N))
  BY <1>1, <1>12, <1>13, <1>14 DEF Proper, Full
<1> QED
  BY <1>1, <1>15 DEF AllFull

-----------------------------------------------------------------------------
(* Evaluators *)

(* A verdict and its score agree, but for what a strict one may refuse.    *)
Fair(verdict, strict) ==
  /\ verdict.score \in Proper
  /\ verdict.passed => Full(verdict.score)
  /\ Full(verdict.score) => verdict.passed \/ strict

LEMMA VerdictFair ==
  ASSUME NEW passed, NEW strict
  PROVE  Fair(Verdict(passed), strict)
BY DEF Fair, Verdict, Proper, Full

LEMMA PartialFair ==
  ASSUME NEW good, NEW all, good \subseteq all, IsFiniteSet(all), all # {}
  PROVE  /\ <<Cardinality(good), Cardinality(all)>> \in Proper
         /\ Full(<<Cardinality(good), Cardinality(all)>>) <=> good = all
<1>1. /\ IsFiniteSet(good) /\ Cardinality(good) <= Cardinality(all)
      /\ (Cardinality(good) = Cardinality(all) => good = all)
  BY FS_Subset
<1>2. Cardinality(good) \in Nat /\ Cardinality(all) \in Nat /\ Cardinality(all) # 0
  BY <1>1, FS_CardinalityType, FS_EmptySet
<1> QED
  BY <1>1, <1>2 DEF Proper, Full

LEMMA PartFair ==
  ASSUME NEW good, NEW all, good \subseteq all, IsFiniteSet(all), all # {}, NEW strict
  PROVE  Fair(Part(good, all), strict)
<1>1. PICK v : v = Part(good, all)
  OBVIOUS
<1>2. PICK s : s = <<Cardinality(good), Cardinality(all)>>
  OBVIOUS
<1>3. v.passed = (good = all) /\ v.score = s
  BY <1>1, <1>2 DEF Part
<1>4. s \in Proper /\ (Full(s) <=> good = all)
  BY <1>2, PartialFair
<1>5. Fair(v, strict)
  BY <1>3, <1>4 DEF Fair
<1> QED
  BY <1>1, <1>5

StrictOne(cfg) == cfg.name = "expected_tools" /\ cfg.strict

FiniteLists(cfg) == \A f \in DOMAIN cfg \cap {"fields", "words", "keys"} : IsFiniteSet(cfg[f])

LEMMA EvaluateFair ==
  ASSUME NEW cfg, ValidConfig(cfg), FiniteLists(cfg), NEW case, IsFiniteSet(case.tools), NEW out
  PROVE  Fair(Evaluate(cfg, case, out), StrictOne(cfg))
<1>1. /\ cfg.name \in {"exact_match", "word_presence", "json_structure", "expected_tools",
                       "cost_limit", "latency_limit", "required_source"}
      /\ cfg.name \in {"word_presence", "required_source"} => "words" \in DOMAIN cfg
      /\ cfg.name = "json_structure" => "keys" \in DOMAIN cfg
      /\ \A f \in DOMAIN cfg \cap {"fields", "words"} : cfg[f] # {}
  BY DEF ValidConfig, Needed
<1>2. CASE cfg.name = "exact_match"
  <2>1. Evaluate(cfg, case, out) = ExactMatch(cfg, case, out)
    BY <1>2 DEF Evaluate
  <2>2. CASE case.expected # Null /\ "fields" \in DOMAIN cfg
    <3> DEFINE good == {f \in cfg.fields : FieldOf(case.expected, f) = FieldOf(out.output, f)}
    <3>1. ExactMatch(cfg, case, out) = Part(good, cfg.fields)
      BY <2>2 DEF ExactMatch
    <3>2. good \subseteq cfg.fields /\ IsFiniteSet(cfg.fields) /\ cfg.fields # {}
      BY <1>1, <2>2 DEF FiniteLists
    <3> HIDE DEF good
    <3> QED
      BY <2>1, <3>1, <3>2, PartFair
  <2>3. CASE ~ (case.expected # Null /\ "fields" \in DOMAIN cfg)
    <3>1. \E passed : ExactMatch(cfg, case, out) = Verdict(passed)
      BY <2>3 DEF ExactMatch
    <3> QED
      BY <2>1, <3>1, VerdictFair
  <2> QED
    BY <2>2, <2>3
<1>3. CASE cfg.name = "word_presence"
  <2>1. Evaluate(cfg, case, out) = Part(cfg.words \cap out.words, cfg.words)
    BY <1>3 DEF Evaluate
  <2>2. IsFiniteSet(cfg.words) /\ cfg.words # {} /\ cfg.words \cap out.words \subseteq cfg.words
    BY <1>1, <1>3 DEF FiniteLists
  <2> QED
    BY <2>1, <2>2, PartFair
<1>4. CASE cfg.name = "json_structure"
  <2>1. Evaluate(cfg, case, out) = JsonStructure(cfg, out)
    BY <1>4 DEF Evaluate
  <2>2. CASE cfg.keys = {}
    BY <2>1, <2>2, VerdictFair DEF JsonStructure
  <2>3. CASE cfg.keys # {}
    <3>1. IsFiniteSet(cfg.keys) /\ cfg.keys \cap DOMAIN out.output \subseteq cfg.keys
      BY <1>1, <1>4 DEF FiniteLists
    <3> QED
      BY <2>1, <2>3, <3>1, PartFair DEF JsonStructure
  <2> QED
    BY <2>2, <2>3
<1>5. CASE cfg.name = "expected_tools"
  <2>1. Evaluate(cfg, case, out) = ExpectedTools(cfg, case, out)
    BY <1>5 DEF Evaluate
  <2>2. CASE case.tools = {}
    BY <2>1, <2>2, VerdictFair DEF ExpectedTools
  <2>3. CASE case.tools # {}
    <3> DEFINE good == case.tools \cap out.tools
               v == ExpectedTools(cfg, case, out)
    <3>1. /\ v.passed = (case.tools \subseteq out.tools /\ (cfg.strict => out.tools \subseteq case.tools))
          /\ v.score = <<Cardinality(good), Cardinality(case.tools)>>
      BY <2>3 DEF ExpectedTools
    <3>2. good \subseteq case.tools /\ (good = case.tools <=> case.tools \subseteq out.tools)
      OBVIOUS
    <3> HIDE DEF good, v
    <3>3. v.score \in Proper /\ (Full(v.score) <=> case.tools \subseteq out.tools)
      BY <2>3, <3>1, <3>2, PartialFair
    <3>4. v.passed => case.tools \subseteq out.tools
      BY <3>1
    <3>5. case.tools \subseteq out.tools => v.passed \/ cfg.strict
      BY <3>1
    <3>6. Fair(v, StrictOne(cfg))
      BY <1>5, <3>3, <3>4, <3>5 DEF Fair, StrictOne
    <3> QED
      BY <2>1, <3>6 DEF v
  <2> QED
    BY <2>2, <2>3
<1>6. CASE cfg.name \in {"cost_limit", "latency_limit", "required_source"}
  <2>1. \E passed : Evaluate(cfg, case, out) = Verdict(passed)
    BY <1>6 DEF Evaluate, CostLimit
  <2> QED
    BY <2>1, VerdictFair
<1> QED
  BY <1>1, <1>2, <1>3, <1>4, <1>5, <1>6

LEMMA RunEvaluatorsFair ==
  ASSUME NEW configs, configs \in Seq(ToSet(configs)),
         \A k \in DOMAIN configs : ValidConfig(configs[k]) /\ FiniteLists(configs[k]),
         NEW case, IsFiniteSet(case.tools), NEW out
  PROVE  Fair(RunEvaluators(configs, case, out), \E k \in DOMAIN configs : StrictOne(configs[k]))
<1> DEFINE verdicts == [k \in DOMAIN configs |-> Evaluate(configs[k], case, out)]
           scores == [k \in DOMAIN configs |-> verdicts[k].score]
           strict == \E k \in DOMAIN configs : StrictOne(configs[k])
           v == RunEvaluators(configs, case, out)
<1>1. CASE configs = << >>
  BY <1>1, VerdictFair DEF RunEvaluators
<1>2. CASE configs # << >>
  <2>1. v.passed = (\A k \in DOMAIN configs : verdicts[k].passed) /\ v.score = Mean(scores)
    BY <1>2 DEF RunEvaluators
  <2>2. ASSUME NEW k \in DOMAIN configs PROVE Fair(verdicts[k], StrictOne(configs[k]))
    BY EvaluateFair
  <2> HIDE DEF verdicts, v
  <2>3. \A k \in DOMAIN configs : scores[k] = verdicts[k].score /\ scores[k] \in Proper
    BY <2>2 DEF Fair
  <2>4. scores \in Seq(Proper) /\ DOMAIN scores = DOMAIN configs /\ scores # << >>
    <3>1. scores = [k \in DOMAIN configs |-> scores[k]] /\ DOMAIN scores = DOMAIN configs
      OBVIOUS
    <3>2. DOMAIN configs # {}
      BY <1>2
    <3> HIDE DEF scores
    <3>3. scores \in Seq(Proper)
      BY <2>3, <3>1, RowByRow
    <3> QED
      BY <3>1, <3>2, <3>3
  <2> HIDE DEF scores
  <2>5. Mean(scores) \in Proper /\ (Full(Mean(scores)) <=> \A k \in DOMAIN scores : Full(scores[k]))
    BY <2>4, MeanOfFractions
  <2>6. ASSUME \A k \in DOMAIN configs : verdicts[k].passed PROVE Full(Mean(scores))
    BY <2>2, <2>3, <2>4, <2>5, <2>6 DEF Fair
  <2>7. ASSUME Full(Mean(scores)) PROVE (\A k \in DOMAIN configs : verdicts[k].passed) \/ strict
    BY <2>2, <2>3, <2>4, <2>5, <2>7 DEF Fair
  <2> HIDE DEF strict
  <2>8. Fair(v, strict)
    BY <2>1, <2>5, <2>6, <2>7 DEF Fair
  <2> QED
    BY <2>8 DEF v, strict
<1> QED
  BY <1>1, <1>2

-----------------------------------------------------------------------------
(* Runs and their results *)

RunColumns == {"dataset", "agent", "provider", "status", "config", "total", "executed", "errors",
               "unpriced", "passed", "pass_rate", "score", "cost"}

ResultColumns == {"run", "case", "passed", "score", "status", "cost", "row", "review"}

StrictList(config) == \E k \in DOMAIN config : StrictOne(config[k])

ResultFits(row, config) ==
  /\ ResultColumns \subseteq DOMAIN row /\ KnownCost(row) \in Int
  /\ row.passed => FullScore(row)
  /\ FullScore(row) => row.passed \/ StrictList(config)

InStatus(table, D, status) == {n \in D : table[n].status = status}

Passes(table, D) == {n \in D : table[n].passed}

(* The counters of a run tell of the rows at D of a table, a result each,  *)
Counts(run, table, D) ==
  /\ run.executed = Cardinality(D)
  /\ run.errors = Cardinality(InStatus(table, D, "ERROR"))
  /\ run.unpriced = Cardinality(InStatus(table, D, "UNPRICED"))

(* and what it ends with is their sum.                                     *)
Completes(run, table, D) ==
  /\ run.total \in Nat /\ run.total = run.executed /\ run.passed = Cardinality(Passes(table, D))
  /\ Passes(table, D) = D /\ D # {} => FullScore(run)
  /\ Totals(run.cost, table, D)
  /\ run.pass_rate = IF run.total = 0 THEN Null ELSE <<run.passed, run.total>>

Distinct(table, D) == \A m, n \in D : table[m].case = table[n].case => m = n

Summed(run, table, D) ==
  /\ IsFiniteSet(D) /\ DOMAIN run = RunColumns /\ run.status \in {"COMPLETED", "FAILED"}
  /\ IF run.total = Null THEN D = {} ELSE Counts(run, table, D)
  /\ run.status = "COMPLETED" => Completes(run, table, D)
  /\ Distinct(table, D)
  /\ \A n \in D : ResultFits(table[n], run.config)

(* Only the agent of a run, and the run and the review of a result, differ. *)
SameRun(run, new) == DOMAIN new = RunColumns /\ \A f \in RunColumns \ {"agent"} : new[f] = run[f]

SameResult(row, new) ==
  ResultColumns \subseteq DOMAIN new /\ \A f \in ResultColumns \ {"run", "review"} : new[f] = row[f]

Onto(f, D, E) == E = {f[n] : n \in D} /\ \A m, n \in D : f[m] = f[n] => m = n

LEMMA ImageCardinality ==
  ASSUME NEW D, IsFiniteSet(D), NEW f, NEW E, Onto(f, D, E)
  PROVE  IsFiniteSet(E) /\ Cardinality(E) = Cardinality(D)
<1> DEFINE g == [n \in D |-> f[n]]
<1>1. g \in Bijection(D, E)
  BY DEF Bijection, Injection, Surjection, IsInjective, Onto
<1>2. ExistsBijection(D, E)
  BY <1>1 DEF ExistsBijection
<1> QED
  BY <1>2, FS_Bijection

Shifted(D, d) == {d + n : n \in D}

LEMMA ShiftedCardinality ==
  ASSUME NEW D, D \subseteq Int, IsFiniteSet(D), NEW d \in Int
  PROVE  IsFiniteSet(Shifted(D, d)) /\ Cardinality(Shifted(D, d)) = Cardinality(D)
<1> DEFINE f == [n \in D |-> d + n]
<1>1. Onto(f, D, Shifted(D, d))
  BY DEF Onto, Shifted
<1> HIDE DEF f
<1> QED
  BY <1>1, ImageCardinality

(* What a run tells of its results stays true of the same ones elsewhere.  *)
LEMMA SummedMoves ==
  ASSUME NEW run, NEW table, NEW D, D \subseteq Int, Summed(run, table, D),
         NEW new, SameRun(run, new), NEW d \in Int,
         NEW other, \A n \in D : SameResult(table[n], other[d + n])
  PROVE  Summed(new, other, Shifted(D, d))
<1> DEFINE E == Shifted(D, d)
<1>1. IsFiniteSet(D) /\ IsFiniteSet(E) /\ Cardinality(E) = Cardinality(D)
  BY ShiftedCardinality DEF Summed
<1>2. \A f \in RunColumns \ {"agent"} : new[f] = run[f]
  BY DEF SameRun
<1>3. /\ new.status = run.status /\ new.config = run.config /\ new.total = run.total
      /\ new.executed = run.executed /\ new.errors = run.errors /\ new.unpriced = run.unpriced
      /\ new.passed = run.passed /\ new.pass_rate = run.pass_rate /\ new.score = run.score
      /\ new.cost = run.cost
  BY <1>2 DEF RunColumns
<1>4. ASSUME NEW n \in D
      PROVE  /\ d + n \in E /\ ResultColumns \subseteq DOMAIN other[d + n]
             /\ other[d + n].case = table[n].case /\ other[d + n].passed = table[n].passed
             /\ other[d + n].score = table[n].score /\ other[d + n].status = table[n].status
             /\ other[d + n].cost = table[n].cost
  BY DEF Shifted, SameResult, ResultColumns
<1>5. \A e \in E : \E n \in D : e = d + n
  BY DEF Shifted
<1>6. \A m, n \in D : d + m = d + n => m = n
  OBVIOUS
<1>7. ASSUME NEW status
      PROVE  Cardinality(InStatus(other, E, status)) = Cardinality(InStatus(table, D, status))
  <2>1. InStatus(other, E, status) = Shifted(InStatus(table, D, status), d)
    BY <1>4, <1>5 DEF InStatus, Shifted
  <2>2. InStatus(table, D, status) \subseteq D
    BY DEF InStatus
  <2>3. IsFiniteSet(InStatus(table, D, status))
    BY <1>1, <2>2, FS_Subset
  <2> QED
    BY <2>1, <2>2, <2>3, ShiftedCardinality
<1>8. Cardinality(Passes(other, E)) = Cardinality(Passes(table, D)) /\ (Passes(other, E) = E => Passes(table, D) = D)
  <2>1. Passes(other, E) = Shifted(Passes(table, D), d)
    BY <1>4, <1>5 DEF Passes, Shifted
  <2>2. Passes(table, D) \subseteq D
    BY DEF Passes
  <2>3. IsFiniteSet(Passes(table, D))
    BY <1>1, <2>2, FS_Subset
  <2>4. ASSUME Passes(other, E) = E PROVE Passes(table, D) = D
    BY <1>4, <2>4 DEF Passes
  <2> QED
    BY <2>1, <2>2, <2>3, <2>4, ShiftedCardinality
<1>9. ASSUME NEW v, Totals(v, table, D) PROVE Totals(v, other, E)
  <2>1. \A n \in D : KnownCost(other[d + n]) = KnownCost(table[n])
    BY <1>4 DEF KnownCost
  <2> QED
    BY <1>9, <2>1, TotalMoves DEF Shifted
<1>10. D = {} <=> E = {}
  BY <1>4, <1>5
<1> HIDE DEF E
<1>11. Counts(run, table, D) => Counts(new, other, E)
  BY <1>1, <1>3, <1>7 DEF Counts
<1>12. Completes(run, table, D) => Completes(new, other, E)
  BY <1>3, <1>8, <1>9, <1>10 DEF Completes, FullScore
<1>13. Distinct(other, E)
  <2> SUFFICES ASSUME NEW x \in E, NEW y \in E, other[x].case = other[y].case PROVE x = y
    BY DEF Distinct
  <2>1. PICK m \in D, n \in D : x = d + m /\ y = d + n
    BY <1>5
  <2> QED
    BY <1>4, <2>1 DEF Summed, Distinct
<1>14. ASSUME NEW e \in E PROVE ResultFits(other[e], new.config)
  <2>1. PICK n \in D : e = d + n
    BY <1>5
  <2>2. ResultFits(table[n], run.config)
    BY DEF Summed
  <2> QED
    BY <1>3, <1>4, <2>1, <2>2 DEF ResultFits, FullScore, KnownCost
<1>15. DOMAIN new = RunColumns
  BY DEF SameRun
<1> QED
  BY <1>1, <1>3, <1>10, <1>11, <1>12, <1>13, <1>14, <1>15 DEF Summed, E

LEMMA SummedStays ==
  ASSUME NEW run, NEW table, NEW D, D \subseteq Int, Summed(run, table, D),
         NEW new, SameRun(run, new), NEW other, \A n \in D : SameResult(table[n], other[n])
  PROVE  Summed(new, other, D)
<1>1. \A n \in D : 0 + n = n
  OBVIOUS
<1>2. Shifted(D, 0) = D
  BY <1>1 DEF Shifted
<1>3. PICK d \in Int : d = 0
  OBVIOUS
<1>4. \A n \in D : SameResult(table[n], other[d + n])
  BY <1>1, <1>3
<1>5. Summed(new, other, Shifted(D, d))
  BY <1>4, SummedMoves
<1> QED
  BY <1>2, <1>3, <1>5

-----------------------------------------------------------------------------
(* A run in progress *)

(* The scores so far; if no result failed there is one of each, and full.  *)
Scored(scores, rows) ==
  /\ scores \in Seq(Proper)
  /\ Passes(rows, DOMAIN rows) = DOMAIN rows =>
       Len(scores) = Len(rows) /\ \A k \in DOMAIN scores : Full(scores[k])

(* Each case is still to do or done once.                                  *)
OnceEach(todo, rows, known) ==
  /\ IsSeq(todo) /\ \A k \in DOMAIN todo : todo[k] \in known
  /\ \A j, k \in DOMAIN todo : todo[j] = todo[k] => j = k
  /\ \A k \in DOMAIN todo : \A n \in DOMAIN rows : rows[n].case # todo[k]
  /\ Distinct(rows, DOMAIN rows)

Doing(w, known) ==
  /\ OnceEach(w.todo, w.results, known)
  /\ w.run.total \in Nat /\ w.run.total = Len(w.todo) + Len(w.results)
  /\ Counts(w.run, w.results, DOMAIN w.results)
  /\ w.passed = Cardinality(Passes(w.results, DOMAIN w.results))
  /\ Scored(w.scores, w.results)
  /\ Totals(w.cost, w.results, DOMAIN w.results)

(* What the session of a run holds at each label, of the cases there are.  *)
Session(label, w, config, known) ==
  /\ DOMAIN w = RunSession /\ DOMAIN w.run = RunColumns /\ w.run.config = config /\ IsSeq(w.results)
  /\ \A n \in DOMAIN w.results : ResultFits(w.results[n], config)
  /\ label = "scan" => w.run.total = Null /\ w.results = << >>
  /\ label = "check" => Doing(w, known)
  /\ label = "commit" => Summed(w.run, w.results, DOMAIN w.results)

LEMMA SeqDomain ==
  ASSUME NEW s, IsSeq(s)
  PROVE  /\ IsFiniteSet(DOMAIN s) /\ Cardinality(DOMAIN s) = Len(s) /\ DOMAIN s \subseteq Int
         /\ Len(s) \in Nat /\ DOMAIN s = 1 .. Len(s)
<1>1. PICK n \in Nat : n = Len(s) /\ DOMAIN s = 1 .. n
  BY SeqFacts
<1>2. IsFiniteSet(1 .. n) /\ Cardinality(1 .. n) = IF 1 > n THEN 0 ELSE n - 1 + 1
  BY FS_Interval
<1>3. Cardinality(1 .. n) = n
  BY <1>2
<1> QED
  BY <1>1, <1>2, <1>3

LEMMA SessionCreated ==
  ASSUME NEW q, NEW known
  PROVE  Session("scan", Executing(NewRun(q), << >>), EvaluatorsOf(q), known)
<1> DEFINE run == NewRun(q)
           w == Executing(run, << >>)
<1>1. DOMAIN run = RunColumns /\ run.config = EvaluatorsOf(q) /\ run.total = Null
  BY DEF NewRun, RunColumns
<1> HIDE DEF run
<1>2. DOMAIN w = RunSession /\ w.run = run /\ w.results = << >>
  BY DEF Executing, RunSession
<1> HIDE DEF w
<1>3. IsSeq(w.results) /\ DOMAIN w.results = {}
  BY <1>2, EmptyAny
<1>4. Session("scan", w, EvaluatorsOf(q), known)
  BY <1>1, <1>2, <1>3 DEF Session
<1> QED
  BY <1>4 DEF w, run

LEMMA SessionFailed ==
  ASSUME NEW label \in {"scan", "check"}, NEW w, NEW config, NEW known, Session(label, w, config, known)
  PROVE  Session("commit", [w EXCEPT !.run.status = "FAILED"], config, known)
<1> DEFINE v == [w EXCEPT !.run.status = "FAILED"]
<1>1. DOMAIN w = RunSession /\ DOMAIN w.run = RunColumns /\ w.run.config = config /\ IsSeq(w.results)
  BY DEF Session
<1>2. /\ DOMAIN v = RunSession /\ v.results = w.results /\ DOMAIN v.run = RunColumns
      /\ v.run.status = "FAILED" /\ \A f \in RunColumns \ {"status"} : v.run[f] = w.run[f]
  BY <1>1 DEF RunSession, RunColumns
<1> HIDE DEF v
<1>3. PICK run, old, rows : run = v.run /\ old = w.run /\ rows = w.results
  OBVIOUS
<1>4. /\ run.status = "FAILED" /\ run.config = old.config /\ run.total = old.total
      /\ run.executed = old.executed /\ run.errors = old.errors /\ run.unpriced = old.unpriced
  BY <1>2, <1>3 DEF RunColumns
<1>5. IF run.total = Null THEN DOMAIN rows = {} ELSE Counts(run, rows, DOMAIN rows)
  <2>1. CASE label = "scan"
    <3>1. run.total = Null /\ rows = << >>
      BY <1>3, <1>4, <2>1 DEF Session
    <3> QED
      BY <3>1
  <2>2. CASE label = "check"
    <3>1. Doing(w, known)
      BY <2>2 DEF Session
    <3>2. Counts(old, rows, DOMAIN rows) /\ old.total \in Nat
      BY <1>3, <3>1 DEF Doing
    <3>3. run.total # Null
      BY <1>4, <3>2, EvaluationsAssumption
    <3> QED
      BY <1>4, <3>2, <3>3 DEF Counts
  <2> QED
    BY <2>1, <2>2
<1>6. Distinct(rows, DOMAIN rows)
  <2>1. CASE label = "scan"
    <3>1. rows = << >>
      BY <1>3, <2>1 DEF Session
    <3> QED
      BY <3>1 DEF Distinct
  <2>2. CASE label = "check"
    BY <1>3, <2>2 DEF Session, Doing, OnceEach
  <2> QED
    BY <2>1, <2>2
<1>7. \A n \in DOMAIN rows : ResultFits(rows[n], config)
  BY <1>3 DEF Session
<1>8. IsFiniteSet(DOMAIN rows)
  BY <1>1, <1>3, SeqDomain
<1>9. Summed(run, rows, DOMAIN rows)
  BY <1>1, <1>2, <1>3, <1>4, <1>5, <1>6, <1>7, <1>8 DEF Summed
<1>10. DOMAIN v.run = RunColumns /\ v.run.config = config /\ IsSeq(v.results)
  BY <1>1, <1>2, <1>3, <1>4
<1>11. Session("commit", v, config, known)
  BY <1>2, <1>3, <1>7, <1>9, <1>10 DEF Session
<1> QED
  BY <1>11 DEF v

LEMMA NothingCounted ==
  ASSUME NEW table
  PROVE  /\ Cardinality({}) = 0 /\ Passes(table, {}) = {} /\ \A status : InStatus(table, {}, status) = {}
         /\ Totals(0, table, {})
BY FS_EmptySet, TotalOfNone DEF Passes, InStatus

LEMMA SessionStarted ==
  ASSUME NEW w, NEW config, NEW known, Session("scan", w, config, known),
         NEW todo, IsSeq(todo), \A k \in DOMAIN todo : todo[k] \in known,
         \A j, k \in DOMAIN todo : todo[j] = todo[k] => j = k
  PROVE  LET run == [w.run EXCEPT !.status = "RUNNING", !.total = Len(todo),
                                  !.executed = 0, !.errors = 0, !.unpriced = 0]
         IN Session("check", Executing(run, todo), config, known)
<1> DEFINE run == [w.run EXCEPT !.status = "RUNNING", !.total = Len(todo),
                                !.executed = 0, !.errors = 0, !.unpriced = 0]
           v == Executing(run, todo)
<1>1. DOMAIN w.run = RunColumns /\ w.run.config = config
  BY DEF Session
<1>2. /\ DOMAIN run = RunColumns /\ run.config = config /\ run.total = Len(todo)
      /\ run.executed = 0 /\ run.errors = 0 /\ run.unpriced = 0
  BY <1>1 DEF RunColumns
<1> HIDE DEF run
<1>3. /\ DOMAIN v = RunSession /\ v.run = run /\ v.todo = todo /\ v.results = << >> /\ v.scores = << >>
      /\ v.passed = 0 /\ v.cost = 0
  BY DEF Executing, RunSession
<1> HIDE DEF v
<1>4. PICK rows, none : rows = << >> /\ none = << >>
  OBVIOUS
<1>5. IsSeq(rows) /\ DOMAIN rows = {} /\ Len(rows) = 0 /\ none \in Seq(Proper) /\ DOMAIN none = {} /\ Len(none) = 0
  BY <1>4, EmptyAny
<1>6. Len(todo) \in Nat
  BY SeqFacts
<1>7. Counts(run, rows, {}) /\ Cardinality(Passes(rows, {})) = 0 /\ Totals(0, rows, {})
  BY <1>2, NothingCounted DEF Counts
<1>8. Scored(none, rows)
  BY <1>5 DEF Scored
<1>9. OnceEach(todo, rows, known)
  BY <1>5 DEF OnceEach, Distinct
<1>10. Doing(v, known)
  BY <1>2, <1>3, <1>4, <1>5, <1>6, <1>7, <1>8, <1>9 DEF Doing
<1>11. Session("check", v, config, known)
  BY <1>2, <1>3, <1>4, <1>5, <1>10 DEF Session
<1> QED
  BY <1>11 DEF v, run

LEMMA TailAny ==
  ASSUME NEW s, IsSeq(s), s # << >>
  PROVE  /\ IsSeq(Tail(s)) /\ Len(Tail(s)) = Len(s) - 1 /\ 1 \in DOMAIN s /\ Head(s) = s[1]
         /\ \A k \in DOMAIN Tail(s) : k \in Nat /\ k + 1 \in DOMAIN s /\ k + 1 # 1 /\ Tail(s)[k] = s[k + 1]
<1>1. PICK S : s \in Seq(S)
  BY DEF IsSeq
<1>2. Len(s) \in Nat /\ Len(s) >= 1 /\ DOMAIN s = 1 .. Len(s)
  BY <1>1
<1>3. /\ Tail(s) \in Seq(S) /\ Len(Tail(s)) = Len(s) - 1 /\ Head(s) = s[1]
      /\ \A k \in 1 .. Len(Tail(s)) : Tail(s)[k] = s[k + 1]
  BY <1>1, HeadTailProperties
<1>4. PICK t : t = Tail(s)
  OBVIOUS
<1>5. t \in Seq(S) /\ Len(t) = Len(s) - 1 /\ DOMAIN t = 1 .. Len(t)
  BY <1>3, <1>4
<1>6. IsSeq(t)
  BY <1>5, AnySeq
<1> QED
  BY <1>2, <1>3, <1>4, <1>5, <1>6

LEMMA OneMore ==
  ASSUME NEW D, IsFiniteSet(D), NEW T, T \subseteq D, NEW m, m \notin D
  PROVE  Cardinality(T) \in Nat /\ Cardinality(T \cup {m}) = Cardinality(T) + 1
<1>1. IsFiniteSet(T) /\ m \notin T
  BY FS_Subset
<1> QED
  BY <1>1, FS_CardinalityType, FS_AddElement

LEMMA RowsGrow ==
  ASSUME NEW rows, IsSeq(rows), NEW result, NEW new, new = Append(rows, result)
  PROVE  /\ IsSeq(new) /\ DOMAIN new = DOMAIN rows \cup {Len(rows) + 1} /\ Len(rows) + 1 \notin DOMAIN rows
         /\ Len(new) = Len(rows) + 1 /\ Len(rows) \in Nat
         /\ new[Len(rows) + 1] = result /\ \A n \in DOMAIN rows : new[n] = rows[n]
BY AppendAny, SeqFacts

(* What is counted of the rows with one more.                              *)
OneMoreIf(more, old, new) == Cardinality(new) = Cardinality(old) + IF more THEN 1 ELSE 0

LEMMA RowsCounted ==
  ASSUME NEW rows, IsSeq(rows), NEW result, NEW new, new = Append(rows, result)
  PROVE  Cardinality(DOMAIN new) = Cardinality(DOMAIN rows) + 1
<1>1. PICK D, m : D = DOMAIN rows /\ DOMAIN new = D \cup {m} /\ m \notin D
  BY RowsGrow
<1>2. IsFiniteSet(D)
  BY <1>1, SeqDomain
<1> QED
  BY <1>1, <1>2, OneMore

LEMMA StatusCounted ==
  ASSUME NEW rows, IsSeq(rows), NEW result, NEW new, new = Append(rows, result), NEW status
  PROVE  OneMoreIf(result.status = status, InStatus(rows, DOMAIN rows, status), InStatus(new, DOMAIN new, status))
<1>1. PICK D, E, m : /\ D = DOMAIN rows /\ E = DOMAIN new /\ E = D \cup {m} /\ m \notin D
                     /\ new[m] = result /\ \A n \in D : new[n] = rows[n]
  BY RowsGrow
<1>2. IsFiniteSet(D)
  BY <1>1, SeqDomain
<1>3. PICK T : T = InStatus(rows, D, status) /\ T \subseteq D
  BY DEF InStatus
<1>4. Cardinality(T) \in Nat /\ Cardinality(T \cup {m}) = Cardinality(T) + 1
  BY <1>1, <1>2, <1>3, OneMore
<1>5. CASE result.status = status
  <2>1. InStatus(new, E, status) = T \cup {m}
    BY <1>1, <1>3, <1>5 DEF InStatus
  <2> QED
    BY <1>1, <1>3, <1>4, <1>5, <2>1 DEF OneMoreIf
<1>6. CASE result.status # status
  <2>1. InStatus(new, E, status) = T
    BY <1>1, <1>3, <1>6 DEF InStatus
  <2> QED
    BY <1>1, <1>3, <1>4, <1>6, <2>1 DEF OneMoreIf
<1> QED
  BY <1>5, <1>6

LEMMA PassesCounted ==
  ASSUME NEW rows, IsSeq(rows), NEW result, NEW new, new = Append(rows, result)
  PROVE  Cardinality(Passes(new, DOMAIN new))
           = Cardinality(Passes(rows, DOMAIN rows)) + IF result.passed THEN 1 ELSE 0
<1>1. PICK D, E, m : /\ D = DOMAIN rows /\ E = DOMAIN new /\ E = D \cup {m} /\ m \notin D
                     /\ new[m] = result /\ \A n \in D : new[n] = rows[n]
  BY RowsGrow
<1>2. IsFiniteSet(D)
  BY <1>1, SeqDomain
<1>3. PICK T : T = Passes(rows, D) /\ T \subseteq D
  BY DEF Passes
<1>4. Cardinality(T) \in Nat /\ Cardinality(T \cup {m}) = Cardinality(T) + 1
  BY <1>1, <1>2, <1>3, OneMore
<1>5. CASE result.passed
  <2>1. T = {n \in D : new[n].passed} /\ new[m].passed
    BY <1>1, <1>3, <1>5 DEF Passes
  <2>2. {n \in D \cup {m} : new[n].passed} = T \cup {m}
    BY <2>1
  <2>3. Passes(new, E) = T \cup {m}
    BY <1>1, <2>2 DEF Passes
  <2> QED
    BY <1>1, <1>3, <1>4, <1>5, <2>3
<1>6. CASE ~ result.passed
  <2>1. Passes(new, E) = T
    BY <1>1, <1>3, <1>6 DEF Passes
  <2> QED
    BY <1>1, <1>3, <1>4, <1>6, <2>1
<1> QED
  BY <1>5, <1>6

(* What execute_run adds to the session for a case.                        *)
Added(w, result) ==
  [run     |-> Counted(w.run, result),
   todo    |-> Tail(w.todo),
   results |-> Append(w.results, result),
   scores  |-> IF result.status = "ERROR" THEN w.scores ELSE Append(w.scores, result.score),
   passed  |-> w.passed + IF result.passed THEN 1 ELSE 0,
   cost    |-> w.cost + KnownCost(result)]

(* A result of a case: with a score, or an error.                          *)
Judged(result, config) ==
  /\ ResultFits(result, config)
  /\ IF result.status = "ERROR" THEN ~ result.passed ELSE result.score \in Proper

LEMMA OnceEachAdds ==
  ASSUME NEW todo, todo # << >>, NEW rows, IsSeq(rows), NEW known, OnceEach(todo, rows, known),
         NEW result, result.case = Head(todo)
  PROVE  OnceEach(Tail(todo), Append(rows, result), known) /\ Len(Tail(todo)) = Len(todo) - 1
<1>1. IsSeq(todo) /\ IsSeq(rows)
  BY DEF OnceEach
<1>2. PICK t : t = Tail(todo)
  OBVIOUS
<1>3. PICK new : new = Append(rows, result)
  OBVIOUS
<1>4. /\ IsSeq(t) /\ Len(t) = Len(todo) - 1 /\ 1 \in DOMAIN todo /\ result.case = todo[1]
      /\ \A k \in DOMAIN t : k \in Nat /\ k + 1 \in DOMAIN todo /\ k + 1 # 1 /\ t[k] = todo[k + 1]
  BY <1>1, <1>2, TailAny
<1>5. PICK m : /\ DOMAIN new = DOMAIN rows \cup {m} /\ m \notin DOMAIN rows
               /\ new[m] = result /\ \A n \in DOMAIN rows : new[n] = rows[n]
  BY <1>1, <1>3, RowsGrow
<1>6. /\ \A k \in DOMAIN todo : todo[k] \in known
      /\ \A j, k \in DOMAIN todo : todo[j] = todo[k] => j = k
      /\ \A k \in DOMAIN todo : \A n \in DOMAIN rows : rows[n].case # todo[k]
      /\ \A j, n \in DOMAIN rows : rows[j].case = rows[n].case => j = n
  BY DEF OnceEach, Distinct
<1>7. /\ \A k \in DOMAIN t : t[k] \in known
      /\ \A j, k \in DOMAIN t : t[j] = t[k] => j = k
  BY <1>4, <1>6
<1>8. ASSUME NEW k \in DOMAIN t, NEW n \in DOMAIN new PROVE new[n].case # t[k]
  BY <1>4, <1>5, <1>6
<1>9. ASSUME NEW j \in DOMAIN new, NEW n \in DOMAIN new, new[j].case = new[n].case PROVE j = n
  BY <1>4, <1>5, <1>6, <1>9
<1>10. OnceEach(t, new, known)
  BY <1>4, <1>7, <1>8, <1>9 DEF OnceEach, Distinct
<1> QED
  BY <1>2, <1>3, <1>4, <1>10

LEMMA ScoredAdds ==
  ASSUME NEW scores, NEW rows, IsSeq(rows), Scored(scores, rows), NEW config, NEW result, Judged(result, config)
  PROVE  Scored(IF result.status = "ERROR" THEN scores ELSE Append(scores, result.score), Append(rows, result))
<1>1. PICK new : new = Append(rows, result)
  OBVIOUS
<1>2. /\ Len(new) = Len(rows) + 1
      /\ Passes(new, DOMAIN new) = DOMAIN new => Passes(rows, DOMAIN rows) = DOMAIN rows /\ result.passed
  <2>1. PICK m : /\ Len(new) = Len(rows) + 1 /\ DOMAIN new = DOMAIN rows \cup {m} /\ m \notin DOMAIN rows
                 /\ new[m] = result /\ \A n \in DOMAIN rows : new[n] = rows[n]
    BY <1>1, RowsGrow
  <2> QED
    BY <2>1 DEF Passes
<1>3. CASE result.status = "ERROR"
  <2>1. ~ result.passed
    BY <1>3 DEF Judged
  <2>2. Scored(scores, new)
    BY <1>2, <2>1 DEF Scored
  <2> QED
    BY <1>1, <1>3, <2>2
<1>4. CASE result.status # "ERROR"
  <2>1. PICK score : score = result.score
    OBVIOUS
  <2>2. score \in Proper /\ (result.passed => Full(score))
    BY <1>4, <2>1 DEF Judged, ResultFits, FullScore, Full
  <2>3. PICK more : more = Append(scores, score)
    OBVIOUS
  <2>4. scores \in Seq(Proper)
    BY DEF Scored
  <2>5. more \in Seq(Proper) /\ IsSeq(scores)
    BY <2>2, <2>3, <2>4, AnySeq
  <2>6. /\ Len(more) = Len(scores) + 1 /\ DOMAIN more = DOMAIN scores \cup {Len(scores) + 1}
        /\ more[Len(scores) + 1] = score /\ \A k \in DOMAIN scores : more[k] = scores[k]
    BY <2>3, <2>5, AppendAny
  <2>7. ASSUME Passes(new, DOMAIN new) = DOMAIN new
        PROVE  Len(more) = Len(new) /\ \A k \in DOMAIN more : Full(more[k])
    <3>1. Len(scores) = Len(rows) /\ \A k \in DOMAIN scores : Full(scores[k])
      BY <1>2, <2>7 DEF Scored
    <3> QED
      BY <1>2, <2>2, <2>6, <2>7, <3>1
  <2>8. Scored(more, new)
    BY <2>5, <2>7 DEF Scored
  <2> QED
    BY <1>1, <1>4, <2>1, <2>3, <2>8
<1> QED
  BY <1>3, <1>4

LEMMA CountsAdd ==
  ASSUME NEW run, DOMAIN run = RunColumns, NEW rows, IsSeq(rows), Counts(run, rows, DOMAIN rows), NEW result
  PROVE  LET new == Append(rows, result) IN
         /\ DOMAIN Counted(run, result) = RunColumns
         /\ \A f \in RunColumns \ {"executed", "errors", "unpriced"} : Counted(run, result)[f] = run[f]
         /\ Counts(Counted(run, result), new, DOMAIN new)
<1>1. PICK new : new = Append(rows, result)
  OBVIOUS
<1>2. PICK e, r, u : e = run.executed /\ r = run.errors /\ u = run.unpriced
  OBVIOUS
<1>3. PICK more : more = Counted(run, result)
  OBVIOUS
<1>4. /\ DOMAIN more = RunColumns
      /\ \A f \in RunColumns \ {"executed", "errors", "unpriced"} : more[f] = run[f]
      /\ more.executed = e + 1
      /\ more.errors = r + IF result.status = "ERROR" THEN 1 ELSE 0
      /\ more.unpriced = u + IF result.status = "UNPRICED" THEN 1 ELSE 0
  BY <1>2, <1>3 DEF Counted, RunColumns
<1>5. Cardinality(DOMAIN new) = Cardinality(DOMAIN rows) + 1
  BY <1>1, RowsCounted
<1>6. ASSUME NEW status
      PROVE  Cardinality(InStatus(new, DOMAIN new, status))
               = Cardinality(InStatus(rows, DOMAIN rows, status)) + IF result.status = status THEN 1 ELSE 0
  <2>1. OneMoreIf(result.status = status, InStatus(rows, DOMAIN rows, status), InStatus(new, DOMAIN new, status))
    BY <1>1, StatusCounted
  <2> QED
    BY <2>1 DEF OneMoreIf
<1>7. Counts(more, new, DOMAIN new)
  BY <1>2, <1>4, <1>5, <1>6 DEF Counts
<1> QED
  BY <1>1, <1>3, <1>4, <1>7

LEMMA TotalAdds ==
  ASSUME NEW v, NEW rows, IsSeq(rows), \A n \in DOMAIN rows : KnownCost(rows[n]) \in Int,
         Totals(v, rows, DOMAIN rows), NEW result, KnownCost(result) \in Int
  PROVE  LET new == Append(rows, result) IN Totals(v + KnownCost(result), new, DOMAIN new)
<1>1. PICK new : new = Append(rows, result)
  OBVIOUS
<1>2. PICK D, m : /\ D = DOMAIN rows /\ DOMAIN new = D \cup {m} /\ m \notin D
                  /\ new[m] = result /\ \A n \in D : new[n] = rows[n]
  BY <1>1, RowsGrow
<1>3. IsFiniteSet(D)
  BY <1>2, SeqDomain
<1>4. KnownCost(new[m]) \in Int
  BY <1>2
<1>5. Totals(v, rows, D) /\ \A n \in D : KnownCost(rows[n]) \in Int
  BY <1>2
<1>6. Totals(v + KnownCost(new[m]), new, D \cup {m})
  BY <1>2, <1>3, <1>4, <1>5, TotalGrows
<1> QED
  BY <1>1, <1>2, <1>6

LEMMA SessionAdds ==
  ASSUME NEW w, NEW config, NEW known, Session("check", w, config, known), w.todo # << >>,
         NEW result, Judged(result, config), result.case = Head(w.todo)
  PROVE  Session("check", Added(w, result), config, known)
<1>1. PICK run, todo, rows, scores, passed, cost :
        run = w.run /\ todo = w.todo /\ rows = w.results /\ scores = w.scores /\ passed = w.passed /\ cost = w.cost
  OBVIOUS
<1>2. /\ DOMAIN run = RunColumns /\ run.config = config /\ IsSeq(rows)
      /\ \A n \in DOMAIN rows : ResultFits(rows[n], config)
      /\ OnceEach(todo, rows, known) /\ run.total \in Nat /\ run.total = Len(todo) + Len(rows)
      /\ Counts(run, rows, DOMAIN rows) /\ passed = Cardinality(Passes(rows, DOMAIN rows))
      /\ Scored(scores, rows) /\ Totals(cost, rows, DOMAIN rows)
  BY <1>1 DEF Session, Doing
<1>3. PICK run1, todo1, rows1, scores1, passed1, cost1 :
        /\ run1 = Counted(run, result) /\ todo1 = Tail(todo) /\ rows1 = Append(rows, result)
        /\ scores1 = (IF result.status = "ERROR" THEN scores ELSE Append(scores, result.score))
        /\ passed1 = passed + (IF result.passed THEN 1 ELSE 0)
        /\ cost1 = cost + KnownCost(result)
  OBVIOUS
<1>4. PICK v : v = Added(w, result)
  OBVIOUS
<1>5. /\ DOMAIN v = RunSession /\ v.run = run1 /\ v.todo = todo1 /\ v.results = rows1 /\ v.scores = scores1
      /\ v.passed = passed1 /\ v.cost = cost1
  BY <1>1, <1>3, <1>4 DEF Added, RunSession
<1>6. /\ DOMAIN run1 = RunColumns /\ Counts(run1, rows1, DOMAIN rows1)
      /\ \A f \in RunColumns \ {"executed", "errors", "unpriced"} : run1[f] = run[f]
  BY <1>2, <1>3, CountsAdd
<1>7. run1.config = config /\ run1.total = run.total
  BY <1>2, <1>6 DEF RunColumns
<1>8. /\ IsSeq(rows1) /\ Len(rows1) = Len(rows) + 1 /\ Len(rows) \in Nat
      /\ \A n \in DOMAIN rows1 : rows1[n] = result \/ (n \in DOMAIN rows /\ rows1[n] = rows[n])
  <2>1. IsSeq(rows1) /\ Len(rows1) = Len(rows) + 1 /\ Len(rows) \in Nat
    BY <1>2, <1>3, RowsGrow
  <2>2. PICK m : /\ DOMAIN rows1 = DOMAIN rows \cup {m}
                 /\ rows1[m] = result /\ \A n \in DOMAIN rows : rows1[n] = rows[n]
    BY <1>2, <1>3, RowsGrow
  <2> QED
    BY <2>1, <2>2
<1>9. \A n \in DOMAIN rows1 : ResultFits(rows1[n], config)
  BY <1>2, <1>8 DEF Judged
<1>10. OnceEach(todo1, rows1, known) /\ Len(todo1) = Len(todo) - 1
  BY <1>1, <1>2, <1>3, OnceEachAdds
<1>11. Len(todo) \in Nat
  BY <1>2, SeqFacts DEF OnceEach
<1>12. run1.total \in Nat /\ run1.total = Len(todo1) + Len(rows1)
  BY <1>2, <1>7, <1>8, <1>10, <1>11
<1>13. passed1 = Cardinality(Passes(rows1, DOMAIN rows1))
  BY <1>2, <1>3, PassesCounted
<1>14. Scored(scores1, rows1)
  BY <1>2, <1>3, ScoredAdds
<1>15. Totals(cost1, rows1, DOMAIN rows1)
  <2>1. \A n \in DOMAIN rows : KnownCost(rows[n]) \in Int
    BY <1>2 DEF ResultFits
  <2>2. KnownCost(result) \in Int
    BY DEF Judged, ResultFits
  <2> QED
    BY <1>2, <1>3, <2>1, <2>2, TotalAdds
<1>16. Doing(v, known)
  BY <1>5, <1>6, <1>10, <1>12, <1>13, <1>14, <1>15 DEF Doing
<1>17. Session("check", v, config, known)
  BY <1>5, <1>6, <1>7, <1>8, <1>9, <1>16 DEF Session
<1> QED
  BY <1>4, <1>17

LEMMA SessionCompletes ==
  ASSUME NEW w, NEW config, NEW known, Session("check", w, config, known), w.todo = << >>
  PROVE  Session("commit",
           [w EXCEPT !.run.status    = "COMPLETED",
                     !.run.passed    = w.passed,
                     !.run.pass_rate = IF w.run.total = 0 THEN Null ELSE <<w.passed, w.run.total>>,
                     !.run.score     = IF w.scores = << >> THEN Null ELSE Mean(w.scores),
                     !.run.cost      = w.cost], config, known)
<1>1. PICK run, rows, scores, passed, cost :
        run = w.run /\ rows = w.results /\ scores = w.scores /\ passed = w.passed /\ cost = w.cost
  OBVIOUS
<1>2. /\ DOMAIN w = RunSession /\ DOMAIN run = RunColumns /\ run.config = config /\ IsSeq(rows)
      /\ \A n \in DOMAIN rows : ResultFits(rows[n], config)
      /\ OnceEach(w.todo, rows, known) /\ run.total \in Nat /\ run.total = Len(w.todo) + Len(rows)
      /\ Counts(run, rows, DOMAIN rows) /\ passed = Cardinality(Passes(rows, DOMAIN rows))
      /\ Scored(scores, rows) /\ Totals(cost, rows, DOMAIN rows)
  BY <1>1 DEF Session, Doing
<1>3. PICK rate, score : /\ rate = (IF run.total = 0 THEN Null ELSE <<passed, run.total>>)
                         /\ score = (IF scores = << >> THEN Null ELSE Mean(scores))
  OBVIOUS
<1>4. PICK v : v = [w EXCEPT !.run.status = "COMPLETED", !.run.passed = passed, !.run.pass_rate = rate,
                             !.run.score = score, !.run.cost = cost]
  OBVIOUS
<1>5. DOMAIN v = RunSession /\ v.results = rows
  BY <1>1, <1>2, <1>4 DEF RunSession
<1>6. PICK new : new = v.run
  OBVIOUS
<1>7. new = [run EXCEPT !.status = "COMPLETED", !.passed = passed, !.pass_rate = rate,
                        !.score = score, !.cost = cost]
  BY <1>1, <1>2, <1>4, <1>6 DEF RunSession
<1>8. /\ DOMAIN new = RunColumns /\ new.status = "COMPLETED" /\ new.passed = passed /\ new.pass_rate = rate
      /\ new.score = score /\ new.cost = cost /\ new.config = config /\ new.total = run.total
      /\ new.executed = run.executed /\ new.errors = run.errors /\ new.unpriced = run.unpriced
  BY <1>2, <1>7 DEF RunColumns
<1>9. IsFiniteSet(DOMAIN rows) /\ Cardinality(DOMAIN rows) = Len(rows) /\ Len(rows) \in Nat
  BY <1>2, SeqDomain
<1>10. run.total = Len(rows)
  <2>1. Len(w.todo) = 0
    OBVIOUS
  <2> QED
    BY <1>2, <1>9, <2>1
<1>11. Counts(new, rows, DOMAIN rows)
  BY <1>2, <1>8 DEF Counts
<1>12. ASSUME Passes(rows, DOMAIN rows) = DOMAIN rows, DOMAIN rows # {} PROVE FullScore(new)
  <2>1. scores \in Seq(Proper) /\ Len(scores) = Len(rows) /\ \A k \in DOMAIN scores : Full(scores[k])
    BY <1>2, <1>12 DEF Scored
  <2>2. Len(rows) # 0
    <3>1. DOMAIN rows = 1 .. Len(rows)
      BY <1>2, SeqDomain
    <3> QED
      BY <1>9, <1>12, <3>1
  <2>3. scores # << >>
    BY <2>1, <2>2
  <2>4. PICK mean : mean = Mean(scores)
    OBVIOUS
  <2>5. mean \in Proper /\ Full(mean)
    BY <2>1, <2>3, <2>4, MeanOfFractions
  <2>6. mean # Null
    BY <2>5, EvaluationsAssumption DEF Proper
  <2> QED
    BY <1>3, <1>8, <2>3, <2>4, <2>5, <2>6 DEF FullScore, Full
<1>13. Completes(new, rows, DOMAIN rows)
  <2>1. new.total = new.executed
    BY <1>2, <1>8, <1>9, <1>10 DEF Counts
  <2>2. new.pass_rate = IF new.total = 0 THEN Null ELSE <<new.passed, new.total>>
    BY <1>3, <1>8
  <2> QED
    BY <1>2, <1>8, <1>12, <2>1, <2>2 DEF Completes
<1>14. Distinct(rows, DOMAIN rows)
  BY <1>2 DEF OnceEach
<1>15. Summed(new, rows, DOMAIN rows)
  <2>1. new.total # Null
    BY <1>2, <1>8, EvaluationsAssumption
  <2> QED
    BY <1>2, <1>8, <1>9, <1>11, <1>13, <1>14, <2>1 DEF Summed
<1>16. Session("commit", v, config, known)
  BY <1>2, <1>5, <1>6, <1>8, <1>15 DEF Session
<1> QED
  BY <1>1, <1>3, <1>4, <1>16

LEMMA SetAsSequence ==
  ASSUME NEW S, IsFiniteSet(S)
  PROVE  /\ IsSeq(SetToSeq(S)) /\ \A k \in DOMAIN SetToSeq(S) : SetToSeq(S)[k] \in S
         /\ \A j, k \in DOMAIN SetToSeq(S) : SetToSeq(S)[j] = SetToSeq(S)[k] => j = k
<1>1. PICK s : s = SetToSeq(S)
  OBVIOUS
<1>2. PICK m \in Nat : m = Cardinality(S)
  BY FS_CardinalityType
<1>3. ExistsBijection(1 .. m, S)
  BY <1>2, FS_CardinalityType
<1>4. \E f \in [1 .. m -> S] : IsInjective(f)
  BY <1>3 DEF ExistsBijection, Bijection, Injection
<1>5. s = CHOOSE f \in [1 .. m -> S] : IsInjective(f)
  BY <1>1, <1>2 DEF SetToSeq
<1>6. s \in [1 .. m -> S] /\ IsInjective(s)
  BY <1>4, <1>5
<1>7. s \in Seq(S)
  BY <1>6
<1>8. IsSeq(s)
  BY <1>7, AnySeq
<1>9. \A j, k \in DOMAIN s : s[j] = s[k] => j = k
  BY <1>6 DEF IsInjective
<1>10. \A k \in DOMAIN s : s[k] \in S
  BY <1>6
<1> QED
  BY <1>1, <1>8, <1>9, <1>10

CasesFit == IsSeq(cases) /\ \A c \in DOMAIN cases : IsFiniteSet(cases[c].tools)

LEMMA CasesOnce ==
  ASSUME CasesFit, NEW dataset
  PROVE  LET todo == CasesOf(dataset) IN
         /\ IsSeq(todo) /\ \A k \in DOMAIN todo : todo[k] \in DOMAIN cases
         /\ \A j, k \in DOMAIN todo : todo[j] = todo[k] => j = k
<1> DEFINE S == {c \in DOMAIN cases : cases[c].dataset = dataset}
<1>1. S \subseteq DOMAIN cases /\ CasesOf(dataset) = SetToSeq(S)
  BY DEF CasesOf
<1> HIDE DEF S
<1>2. IsFiniteSet(DOMAIN cases)
  BY SeqDomain DEF CasesFit
<1>3. IsFiniteSet(S)
  BY <1>1, <1>2, FS_Subset
<1> QED
  BY <1>1, <1>3, SetAsSequence

(* A run that validate_run_config lets through.                            *)
Runnable(q) == q \in Requests /\ q.op = "run" /\ ValidRun(q)

LEMMA BillFits ==
  ASSUME PricesFit, NEW q, ValidRun(q), NEW answer \in Answers[q.provider], answer.kind = "output",
         NEW bill \in CostOf(q, answer)
  PROVE  bill.status # "ERROR" /\ bill.cost \in Int \cup {Null}
<1>1. q.provider \in {"mock", "openai"}
  BY DEF ValidRun
<1>2. CASE q.provider = "mock"
  <2>1. bill = [status |-> "MOCK", cost |-> answer.cost, row |-> Null]
    BY <1>2 DEF CostOf
  <2>2. answer.cost \in Nat
    BY <1>2, EvaluationsAssumption
  <2> QED
    BY <2>1, <2>2
<1>3. CASE q.provider = "openai"
  <2> DEFINE rows == GetPricing(q.model, now)
  <2>1. rows \subseteq DOMAIN pricing
    BY DEF GetPricing
  <2>2. \/ bill = [status |-> "UNPRICED", cost |-> Null, row |-> Null]
        \/ /\ answer.tokens # Null
           /\ \E i \in rows : bill = [status |-> "PRICED", cost |-> pricing[i].price * answer.tokens, row |-> i]
    <3> HIDE DEF rows
    <3>1. CostOf(q, answer) =
            IF answer.tokens = Null \/ rows = {}
            THEN {[status |-> "UNPRICED", cost |-> Null, row |-> Null]}
            ELSE {[status |-> "PRICED", cost |-> pricing[i].price * answer.tokens, row |-> i] : i \in rows}
      BY <1>3 DEF CostOf, rows
    <3> QED
      BY <3>1
  <2> HIDE DEF rows
  <2>3. CASE bill = [status |-> "UNPRICED", cost |-> Null, row |-> Null]
    BY <2>3
  <2>4. CASE /\ answer.tokens # Null
             /\ \E i \in rows : bill = [status |-> "PRICED", cost |-> pricing[i].price * answer.tokens, row |-> i]
    <3>1. PICK i \in rows : bill = [status |-> "PRICED", cost |-> pricing[i].price * answer.tokens, row |-> i]
      BY <2>4
    <3>2. pricing \in Seq(PricingRow) /\ i \in DOMAIN pricing
      BY <2>1 DEF PricesFit
    <3>3. pricing[i] \in PricingRow
      BY <3>2
    <3>4. pricing[i].price \in Nat
      BY <3>3 DEF PricingRow
    <3>5. answer.tokens \in Nat
      BY <1>3, <2>4, EvaluationsAssumption
    <3>6. PICK p \in Nat, t \in Nat : p = pricing[i].price /\ t = answer.tokens
      BY <3>4, <3>5
    <3>7. p * t \in Int
      OBVIOUS
    <3>8. bill.status = "PRICED" /\ bill.cost = p * t
      BY <3>1, <3>6
    <3> QED
      BY <3>7, <3>8
  <2> QED
    BY <2>2, <2>3, <2>4
<1> QED
  BY <1>1, <1>2, <1>3

LEMMA ErrorFits ==
  ASSUME NEW c, NEW config
  PROVE  Judged(ErrorResult(c), config) /\ ErrorResult(c).case = c
<1>1. PICK row : row = ErrorResult(c)
  OBVIOUS
<1>2. /\ DOMAIN row = ResultColumns /\ row.case = c /\ row.passed = FALSE /\ row.score = Null
      /\ row.status = "ERROR" /\ row.cost = Null
  BY <1>1 DEF ErrorResult, ResultColumns
<1>3. KnownCost(row) = 0 /\ ~ FullScore(row)
  BY <1>2 DEF KnownCost, FullScore
<1>4. ResultFits(row, config)
  BY <1>2, <1>3 DEF ResultFits
<1> QED
  BY <1>1, <1>2, <1>4 DEF Judged

LEMMA JudgedFits ==
  ASSUME NEW q, Runnable(q), NEW c, IsFiniteSet(cases[c].tools), NEW answer, NEW bill,
         bill.status # "ERROR", bill.cost \in Int \cup {Null}
  PROVE  LET row == JudgedResult(q, c, answer, bill) IN Judged(row, EvaluatorsOf(q)) /\ row.case = c
<1> DEFINE config == EvaluatorsOf(q)
           verdict == RunEvaluators(config, cases[c], bill @@ answer)
<1>1. PICK row : row = JudgedResult(q, c, answer, bill)
  OBVIOUS
<1>2. config \in Seq(ToSet(config)) /\ \A k \in DOMAIN config : FiniteLists(config[k])
  <2>1. /\ config \in Seq(ToSet(config))
        /\ \A cfg \in ToSet(config) : \A f \in DOMAIN cfg \cap {"fields", "words", "keys"} : IsFiniteSet(cfg[f])
    BY EvaluationsAssumption DEF Runnable
  <2>2. \A k \in DOMAIN config : config[k] \in ToSet(config)
    BY DEF ToSet
  <2> HIDE DEF config
  <2> QED
    BY <2>1, <2>2 DEF FiniteLists
<1>3. \A k \in DOMAIN config : ValidConfig(config[k])
  BY DEF Runnable, ValidRun
<1>4. Fair(verdict, StrictList(config))
  <2> HIDE DEF config
  <2>1. PICK out, case : out = bill @@ answer /\ case = cases[c]
    OBVIOUS
  <2>2. Fair(RunEvaluators(config, case, out), \E k \in DOMAIN config : StrictOne(config[k]))
    BY <1>2, <1>3, <2>1, RunEvaluatorsFair
  <2> QED
    BY <2>1, <2>2 DEF StrictList
<1> HIDE DEF verdict
<1>5. /\ DOMAIN row = ResultColumns /\ row.case = c /\ row.passed = verdict.passed /\ row.score = verdict.score
      /\ row.status = bill.status /\ row.cost = bill.cost
  BY <1>1 DEF JudgedResult, ResultColumns, verdict
<1> HIDE DEF config
<1>6. KnownCost(row) \in Int
  BY <1>5 DEF KnownCost
<1>7. row.score # Null
  <2>1. row.score \in Int \X Int
    BY <1>4, <1>5 DEF Fair, Proper
  <2> QED
    BY <2>1, EvaluationsAssumption
<1>8. (row.passed => FullScore(row)) /\ (FullScore(row) => row.passed \/ StrictList(config)) /\ row.score \in Proper
  BY <1>4, <1>5, <1>7 DEF Fair, FullScore, Full
<1>9. Judged(row, config)
  BY <1>5, <1>6, <1>8 DEF Judged, ResultFits
<1> QED
  BY <1>1, <1>5, <1>9 DEF config

-----------------------------------------------------------------------------
(* The sessions of runs *)

RunningFit(h) ==
  pc[h] \in Working /\ req[h].op = "run" =>
    ValidRun(req[h]) /\ Session(pc[h], work[h], EvaluatorsOf(req[h]), DOMAIN cases)

RunsFit == CasesFit /\ \A h \in Handler : RunningFit(h)

LEMMA SessionKnown ==
  ASSUME NEW label, NEW w, NEW config, NEW known, Session(label, w, config, known),
         NEW known1, known \subseteq known1
  PROVE  Session(label, w, config, known1)
BY DEF Session, Doing, OnceEach

LEMMA Continued ==
  ASSUME HandlersFit, NEW h \in Handler, NEW label, NEW w, Continue(h, label, w)
  PROVE  pc'[h] = label /\ work'[h] = w /\ req'[h] = req[h]
BY DEF Continue, HandlersFit

LEMMA Responded ==
  ASSUME HandlersFit, NEW h \in Handler, NEW c, NEW row, Respond(h, c, row)
  PROVE  pc'[h] = "done" /\ req'[h] = req[h]
BY DEF Respond, HandlersFit

(* A run that goes on with a session that fits.                            *)
LEMMA RunGoesOn ==
  ASSUME HandlersFit, NEW h \in Handler, NEW label, NEW w, Continue(h, label, w), ValidRun(req[h]),
         Session(label, w, EvaluatorsOf(req[h]), DOMAIN cases), cases' = cases
  PROVE  RunningFit(h)'
<1>1. pc'[h] = label /\ work'[h] = w /\ req'[h] = req[h]
  BY Continued
<1>2. PICK q : q = req[h]
  OBVIOUS
<1>3. req'[h] = q /\ ValidRun(q) /\ Session(label, w, EvaluatorsOf(q), DOMAIN cases')
  BY <1>1, <1>2
<1> QED
  BY <1>1, <1>3 DEF RunningFit

LEMMA OneCase ==
  ASSUME HandlersFit, PricesFit, RunsFit, NEW h \in Handler, RunCase(h)
  PROVE  RunningFit(h)'
<1> DEFINE config == EvaluatorsOf(req[h])
           w == work[h]
           c == Head(w.todo)
<1>1. Evaluating(h, "check") /\ w.todo # << >> /\ cases' = cases
  BY DEF RunCase, evaluations
<1>2. ValidRun(req[h]) /\ Session("check", w, config, DOMAIN cases) /\ req[h] \in Requests /\ req[h].op = "run"
  BY <1>1 DEF Evaluating, RunsFit, RunningFit, Working, HandlersFit
<1>3. Runnable(req[h])
  BY <1>2 DEF Runnable
<1>4. IsFiniteSet(cases[c].tools)
  <2>1. OnceEach(w.todo, w.results, DOMAIN cases)
    BY <1>2 DEF Session, Doing
  <2>2. c \in DOMAIN cases
    BY <1>1, <2>1, TailAny DEF OnceEach
  <2> QED
    BY <2>2 DEF RunsFit, CasesFit
<1> HIDE DEF config
<1>5. CASE FailRun(h)
  <2>1. Session("commit", [w EXCEPT !.run.status = "FAILED"], config, DOMAIN cases)
    BY <1>2, SessionFailed
  <2> QED
    BY <1>1, <1>2, <1>5, <2>1, RunGoesOn DEF FailRun, config
<1>6. ASSUME NEW result, Adds(h, result), Judged(result, config), result.case = c PROVE RunningFit(h)'
  <2>1. Session("check", Added(w, result), config, DOMAIN cases)
    BY <1>1, <1>2, <1>6, SessionAdds
  <2>2. Continue(h, "check", Added(w, result))
    BY <1>6 DEF Adds, Added
  <2> QED
    BY <1>1, <1>2, <2>1, <2>2, RunGoesOn DEF config
<1>7. CASE Adds(h, ErrorResult(c))
  <2>1. PICK result : result = ErrorResult(c)
    OBVIOUS
  <2>2. Judged(result, config) /\ result.case = c
    BY <2>1, ErrorFits
  <2> QED
    BY <1>6, <1>7, <2>1, <2>2
<1>8. ASSUME NEW answer \in Answers[req[h].provider], answer.kind = "output", NEW bill \in CostOf(req[h], answer),
             Adds(h, JudgedResult(req[h], c, answer, bill))
      PROVE  RunningFit(h)'
  <2>1. PICK result : result = JudgedResult(req[h], c, answer, bill)
    OBVIOUS
  <2>2. bill.status # "ERROR" /\ bill.cost \in Int \cup {Null}
    BY <1>2, <1>8, BillFits
  <2>3. Judged(result, config) /\ result.case = c
    BY <1>3, <1>4, <2>1, <2>2, JudgedFits DEF config
  <2> QED
    BY <1>6, <1>8, <2>1, <2>3
<1> QED
  BY <1>5, <1>7, <1>8 DEF RunCase

LEMMA RunSteps ==
  ASSUME HandlersFit, PricesFit, RunsFit, NEW h \in Handler, EvaluationsServe(h)
  PROVE  RunningFit(h)' /\ CasesFit' /\ DOMAIN cases \subseteq DOMAIN cases'
<1>1. ASSUME cases' = cases PROVE CasesFit' /\ DOMAIN cases \subseteq DOMAIN cases'
  BY <1>1 DEF RunsFit, CasesFit
<1>2. ASSUME req[h].op # "run" PROVE RunningFit(h)'
  <2>1. req' = req
    BY EvaluationsMoves DEF Moves
  <2> QED
    BY <1>2, <2>1 DEF RunningFit
<1>3. CASE DatasetLoad(h) \/ CreateDataset(h)
  BY <1>1, <1>2, <1>3 DEF DatasetLoad, CreateDataset, evaluations
<1>4. CASE CompareFirst(h) \/ CompareRuns(h)
  BY <1>1, <1>2, <1>4 DEF CompareFirst, CompareRuns, evaluations
<1>5. CASE ReviewLoad(h) \/ ReviewCommit(h)
  BY <1>1, <1>2, <1>5 DEF ReviewLoad, ReviewCommit, evaluations
<1>6. CASE AddCase(h)
  <2>1. req[h].op = "case" /\ req[h] \in Requests
    BY <1>6 DEF AddCase, HandlersFit
  <2>2. CASE cases' = cases
    BY <1>1, <1>2, <2>1, <2>2
  <2>3. ASSUME NEW row, cases' = Append(cases, row), row.tools = req[h].tools
        PROVE  CasesFit' /\ DOMAIN cases \subseteq DOMAIN cases'
    <3>1. IsFiniteSet(row.tools)
      BY <2>1, <2>3, EvaluationsAssumption
    <3>2. PICK m : /\ IsSeq(cases') /\ DOMAIN cases' = DOMAIN cases \cup {m} /\ cases'[m] = row
                   /\ \A c \in DOMAIN cases : cases'[c] = cases[c]
      BY <2>3, AppendAny DEF RunsFit, CasesFit
    <3> QED
      BY <3>1, <3>2 DEF RunsFit, CasesFit
  <2>4. cases' = cases \/ \E row : cases' = Append(cases, row) /\ row.tools = req[h].tools
    <3>1. cases' = cases
          \/ cases' = Append(cases, [dataset |-> req[h].dataset, expected |-> req[h].expected, tools |-> req[h].tools])
      BY <1>6 DEF AddCase
    <3> QED
      BY <3>1
  <2> QED
    BY <1>2, <2>1, <2>2, <2>3, <2>4
<1>7. CASE CreateRun(h)
  <2>1. cases' = cases
    BY <1>7 DEF CreateRun, evaluations
  <2>2. CASE ValidRun(req[h]) /\ Continue(h, "scan", Executing(NewRun(req[h]), << >>))
    <3>1. PICK w : w = Executing(NewRun(req[h]), << >>)
      OBVIOUS
    <3>2. Session("scan", w, EvaluatorsOf(req[h]), DOMAIN cases)
      BY <3>1, SessionCreated
    <3> QED
      BY <1>1, <2>1, <2>2, <3>1, <3>2, RunGoesOn
  <2>3. CASE \E c, row : Respond(h, c, row)
    BY <1>1, <2>1, <2>3, Responded DEF RunningFit, Working
  <2> QED
    BY <1>7, <2>2, <2>3 DEF CreateRun
<1>8. CASE StartRun(h)
  <2> DEFINE config == EvaluatorsOf(req[h])
             todo == CasesOf(req[h].dataset)
             w == work[h]
  <2>1. cases' = cases /\ Evaluating(h, "scan")
    BY <1>8 DEF StartRun, evaluations
  <2>2. ValidRun(req[h]) /\ Session("scan", w, config, DOMAIN cases)
    BY <2>1 DEF Evaluating, RunsFit, RunningFit, Working
  <2>3. CASE FailRun(h)
    <3> HIDE DEF config
    <3>1. Session("commit", [w EXCEPT !.run.status = "FAILED"], config, DOMAIN cases)
      BY <2>2, SessionFailed
    <3> QED
      BY <1>1, <2>1, <2>2, <2>3, <3>1, RunGoesOn DEF FailRun, config
  <2>4. CASE Continue(h, "check", Executing([w.run EXCEPT !.status = "RUNNING", !.total = Len(todo),
                                             !.executed = 0, !.errors = 0, !.unpriced = 0], todo))
    <3>1. /\ IsSeq(todo) /\ \A k \in DOMAIN todo : todo[k] \in DOMAIN cases
          /\ \A j, k \in DOMAIN todo : todo[j] = todo[k] => j = k
      BY CasesOnce DEF RunsFit
    <3> HIDE DEF config, todo
    <3>2. PICK v : v = Executing([w.run EXCEPT !.status = "RUNNING", !.total = Len(todo),
                                             !.executed = 0, !.errors = 0, !.unpriced = 0], todo)
      OBVIOUS
    <3>3. Session("check", v, config, DOMAIN cases)
      BY <2>2, <3>1, <3>2, SessionStarted
    <3> QED
      BY <1>1, <2>1, <2>2, <2>4, <3>2, <3>3, RunGoesOn DEF config
  <2> QED
    BY <1>8, <2>3, <2>4 DEF StartRun
<1>9. CASE RunCase(h)
  BY <1>1, <1>9, OneCase DEF RunCase, evaluations
<1>10. CASE CompleteRun(h)
  <2> DEFINE config == EvaluatorsOf(req[h])
             w == work[h]
             v == [w EXCEPT !.run.status    = "COMPLETED",
                            !.run.passed    = w.passed,
                            !.run.pass_rate = IF w.run.total = 0 THEN Null ELSE <<w.passed, w.run.total>>,
                            !.run.score     = IF w.scores = << >> THEN Null ELSE Mean(w.scores),
                            !.run.cost      = w.cost]
  <2>1. cases' = cases /\ Evaluating(h, "check") /\ w.todo = << >> /\ Continue(h, "commit", v)
    BY <1>10 DEF CompleteRun, evaluations
  <2>2. ValidRun(req[h]) /\ Session("check", w, config, DOMAIN cases)
    BY <2>1 DEF Evaluating, RunsFit, RunningFit, Working
  <2> HIDE DEF config
  <2>3. Session("commit", v, config, DOMAIN cases)
    BY <2>1, <2>2, SessionCompletes
  <2> HIDE DEF v
  <2> QED
    BY <1>1, <2>1, <2>2, <2>3, RunGoesOn DEF config
<1>11. CASE StoreRun(h)
  <2>1. cases' = cases /\ \E c, row : Respond(h, c, row)
    BY <1>11 DEF StoreRun
  <2> QED
    BY <1>1, <2>1, Responded DEF RunningFit, Working
<1> QED
  BY <1>3, <1>4, <1>5, <1>6, <1>7, <1>8, <1>9, <1>10, <1>11 DEF EvaluationsServe

(* What request h does to its session leaves that of another as it is.     *)
LEMMA OtherRuns ==
  ASSUME HandlersFit, RunsFit, NEW h \in Handler, Moves(h), workload' = workload,
         RunningFit(h)', CasesFit', DOMAIN cases \subseteq DOMAIN cases'
  PROVE  RunsFit'
<1>1. ASSUME NEW g \in Handler, g # h PROVE RunningFit(g)'
  <2>1. RunningFit(g) /\ pc'[g] = pc[g] /\ req'[g] = req[g] /\ work'[g] = work[g]
    BY <1>1, MovesOne DEF RunsFit
  <2>2. SUFFICES ASSUME pc[g] \in Working, req[g].op = "run"
                 PROVE  ValidRun(req[g]) /\ Session(pc[g], work[g], EvaluatorsOf(req[g]), DOMAIN cases')
    <3>1. PICK q : q = req[g]
      OBVIOUS
    <3>2. q = req'[g]
      BY <2>1, <3>1
    <3> QED
      BY <2>1, <3>1, <3>2 DEF RunningFit
  <2>3. ValidRun(req[g]) /\ Session(pc[g], work[g], EvaluatorsOf(req[g]), DOMAIN cases)
    BY <2>1, <2>2 DEF RunningFit
  <2> QED
    BY <2>3, SessionKnown
<1> QED
  BY <1>1 DEF RunsFit

LEMMA NextRunsFit == HandlersFit /\ PricesFit /\ RunsFit /\ [Next]_vars => RunsFit'
<1> SUFFICES ASSUME HandlersFit, PricesFit, RunsFit, [Next]_vars PROVE RunsFit'
  OBVIOUS
<1>1. ASSUME cases' = cases, Untouched(EvaluationOps) PROVE RunsFit'
  <2>1. CasesFit'
    BY <1>1 DEF RunsFit, CasesFit
  <2>2. ASSUME NEW g \in Handler, pc'[g] \in Working, req'[g].op = "run"
        PROVE  ValidRun(req'[g]) /\ Session(pc'[g], work'[g], EvaluatorsOf(req'[g]), DOMAIN cases')
    <3>1. pc'[g] = pc[g] /\ req'[g] = req[g] /\ work'[g] = work[g]
      BY <1>1, <2>2 DEF Untouched, EvaluationOps
    <3>2. ValidRun(req[g]) /\ Session(pc[g], work[g], EvaluatorsOf(req[g]), DOMAIN cases)
      BY <2>2, <3>1 DEF RunsFit, RunningFit
    <3>3. PICK q : q = req[g]
      OBVIOUS
    <3> QED
      BY <1>1, <3>1, <3>2, <3>3
  <2>3. \A g \in Handler : RunningFit(g)'
    BY <2>2 DEF RunningFit
  <2> QED
    BY <2>1, <2>3 DEF RunsFit
<1>2. CASE \E h \in Handler : EvaluationsServe(h) /\ catalog' = catalog /\ workload' = workload
  BY <1>2, RunSteps, EvaluationsMoves, OtherRuns
<1>3. CASE \E h \in Handler : DeletionsServe(h) /\ workload' = workload
  <2>1. PICK h \in Handler : DeletionsServe(h) /\ workload' = workload
    BY <1>3
  <2>2. cases' = cases
    BY <2>1 DEF DeletionsServe, DropLoad, Drop, evaluations
  <2>3. Untouched(EvaluationOps)
    BY <2>1, DeletionsMoves, MovesOne DEF EvaluationOps
  <2> QED
    BY <1>1, <2>2, <2>3
<1> QED
  BY <1>1, <1>2, <1>3, EvaluationSteps

LEMMA AlwaysRunsFit == Spec => []RunsFit
<1>1. Init => RunsFit
  <2> SUFFICES ASSUME Init PROVE RunsFit
    OBVIOUS
  <2>1. cases = StoredCases /\ pc = [h \in Handler |-> "idle"]
    BY DEF Init, HandlersInit
  <2>2. CasesFit
    BY <2>1, EvaluationsAssumption DEF CasesFit, IsSeq
  <2> QED
    BY <2>1, <2>2 DEF RunsFit, RunningFit, Working
<1>2. HandlersFit /\ PricesFit /\ RunsFit /\ [Next]_vars => RunsFit'
  BY NextRunsFit
<1> QED
  BY <1>1, <1>2, AlwaysHandlersFit, AlwaysPricesFit, PTL DEF Spec

-----------------------------------------------------------------------------
(* The tables of runs and results *)

RunsSummed ==
  /\ \A n \in DOMAIN results : results[n].run \in DOMAIN runs
  /\ \A id \in DOMAIN runs : Summed(runs[id], results, ResultsOf(id))

(* Runs that change but in their agents, and results but in their reviews. *)
LEMMA SummedLeft ==
  ASSUME EvaluationsFit, RunsSummed,
         DOMAIN runs' = DOMAIN runs, \A id \in DOMAIN runs : SameRun(runs[id], runs'[id]),
         DOMAIN results' = DOMAIN results,
         \A n \in DOMAIN results : SameResult(results[n], results'[n]) /\ results'[n].run = results[n].run
  PROVE  RunsSummed'
<1>1. \A n \in DOMAIN results' : results'[n].run \in DOMAIN runs'
  BY DEF RunsSummed
<1>2. ASSUME NEW id \in DOMAIN runs PROVE Summed(runs'[id], results', ResultsOf(id)')
  <2>1. PICK D : D = ResultsOf(id)
    OBVIOUS
  <2>2. D = ResultsOf(id)' /\ D \subseteq DOMAIN results
    BY <2>1 DEF ResultsOf
  <2>3. D \subseteq Int
    BY <2>2, SeqFacts DEF EvaluationsFit, EvaluationsOK
  <2>4. PICK run, new : run = runs[id] /\ new = runs'[id]
    OBVIOUS
  <2>5. Summed(run, results, D) /\ SameRun(run, new)
    BY <2>1, <2>4 DEF RunsSummed
  <2>6. PICK table : table = results'
    OBVIOUS
  <2>7. \A n \in D : SameResult(results[n], table[n])
    BY <2>2, <2>6
  <2>8. Summed(new, table, D)
    BY <2>3, <2>5, <2>7, SummedStays
  <2> QED
    BY <2>2, <2>4, <2>6, <2>8
<1> QED
  BY <1>1, <1>2 DEF RunsSummed

LEMMA SameRows ==
  ASSUME RunsSummed
  PROVE  /\ \A id \in DOMAIN runs : DOMAIN runs[id] = RunColumns /\ SameRun(runs[id], runs[id])
         /\ \A n \in DOMAIN results :
              ResultColumns \subseteq DOMAIN results[n] /\ SameResult(results[n], results[n])
<1>1. \A id \in DOMAIN runs : DOMAIN runs[id] = RunColumns
  BY DEF RunsSummed, Summed
<1>2. ASSUME NEW n \in DOMAIN results PROVE ResultColumns \subseteq DOMAIN results[n]
  <2>1. PICK id \in DOMAIN runs : n \in ResultsOf(id)
    BY DEF RunsSummed, ResultsOf
  <2>2. ResultFits(results[n], runs[id].config)
    BY <2>1 DEF RunsSummed, Summed
  <2> QED
    BY <2>2 DEF ResultFits
<1> QED
  BY <1>1, <1>2 DEF SameRun, SameResult

(* A stored result is the one of the session, with its run.                *)
LEMMA StoredResult ==
  ASSUME NEW id, NEW row, ResultColumns \subseteq DOMAIN row
  PROVE  [row EXCEPT !.run = id].run = id /\ SameResult(row, [row EXCEPT !.run = id])
BY DEF SameResult, ResultColumns

(* The results of a run go to the end of the table.                        *)
LEMMA ResultsStored ==
  ASSUME HandlersFit, EvaluationsFit, RunsFit, NEW h \in Handler, StoreRun(h)
  PROVE  LET rows == work[h].results
             d    == Len(results)
             id   == Len(runs) + 1
         IN
         /\ DOMAIN runs' = DOMAIN runs \cup {id} /\ id \notin DOMAIN runs /\ runs'[id] = work[h].run
         /\ \A x \in DOMAIN runs : runs'[x] = runs[x]
         /\ Summed(work[h].run, rows, DOMAIN rows) /\ DOMAIN rows \subseteq Int /\ d \in Nat
         /\ \A n \in DOMAIN results : n \in DOMAIN results' /\ results'[n] = results[n]
         /\ DOMAIN results' = DOMAIN results \cup Shifted(DOMAIN rows, d)
         /\ \A k \in DOMAIN rows :
              d + k \notin DOMAIN results /\ results'[d + k].run = id /\ SameResult(rows[k], results'[d + k])
<1>1. PICK rows, d, id, run : rows = work[h].results /\ d = Len(results) /\ id = Len(runs) + 1 /\ run = work[h].run
  OBVIOUS
<1> DEFINE new == [k \in DOMAIN rows |-> [rows[k] EXCEPT !.run = id]]
<1>2. Evaluating(h, "commit") /\ runs' = Append(runs, run) /\ results' = results \o new
  BY <1>1 DEF StoreRun
<1>3. Session("commit", work[h], EvaluatorsOf(req[h]), DOMAIN cases)
  BY <1>2 DEF Evaluating, RunsFit, RunningFit, Working
<1>4. IsSeq(rows) /\ Summed(run, rows, DOMAIN rows)
  BY <1>1, <1>3 DEF Session
<1>5. \A k \in DOMAIN rows : ResultColumns \subseteq DOMAIN rows[k]
  BY <1>4 DEF Summed, ResultFits
<1>6. ASSUME NEW k \in DOMAIN rows PROVE new[k].run = id /\ SameResult(rows[k], new[k])
  BY <1>5, StoredResult
<1>7. new = [k \in DOMAIN rows |-> new[k]]
  OBVIOUS
<1> HIDE DEF new
<1>8. IsSeq(new) /\ DOMAIN new = DOMAIN rows /\ Len(new) = Len(rows)
  BY <1>4, <1>7, MappedSeq
<1>9. IsSeq(runs) /\ IsSeq(results)
  BY DEF EvaluationsFit, EvaluationsOK
<1>10. /\ DOMAIN runs' = DOMAIN runs \cup {id} /\ id \notin DOMAIN runs /\ runs'[id] = run
       /\ \A x \in DOMAIN runs : runs'[x] = runs[x]
  BY <1>1, <1>2, <1>9, AppendAny
<1>11. PICK all : all = results'
  OBVIOUS
<1>12. /\ IsSeq(all) /\ Len(all) = d + Len(new)
       /\ \A n \in DOMAIN results : n \in DOMAIN all /\ all[n] = results[n]
       /\ \A n \in DOMAIN all \ DOMAIN results : n - d \in DOMAIN new /\ all[n] = new[n - d]
  <2>1. PICK s, t : s = results /\ t = new
    OBVIOUS
  <2>2. PICK st : st = s \o t
    OBVIOUS
  <2>3. /\ IsSeq(st) /\ Len(st) = Len(s) + Len(t)
        /\ \A n \in DOMAIN s : n \in DOMAIN st /\ st[n] = s[n]
        /\ \A n \in DOMAIN st \ DOMAIN s : n - Len(s) \in DOMAIN t /\ st[n] = t[n - Len(s)]
    BY <1>8, <1>9, <2>1, <2>2, ConcatAny
  <2>4. all = st /\ d = Len(s)
    BY <1>1, <1>2, <1>11, <2>1, <2>2
  <2> QED
    BY <2>1, <2>3, <2>4
<1>13. /\ d \in Nat /\ DOMAIN results = 1 .. d /\ Len(new) \in Nat /\ DOMAIN new = 1 .. Len(new)
       /\ DOMAIN all = 1 .. d + Len(new)
  BY <1>1, <1>8, <1>9, <1>12, SeqFacts
<1>14. ASSUME NEW k \in DOMAIN rows
       PROVE  d + k \in DOMAIN all /\ d + k \notin DOMAIN results /\ all[d + k] = new[k]
  <2>1. d + k \in DOMAIN all /\ d + k \notin DOMAIN results /\ (d + k) - d = k
    BY <1>8, <1>13
  <2> QED
    BY <1>12, <2>1
<1>15. DOMAIN all = DOMAIN results \cup Shifted(DOMAIN rows, d)
  <2>1. ASSUME NEW n \in DOMAIN all, n \notin DOMAIN results PROVE n \in Shifted(DOMAIN rows, d)
    <3>1. n - d \in DOMAIN rows /\ n = d + (n - d)
      BY <1>8, <1>12, <1>13, <2>1
    <3> QED
      BY <3>1 DEF Shifted
  <2>2. Shifted(DOMAIN rows, d) \subseteq DOMAIN all
    BY <1>14 DEF Shifted
  <2> QED
    BY <1>12, <2>1, <2>2
<1>16. \A k \in DOMAIN rows :
         d + k \notin DOMAIN results /\ all[d + k].run = id /\ SameResult(rows[k], all[d + k])
  BY <1>6, <1>14
<1>17. DOMAIN rows \subseteq Int
  BY <1>4, SeqDomain
<1> QED
  BY <1>1, <1>4, <1>10, <1>11, <1>12, <1>13, <1>15, <1>16, <1>17

LEMMA StoreSums ==
  ASSUME HandlersFit, EvaluationsFit, RunsFit, RunsSummed, NEW h \in Handler, StoreRun(h)
  PROVE  RunsSummed'
<1>1. PICK rows, d, id, run : rows = work[h].results /\ d = Len(results) /\ id = Len(runs) + 1 /\ run = work[h].run
  OBVIOUS
<1>2. /\ DOMAIN runs' = DOMAIN runs \cup {id} /\ id \notin DOMAIN runs /\ runs'[id] = run
      /\ \A x \in DOMAIN runs : runs'[x] = runs[x]
  BY <1>1, ResultsStored
<1>3. PICK all : all = results'
  OBVIOUS
<1>4. /\ Summed(run, rows, DOMAIN rows) /\ DOMAIN rows \subseteq Int /\ d \in Nat
      /\ \A n \in DOMAIN results : n \in DOMAIN all /\ all[n] = results[n]
      /\ DOMAIN all = DOMAIN results \cup Shifted(DOMAIN rows, d)
      /\ \A k \in DOMAIN rows :
           d + k \notin DOMAIN results /\ all[d + k].run = id /\ SameResult(rows[k], all[d + k])
  BY <1>1, <1>3, ResultsStored
<1>5. ASSUME NEW n \in DOMAIN all PROVE all[n].run \in DOMAIN runs'
  <2>1. CASE n \in DOMAIN results
    BY <1>2, <1>4, <2>1 DEF RunsSummed
  <2>2. CASE n \in Shifted(DOMAIN rows, d)
    BY <1>2, <1>4, <2>2 DEF Shifted
  <2> QED
    BY <1>4, <2>1, <2>2
<1>6. ASSUME NEW x \in DOMAIN runs PROVE Summed(runs'[x], results', ResultsOf(x)')
  <2>1. PICK D : D = ResultsOf(x)
    OBVIOUS
  <2>2. D = {n \in DOMAIN results : results[n].run = x}
    BY <2>1 DEF ResultsOf
  <2>3. ResultsOf(x)' = {n \in DOMAIN all : all[n].run = x}
    BY <1>3 DEF ResultsOf
  <2>4. \A n \in Shifted(DOMAIN rows, d) : all[n].run # x
    BY <1>2, <1>4 DEF Shifted
  <2>5. ResultsOf(x)' = D
    BY <1>4, <2>2, <2>3, <2>4
  <2>6. PICK old : old = runs[x]
    OBVIOUS
  <2>7. Summed(old, results, D) /\ SameRun(old, old)
    BY <2>1, <2>6, SameRows DEF RunsSummed
  <2>8. D \subseteq Int
    BY <2>2, SeqFacts DEF EvaluationsFit, EvaluationsOK
  <2>9. \A n \in D : SameResult(results[n], all[n])
    BY <1>4, <2>2, SameRows
  <2>10. Summed(old, all, D)
    BY <2>7, <2>8, <2>9, SummedStays
  <2> QED
    BY <1>2, <1>3, <2>5, <2>6, <2>10
<1>7. Summed(runs'[id], results', ResultsOf(id)')
  <2>1. ResultsOf(id)' = {n \in DOMAIN all : all[n].run = id}
    BY <1>3 DEF ResultsOf
  <2>2. \A n \in DOMAIN results : all[n].run # id
    BY <1>2, <1>4 DEF RunsSummed
  <2>3. \A n \in Shifted(DOMAIN rows, d) : all[n].run = id
    BY <1>4 DEF Shifted
  <2>4. ResultsOf(id)' = Shifted(DOMAIN rows, d)
    BY <1>4, <2>1, <2>2, <2>3
  <2>5. SameRun(run, run)
    BY <1>4 DEF SameRun, Summed
  <2>6. \A k \in DOMAIN rows : SameResult(rows[k], all[d + k])
    BY <1>4
  <2>7. d \in Int
    BY <1>4
  <2>8. PICK D : D = DOMAIN rows
    OBVIOUS
  <2>9. D \subseteq Int /\ Summed(run, rows, D) /\ \A k \in D : SameResult(rows[k], all[d + k])
    BY <1>4, <2>6, <2>8
  <2>10. Summed(run, all, Shifted(D, d))
    BY <2>5, <2>7, <2>9, SummedMoves
  <2> QED
    BY <1>2, <1>3, <2>4, <2>8, <2>10
<1> QED
  BY <1>2, <1>3, <1>5, <1>6, <1>7 DEF RunsSummed

(* A review of a result that is still there; of another, nothing is        *)
(* written.                                                                *)
ReviewWrites(h) == ReviewCommit(h) /\ HasResult(req[h].result)

LEMMA ReviewLost ==
  ASSUME NEW h \in Handler, ReviewCommit(h), ~ ReviewWrites(h)
  PROVE  UNCHANGED <<runs, results, log>>
BY DEF ReviewCommit, ReviewWrites

LEMMA ReviewSums ==
  ASSUME EvaluationsFit, RunsSummed, NEW h \in Handler, ReviewWrites(h)
  PROVE  /\ RunsSummed' /\ DOMAIN results' = DOMAIN results /\ runs' = runs
         /\ \A n \in DOMAIN results : SameResult(results[n], results'[n]) /\ results'[n].run = results[n].run
<1>1. PICK r, v : results' = [results EXCEPT ![r].review = v]
  BY DEF ReviewWrites, ReviewCommit
<1>2. runs' = runs
  BY DEF ReviewWrites, ReviewCommit
<1>3. ASSUME NEW n \in DOMAIN results
      PROVE  SameResult(results[n], results'[n]) /\ results'[n].run = results[n].run
  <2>1. PICK row : row = results[n]
    OBVIOUS
  <2>2. ResultColumns \subseteq DOMAIN row /\ SameResult(row, row)
    BY <2>1, SameRows
  <2>3. results'[n] = row \/ results'[n] = [row EXCEPT !.review = v]
    BY <1>1, <2>1
  <2>4. LET new == [row EXCEPT !.review = v] IN SameResult(row, new) /\ new.run = row.run
    BY <2>2 DEF SameResult, ResultColumns
  <2> QED
    BY <2>1, <2>2, <2>3, <2>4
<1>4. DOMAIN results' = DOMAIN results
  BY <1>1
<1>5. \A id \in DOMAIN runs : SameRun(runs[id], runs'[id])
  BY <1>2, SameRows
<1>6. RunsSummed'
  BY <1>2, <1>3, <1>4, <1>5, SummedLeft
<1> QED
  BY <1>2, <1>3, <1>4, <1>6

LEMMA DropSums ==
  ASSUME EvaluationsFit, RunsSummed, NEW h \in Handler, DeletionsServe(h)
  PROVE  /\ RunsSummed' /\ DOMAIN runs' = DOMAIN runs /\ UNCHANGED <<cases, results, compared>>
         /\ \A id \in DOMAIN runs : SameRun(runs[id], runs'[id])
<1>1. UNCHANGED <<cases, results, compared>>
  BY DEF DeletionsServe, DropLoad, Drop, evaluations
<1>2. runs' = runs \/ \E ids : runs' = RunsWithout(ids)
  BY DEF DeletionsServe, DropLoad, Drop, evaluations
<1>3. DOMAIN runs' = DOMAIN runs /\ \A id \in DOMAIN runs : SameRun(runs[id], runs'[id])
  <2>1. CASE runs' = runs
    BY <2>1, SameRows
  <2>2. CASE \E ids : runs' = RunsWithout(ids)
    <3>1. PICK ids : runs' = RunsWithout(ids)
      BY <2>2
    <3>2. DOMAIN runs' = DOMAIN runs
      BY <3>1 DEF RunsWithout
    <3>3. ASSUME NEW id \in DOMAIN runs PROVE SameRun(runs[id], runs'[id])
      <4>1. PICK run : run = runs[id]
        OBVIOUS
      <4>2. DOMAIN run = RunColumns
        BY <4>1, SameRows
      <4>3. runs'[id] = run \/ runs'[id] = [run EXCEPT !.agent = Null]
        BY <3>1, <4>1 DEF RunsWithout
      <4>4. SameRun(run, run) /\ SameRun(run, [run EXCEPT !.agent = Null])
        BY <4>2 DEF SameRun, RunColumns
      <4> QED
        BY <4>1, <4>3, <4>4
    <3> QED
      BY <3>2, <3>3
  <2> QED
    BY <1>2, <2>1, <2>2
<1>4. /\ DOMAIN results' = DOMAIN results
      /\ \A n \in DOMAIN results : SameResult(results[n], results'[n]) /\ results'[n].run = results[n].run
  BY <1>1, SameRows
<1>5. RunsSummed'
  BY <1>3, <1>4, SummedLeft
<1> QED
  BY <1>1, <1>3, <1>5

LEMMA SumSteps ==
  ASSUME HandlersFit, EvaluationsFit, RunsFit, RunsSummed, [Next]_vars
  PROVE  /\ RunsSummed' /\ DOMAIN runs \subseteq DOMAIN runs' /\ DOMAIN results \subseteq DOMAIN results'
         /\ \A id \in DOMAIN runs : SameRun(runs[id], runs'[id]) /\ ResultsOf(id)' = ResultsOf(id)
         /\ \A n \in DOMAIN results : SameResult(results[n], results'[n]) /\ results'[n].run = results[n].run
<1>1. CASE UNCHANGED <<runs, results>>
  BY <1>1, SameRows DEF RunsSummed, ResultsOf
<1>2. ASSUME DOMAIN runs' = DOMAIN runs, DOMAIN results' = DOMAIN results,
             \A n \in DOMAIN results : results'[n].run = results[n].run
      PROVE  \A id \in DOMAIN runs : ResultsOf(id)' = ResultsOf(id)
  BY <1>2 DEF ResultsOf
<1>3. ASSUME NEW h \in Handler, DeletionsServe(h)
      PROVE  /\ RunsSummed' /\ DOMAIN runs \subseteq DOMAIN runs' /\ DOMAIN results \subseteq DOMAIN results'
             /\ \A id \in DOMAIN runs : SameRun(runs[id], runs'[id]) /\ ResultsOf(id)' = ResultsOf(id)
             /\ \A n \in DOMAIN results : SameResult(results[n], results'[n]) /\ results'[n].run = results[n].run
  <2>1. /\ RunsSummed' /\ DOMAIN runs' = DOMAIN runs /\ UNCHANGED results
        /\ \A id \in DOMAIN runs : SameRun(runs[id], runs'[id])
    BY <1>3, DropSums
  <2> QED
    BY <1>2, <2>1, SameRows
<1>4. ASSUME NEW h \in Handler, EvaluationsServe(h)
      PROVE  /\ RunsSummed' /\ DOMAIN runs \subseteq DOMAIN runs' /\ DOMAIN results \subseteq DOMAIN results'
             /\ \A id \in DOMAIN runs : SameRun(runs[id], runs'[id]) /\ ResultsOf(id)' = ResultsOf(id)
             /\ \A n \in DOMAIN results : SameResult(results[n], results'[n]) /\ results'[n].run = results[n].run
  <2>1. CASE DatasetLoad(h) \/ CreateDataset(h) \/ AddCase(h) \/ CreateRun(h) \/ StartRun(h) \/ RunCase(h)
    BY <1>1, <2>1 DEF DatasetLoad, CreateDataset, AddCase, CreateRun, StartRun, RunCase, evaluations
  <2>2. CASE CompleteRun(h) \/ CompareFirst(h) \/ CompareRuns(h) \/ ReviewLoad(h)
    BY <1>1, <2>2 DEF CompleteRun, CompareFirst, CompareRuns, ReviewLoad, evaluations
  <2>3. CASE ReviewWrites(h)
    <3>1. /\ RunsSummed' /\ DOMAIN results' = DOMAIN results /\ runs' = runs
          /\ \A n \in DOMAIN results : SameResult(results[n], results'[n]) /\ results'[n].run = results[n].run
      BY <2>3, ReviewSums
    <3> QED
      BY <1>2, <3>1, SameRows
  <2>4. CASE StoreRun(h)
    <3>1. RunsSummed'
      BY <2>4, StoreSums
    <3> PICK id, rows, d : rows = work[h].results /\ d = Len(results) /\ id = Len(runs) + 1
      OBVIOUS
    <3>2.   /\ DOMAIN runs' = DOMAIN runs \cup {id} /\ id \notin DOMAIN runs
            /\ \A x \in DOMAIN runs : runs'[x] = runs[x]
            /\ \A n \in DOMAIN results : n \in DOMAIN results' /\ results'[n] = results[n]
            /\ DOMAIN results' = DOMAIN results \cup Shifted(DOMAIN rows, d)
            /\ \A k \in DOMAIN rows : d + k \notin DOMAIN results /\ results'[d + k].run = id
      BY <2>4, ResultsStored
    <3>3. ASSUME NEW x \in DOMAIN runs PROVE ResultsOf(x)' = ResultsOf(x)
      <4>1. \A n \in Shifted(DOMAIN rows, d) : results'[n].run # x
        BY <3>2 DEF Shifted
      <4> QED
        BY <3>2, <4>1 DEF ResultsOf
    <3> QED
      BY <3>1, <3>2, <3>3, SameRows
  <2>5. CASE ReviewCommit(h) /\ ~ ReviewWrites(h)
    BY <1>1, <2>5, ReviewLost
  <2> QED
    BY <1>4, <2>1, <2>2, <2>3, <2>4, <2>5 DEF EvaluationsServe
<1> QED
  BY <1>1, <1>3, <1>4, EvaluationSteps

LEMMA AlwaysRunsSummed == Spec => []RunsSummed
<1>1. Init => RunsSummed
  BY DEF Init, RunsSummed
<1>2. HandlersFit /\ EvaluationsFit /\ RunsFit /\ RunsSummed /\ [Next]_vars => RunsSummed'
  BY SumSteps
<1> QED
  BY <1>1, <1>2, AlwaysHandlersFit, AlwaysEvaluationsFit, AlwaysRunsFit, PTL DEF Spec

-----------------------------------------------------------------------------
(* What the audit log tells of runs and reviews *)

ToldRuns == {"run.ended", "result.reviewed"}

(* Nothing is added to it, and retention takes away what is oldest.        *)
TellsNoMore ==
  /\ \A n \in Entries' : log'[n].event \in ToldRuns => n \in Entries /\ log'[n] = log[n]
  /\ \A m \in Entries \cap Entries', k \in Entries : m < k => k \in Entries' /\ log'[k] = log[k]

LEMMA SameTold ==
  ASSUME log' = log
  PROVE  TellsNoMore
BY DEF TellsNoMore, Entries

LEMMA OtherTold ==
  ASSUME LogOK, NEW event, NEW about, NEW note, event \notin ToldRuns,
         log' = Append(log, Entry(event, about, note))
  PROVE  TellsNoMore
<1>1. PICK e, m : e = Entry(event, about, note) /\ m = Len(log) + 1
  OBVIOUS
<1>2. e.event = event
  BY <1>1 DEF Entry
<1>3. /\ DOMAIN log' = DOMAIN log \cup {m} /\ log'[m] = e
      /\ \A n \in DOMAIN log : log'[n] = log[n]
  BY <1>1, Logged
<1> QED
  BY <1>2, <1>3 DEF TellsNoMore, Entries

LEMMA RetentionTold ==
  ASSUME TablesFit, LogOK, Ordered, NEW h \in Handler, RunRetention(h)
  PROVE  TellsNoMore
<1> DEFINE days == work[h].days.audit
           executed == work[h].executed
<1>1. /\ DOMAIN log' = DOMAIN log \cup {Len(log) + 1}
      /\ log'[Len(log) + 1] = Entry("retention.executed", Null, RetentionNote(h))
      /\ \A n \in DOMAIN log :
           log'[n] = IF n \in Entries /\ Old(log[n].at, days, executed) THEN Null ELSE log[n]
  BY RetentionLog
<1>2. Entry("retention.executed", Null, RetentionNote(h)).event = "retention.executed"
  BY DEF Entry
<1>3. days \in Int \cup {Null} /\ executed \in Nat
  <2>1. pc[h] = "commit" /\ req[h].op = "retention"
    BY DEF RunRetention
  <2> QED
    BY <2>1 DEF TablesFit, PrivacySession, Working, RetentionPolicy, Days
<1> HIDE DEF days, executed
<1>4. ASSUME NEW n \in Entries', log'[n].event \in ToldRuns PROVE n \in Entries /\ log'[n] = log[n]
  BY <1>1, <1>2, <1>4 DEF Entries, ToldRuns
<1>5. ASSUME NEW m \in Entries \cap Entries', NEW k \in Entries, m < k
      PROVE  k \in Entries' /\ log'[k] = log[k]
  <2>1. m \in DOMAIN log /\ k \in DOMAIN log /\ log'[m] # Null /\ log[k] # Null
    BY DEF Entries
  <2>2. log[m].at <= log[k].at /\ log[m].at \in 1 .. now /\ log[k].at \in 1 .. now /\ now \in Nat
    BY <1>5 DEF Ordered, LogOK, TablesFit
  <2>3. ~ Old(log[m].at, days, executed)
    BY <1>1, <2>1
  <2>4. ~ Old(log[k].at, days, executed)
    BY <1>3, <2>2, <2>3 DEF Old, Limited
  <2> QED
    BY <1>1, <2>1, <2>4 DEF Entries
<1> QED
  BY <1>4, <1>5 DEF TellsNoMore

(* Only a run that is stored and a review that is written tell more.       *)
LEMMA OthersTold ==
  ASSUME HandlersFit, TablesFit, LogOK, Ordered, [Next]_vars,
         \A h \in Handler : ~ StoreRun(h) /\ ~ ReviewWrites(h)
  PROVE  TellsNoMore
<1>1. CASE Aside
  BY <1>1, SameTold DEF Aside
<1>2. ASSUME NEW h \in Handler, PricingServe(h) PROVE TellsNoMore
  BY <1>2, SameTold DEF PricingServe, PriceCheck, PriceInsert, RepriceLoad, RepriceCheck, RepriceCommit, ledger
<1>3. ASSUME NEW h \in Handler, EvaluationsServe(h) PROVE TellsNoMore
  <2>1. CASE DatasetLoad(h) \/ AddCase(h) \/ CreateRun(h) \/ StartRun(h) \/ RunCase(h)
    BY <2>1, SameTold DEF DatasetLoad, AddCase, CreateRun, StartRun, RunCase, ledger
  <2>2. CASE CompleteRun(h) \/ CompareFirst(h) \/ CompareRuns(h) \/ ReviewLoad(h)
    BY <2>2, SameTold DEF CompleteRun, CompareFirst, CompareRuns, ReviewLoad, ledger
  <2>3. CASE CreateDataset(h)
    BY <2>3, SameTold, OtherTold DEF CreateDataset, ToldRuns
  <2>4. CASE ReviewCommit(h)
    BY <2>4, SameTold, ReviewLost
  <2> QED
    BY <1>3, <2>1, <2>2, <2>3, <2>4 DEF EvaluationsServe
<1>4. ASSUME NEW h \in Handler, PrivacyServe(h) PROVE TellsNoMore
  <2>1. CASE PolicyLoad(h) \/ RetentionLoad(h) \/ WishLoad(h) \/ Anonymize(h)
    BY <2>1, SameTold DEF PolicyLoad, RetentionLoad, WishLoad, Anonymize, ledger
  <2>2. CASE RunRetention(h)
    BY <2>2, RetentionTold
  <2>3. CASE PolicyCommit(h)
    BY <2>3, SameTold, OtherTold DEF PolicyCommit, ToldRuns
  <2>4. CASE CreateWish(h)
    BY <2>4, SameTold, OtherTold DEF CreateWish, ToldRuns
  <2>5. CASE WishCommit(h)
    BY <2>5, OtherTold DEF WishCommit, ToldRuns
  <2>6. CASE Export(h)
    BY <2>6, OtherTold DEF Export, ToldRuns
  <2> QED
    BY <1>4, <2>1, <2>2, <2>3, <2>4, <2>5, <2>6 DEF PrivacyServe
<1>5. ASSUME NEW h \in Handler, KeysServe(h) PROVE TellsNoMore
  <2>1. log' = log \/ \E event, about, note : event \notin ToldRuns /\ log' = Append(log, Entry(event, about, note))
    BY <1>5 DEF KeysServe, NewKeyLoad, CreateKey, KeyLoad, Revoke, Delete, Resolve, TouchKey, Admit,
       StoreTrace, ledger, ToldRuns
  <2> QED
    BY <2>1, SameTold, OtherTold
<1>6. ASSUME NEW h \in Handler, ProjectsServe(h) PROVE TellsNoMore
  <2>1. CASE CreateLoad(h) \/ ChangeLoad(h)
    BY <2>1, SameTold DEF CreateLoad, ChangeLoad, ledger
  <2>2. CASE CreateCommit(h)
    BY <2>2, SameTold, OtherTold DEF CreateCommit, ToldRuns
  <2>3. CASE ChangeCommit(h)
    BY <2>3, SameTold, OtherTold DEF ChangeCommit, ToldRuns
  <2> QED
    BY <1>6, <2>1, <2>2, <2>3 DEF ProjectsServe
<1>7. ASSUME NEW h \in Handler, DeletionsServe(h) PROVE TellsNoMore
  BY <1>7, SameTold, OtherTold DEF DeletionsServe, DropLoad, Drop, ledger, ToldRuns
<1> QED
  BY <1>1, <1>2, <1>3, <1>4, <1>5, <1>6, <1>7, Steps

(* Entries go to the end of it, of which one tells of runs or reviews.     *)
TellsOne(s, event, about, note) ==
  /\ IsSeq(s) /\ \A n \in DOMAIN log : n \in DOMAIN s /\ s[n] = log[n]
  /\ \A n \in DOMAIN s \ DOMAIN log : s[n].event \in ToldRuns =>
       s[n].event = event /\ s[n].about = about /\ s[n].note = note

LEMMA TellsAfter ==
  ASSUME LogOK, NEW s, IsSeq(s), NEW event, NEW about, NEW note, TellsOne(s, event, about, note),
         NEW n \in DOMAIN s \ DOMAIN log, NEW m \in DOMAIN log
  PROVE  m < n
<1>1. DOMAIN s = 1 .. Len(s) /\ Len(s) \in Nat /\ DOMAIN log = 1 .. Len(log) /\ Len(log) \in Nat
  BY SeqFacts DEF LogOK
<1> QED
  BY <1>1

LEMMA StoreTells ==
  ASSUME LogOK, NEW h \in Handler, StoreRun(h)
  PROVE  TellsOne(log', "run.ended", Len(runs) + 1, work[h].run.status)
<1>1. PICK id, status, total : id = Len(runs) + 1 /\ status = work[h].run.status /\ total = work[h].run.total
  OBVIOUS
<1> DEFINE first == <<Entry("run.created", id, Null)>>
           began == IF total = Null THEN << >> ELSE <<Entry("run.started", id, total)>>
           last == <<Entry("run.ended", id, status)>>
           Good(t) == IsSeq(t) /\ \A n \in DOMAIN t : t[n].event \in ToldRuns =>
                        t[n].event = "run.ended" /\ t[n].about = id /\ t[n].note = status
<1>2. log' = log \o first \o began \o last
  BY <1>1 DEF StoreRun
<1>3. ASSUME NEW e, e.event \in ToldRuns => e.event = "run.ended" /\ e.about = id /\ e.note = status
      PROVE  Good(<<e>>)
  <2>1. <<e>> \in Seq({e}) /\ \A n \in DOMAIN <<e>> : <<e>>[n] = e
    OBVIOUS
  <2>2. IsSeq(<<e>>)
    BY <2>1, AnySeq
  <2> QED
    BY <1>3, <2>1, <2>2
<1>4. \A e, a, v : Entry(e, a, v).event = e /\ Entry(e, a, v).about = a /\ Entry(e, a, v).note = v
  BY DEF Entry
<1>5. Good(first)
  BY <1>3, <1>4 DEF ToldRuns
<1>6. Good(last)
  BY <1>3, <1>4
<1>7. Good(began)
  <2>1. Good(<< >>)
    BY EmptyAny
  <2>2. Good(<<Entry("run.started", id, total)>>)
    BY <1>3, <1>4 DEF ToldRuns
  <2> HIDE DEF Good
  <2> QED
    BY <2>1, <2>2
<1> HIDE DEF first, began, last
<1>8. ASSUME NEW s, TellsOne(s, "run.ended", id, status), NEW t, Good(t)
      PROVE  TellsOne(s \o t, "run.ended", id, status)
  BY <1>8, ConcatAny DEF TellsOne
<1>9. TellsOne(log, "run.ended", id, status)
  BY DEF TellsOne, LogOK
<1> HIDE DEF Good
<1>10. TellsOne(log \o first, "run.ended", id, status)
  BY <1>5, <1>8, <1>9
<1>11. TellsOne(log \o first \o began, "run.ended", id, status)
  BY <1>7, <1>8, <1>10
<1>12. TellsOne(log \o first \o began \o last, "run.ended", id, status)
  BY <1>6, <1>8, <1>11
<1> QED
  BY <1>1, <1>2, <1>12

ReviewEntries ==
  \A h \in Handler : pc[h] \in Working /\ req[h].op = "review" =>
    req[h].status \in {"approved", "rejected", "needs_review"}

LEMMA ReviewTells ==
  ASSUME LogOK, TablesFit, EvaluationsFit, ReviewEntries, NEW h \in Handler, ReviewWrites(h)
  PROVE  /\ TellsOne(log', "result.reviewed", req[h].result, req[h].status)
         /\ \E n \in Entries' \ DOMAIN log :
              log'[n].event = "result.reviewed" /\ log'[n].about = req[h].result
<1>1. PICK e, m : e = Entry("result.reviewed", req[h].result, req[h].status) /\ m = Len(log) + 1
  OBVIOUS
<1>2. e.event = "result.reviewed" /\ e.about = req[h].result /\ e.note = req[h].status
  BY <1>1 DEF Entry
<1>3. log' = Append(log, e)
  BY <1>1 DEF ReviewWrites, ReviewCommit
<1>4. /\ IsSeq(log') /\ DOMAIN log' = DOMAIN log \cup {m} /\ m \notin DOMAIN log /\ log'[m] = e
      /\ \A n \in DOMAIN log : log'[n] = log[n]
  BY <1>1, <1>3, AppendAny DEF LogOK
<1>5. e # Null
  <2>1. pc[h] \in Working /\ req[h].op = "review"
    BY DEF ReviewWrites, ReviewCommit, Working
  <2>2. req[h].result \in Nat /\ req[h].status \in {"approved", "rejected", "needs_review"}
    <3>1. req[h].result \in DOMAIN results /\ IsSeq(results)
      BY DEF ReviewWrites, HasResult, EvaluationsFit, EvaluationsOK
    <3> QED
      BY <2>1, <3>1, SeqFacts DEF ReviewEntries
  <2>3. e \in ReviewEntry
    BY <1>1, <2>2 DEF Entry, ReviewEntry, TablesFit
  <2> QED
    BY <2>3, EvaluationsAssumption
<1> QED
  BY <1>2, <1>4, <1>5 DEF TellsOne, Entries

(* Reviews change no other thing, and nothing else changes a review.       *)
LEMMA ResultsStay ==
  ASSUME HandlersFit, EvaluationsFit, RunsFit, [Next]_vars, \A h \in Handler : ~ ReviewWrites(h)
  PROVE  \A n \in DOMAIN results : results'[n] = results[n]
<1>1. ASSUME NEW h \in Handler, EvaluationsServe(h) PROVE \A n \in DOMAIN results : results'[n] = results[n]
  <2>1. CASE StoreRun(h)
    BY <2>1, ResultsStored
  <2>2. CASE DatasetLoad(h) \/ CreateDataset(h) \/ AddCase(h) \/ CreateRun(h) \/ StartRun(h) \/ RunCase(h)
    BY <2>2 DEF DatasetLoad, CreateDataset, AddCase, CreateRun, StartRun, RunCase, evaluations
  <2>3. CASE CompleteRun(h) \/ CompareFirst(h) \/ CompareRuns(h) \/ ReviewLoad(h)
    BY <2>3 DEF CompleteRun, CompareFirst, CompareRuns, ReviewLoad, evaluations
  <2>4. CASE ReviewCommit(h)
    BY <2>4, ReviewLost
  <2> QED
    BY <1>1, <2>1, <2>2, <2>3, <2>4 DEF EvaluationsServe
<1>2. ASSUME NEW h \in Handler, DeletionsServe(h) PROVE results' = results
  BY <1>2 DEF DeletionsServe, DropLoad, Drop, evaluations
<1> QED
  BY <1>1, <1>2, EvaluationSteps

(* The last of the reviews it tells of is the one the result has.          *)
LastSaid(n) ==
  \A m \in Entries :
    log[m].event = "result.reviewed" /\ log[m].about = log[n].about => m <= n

EndsTold ==
  \A n \in Entries : log[n].event = "run.ended" =>
    log[n].about \in DOMAIN runs /\ log[n].note = runs[log[n].about].status

ReviewsTold == \A n \in Entries : log[n].event = "result.reviewed" => log[n].about \in DOMAIN results

Reviewed ==
  \A n \in Entries : log[n].event = "result.reviewed" /\ LastSaid(n) =>
    results[log[n].about].review = log[n].note

(* The review a request loaded, alone in progress, is the one there is.    *)
ReviewsFresh ==
  \A h \in Handler : pc[h] \in Working /\ req[h].op = "review" =>
    work[h].before = results[req[h].result].review

TalesFit == ReviewEntries /\ EndsTold /\ ReviewsTold /\ (Quiet => Reviewed /\ ReviewsFresh)

LEMMA OthersTellSame ==
  ASSUME LogOK, TalesFit, TellsNoMore, DOMAIN runs \subseteq DOMAIN runs', DOMAIN results \subseteq DOMAIN results',
         \A id \in DOMAIN runs : runs'[id].status = runs[id].status,
         \A n \in DOMAIN results : results'[n] = results[n]
  PROVE  EndsTold' /\ ReviewsTold' /\ (Reviewed => Reviewed')
<1>1. ASSUME NEW n \in Entries', log'[n].event \in ToldRuns PROVE n \in Entries /\ log'[n] = log[n]
  BY <1>1 DEF TellsNoMore
<1>2. EndsTold'
  BY <1>1 DEF TalesFit, EndsTold, ToldRuns
<1>3. ReviewsTold'
  BY <1>1 DEF TalesFit, ReviewsTold, ToldRuns
<1>4. ASSUME Reviewed, NEW n \in Entries', log'[n].event = "result.reviewed", LastSaid(n)'
      PROVE  results'[log'[n].about].review = log'[n].note
  <2>1. n \in Entries /\ log'[n] = log[n]
    BY <1>1, <1>4 DEF ToldRuns
  <2>2. n \in Nat /\ \A m \in Entries : m \in Nat
    BY <2>1, SeqFacts DEF LogOK, Entries
  <2>3. LastSaid(n)
    <3> SUFFICES ASSUME NEW m \in Entries, log[m].event = "result.reviewed", log[m].about = log[n].about, n < m
                 PROVE  FALSE
      BY <2>2 DEF LastSaid
    <3>1. m \in Entries' /\ log'[m] = log[m]
      BY <1>4, <2>1 DEF TellsNoMore
    <3> QED
      BY <1>4, <2>1, <2>2, <3>1 DEF LastSaid
  <2>4. log[n].about \in DOMAIN results
    BY <1>4, <2>1 DEF TalesFit, ReviewsTold
  <2> QED
    BY <1>4, <2>1, <2>3, <2>4 DEF Reviewed
<1> QED
  BY <1>2, <1>3, <1>4 DEF Reviewed

LEMMA StoreTellsEnd ==
  ASSUME HandlersFit, EvaluationsFit, RunsFit, LogOK, TalesFit, NEW h \in Handler, StoreRun(h)
  PROVE  EndsTold' /\ ReviewsTold' /\ (Reviewed => Reviewed')
<1>1. PICK id, run : id = Len(runs) + 1 /\ run = work[h].run
  OBVIOUS
<1>2. /\ DOMAIN runs' = DOMAIN runs \cup {id} /\ runs'[id] = run
      /\ \A x \in DOMAIN runs : runs'[x] = runs[x]
      /\ \A n \in DOMAIN results : n \in DOMAIN results' /\ results'[n] = results[n]
  BY <1>1, ResultsStored
<1>3. TellsOne(log', "run.ended", id, run.status)
  BY <1>1, StoreTells
<1>4. ASSUME NEW n \in Entries'
      PROVE  \/ n \in Entries /\ log'[n] = log[n]
             \/ log'[n].event \in ToldRuns =>
                  log'[n].event = "run.ended" /\ log'[n].about = id /\ log'[n].note = run.status
  BY <1>3 DEF TellsOne, Entries
<1>5. EndsTold'
  <2> SUFFICES ASSUME NEW n \in Entries', log'[n].event = "run.ended"
               PROVE  log'[n].about \in DOMAIN runs' /\ log'[n].note = runs'[log'[n].about].status
    BY DEF EndsTold
  <2>1. CASE n \in Entries /\ log'[n] = log[n]
    BY <1>2, <2>1 DEF TalesFit, EndsTold
  <2> QED
    BY <1>2, <1>4, <2>1 DEF ToldRuns
<1>6. \A n \in Entries' : log'[n].event = "result.reviewed" => n \in Entries /\ log'[n] = log[n]
  BY <1>4 DEF ToldRuns
<1>7. ReviewsTold'
  BY <1>2, <1>6 DEF TalesFit, ReviewsTold
<1>8. ASSUME Reviewed, NEW n \in Entries', log'[n].event = "result.reviewed", LastSaid(n)'
      PROVE  results'[log'[n].about].review = log'[n].note
  <2>1. n \in Entries /\ log'[n] = log[n]
    BY <1>6, <1>8
  <2>2. \A m \in Entries : m \in Entries' /\ log'[m] = log[m]
    BY <1>3 DEF TellsOne, Entries
  <2>3. LastSaid(n)
    BY <1>8, <2>1, <2>2 DEF LastSaid
  <2>4. log[n].about \in DOMAIN results
    BY <1>8, <2>1 DEF TalesFit, ReviewsTold
  <2> QED
    BY <1>2, <1>8, <2>1, <2>3, <2>4 DEF Reviewed
<1> QED
  BY <1>5, <1>7, <1>8 DEF Reviewed

LEMMA ReviewTellsLast ==
  ASSUME HandlersFit, TablesFit, EvaluationsFit, RunsSummed, LogOK, TalesFit, NEW h \in Handler, ReviewWrites(h)
  PROVE  EndsTold' /\ ReviewsTold' /\ (Reviewed /\ ReviewsFresh => Reviewed')
<1>1. PICK r, status, row : r = req[h].result /\ status = req[h].status /\ row = results[r]
  OBVIOUS
<1>2. /\ pc[h] \in Working /\ req[h].op = "review" /\ runs' = runs
      /\ results' = [results EXCEPT ![r].review = IF status # work[h].before THEN status ELSE @]
  BY <1>1 DEF ReviewWrites, ReviewCommit, Working
<1>3. r \in DOMAIN results
  BY <1>1 DEF ReviewWrites, HasResult
<1>4. ResultColumns \subseteq DOMAIN row
  BY <1>1, <1>3, SameRows
<1>5. DOMAIN results' = DOMAIN results /\ \A n \in DOMAIN results : n # r => results'[n] = results[n]
  BY <1>2
<1>6. ASSUME ReviewsFresh PROVE results'[r].review = status
  <2>1. work[h].before = row.review
    BY <1>1, <1>2, <1>6 DEF ReviewsFresh
  <2>2. results'[r] = [row EXCEPT !.review = IF status # work[h].before THEN status ELSE row.review]
    BY <1>1, <1>2, <1>3
  <2>3. \A v : [row EXCEPT !.review = v].review = v
    BY <1>4 DEF ResultColumns
  <2> QED
    BY <2>1, <2>2, <2>3
<1>7. /\ TellsOne(log', "result.reviewed", r, status)
      /\ \E n \in Entries' \ DOMAIN log : log'[n].event = "result.reviewed" /\ log'[n].about = r
  BY <1>1, ReviewTells DEF TalesFit
<1>8. ASSUME NEW n \in Entries'
      PROVE  \/ n \in Entries /\ log'[n] = log[n]
             \/ log'[n].event \in ToldRuns =>
                  log'[n].event = "result.reviewed" /\ log'[n].about = r /\ log'[n].note = status
  BY <1>7 DEF TellsOne, Entries
<1>9. EndsTold'
  BY <1>2, <1>8 DEF TalesFit, EndsTold, ToldRuns
<1>10. ReviewsTold'
  BY <1>3, <1>5, <1>8 DEF TalesFit, ReviewsTold, ToldRuns
<1>11. ASSUME Reviewed, ReviewsFresh, NEW n \in Entries', log'[n].event = "result.reviewed", LastSaid(n)'
       PROVE  results'[log'[n].about].review = log'[n].note
  <2>1. CASE n \in Entries /\ log'[n] = log[n]
    <3>1. log[n].about # r
      <4>1. PICK k \in Entries' \ DOMAIN log : log'[k].event = "result.reviewed" /\ log'[k].about = r
        BY <1>7
      <4>2. n < k /\ n \in Nat /\ k \in Nat
        <5>1. n \in DOMAIN log /\ k \in DOMAIN log' \ DOMAIN log /\ IsSeq(log')
          BY <1>7, <2>1, <4>1 DEF Entries, TellsOne
        <5>2. DOMAIN log = 1 .. Len(log) /\ Len(log) \in Nat /\ DOMAIN log' = 1 .. Len(log') /\ Len(log') \in Nat
          BY <5>1, SeqFacts DEF LogOK
        <5> QED
          BY <5>1, <5>2
      <4> QED
        BY <1>11, <2>1, <4>1, <4>2 DEF LastSaid
    <3>2. \A m \in Entries : m \in Entries' /\ log'[m] = log[m]
      BY <1>7 DEF TellsOne, Entries
    <3>3. LastSaid(n)
      BY <1>11, <2>1, <3>2 DEF LastSaid
    <3>4. log[n].about \in DOMAIN results
      BY <1>11, <2>1 DEF TalesFit, ReviewsTold
    <3> QED
      BY <1>5, <1>11, <2>1, <3>1, <3>3, <3>4 DEF Reviewed
  <2>2. CASE log'[n].about = r /\ log'[n].note = status
    BY <1>6, <1>11, <2>2
  <2> QED
    BY <1>8, <1>11, <2>1, <2>2 DEF ToldRuns
<1> QED
  BY <1>9, <1>10, <1>11 DEF Reviewed

LEMMA ReviewGoesOn ==
  ASSUME HandlersFit, NEW h \in Handler, EvaluationsServe(h), pc'[h] \in Working, req[h].op = "review"
  PROVE  ReviewLoad(h) /\ Continue(h, "commit", [before |-> results[req[h].result].review])
         /\ req[h].status \in {"approved", "rejected", "needs_review"} /\ results' = results
<1>1. ReviewLoad(h) \/ ReviewCommit(h)
  BY DEF EvaluationsServe, DatasetLoad, CreateDataset, AddCase, CreateRun, StartRun, RunCase, CompleteRun,
     StoreRun, CompareFirst, CompareRuns, Evaluating
<1>2. \A c, row : ~ Respond(h, c, row)
  BY Responded DEF Working
<1>3. ReviewLoad(h)
  BY <1>1, <1>2 DEF ReviewCommit
<1>4. results' = results
  BY <1>3 DEF ReviewLoad, evaluations
<1> QED
  BY <1>2, <1>3, <1>4 DEF ReviewLoad

LEMMA ReviewSessions ==
  ASSUME HandlersFit, TalesFit, [Next]_vars
  PROVE  ReviewEntries'
<1> SUFFICES ASSUME NEW g \in Handler, pc'[g] \in Working, req'[g].op = "review"
             PROVE  req'[g].status \in {"approved", "rejected", "needs_review"}
  BY DEF ReviewEntries
<1>1. CASE pc'[g] = pc[g] /\ req'[g] = req[g]
  BY <1>1 DEF TalesFit, ReviewEntries
<1>2. CASE Untouched(EvaluationOps)
  BY <1>1, <1>2 DEF Untouched, EvaluationOps
<1>3. ASSUME NEW h \in Handler, EvaluationsServe(h), workload' = workload
      PROVE  req'[g].status \in {"approved", "rejected", "needs_review"}
  <2>1. Moves(h)
    BY <1>3, EvaluationsMoves
  <2>2. CASE g = h
    <3>1. req'[h] = req[h]
      BY <1>3, <2>1, MovesOne
    <3> QED
      BY <1>3, <2>2, <3>1, ReviewGoesOn
  <2>3. CASE g # h
    BY <1>1, <1>3, <2>1, <2>3, MovesOne
  <2> QED
    BY <2>2, <2>3
<1>4. ASSUME NEW h \in Handler, DeletionsServe(h), workload' = workload PROVE Untouched(EvaluationOps)
  BY <1>4, DeletionsMoves, MovesOne DEF EvaluationOps
<1> QED
  BY <1>2, <1>3, <1>4, EvaluationSteps

LEMMA NextReviewsFresh ==
  ASSUME HandlersFit, OneAtATime, EvaluationsFit, TalesFit, [Next]_vars, Quiet'
  PROVE  ReviewsFresh'
<1> SUFFICES ASSUME NEW g \in Handler, pc'[g] \in Working, req'[g].op = "review"
             PROVE  work'[g].before = results'[req'[g].result].review
  BY DEF ReviewsFresh
<1>1. Quiet /\ ReviewsFresh
  BY QuietSteps DEF TalesFit
<1>2. CASE UNCHANGED results /\ Untouched(EvaluationOps)
  BY <1>1, <1>2 DEF Untouched, EvaluationOps, ReviewsFresh
<1>3. ASSUME NEW h \in Handler, EvaluationsServe(h), workload' = workload
      PROVE  work'[g].before = results'[req'[g].result].review
  <2>1. Moves(h)
    BY <1>3, EvaluationsMoves
  <2>2. CASE g = h
    <3>1. req'[h] = req[h]
      BY <1>3, <2>1, MovesOne
    <3>2. PICK w : w = [before |-> results[req[h].result].review]
      OBVIOUS
    <3>3. Continue(h, "commit", w) /\ results' = results
      BY <1>3, <2>2, <3>1, <3>2, ReviewGoesOn
    <3>4. work'[h] = w
      BY <3>3, Continued
    <3> QED
      BY <2>2, <3>1, <3>2, <3>3, <3>4
  <2>3. CASE g # h
    <3>1. ~ Busy(g) /\ pc'[g] = pc[g]
      BY <1>3, <2>1, <2>3, MovesOne, QuietSteps
    <3> QED
      BY <3>1 DEF Busy, Working
  <2> QED
    BY <2>2, <2>3
<1>4. ASSUME NEW h \in Handler, DeletionsServe(h), workload' = workload
      PROVE  UNCHANGED results /\ Untouched(EvaluationOps)
  <2>1. results' = results
    BY <1>4 DEF DeletionsServe, DropLoad, Drop, evaluations
  <2>2. Untouched(EvaluationOps)
    BY <1>4, DeletionsMoves, MovesOne DEF EvaluationOps
  <2> QED
    BY <2>1, <2>2
<1> QED
  BY <1>2, <1>3, <1>4, EvaluationSteps

LEMMA NextTalesFit ==
  HandlersFit /\ OneAtATime /\ TablesFit /\ EvaluationsFit /\ RunsFit /\ RunsSummed /\ LogOK /\ Ordered
    /\ TalesFit /\ [Next]_vars => TalesFit'
<1> SUFFICES ASSUME HandlersFit, OneAtATime, TablesFit, EvaluationsFit, RunsFit, RunsSummed, LogOK, Ordered,
                    TalesFit, [Next]_vars
             PROVE  TalesFit'
  OBVIOUS
<1>1. EndsTold' /\ ReviewsTold' /\ (Reviewed /\ ReviewsFresh => Reviewed')
  <2>1. CASE \E h \in Handler : StoreRun(h)
    BY <2>1, StoreTellsEnd
  <2>2. CASE \E h \in Handler : ReviewWrites(h)
    BY <2>2, ReviewTellsLast
  <2>3. CASE \A h \in Handler : ~ StoreRun(h) /\ ~ ReviewWrites(h)
    <3>1. TellsNoMore
      BY <2>3, OthersTold
    <3>2. DOMAIN runs \subseteq DOMAIN runs' /\ DOMAIN results \subseteq DOMAIN results'
          /\ \A id \in DOMAIN runs : SameRun(runs[id], runs'[id])
      BY SumSteps
    <3>3. \A id \in DOMAIN runs : runs'[id].status = runs[id].status
      BY <3>2 DEF SameRun, RunColumns
    <3>4. \A n \in DOMAIN results : results'[n] = results[n]
      BY <2>3, ResultsStay
    <3> QED
      BY <3>1, <3>2, <3>3, <3>4, OthersTellSame
  <2> QED
    BY <2>1, <2>2, <2>3
<1>2. Quiet' => Quiet /\ ReviewsFresh'
  BY QuietSteps, NextReviewsFresh
<1> QED
  BY <1>1, <1>2, ReviewSessions DEF TalesFit

LEMMA AlwaysTalesFit == Spec => []TalesFit
<1>1. Init => TalesFit
  <2> SUFFICES ASSUME Init PROVE TalesFit
    OBVIOUS
  <2>1. log = << >> /\ pc = [h \in Handler |-> "idle"]
    BY DEF Init, HandlersInit
  <2>2. Entries = {}
    BY <2>1 DEF Entries
  <2> QED
    BY <2>1, <2>2 DEF TalesFit, ReviewEntries, EndsTold, ReviewsTold, Reviewed, ReviewsFresh, Working
<1>2. ShapeFit => LogOK
  BY DEF ShapeFit
<1>3. HistoryFits => Ordered
  BY DEF HistoryFits
<1> QED
  BY <1>1, <1>2, <1>3, NextTalesFit, AlwaysHandlersFit, AlwaysOneAtATime, AlwaysTablesFit, AlwaysEvaluationsFit,
     AlwaysRunsFit, AlwaysRunsSummed, AlwaysShapeFit, AlwaysHistoryFits, PTL DEF Spec

-----------------------------------------------------------------------------
(* Comparisons *)

(* By case, whether a result of it passed.                                 *)
PassOf(table, D) ==
  [c \in {table[n].case : n \in D} |-> \E n \in D : table[n].case = c /\ table[n].passed]

(* A snapshot is of a run as it still is, and of its results.              *)
SnapFits(s, id) ==
  /\ id \in DOMAIN runs
  /\ \A f \in RunColumns \ {"agent"} : s.run[f] = runs[id][f]
  /\ s.pass = PassOf(results, ResultsOf(id))

CompareSession(h) ==
  pc[h] \in Working /\ req[h].op = "compare" =>
    work[h].first = Null \/ SnapFits(work[h].first, req[h].a)

ComparedFits(h) ==
  compared[h] # Null =>
    /\ pc[h] = "done"
    /\ \E s, t : SnapFits(s, req[h].a) /\ SnapFits(t, req[h].b) /\ compared[h] = Comparison(s, t)

ComparesFit ==
  /\ compared = [h \in Handler |-> compared[h]]
  /\ \A h \in Handler : CompareSession(h) /\ ComparedFits(h)

RowsKept ==
  /\ DOMAIN runs \subseteq DOMAIN runs'
  /\ \A id \in DOMAIN runs : SameRun(runs[id], runs'[id]) /\ ResultsOf(id)' = ResultsOf(id)
  /\ \A n \in DOMAIN results : SameResult(results[n], results'[n])

LEMMA SnapStays ==
  ASSUME RowsKept, NEW s, NEW id, SnapFits(s, id)
  PROVE  SnapFits(s, id)'
<1>1. id \in DOMAIN runs /\ id \in DOMAIN runs' /\ SameRun(runs[id], runs'[id]) /\ ResultsOf(id)' = ResultsOf(id)
  BY DEF RowsKept, SnapFits
<1>2. \A f \in RunColumns \ {"agent"} : s.run[f] = runs'[id][f]
  BY <1>1 DEF SameRun, SnapFits
<1>3. PICK D, table, new : D = ResultsOf(id) /\ table = results /\ new = results'
  OBVIOUS
<1>4. \A n \in D : new[n].case = table[n].case /\ new[n].passed = table[n].passed
  BY <1>3 DEF RowsKept, SameResult, ResultColumns, ResultsOf
<1>5. PassOf(new, D) = PassOf(table, D)
  <2>1. {new[n].case : n \in D} = {table[n].case : n \in D}
    BY <1>4
  <2>2. \A c : (\E n \in D : new[n].case = c /\ new[n].passed) <=> (\E n \in D : table[n].case = c /\ table[n].passed)
    BY <1>4
  <2> QED
    BY <2>1, <2>2 DEF PassOf
<1>6. s.pass = PassOf(new, D)
  BY <1>3, <1>5 DEF SnapFits
<1>7. PassOf(results', ResultsOf(id)') = PassOf(new, D)
  BY <1>1, <1>3
<1> QED
  BY <1>1, <1>2, <1>6, <1>7 DEF SnapFits, PassOf

LEMMA SnapshotFits ==
  ASSUME RunsSummed, NEW id, Snapshot(id) # Null
  PROVE  SnapFits(Snapshot(id), id)
<1>1. id \in DOMAIN runs
  BY DEF Snapshot, HasRun
<1>2. PICK s : s = [run |-> runs[id], pass |-> PassOf(results, ResultsOf(id))]
  OBVIOUS
<1>3. Snapshot(id) = s
  BY <1>1, <1>2 DEF Snapshot, PassOf
<1>4. s.run = runs[id] /\ s.pass = PassOf(results, ResultsOf(id))
  BY <1>2
<1>5. SnapFits(s, id)
  BY <1>1, <1>4 DEF SnapFits
<1> QED
  BY <1>3, <1>5

(* A request that is answered stays so.                                    *)
LEMMA DoneStays ==
  ASSUME HandlersFit, [Next]_vars, NEW g \in Handler, pc[g] = "done"
  PROVE  pc'[g] = "done" /\ req'[g] = req[g]
<1>1. CASE UNCHANGED <<pc, req>>
  BY <1>1
<1>2. CASE \E h \in Handler, q \in workload.requests : Arrive(h, q)
  BY <1>2 DEF Arrive, Receive, HandlersFit
<1>3. CASE \E h \in Handler : Moves(h)
  BY <1>3 DEF Moves, Busy, HandlersFit
<1> QED
  BY <1>1, <1>2, <1>3, PricingMoves, EvaluationsMoves, PrivacyMoves, KeysMoves, ProjectsMoves,
     DeletionsMoves, AbortMoves DEF Next, vars, handlers, Tick

LEMMA ComparedStays ==
  ASSUME HandlersFit, [Next]_vars, \A h \in Handler : ~ CompareRuns(h)
  PROVE  compared' = compared
<1>1. ASSUME NEW h \in Handler, EvaluationsServe(h) PROVE compared' = compared
  <2>1. CASE DatasetLoad(h) \/ CreateDataset(h) \/ AddCase(h) \/ CreateRun(h) \/ StartRun(h) \/ RunCase(h)
    BY <2>1 DEF DatasetLoad, CreateDataset, AddCase, CreateRun, StartRun, RunCase, evaluations
  <2>2. CASE CompleteRun(h) \/ StoreRun(h) \/ CompareFirst(h) \/ ReviewLoad(h) \/ ReviewCommit(h)
    BY <2>2 DEF CompleteRun, StoreRun, CompareFirst, ReviewLoad, ReviewCommit, evaluations
  <2> QED
    BY <1>1, <2>1, <2>2 DEF EvaluationsServe
<1>2. ASSUME NEW h \in Handler, DeletionsServe(h) PROVE compared' = compared
  BY <1>2 DEF DeletionsServe, DropLoad, Drop, evaluations
<1> QED
  BY <1>1, <1>2, Steps DEF Aside, evaluations

LEMMA CompareGoesOn ==
  ASSUME HandlersFit, NEW h \in Handler, EvaluationsServe(h), pc'[h] \in Working, req[h].op = "compare"
  PROVE  CompareFirst(h)
<1>1. CompareFirst(h) \/ CompareRuns(h)
  BY DEF EvaluationsServe, DatasetLoad, CreateDataset, AddCase, CreateRun, StartRun, RunCase, CompleteRun,
     StoreRun, ReviewLoad, ReviewCommit, Evaluating
<1>2. \A c, row : ~ Respond(h, c, row)
  BY Responded DEF Working
<1> QED
  BY <1>1, <1>2 DEF CompareRuns

LEMMA CompareSessions ==
  ASSUME HandlersFit, RunsSummed, RowsKept, ComparesFit, [Next]_vars, NEW g \in Handler
  PROVE  CompareSession(g)'
<1> SUFFICES ASSUME pc'[g] \in Working, req'[g].op = "compare"
             PROVE  work'[g].first = Null \/ SnapFits(work[g].first, req[g].a)'
  BY DEF CompareSession
<1>1. ASSUME pc'[g] = pc[g], req'[g] = req[g], work'[g] = work[g]
      PROVE  work'[g].first = Null \/ SnapFits(work[g].first, req[g].a)'
  <2>1. PICK s, id : s = work[g].first /\ id = req[g].a
    OBVIOUS
  <2>2. s = work'[g].first /\ id = req'[g].a
    BY <1>1, <2>1
  <2>3. s = Null \/ SnapFits(s, id)
    BY <1>1, <2>1 DEF ComparesFit, CompareSession
  <2>4. s = Null \/ SnapFits(s, id)'
    BY <2>3, SnapStays
  <2> QED
    BY <2>2, <2>4
<1>2. CASE Untouched(EvaluationOps)
  BY <1>1, <1>2 DEF Untouched, EvaluationOps
<1>3. ASSUME NEW h \in Handler, EvaluationsServe(h), workload' = workload
      PROVE  work'[g].first = Null \/ SnapFits(work[g].first, req[g].a)'
  <2>1. Moves(h)
    BY <1>3, EvaluationsMoves
  <2>2. CASE g = h
    <3>1. req'[h] = req[h]
      BY <1>3, <2>1, MovesOne
    <3>2. CompareFirst(h)
      BY <1>3, <2>2, <3>1, CompareGoesOn
    <3>3. PICK s, id, w : id = req[h].a /\ s = Snapshot(id) /\ w = [first |-> s]
      OBVIOUS
    <3>4. Continue(h, "check", w)
      BY <3>2, <3>3 DEF CompareFirst
    <3>5. work'[g] = w /\ s = w.first /\ id = req'[g].a
      BY <2>2, <3>1, <3>3, <3>4, Continued
    <3>6. s = Null \/ SnapFits(s, id)
      BY <3>3, SnapshotFits
    <3>7. s = Null \/ SnapFits(s, id)'
      BY <3>6, SnapStays
    <3> QED
      BY <3>5, <3>7
  <2>3. CASE g # h
    BY <1>1, <1>3, <2>1, <2>3, MovesOne
  <2> QED
    BY <2>2, <2>3
<1>4. ASSUME NEW h \in Handler, DeletionsServe(h), workload' = workload PROVE Untouched(EvaluationOps)
  BY <1>4, DeletionsMoves, MovesOne DEF EvaluationOps
<1> QED
  BY <1>2, <1>3, <1>4, EvaluationSteps

LEMMA ComparisonStays ==
  ASSUME HandlersFit, RowsKept, ComparesFit, [Next]_vars, NEW g \in Handler, compared'[g] = compared[g]
  PROVE  ComparedFits(g)'
<1> SUFFICES ASSUME compared'[g] # Null
             PROVE  /\ pc'[g] = "done"
                    /\ \E s, t : SnapFits(s, req[g].a)' /\ SnapFits(t, req[g].b)' /\ compared'[g] = Comparison(s, t)
  BY DEF ComparedFits
<1>1. PICK a, b : a = req[g].a /\ b = req[g].b
  OBVIOUS
<1>2. pc[g] = "done"
  BY DEF ComparesFit, ComparedFits
<1>3. PICK s, t : SnapFits(s, a) /\ SnapFits(t, b) /\ compared[g] = Comparison(s, t)
  BY <1>1 DEF ComparesFit, ComparedFits
<1>4. SnapFits(s, a)' /\ SnapFits(t, b)'
  BY <1>3, SnapStays
<1>5. pc'[g] = "done" /\ a = req'[g].a /\ b = req'[g].b
  BY <1>1, <1>2, DoneStays
<1> QED
  BY <1>3, <1>4, <1>5

LEMMA NewComparison ==
  ASSUME HandlersFit, RunsSummed, RowsKept, ComparesFit, NEW h \in Handler, CompareRuns(h), compared' # compared
  PROVE  ComparedFits(h)' /\ compared' = [compared EXCEPT ![h] = compared'[h]]
<1>1. PICK a, b, s, t : a = req[h].a /\ b = req[h].b /\ s = work[h].first /\ t = Snapshot(b)
  OBVIOUS
<1>2. /\ pc[h] \in Working /\ req[h].op = "compare" /\ s # Null /\ t # Null
      /\ compared' = [compared EXCEPT ![h] = Comparison(s, t)] /\ Respond(h, 200, Null)
  BY <1>1 DEF CompareRuns, Working
<1>3. compared'[h] = Comparison(s, t)
  BY <1>2 DEF ComparesFit
<1>4. SnapFits(s, a) /\ SnapFits(t, b)
  BY <1>1, <1>2, SnapshotFits DEF ComparesFit, CompareSession
<1>5. SnapFits(s, a)' /\ SnapFits(t, b)'
  BY <1>4, SnapStays
<1>6. pc'[h] = "done" /\ a = req'[h].a /\ b = req'[h].b
  BY <1>1, <1>2, Responded
<1> QED
  BY <1>2, <1>3, <1>5, <1>6 DEF ComparedFits

LEMMA NextComparesFit ==
  HandlersFit /\ EvaluationsFit /\ RunsFit /\ RunsSummed /\ ComparesFit /\ [Next]_vars => ComparesFit'
<1> SUFFICES ASSUME HandlersFit, EvaluationsFit, RunsFit, RunsSummed, ComparesFit, [Next]_vars PROVE ComparesFit'
  OBVIOUS
<1>1. RowsKept
  BY SumSteps DEF RowsKept
<1>2. CASE compared' = compared
  BY <1>1, <1>2, CompareSessions, ComparisonStays DEF ComparesFit
<1>3. CASE compared' # compared
  <2>1. PICK h \in Handler : CompareRuns(h)
    BY <1>3, ComparedStays
  <2>2. ComparedFits(h)' /\ compared' = [compared EXCEPT ![h] = compared'[h]]
    BY <1>1, <1>3, <2>1, NewComparison
  <2>3. compared' = [g \in Handler |-> compared'[g]] /\ \A g \in Handler : g # h => compared'[g] = compared[g]
    BY <2>2 DEF ComparesFit
  <2>4. \A g \in Handler : ComparedFits(g)'
    BY <1>1, <2>2, <2>3, ComparisonStays
  <2> QED
    BY <1>1, <2>3, <2>4, CompareSessions DEF ComparesFit
<1> QED
  BY <1>2, <1>3

LEMMA AlwaysComparesFit == Spec => []ComparesFit
<1>1. Init => ComparesFit
  BY DEF Init, HandlersInit, ComparesFit, CompareSession, ComparedFits, Working
<1> QED
  BY <1>1, NextComparesFit, AlwaysHandlersFit, AlwaysEvaluationsFit, AlwaysRunsFit, AlwaysRunsSummed, PTL DEF Spec

-----------------------------------------------------------------------------
(* Runs tell their results *)

(* A set of naturals up to a bound has a largest one.                      *)
LEMMA LastOne ==
  ASSUME NEW n \in Nat, NEW T, T \subseteq 0 .. n, T # {}
  PROVE  \E k \in T : \A m \in T : m <= k
<1> DEFINE U == {n - k : k \in T}
<1>1. U \subseteq Nat /\ U # {}
  <2>1. \A k \in T : k \in Nat /\ k <= n /\ n - k \in Nat
    OBVIOUS
  <2> QED
    BY <2>1
<1>2. PICK x \in U : \A y \in U : ~ (<<y, x>> \in OpToRel(<, Nat))
  BY <1>1, NatLessThanWellFounded, WFMin
<1>3. \A y \in U : ~ y < x
  BY <1>1, <1>2 DEF OpToRel
<1>4. PICK k \in T : x = n - k
  OBVIOUS
<1>5. ASSUME NEW m \in T PROVE m <= k
  <2>1. n - m \in U /\ m \in Nat /\ k \in Nat
    OBVIOUS
  <2> HIDE DEF U
  <2>2. ~ n - m < x
    BY <1>3, <2>1
  <2> QED
    BY <1>4, <2>1, <2>2
<1> QED
  BY <1>5

(* Of one run, what the property asks for.                                 *)
Counted3(run, D) ==
  IF run.total = Null THEN D = {}
  ELSE <<run.executed, run.errors, run.unpriced>>
         = <<Cardinality(D), Cardinality({n \in D : results[n].status = "ERROR"}),
             Cardinality({n \in D : results[n].status = "UNPRICED"})>>

Ended(run, D) ==
  run.status = "COMPLETED" =>
    /\ run.total = run.executed /\ run.passed = Cardinality({n \in D : results[n].passed})
    /\ Cardinality({n \in D : results[n].passed}) = run.total /\ Cardinality({n \in D : results[n].passed}) > 0
         => FullScore(run)
    /\ run.cost = SumOfCosts(D)

LEMMA SummedIsTold ==
  ASSUME NEW run, NEW D, Summed(run, results, D)
  PROVE  Counted3(run, D) /\ Ended(run, D)
<1>1. PICK table : table = results
  OBVIOUS
<1>2. IsFiniteSet(D) /\ Summed(run, table, D)
  BY <1>1 DEF Summed
<1>3. Counted3(run, D)
  BY <1>1, <1>2 DEF Counted3, Summed, Counts, InStatus
<1>4. ASSUME run.status = "COMPLETED"
      PROVE  /\ run.total = run.executed /\ run.passed = Cardinality({n \in D : results[n].passed})
             /\ Cardinality({n \in D : results[n].passed}) = run.total
                  /\ Cardinality({n \in D : results[n].passed}) > 0 => FullScore(run)
             /\ run.cost = SumOfCosts(D)
  <2>1. PICK P : P = Passes(table, D)
    OBVIOUS
  <2>2. P = {n \in D : results[n].passed}
    BY <1>1, <2>1 DEF Passes
  <2>3. Completes(run, table, D)
    BY <1>2, <1>4 DEF Summed
  <2>4. /\ run.total \in Nat /\ run.total = run.executed /\ run.passed = Cardinality(P)
        /\ P = D /\ D # {} => FullScore(run)
        /\ Totals(run.cost, table, D)
    BY <2>1, <2>3 DEF Completes
  <2>5. run.executed = Cardinality(D)
    BY <1>2, <2>4, EvaluationsAssumption DEF Summed, Counts
  <2>6. ASSUME Cardinality(P) = run.total, Cardinality(P) > 0 PROVE FullScore(run)
    <3>1. P \in SUBSET D
      BY <2>2
    <3>2. D = P
      BY <1>2, <2>4, <2>5, <2>6, <3>1, FS_Subset
    <3>3. D # {}
      BY <2>6, <3>2, FS_EmptySet
    <3> QED
      BY <2>4, <3>2, <3>3
  <2>7. run.cost = SumOfCosts(D)
    BY <1>1, <1>2, <2>4, TotalIsSum
  <2> QED
    BY <2>2, <2>4, <2>6, <2>7
<1> QED
  BY <1>3, <1>4 DEF Ended

LEMMA LastIsSaid ==
  ASSUME LogOK, TalesFit, Quiet, NEW n \in DOMAIN results, EntriesOf("result.reviewed", n) # {}
  PROVE  LET said == EntriesOf("result.reviewed", n) IN
         results[n].review = log[CHOOSE k \in said : \A m \in said : m <= k].note
<1>1. PICK said : said = EntriesOf("result.reviewed", n)
  OBVIOUS
<1>2. said \subseteq DOMAIN log /\ DOMAIN log = 1 .. Len(log) /\ Len(log) \in Nat
  BY <1>1, SeqFacts DEF EntriesOf, Entries, LogOK
<1>3. \E k \in said : \A m \in said : m <= k
  <2>1. PICK top \in Nat : top = Len(log)
    BY <1>2
  <2>2. said \subseteq 0 .. top /\ said # {}
    BY <1>1, <1>2, <2>1
  <2> QED
    BY <2>2, LastOne
<1>4. PICK k : k = CHOOSE j \in said : \A m \in said : m <= j
  OBVIOUS
<1>5. k \in said /\ \A m \in said : m <= k
  BY <1>3, <1>4
<1>6. k \in Entries /\ log[k].event = "result.reviewed" /\ log[k].about = n
  BY <1>1, <1>5 DEF EntriesOf
<1>7. LastSaid(k)
  BY <1>1, <1>5, <1>6 DEF LastSaid, EntriesOf
<1>8. results[n].review = log[k].note
  BY <1>6, <1>7 DEF TalesFit, Reviewed
<1> QED
  BY <1>1, <1>4, <1>8

(* RunsTellResults: the counters, the total and the verdict that           *)
(* execute_run commits with a run are those of its results, and the audit  *)
(* log tells how the run ended and what the last review said.              *)
THEOREM RunsAreTold == Spec => []RunsTellResults
<1>1. RunsSummed /\ LogOK /\ TalesFit => RunsTellResults
  <2> SUFFICES ASSUME RunsSummed, LogOK, TalesFit PROVE RunsTellResults
    OBVIOUS
  <2>1. ASSUME NEW id \in DOMAIN runs
        PROVE  /\ runs[id].status \in {"COMPLETED", "FAILED"}
               /\ Counted3(runs[id], ResultsOf(id)) /\ Ended(runs[id], ResultsOf(id))
               /\ \A m, n \in ResultsOf(id) : results[m].case = results[n].case => m = n
               /\ \A n \in ResultsOf(id) :
                    /\ results[n].passed => FullScore(results[n])
                    /\ FullScore(results[n]) => results[n].passed \/ Strict(runs[id])
               /\ \A n \in EntriesOf("run.ended", id) : log[n].note = runs[id].status
    <3>1. PICK run, D : run = runs[id] /\ D = ResultsOf(id)
      OBVIOUS
    <3>2. Summed(run, results, D)
      BY <3>1 DEF RunsSummed
    <3>3. Counted3(run, D) /\ Ended(run, D)
      BY <3>2, SummedIsTold
    <3>4. run.status \in {"COMPLETED", "FAILED"} /\ Distinct(results, D)
          /\ \A n \in D : ResultFits(results[n], run.config)
      BY <3>2 DEF Summed
    <3>5. StrictList(run.config) <=> Strict(run)
      BY DEF StrictList, StrictOne, Strict
    <3>6. \A n \in EntriesOf("run.ended", id) : log[n].note = runs[id].status
      BY DEF EntriesOf, TalesFit, EndsTold
    <3> QED
      BY <3>1, <3>3, <3>4, <3>5, <3>6 DEF Distinct, ResultFits
  <2>2. ASSUME Quiet, NEW n \in DOMAIN results, EntriesOf("result.reviewed", n) # {}
        PROVE  LET said == EntriesOf("result.reviewed", n) IN
               results[n].review = log[CHOOSE k \in said : \A m \in said : m <= k].note
    BY <2>2, LastIsSaid
  <2> QED
    BY <2>1, <2>2 DEF RunsTellResults, Counted3, Ended
<1>2. ShapeFit => LogOK
  BY DEF ShapeFit
<1> QED
  BY <1>1, <1>2, AlwaysRunsSummed, AlwaysShapeFit, AlwaysTalesFit, PTL

-----------------------------------------------------------------------------
(* Comparisons agree with the runs *)

LEMMA ApartCardinality ==
  ASSUME NEW S, IsFiniteSet(S), NEW T, IsFiniteSet(T), S \cap T = {}
  PROVE  /\ Cardinality(S \cup T) = Cardinality(S) + Cardinality(T)
         /\ Cardinality(S) \in Nat /\ Cardinality(T) \in Nat
<1>1. Cardinality(S) \in Nat /\ Cardinality(T) \in Nat
  BY FS_CardinalityType
<1>2. Cardinality(S \cup T) = Cardinality(S) + Cardinality(T) - Cardinality(S \cap T)
  BY FS_Union
<1>3. Cardinality(S \cap T) = 0
  BY FS_EmptySet
<1> QED
  BY <1>1, <1>2, <1>3

(* Two parts of a set sort it into four.                                   *)
LEMMA Quarters ==
  ASSUME NEW S, IsFiniteSet(S), NEW X \in SUBSET S, NEW Y \in SUBSET S
  PROVE  /\ Cardinality(S) = Cardinality((Y \ X) \cup (X \ Y)) + Cardinality(X \cap Y)
                               + Cardinality(S \ (X \cup Y))
         /\ Cardinality(X) = Cardinality(X \ Y) + Cardinality(X \cap Y)
         /\ Cardinality(Y) = Cardinality(Y \ X) + Cardinality(X \cap Y)
         /\ Cardinality(S) \in Nat /\ Cardinality(X) \in Nat /\ Cardinality(Y) \in Nat
         /\ Cardinality(X \ Y) \in Nat /\ Cardinality(Y \ X) \in Nat /\ Cardinality(X \cap Y) \in Nat
<1> DEFINE N == (Y \ X) \cup (X \ Y)
           P == X \cap Y
           F == S \ (X \cup Y)
<1>1. \A T \in SUBSET S : IsFiniteSet(T)
  BY FS_Subset
<1>2. IsFiniteSet(N) /\ IsFiniteSet(P) /\ IsFiniteSet(F) /\ IsFiniteSet(X \ Y) /\ IsFiniteSet(Y \ X)
      /\ IsFiniteSet(N \cup P)
  BY <1>1
<1>3. /\ N \cap P = {} /\ (N \cup P) \cap F = {} /\ (X \ Y) \cap P = {} /\ (Y \ X) \cap P = {}
      /\ S = (N \cup P) \cup F /\ X = (X \ Y) \cup P /\ Y = (Y \ X) \cup P
  OBVIOUS
<1>4. PICK n, p, f, x, y : n = N /\ p = P /\ f = F /\ x = X \ Y /\ y = Y \ X
  OBVIOUS
<1>5. /\ IsFiniteSet(n) /\ IsFiniteSet(p) /\ IsFiniteSet(f) /\ IsFiniteSet(x) /\ IsFiniteSet(y)
      /\ IsFiniteSet(n \cup p) /\ n \cap p = {} /\ (n \cup p) \cap f = {} /\ x \cap p = {} /\ y \cap p = {}
      /\ S = (n \cup p) \cup f /\ X = x \cup p /\ Y = y \cup p
  BY <1>2, <1>3, <1>4
<1>6. Cardinality(n \cup p) = Cardinality(n) + Cardinality(p) /\ Cardinality(n) \in Nat /\ Cardinality(p) \in Nat
  BY <1>5, ApartCardinality
<1>7. Cardinality(S) = Cardinality(n \cup p) + Cardinality(f) /\ Cardinality(f) \in Nat
  BY <1>5, ApartCardinality
<1>8. Cardinality(X) = Cardinality(x) + Cardinality(p) /\ Cardinality(x) \in Nat
  BY <1>5, ApartCardinality
<1>9. Cardinality(Y) = Cardinality(y) + Cardinality(p) /\ Cardinality(y) \in Nat
  BY <1>5, ApartCardinality
<1> QED
  BY <1>4, <1>6, <1>7, <1>8, <1>9

Passing(pass) == {c \in DOMAIN pass : pass[c]}

(* The pass rate of a run that completed is that of its cases, and a run   *)
(* that misses no price has no result without one.                         *)
RateOf(pass) ==
  IF Cardinality(DOMAIN pass) = 0 THEN <<0, 1>> ELSE <<Cardinality(Passing(pass)), Cardinality(DOMAIN pass)>>

LEMMA PassCounts ==
  ASSUME NEW table, NEW D, IsFiniteSet(D), Distinct(table, D), NEW pass, pass = PassOf(table, D)
  PROVE  /\ IsFiniteSet(DOMAIN pass) /\ Cardinality(DOMAIN pass) = Cardinality(D)
         /\ Cardinality(Passing(pass)) = Cardinality(Passes(table, D))
<1>1. PICK A, P, W : A = DOMAIN pass /\ P = Passes(table, D) /\ W = Passing(pass)
  OBVIOUS
<1>2. /\ A = {table[n].case : n \in D}
      /\ \A c \in A : pass[c] <=> \E n \in D : table[n].case = c /\ table[n].passed
  BY <1>1 DEF PassOf
<1>3. PICK f : f = [n \in D |-> table[n].case]
  OBVIOUS
<1>4. \A n \in D : f[n] = table[n].case
  BY <1>3
<1>5. \A m, n \in D : f[m] = f[n] => m = n
  BY <1>4 DEF Distinct
<1>6. A = {f[n] : n \in D}
  BY <1>2, <1>4
<1>7. Onto(f, D, A)
  BY <1>5, <1>6 DEF Onto
<1>8. IsFiniteSet(A) /\ Cardinality(A) = Cardinality(D)
  BY <1>7, ImageCardinality
<1>9. P = {n \in D : table[n].passed} /\ W = {c \in A : pass[c]}
  BY <1>1 DEF Passes, Passing
<1>10. IsFiniteSet(P) /\ P \subseteq D
  <2>1. P \in SUBSET D
    BY <1>9
  <2> QED
    BY <2>1, FS_Subset
<1>11. W = {f[n] : n \in P}
  <2>1. ASSUME NEW c \in W PROVE c \in {f[n] : n \in P}
    <3>1. PICK n \in D : table[n].case = c /\ table[n].passed
      BY <1>2, <1>9
    <3> QED
      BY <1>4, <1>9, <3>1
  <2>2. ASSUME NEW n \in P PROVE f[n] \in W
    <3>1. n \in D /\ table[n].passed /\ f[n] = table[n].case
      BY <1>4, <1>9
    <3>2. f[n] \in A
      BY <1>6, <3>1
    <3> QED
      BY <1>2, <1>9, <3>1, <3>2
  <2> QED
    BY <2>1, <2>2
<1>12. Onto(f, P, W)
  BY <1>5, <1>10, <1>11 DEF Onto
<1>13. Cardinality(W) = Cardinality(P)
  BY <1>10, <1>12, ImageCardinality
<1> QED
  BY <1>1, <1>8, <1>13

LEMMA SnapTells ==
  ASSUME RunsSummed, NEW s, NEW id, SnapFits(s, id)
  PROVE  /\ DOMAIN s.pass = {results[k].case : k \in ResultsOf(id)} /\ IsFiniteSet(DOMAIN s.pass)
         /\ runs[id].status = "COMPLETED" => OrZero(s.run.pass_rate) = RateOf(s.pass)
         /\ s.run.unpriced \in {0, Null} => \A k \in ResultsOf(id) : results[k].status # "UNPRICED"
<1>1. PICK run, D, pass : run = runs[id] /\ D = ResultsOf(id) /\ pass = s.pass
  OBVIOUS
<1>2. Summed(run, results, D) /\ pass = PassOf(results, D)
  BY <1>1 DEF RunsSummed, SnapFits
<1>3. s.run.pass_rate = run.pass_rate /\ s.run.unpriced = run.unpriced
  BY <1>1 DEF SnapFits, RunColumns
<1>4. IsFiniteSet(D) /\ Distinct(results, D)
  BY <1>2 DEF Summed
<1>5. DOMAIN pass = {results[k].case : k \in D}
  BY <1>2 DEF PassOf
<1>6. /\ IsFiniteSet(DOMAIN pass) /\ Cardinality(DOMAIN pass) = Cardinality(D)
      /\ Cardinality(Passing(pass)) = Cardinality(Passes(results, D))
  BY <1>2, <1>4, PassCounts
<1>7. ASSUME run.status = "COMPLETED" PROVE OrZero(run.pass_rate) = RateOf(pass)
  <2>1. /\ run.total \in Nat /\ run.total = run.executed /\ run.passed = Cardinality(Passes(results, D))
        /\ run.pass_rate = IF run.total = 0 THEN Null ELSE <<run.passed, run.total>>
    BY <1>2, <1>7 DEF Summed, Completes
  <2>2. run.executed = Cardinality(D)
    BY <1>2, <2>1, EvaluationsAssumption DEF Summed, Counts
  <2>3. run.total = Cardinality(DOMAIN pass) /\ run.passed = Cardinality(Passing(pass))
    BY <1>6, <2>1, <2>2
  <2>4. run.passed \in Int
    <3>1. Passes(results, D) \in SUBSET D
      BY DEF Passes
    <3>2. IsFiniteSet(Passes(results, D))
      BY <1>4, <3>1, FS_Subset
    <3> QED
      BY <2>1, <3>2, FS_CardinalityType
  <2>5. CASE run.total = 0
    BY <2>1, <2>3, <2>5 DEF OrZero, RateOf
  <2>6. CASE run.total # 0
    <3>1. run.pass_rate = <<run.passed, run.total>> /\ run.pass_rate \in Int \X Int
      BY <2>1, <2>4, <2>6
    <3>2. OrZero(run.pass_rate) = run.pass_rate
      BY <3>1, EvaluationsAssumption DEF OrZero
    <3> QED
      BY <2>3, <2>6, <3>1, <3>2 DEF RateOf
  <2> QED
    BY <2>5, <2>6
<1>8. ASSUME run.unpriced \in {0, Null}, NEW k \in D PROVE results[k].status # "UNPRICED"
  <2>1. PICK U : U = InStatus(results, D, "UNPRICED")
    OBVIOUS
  <2>2. U \in SUBSET D
    BY <2>1 DEF InStatus
  <2>3. IsFiniteSet(U) /\ Cardinality(U) \in Nat
    BY <1>4, <2>2, FS_Subset, FS_CardinalityType
  <2>4. run.unpriced = Cardinality(U)
    BY <1>2, <1>8, <2>1 DEF Summed, Counts
  <2>5. Cardinality(U) = 0
    BY <1>8, <2>3, <2>4, EvaluationsAssumption
  <2>6. U = {}
    BY <2>3, <2>5, FS_EmptySet
  <2> QED
    BY <1>8, <2>1, <2>6 DEF InStatus
<1> QED
  BY <1>1, <1>3, <1>5, <1>6, <1>7, <1>8

Rate(z, n) == IF n = 0 THEN <<0, 1>> ELSE <<z, n>>

LEMMA DeltaOfRates ==
  ASSUME NEW n \in Nat, NEW x \in 0 .. n, NEW y \in 0 .. n, NEW i \in Nat, NEW r \in Nat, x - r = y - i,
         NEW d, d = Minus(Rate(y, n), Rate(x, n))
  PROVE  d[1] * n = (i - r) * d[2]
<1>1. y - x = i - r
  OBVIOUS
<1>2. CASE n = 0
  <2>1. Rate(y, n) = <<0, 1>> /\ Rate(x, n) = <<0, 1>> /\ i - r = 0
    BY <1>1, <1>2 DEF Rate
  <2>2. d = <<0, 1>>
    BY <2>1 DEF Minus, Plus
  <2> QED
    BY <1>2, <2>1, <2>2
<1>3. CASE n # 0
  <2>1. Rate(y, n) = <<y, n>> /\ Rate(x, n) = <<x, n>>
    BY <1>3 DEF Rate
  <2>2. d = <<y * n + (- x) * n, n * n>>
    BY <2>1 DEF Minus, Plus
  <2>3. PICK m \in Int, k \in Int : m = y * n + (- x) * n /\ k = n * n
    OBVIOUS
  <2>4. d[1] = m /\ d[2] = k
    BY <2>2, <2>3
  <2>5. PICK e \in Int : e = i - r
    OBVIOUS
  <2>6. m = e * n
    <3>1. y * n - x * n = (y - x) * n /\ (- x) * n = - (x * n)
      OBVIOUS
    <3>2. PICK u \in Int, v \in Int, w \in Int : u = y * n /\ v = x * n /\ w = (- x) * n
      OBVIOUS
    <3>3. m = u + w /\ w = - v /\ u - v = (y - x) * n
      BY <2>3, <3>1, <3>2
    <3>4. m = (y - x) * n
      BY <3>2, <3>3
    <3> QED
      BY <1>1, <2>5, <3>4
  <2>7. m * n = e * k
    BY <2>3, <2>6
  <2> QED
    BY <2>4, <2>5, <2>7
<1> QED
  BY <1>2, <1>3

(* Of two snapshots, what the property asks for of their comparison.       *)
Sorts(c, s, t) ==
  /\ c.improved \cap c.regressed = {} /\ c.improved \cup c.regressed \subseteq c.shared
  /\ Cardinality(c.shared) = Cardinality(c.improved \cup c.regressed) + c.both_pass + c.both_fail
  /\ c.complete => {s.run.unpriced, t.run.unpriced} \subseteq {0, Null}
  /\ DOMAIN s.pass = DOMAIN t.pass
       /\ OrZero(s.run.pass_rate) = RateOf(s.pass) /\ OrZero(t.run.pass_rate) = RateOf(t.pass)
     => c.delta[1] * Cardinality(c.shared)
          = (Cardinality(c.improved) - Cardinality(c.regressed)) * c.delta[2]

LEMMA ComparisonSorts ==
  ASSUME NEW s, NEW t, IsFiniteSet(DOMAIN s.pass), IsFiniteSet(DOMAIN t.pass), NEW c, c = Comparison(s, t)
  PROVE  Sorts(c, s, t)
<1>1. PICK a, b, A, B : a = s.pass /\ b = t.pass /\ A = DOMAIN a /\ B = DOMAIN b
  OBVIOUS
<1>2. PICK S, X, Y : S = A \cap B /\ X = {k \in S : a[k]} /\ Y = {k \in S : b[k]}
  OBVIOUS
<1>3. /\ c.shared = S
      /\ c.improved = {k \in S : ~ a[k] /\ b[k]} /\ c.regressed = {k \in S : a[k] /\ ~ b[k]}
      /\ c.both_pass = Cardinality({k \in S : a[k] /\ b[k]})
      /\ c.both_fail = Cardinality({k \in S : ~ a[k] /\ ~ b[k]})
      /\ c.delta = Minus(OrZero(t.run.pass_rate), OrZero(s.run.pass_rate))
      /\ c.complete = ({s.run.unpriced, t.run.unpriced} \subseteq {0, Null})
  BY <1>1, <1>2 DEF Comparison
<1>4. /\ {k \in S : ~ a[k] /\ b[k]} = Y \ X /\ {k \in S : a[k] /\ ~ b[k]} = X \ Y
      /\ {k \in S : a[k] /\ b[k]} = X \cap Y /\ {k \in S : ~ a[k] /\ ~ b[k]} = S \ (X \cup Y)
  BY <1>2
<1>5. IsFiniteSet(S) /\ X \in SUBSET S /\ Y \in SUBSET S
  <2>1. S \in SUBSET A
    BY <1>2
  <2>2. IsFiniteSet(A)
    BY <1>1
  <2>3. IsFiniteSet(S)
    BY <2>1, <2>2, FS_Subset
  <2> QED
    BY <1>2, <2>3
<1>6. /\ Cardinality(S) = Cardinality((Y \ X) \cup (X \ Y)) + Cardinality(X \cap Y) + Cardinality(S \ (X \cup Y))
      /\ Cardinality(X) = Cardinality(X \ Y) + Cardinality(X \cap Y)
      /\ Cardinality(Y) = Cardinality(Y \ X) + Cardinality(X \cap Y)
      /\ Cardinality(S) \in Nat /\ Cardinality(X) \in Nat /\ Cardinality(Y) \in Nat
      /\ Cardinality(X \ Y) \in Nat /\ Cardinality(Y \ X) \in Nat /\ Cardinality(X \cap Y) \in Nat
  BY <1>5, Quarters
<1>7. c.improved = Y \ X /\ c.regressed = X \ Y /\ c.shared = S
      /\ c.both_pass = Cardinality(X \cap Y) /\ c.both_fail = Cardinality(S \ (X \cup Y))
  BY <1>3, <1>4
<1>8. ASSUME A = B, OrZero(s.run.pass_rate) = RateOf(a), OrZero(t.run.pass_rate) = RateOf(b)
      PROVE  c.delta[1] * Cardinality(S) = (Cardinality(Y \ X) - Cardinality(X \ Y)) * c.delta[2]
  <2>1. PICK n, x, y, i, r, d : /\ n = Cardinality(S) /\ x = Cardinality(X) /\ y = Cardinality(Y)
                                /\ i = Cardinality(Y \ X) /\ r = Cardinality(X \ Y) /\ d = c.delta
    OBVIOUS
  <2>2. n \in Nat /\ i \in Nat /\ r \in Nat /\ x - r = y - i /\ x \in Nat /\ y \in Nat
    BY <1>6, <2>1
  <2>3. x <= n /\ y <= n
    BY <1>5, <2>1, FS_Subset
  <2>4. S = A /\ S = B /\ Passing(a) = X /\ Passing(b) = Y
    BY <1>1, <1>2, <1>8 DEF Passing
  <2>5. RateOf(a) = Rate(x, n) /\ RateOf(b) = Rate(y, n)
    BY <1>1, <2>1, <2>4 DEF RateOf, Rate
  <2>6. d = Minus(Rate(y, n), Rate(x, n))
    BY <1>3, <1>8, <2>1, <2>5
  <2>7. x \in 0 .. n /\ y \in 0 .. n
    BY <2>2, <2>3
  <2>8. d[1] * n = (i - r) * d[2]
    BY <2>2, <2>6, <2>7, DeltaOfRates
  <2> QED
    BY <2>1, <2>8
<1>9. c.improved \cap c.regressed = {} /\ c.improved \cup c.regressed \subseteq c.shared
  BY <1>5, <1>7
<1> QED
  BY <1>1, <1>3, <1>6, <1>7, <1>8, <1>9 DEF Sorts

(* ComparisonsAgree: compare_runs sorts the cases that both runs have, its *)
(* change of the pass rate is that of these cases if both completed on the *)
(* same ones, and it calls costs complete only if no price is missing.     *)
THEOREM ComparisonsAreRight == Spec => []ComparisonsAgree
<1>1. RunsSummed /\ ComparesFit => ComparisonsAgree
  <2> SUFFICES ASSUME RunsSummed, ComparesFit, NEW h \in Handler, compared[h] # Null
               PROVE  LET c == compared[h]
                          a == req[h].a
                          b == req[h].b
                          Cases(id) == {results[k].case : k \in ResultsOf(id)}
                      IN
                      /\ c.improved \cap c.regressed = {} /\ c.improved \cup c.regressed \subseteq c.shared
                      /\ Cardinality(c.shared) = Cardinality(c.improved \cup c.regressed) + c.both_pass + c.both_fail
                      /\ {runs[a].status, runs[b].status} = {"COMPLETED"} /\ Cases(a) = Cases(b) =>
                           c.delta[1] * Cardinality(c.shared)
                             = (Cardinality(c.improved) - Cardinality(c.regressed)) * c.delta[2]
                      /\ c.complete => \A k \in ResultsOf(a) \cup ResultsOf(b) : results[k].status # "UNPRICED"
    BY DEF ComparisonsAgree
  <2>1. PICK a, b, c : a = req[h].a /\ b = req[h].b /\ c = compared[h]
    OBVIOUS
  <2>2. PICK s, t : SnapFits(s, a) /\ SnapFits(t, b) /\ c = Comparison(s, t)
    BY <2>1 DEF ComparesFit, ComparedFits
  <2>3. /\ DOMAIN s.pass = {results[k].case : k \in ResultsOf(a)} /\ IsFiniteSet(DOMAIN s.pass)
        /\ runs[a].status = "COMPLETED" => OrZero(s.run.pass_rate) = RateOf(s.pass)
        /\ s.run.unpriced \in {0, Null} => \A k \in ResultsOf(a) : results[k].status # "UNPRICED"
    BY <2>2, SnapTells
  <2>4. /\ DOMAIN t.pass = {results[k].case : k \in ResultsOf(b)} /\ IsFiniteSet(DOMAIN t.pass)
        /\ runs[b].status = "COMPLETED" => OrZero(t.run.pass_rate) = RateOf(t.pass)
        /\ t.run.unpriced \in {0, Null} => \A k \in ResultsOf(b) : results[k].status # "UNPRICED"
    BY <2>2, SnapTells
  <2>5. Sorts(c, s, t)
    BY <2>2, <2>3, <2>4, ComparisonSorts
  <2>6. ASSUME {runs[a].status, runs[b].status} = {"COMPLETED"},
               {results[k].case : k \in ResultsOf(a)} = {results[k].case : k \in ResultsOf(b)}
        PROVE  c.delta[1] * Cardinality(c.shared)
                 = (Cardinality(c.improved) - Cardinality(c.regressed)) * c.delta[2]
    BY <2>3, <2>4, <2>5, <2>6 DEF Sorts
  <2>7. ASSUME c.complete PROVE \A k \in ResultsOf(a) \cup ResultsOf(b) : results[k].status # "UNPRICED"
    BY <2>3, <2>4, <2>5, <2>7 DEF Sorts
  <2> QED
    BY <2>1, <2>5, <2>6, <2>7 DEF Sorts
<1> QED
  BY <1>1, AlwaysRunsSummed, AlwaysComparesFit, PTL

=============================================================================
