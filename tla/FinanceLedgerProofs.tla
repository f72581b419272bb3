------------------------- MODULE FinanceLedgerProofs -------------------------
(***************************************************************************)
(* Theorems about FinanceEntry and FinanceStatistics for every value of     *)
(* their constants: the types of the ledger, no limit passed in silence,    *)
(* consistent books, closed months, and statistics that agree with them.    *)
(*                                                                          *)
(* A step is first reduced to one of seven things it may do to the books    *)
(* (StepsBooks), and the invariants are shown of these.  What recursion     *)
(* computes here - the months that advance creates, sums over sets of rows, *)
(* the points of a timeline - is found by induction over intervals and      *)
(* subsets, stated as facts about sets (Ascends, Shrinks).                  *)
(***************************************************************************)
EXTENDS FinanceEntryProofs, WellFoundedInduction

-----------------------------------------------------------------------------
(* Induction over an interval, as a fact about a set *)

LEMMA Ascends ==
    ASSUME NEW a \in Int, NEW b \in Int, NEW S, a \in S,
           \A k \in a..b : (k \in S /\ k < b) => k + 1 \in S
    PROVE  a..b \subseteq S
<1> DEFINE F == {n \in Nat : a + n <= b /\ a + n \notin S}
<1>1. SUFFICES ASSUME F # {} PROVE FALSE
  <2>1. ASSUME NEW k \in a..b, F = {} PROVE k \in S
    <3>1. k - a \in Nat /\ a + (k - a) = k
      OBVIOUS
    <3>2. k - a \notin F
      BY <2>1
    <3>3. QED
      BY <3>1, <3>2
  <2>2. QED
    BY <2>1
<1>2. F \subseteq Nat
  OBVIOUS
<1>3. PICK n \in F : \A g \in F : ~(<<g, n>> \in OpToRel(<, Nat))
  <2> HIDE DEF F
  <2>1. QED
    BY <1>1, <1>2, NatLessThanWellFounded, WFMin, Zenon
<1>4. \A g \in F : ~(g < n)
  <2> HIDE DEF F
  <2>1. QED
    BY <1>2, <1>3, Zenon DEF OpToRel
<1>5. n \in Nat /\ a + n <= b /\ a + n \notin S
  OBVIOUS
<1>6. n # 0
  <2>1. a + 0 = a
    OBVIOUS
  <2>2. QED
    BY <1>5, <2>1
<1>7. n - 1 \in Nat /\ n - 1 < n /\ a + (n - 1) <= b
  BY <1>5, <1>6
<1>8. a + (n - 1) \in S
  BY <1>4, <1>7
<1>9. a + (n - 1) \in a..b /\ a + (n - 1) < b
  BY <1>5, <1>7
<1>10. (a + (n - 1)) + 1 \in S
  BY <1>8, <1>9
<1>11. (a + (n - 1)) + 1 = a + n
  BY <1>5
<1>12. QED
  BY <1>5, <1>10, <1>11

LEMMA MaxOf ==
    ASSUME NEW S, S \subseteq Int, IsFiniteSet(S), S # {}
    PROVE  Max(S) \in S /\ \A x \in S : x <= Max(S)
<1> DEFINE C == {n \in Nat : \A T \in SUBSET S :
                    (T # {} /\ Cardinality(T) <= n) => \E x \in T : \A y \in T : y <= x}
           size == Cardinality(S)
<1>1. size \in Nat
  BY FS_CardinalityType
<1>2. 0 \in C
  <2>1. ASSUME NEW T \in SUBSET S, T # {}, Cardinality(T) <= 0 PROVE FALSE
    <3>1. IsFiniteSet(T)
      BY FS_Subset
    <3>2. Cardinality(T) \in Nat
      BY <3>1, FS_CardinalityType
    <3>3. Cardinality(T) = 0
      BY <2>1, <3>2
    <3>4. QED
      BY <2>1, <3>1, <3>3, FS_EmptySet
  <2>2. QED
    BY <2>1
<1>3. ASSUME NEW k \in 0..size, k \in C
      PROVE  k + 1 \in C
  <2>1. SUFFICES ASSUME NEW T \in SUBSET S, T # {}, Cardinality(T) <= k + 1
                 PROVE  \E x \in T : \A y \in T : y <= x
    OBVIOUS
  <2>2. PICK t : t \in T
    BY <2>1
  <2>3. IsFiniteSet(T) /\ IsFiniteSet(T \ {t}) /\ Cardinality(T \ {t}) = Cardinality(T) - 1
    BY <2>2, FS_Subset, FS_RemoveElement
  <2>4. Cardinality(T) \in Nat /\ Cardinality(T \ {t}) <= k
    BY <2>1, <2>3, FS_CardinalityType
  <2>5. CASE T \ {t} = {}
    BY <2>2, <2>5
  <2>6. CASE T \ {t} # {}
    <3>1. PICK x \in T \ {t} : \A y \in T \ {t} : y <= x
      BY <1>3, <2>4, <2>6
    <3>2. CASE t <= x
      BY <3>1, <3>2
    <3>3. CASE ~(t <= x)
      <4>1. x \in Int /\ t \in Int /\ T \subseteq Int
        BY <2>2
      <4>2. \A y \in T : y <= t
        BY <3>1, <3>3, <4>1
      <4>3. QED
        BY <2>2, <4>2
    <3>4. QED
      BY <3>2, <3>3
  <2>7. QED
    BY <2>5, <2>6
<1>4. size \in C
  <2> HIDE DEF C
  <2>1. 0..size \subseteq C
    BY <1>1, <1>2, <1>3, Ascends
  <2>2. QED
    BY <1>1, <2>1
<1>5. PICK x \in S : \A y \in S : y <= x
  BY <1>4
<1>6. \A y \in S : x >= y
  BY <1>5
<1>7. QED
  BY <1>6 DEF Max

LEMMA MinOfTwo ==
    ASSUME NEW a \in Int, NEW b \in Int
    PROVE  Min({a, b}) = IF a <= b THEN a ELSE b
<1>1. \E x \in {a, b} : \A y \in {a, b} : x <= y
  OBVIOUS
<1>2. Min({a, b}) \in {a, b} /\ \A y \in {a, b} : Min({a, b}) <= y
  BY <1>1 DEF Min
<1>3. QED
  BY <1>2

-----------------------------------------------------------------------------
(* Sums over finite sets *)

Picked(s) == CHOOSE x \in s : TRUE

(* The function that MapThenSumSet defines over the subsets of S, of values g.*)
Sums(it, g, S) ==
    it = [s \in SUBSET S |-> IF s = {} THEN 0 ELSE g[Picked(s)] + it[s \ {Picked(s)}]]

LEMMA PickedIn == \A s : s # {} => Picked(s) \in s
  BY DEF Picked

LEMMA SumsExist ==
    ASSUME NEW S, IsFiniteSet(S), NEW g
    PROVE  \E it : Sums(it, g, S)
<1> DEFINE Part(n) == {s \in SUBSET S : Cardinality(s) <= n}
           Gather(it, s) == IF s = {} THEN 0 ELSE g[Picked(s)] + it[s \ {Picked(s)}]
           C == {n \in Nat : \E it : it = [s \in Part(n) |-> Gather(it, s)]}
           size == Cardinality(S)
<1>1. size \in Nat
  BY FS_CardinalityType
<1>2. ASSUME NEW s \in SUBSET S, s # {}
      PROVE  /\ Picked(s) \in s /\ s \ {Picked(s)} \in SUBSET S
             /\ Cardinality(s) \in Nat
             /\ Cardinality(s \ {Picked(s)}) = Cardinality(s) - 1
  <2>1. Picked(s) \in s /\ IsFiniteSet(s)
    BY <1>2, PickedIn, FS_Subset
  <2>2. QED
    BY <2>1, FS_RemoveElement, FS_CardinalityType
<1>3. 0 \in C
  <2>1. ASSUME NEW s \in Part(0) PROVE s = {}
    <3>1. IsFiniteSet(s) /\ Cardinality(s) <= 0
      BY FS_Subset
    <3>2. Cardinality(s) \in Nat
      BY <3>1, FS_CardinalityType
    <3>3. Cardinality(s) = 0
      BY <3>1, <3>2
    <3>4. QED
      BY <3>1, <3>3, FS_EmptySet
  <2> DEFINE it == [s \in Part(0) |-> 0]
  <2>2. \A s \in Part(0) : Gather(it, s) = 0
    BY <2>1
  <2>3. it = [s \in Part(0) |-> Gather(it, s)]
    <3> HIDE DEF Gather, Part
    <3>1. QED
      BY <2>2
  <2>4. \E f : f = [s \in Part(0) |-> Gather(f, s)]
    <3> HIDE DEF Gather, Part, it
    <3>1. QED
      BY <2>3
  <2>5. QED
    BY <2>4
<1>4. ASSUME NEW k \in 0..size, k \in C
      PROVE  k + 1 \in C
  <2>1. PICK it : it = [s \in Part(k) |-> Gather(it, s)]
    BY <1>4
  <2> DEFINE jt == [s \in Part(k + 1) |-> Gather(it, s)]
  <2>2. ASSUME NEW s \in Part(k + 1), s # {}
        PROVE  jt[s \ {Picked(s)}] = it[s \ {Picked(s)}]
    <3> DEFINE r == s \ {Picked(s)}
    <3>1. r \in Part(k) /\ r \in Part(k + 1)
      BY <1>2, <2>2
    <3>2. it[r] = Gather(it, r) /\ jt[r] = Gather(it, r)
      <4> HIDE DEF r, Gather
      <4>1. QED
        BY <2>1, <3>1
    <3>3. QED
      BY <3>2
  <2>3. \A s \in Part(k + 1) : Gather(it, s) = Gather(jt, s)
    BY <2>2
  <2>4. jt = [s \in Part(k + 1) |-> Gather(jt, s)]
    <3> DEFINE at == Part(k + 1)
    <3>1. \A s \in at : Gather(it, s) = Gather(jt, s)
      BY <2>3
    <3>2. [s \in at |-> Gather(it, s)] = [s \in at |-> Gather(jt, s)]
      <4> HIDE DEF Gather, at
      <4>1. QED
        BY <3>1, Zenon
    <3>3. QED
      BY <3>2, Zenon
  <2>5. \E f : f = [s \in Part(k + 1) |-> Gather(f, s)]
    <3> HIDE DEF Gather, Part, jt
    <3>1. QED
      BY <2>4
  <2>6. k + 1 \in Nat
    OBVIOUS
  <2>7. QED
    BY <2>5, <2>6
<1>5. size \in C
  <2> HIDE DEF C
  <2>1. 0..size \subseteq C
    BY <1>1, <1>3, <1>4, Ascends
  <2>2. QED
    BY <1>1, <2>1
<1>6. Part(size) = SUBSET S
  BY FS_Subset
<1>7. QED
  BY <1>5, <1>6 DEF Sums

LEMMA SumOfNone ==
    ASSUME NEW it, NEW g, NEW S, Sums(it, g, S)
    PROVE  it[{}] = 0
  BY DEF Sums

LEMMA SumOfSome ==
    ASSUME NEW it, NEW g, NEW S, Sums(it, g, S), NEW s \in SUBSET S, s # {}
    PROVE  it[s] = g[Picked(s)] + it[s \ {Picked(s)}]
  BY DEF Sums

(* Induction on the size of subsets: C has every subset of S if it has the    *)
(* empty one and whatever all smaller sets lead to.                           *)
LEMMA Shrinks ==
    ASSUME NEW S, IsFiniteSet(S), NEW C,
           \A s \in SUBSET S :
               (\A r \in SUBSET S : Cardinality(r) < Cardinality(s) => r \in C) => s \in C
    PROVE  SUBSET S \subseteq C
<1> DEFINE D == {n \in Nat : \A s \in SUBSET S : Cardinality(s) <= n => s \in C}
           size == Cardinality(S)
<1>1. size \in Nat
  BY FS_CardinalityType
<1>2. \A s \in SUBSET S : Cardinality(s) \in Nat
  BY FS_Subset, FS_CardinalityType
<1>3. 0 \in D
  BY <1>2
<1>4. ASSUME NEW k \in 0..size, k \in D
      PROVE  k + 1 \in D
  <2>1. ASSUME NEW s \in SUBSET S, Cardinality(s) <= k + 1
        PROVE  s \in C
    <3>1. \A r \in SUBSET S : Cardinality(r) < Cardinality(s) => Cardinality(r) <= k
      BY <1>2, <2>1
    <3>2. QED
      BY <1>4, <3>1
  <2>2. QED
    BY <2>1
<1>5. size \in D
  <2> HIDE DEF D
  <2>1. 0..size \subseteq D
    BY <1>1, <1>3, <1>4, Ascends
  <2>2. QED
    BY <1>1, <2>1
<1>6. QED
  BY <1>5, FS_Subset

LEMMA PickedLess ==
    ASSUME NEW S, IsFiniteSet(S), NEW s \in SUBSET S, NEW x \in s
    PROVE  s \ {x} \in SUBSET S /\ Cardinality(s \ {x}) < Cardinality(s)
<1>1. IsFiniteSet(s)
  BY FS_Subset
<1>2. Cardinality(s \ {x}) = Cardinality(s) - 1 /\ Cardinality(s) \in Nat
  BY <1>1, FS_RemoveElement, FS_CardinalityType
<1>3. QED
  BY <1>2

LEMMA SumTypes ==
    ASSUME NEW S, IsFiniteSet(S), NEW g, NEW it, Sums(it, g, S),
           \A x \in S : g[x] \in Int
    PROVE  /\ \A s \in SUBSET S : it[s] \in Int
           /\ (\A x \in S : g[x] >= 0) => \A s \in SUBSET S : it[s] >= 0
<1> DEFINE C == {s \in SUBSET S : it[s] \in Int /\ ((\A x \in S : g[x] >= 0) => it[s] >= 0)}
<1>1. ASSUME NEW s \in SUBSET S,
             \A r \in SUBSET S : Cardinality(r) < Cardinality(s) => r \in C
      PROVE  s \in C
  <2>1. CASE s = {}
    BY <2>1, SumOfNone
  <2>2. CASE s # {}
    <3>1. /\ Picked(s) \in s
          /\ it[s] = g[Picked(s)] + it[s \ {Picked(s)}]
      BY <2>2, PickedIn, SumOfSome
    <3>2. s \ {Picked(s)} \in C
      BY <1>1, <3>1, PickedLess
    <3>3. g[Picked(s)] \in Int
      BY <3>1
    <3>4. QED
      BY <3>1, <3>2, <3>3
  <2>3. QED
    BY <2>1, <2>2
<1>2. SUBSET S \subseteq C
  <2> HIDE DEF C
  <2>1. QED
    BY <1>1, Shrinks
<1>3. QED
  BY <1>2

LEMMA SumsAgree ==
    ASSUME NEW S, IsFiniteSet(S), NEW T, NEW g, NEW h, NEW it, NEW jt,
           Sums(it, g, S), Sums(jt, h, T), S \subseteq T, \A x \in S : g[x] = h[x]
    PROVE  it[S] = jt[S]
<1> DEFINE C == {s \in SUBSET S : it[s] = jt[s]}
<1>0. \A s \in SUBSET T : s # {} => jt[s] = h[Picked(s)] + jt[s \ {Picked(s)}]
  BY DEF Sums
<1>1. ASSUME NEW s \in SUBSET S,
             \A r \in SUBSET S : Cardinality(r) < Cardinality(s) => r \in C
      PROVE  s \in C
  <2>1. CASE s = {}
    BY <2>1, SumOfNone
  <2>2. CASE s # {}
    <3>1. /\ Picked(s) \in s /\ s \in SUBSET T
          /\ it[s] = g[Picked(s)] + it[s \ {Picked(s)}]
          /\ jt[s] = h[Picked(s)] + jt[s \ {Picked(s)}]
      <4>1. Picked(s) \in s /\ s \in SUBSET T
        BY <2>2, PickedIn
      <4>2. it[s] = g[Picked(s)] + it[s \ {Picked(s)}]
        BY <2>2, SumOfSome
      <4>3. jt[s] = h[Picked(s)] + jt[s \ {Picked(s)}]
        BY <1>0, <2>2, <4>1
      <4>4. QED
        BY <4>1, <4>2, <4>3
    <3>2. s \ {Picked(s)} \in C
      BY <1>1, <3>1, PickedLess
    <3>3. QED
      BY <3>1, <3>2
  <2>3. QED
    BY <2>1, <2>2
<1>2. SUBSET S \subseteq C
  <2> HIDE DEF C
  <2>1. QED
    BY <1>1, Shrinks
<1>3. QED
  BY <1>2

LEMMA SumWithout ==
    ASSUME NEW S, IsFiniteSet(S), NEW g, NEW it, Sums(it, g, S),
           \A x \in S : g[x] \in Int, NEW y \in S
    PROVE  it[S] = g[y] + it[S \ {y}]
<1> DEFINE C == {s \in SUBSET S : \A x \in s : it[s] = g[x] + it[s \ {x}]}
<1>0. \A s \in SUBSET S : it[s] \in Int
  BY SumTypes
<1>1. ASSUME NEW s \in SUBSET S,
             \A r \in SUBSET S : Cardinality(r) < Cardinality(s) => r \in C
      PROVE  s \in C
  <2>1. SUFFICES ASSUME NEW x \in s PROVE it[s] = g[x] + it[s \ {x}]
    OBVIOUS
  <2>2. PICK c : c = Picked(s)
    OBVIOUS
  <2>3. c \in s /\ it[s] = g[c] + it[s \ {c}]
    BY <2>2, PickedIn, SumOfSome
  <2>4. CASE c = x
    BY <2>3, <2>4
  <2>5. CASE c # x
    <3>1. s \ {c} \in C /\ s \ {x} \in C
      BY <1>1, <2>3, PickedLess
    <3>2. x \in s \ {c} /\ c \in s \ {x}
      BY <2>3, <2>5
    <3>3. (s \ {c}) \ {x} = (s \ {x}) \ {c}
      OBVIOUS
    <3>4. /\ it[s \ {c}] = g[x] + it[(s \ {c}) \ {x}]
          /\ it[s \ {x}] = g[c] + it[(s \ {c}) \ {x}]
      BY <3>1, <3>2, <3>3
    <3>5. g[x] \in Int /\ g[c] \in Int /\ it[(s \ {c}) \ {x}] \in Int
      BY <1>0, <2>3
    <3>6. QED
      BY <2>3, <3>4, <3>5
  <2>6. QED
    BY <2>4, <2>5
<1>2. SUBSET S \subseteq C
  <2> HIDE DEF C
  <2>1. QED
    BY <1>1, Shrinks
<1>3. QED
  BY <1>2

LEMMA TotalSum ==
    ASSUME NEW T, NEW ids, IsFiniteSet(ids), NEW currency
    PROVE  \E it : /\ Sums(it, [i \in ids |-> Value(T[i], currency)], ids)
                   /\ Total(T, ids, currency) = it[ids]
<1> DEFINE g == [i \in ids |-> Value(T[i], currency)]
           Body(it, s) == IF s = {} THEN 0
                          ELSE Value(T[Picked(s)], currency) + it[s \ {Picked(s)}]
           iter == CHOOSE it : it = [s \in SUBSET ids |-> Body(it, s)]
<1>1. Total(T, ids, currency) = iter[ids]
  BY DEF Total, MapThenSumSet, MapThenFoldSet, Picked
<1>2. ASSUME NEW it
      PROVE  (it = [s \in SUBSET ids |-> Body(it, s)]) <=> Sums(it, g, ids)
  <2>1. \A s \in SUBSET ids : s # {} => g[Picked(s)] = Value(T[Picked(s)], currency)
    BY PickedIn
  <2> DEFINE Other(s) == IF s = {} THEN 0 ELSE g[Picked(s)] + it[s \ {Picked(s)}]
  <2>2. \A s \in SUBSET ids : Body(it, s) = Other(s)
    <3> HIDE DEF g
    <3>1. QED
      BY <2>1
  <2>3. [s \in SUBSET ids |-> Body(it, s)] = [s \in SUBSET ids |-> Other(s)]
    <3> HIDE DEF Body, Other
    <3>1. QED
      BY <2>2
  <2>4. QED
    <3> HIDE DEF Body, g
    <3>1. QED
      BY <2>3 DEF Sums
<1>3. \E it : Sums(it, g, ids)
  BY SumsExist
<1>4. Sums(iter, g, ids)
  <2> HIDE DEF Body, g
  <2>1. \E it : it = [s \in SUBSET ids |-> Body(it, s)]
    BY <1>2, <1>3
  <2>2. iter = [s \in SUBSET ids |-> Body(iter, s)]
    BY <2>1
  <2>3. QED
    BY <1>2, <2>2
<1>5. QED
  <2> HIDE DEF iter
  <2>1. QED
    BY <1>1, <1>4

-----------------------------------------------------------------------------
(* Money *)

LEMMA Division ==
    ASSUME NEW a \in Int, NEW n \in Nat \ {0}
    PROVE  /\ a \div n \in Int /\ a % n \in Int
           /\ 0 <= a % n /\ a % n < n
           /\ a = n * (a \div n) + (a % n)
<1>1. n > 0 /\ n \in Int
  OBVIOUS
<1>2. a \div n \in Int /\ a % n \in 0..(n - 1)
  BY <1>1
<1>3. a = n * (a \div n) + (a % n)
  BY <1>1
<1>4. QED
  BY <1>2, <1>3

LEMMA DivideMonotone ==
    ASSUME NEW a \in Int, NEW b \in Int, NEW n \in Nat \ {0}, a <= b
    PROVE  a \div n \in Int /\ b \div n \in Int /\ a \div n <= b \div n
<1>1. /\ a \div n \in Int /\ a % n \in 0..(n - 1) /\ a = n * (a \div n) + (a % n)
      /\ b \div n \in Int /\ b % n \in 0..(n - 1) /\ b = n * (b \div n) + (b % n)
  BY Division
<1>2. PICK p \in Int, q \in Int : p = a \div n /\ q = b \div n
  BY <1>1
<1>3. n * p < n * q + n
  BY <1>1, <1>2
<1>4. SUFFICES ASSUME q + 1 <= p PROVE FALSE
  BY <1>1, <1>2
<1>5. n * (q + 1) <= n * p
  BY <1>4
<1>6. n * (q + 1) = n * q + n
  OBVIOUS
<1>7. n * q \in Int /\ n * p \in Int
  OBVIOUS
<1>8. QED
  BY <1>3, <1>5, <1>6, <1>7

LEMMA DivideNat ==
    ASSUME NEW a \in Nat, NEW n \in Nat \ {0}
    PROVE  a \div n \in Nat
<1>1. 0 \div n = 0
  OBVIOUS
<1>2. QED
  BY <1>1, DivideMonotone

LEMMA TimesNat == \A a \in Nat, b \in Nat : a * b \in Nat
  OBVIOUS

LEMMA RoundedTypes ==
    ASSUME NEW a \in Int
    PROVE  Rounded(a) \in Int /\ (a >= 0 => Rounded(a) >= 0)
<1> DEFINE n == 2 * Scale
<1>1. Scale \in Nat \ {0} /\ n \in Nat \ {0}
  BY MoneyAssumption
<1>2. CASE a >= 0
  <2>1. 2 * a + Scale \in Nat
    BY <1>1, <1>2
  <2>2. (2 * a + Scale) \div n \in Nat
    <3> HIDE DEF n
    <3>1. QED
      BY <1>1, <2>1, DivideNat
  <2>3. QED
    BY <1>2, <2>2 DEF Rounded
<1>3. CASE ~(a >= 0)
  <2>1. Scale - 2 * a \in Nat
    BY <1>1, <1>3
  <2>2. (Scale - 2 * a) \div n \in Nat
    <3> HIDE DEF n
    <3>1. QED
      BY <1>1, <2>1, DivideNat
  <2>3. Rounded(a) = -((Scale - 2 * a) \div n)
    BY <1>3 DEF Rounded
  <2>4. QED
    BY <1>3, <2>2, <2>3
<1>4. QED
  BY <1>2, <1>3

LEMMA RoundedMonotone ==
    ASSUME NEW a \in Nat, NEW b \in Nat, a <= b
    PROVE  Rounded(a) <= Rounded(b)
<1> DEFINE n == 2 * Scale
           p == 2 * a + Scale
           q == 2 * b + Scale
<1>1. n \in Nat \ {0} /\ p \in Int /\ q \in Int /\ p <= q
  BY MoneyAssumption
<1>2. p \div n <= q \div n
  <2> HIDE DEF n, p, q
  <2>1. QED
    BY <1>1, DivideMonotone
<1>3. QED
  BY <1>2 DEF Rounded

LEMMA RoundedZero == Rounded(0) = 0
<1>1. PICK s \in Nat \ {0} : s = Scale
  BY MoneyAssumption
<1>2. (2 * 0 + s) \div (2 * s) = 0
  <2>1. PICK q \in Int, r \in Int :
            q = s \div (2 * s) /\ 0 <= r /\ r < 2 * s /\ s = (2 * s) * q + r
    <3>1. 2 * s \in Nat \ {0} /\ s \in Int
      OBVIOUS
    <3>2. QED
      BY <3>1, Division
  <2>2. PICK x \in Int : x = s * q
    OBVIOUS
  <2>3. s = 2 * x + r
    BY <2>1, <2>2
  <2>4. q >= 1 => x >= s
    BY <2>2
  <2>5. q <= -1 => x <= -s
    BY <2>2
  <2>6. q = 0
    BY <2>1, <2>3, <2>4, <2>5
  <2>7. 2 * 0 + s = s
    OBVIOUS
  <2>8. QED
    BY <2>1, <2>6, <2>7
<1>3. QED
  BY <1>1, <1>2 DEF Rounded

(* A rate with a price that divides.                                          *)
IsRate(rate) == rate.usd \in Nat \ {0}

LEMMA UnitPrice ==
    ASSUME NEW rate, IsRate(rate), NEW currency
    PROVE  /\ RubPerUnit(rate, currency) \in Nat \ {0}
           /\ Scale \div RubPerUnit(rate, currency) \in Nat
<1>1. RubPerUnit(rate, currency) \in Nat \ {0}
  BY DEF RubPerUnit, IsRate
<1>2. QED
  BY <1>1, DivideNat, MoneyAssumption

LEMMA ConvertedTypes ==
    ASSUME NEW amount \in Int, NEW rate, IsRate(rate), NEW from, NEW to
    PROVE  /\ Converted(amount, rate, from, to) \in Int
           /\ amount >= 0 => Converted(amount, rate, from, to) >= 0
<1>1. PICK p \in Nat, q \in Nat : /\ p = RubPerUnit(rate, from)
                                  /\ q = Scale \div RubPerUnit(rate, to)
  BY UnitPrice
<1>2. Converted(amount, rate, from, to) = Rounded(amount * p * q)
  BY <1>1 DEF Converted
<1>3. amount * p \in Int /\ amount * p * q \in Int
  OBVIOUS
<1>4. amount >= 0 => amount * p \in Nat /\ amount * p * q \in Nat
  BY TimesNat
<1>5. amount >= 0 => amount * p * q >= 0
  BY <1>4
<1>6. QED
  BY <1>2, <1>3, <1>5, RoundedTypes

IsPriced(t) == t.rub \in Nat /\ IsRate(t.rate)

LEMMA ValueType ==
    ASSUME NEW t, IsPriced(t), NEW currency
    PROVE  Value(t, currency) \in Nat
<1>1. t.rub \in Nat /\ Scale \div RubPerUnit(t.rate, currency) \in Nat
  BY UnitPrice DEF IsPriced
<1>2. QED
  BY <1>1, TimesNat DEF Value

LEMMA TotalType ==
    ASSUME NEW T, NEW ids, IsFiniteSet(ids), \A i \in ids : IsPriced(T[i]), NEW currency
    PROVE  Total(T, ids, currency) \in Nat
<1> DEFINE g == [i \in ids |-> Value(T[i], currency)]
<1>1. PICK it : Sums(it, g, ids) /\ Total(T, ids, currency) = it[ids]
  BY TotalSum
<1>2. \A i \in ids : g[i] \in Int /\ g[i] >= 0
  BY ValueType
<1>3. it[ids] \in Int /\ it[ids] >= 0
  <2> HIDE DEF g
  <2>1. QED
    BY <1>1, <1>2, SumTypes
<1>4. QED
  BY <1>1, <1>3

LEMMA TotalNone ==
    ASSUME NEW T, NEW currency
    PROVE  Total(T, {}, currency) = 0
<1>1. IsFiniteSet({})
  BY FS_EmptySet
<1>2. PICK it : /\ Sums(it, [i \in {} |-> Value(T[i], currency)], {})
                /\ Total(T, {}, currency) = it[{}]
  BY <1>1, TotalSum
<1>3. QED
  BY <1>2, SumOfNone

LEMMA TotalSame ==
    ASSUME NEW T, NEW U, NEW ids, IsFiniteSet(ids), NEW currency,
           \A i \in ids : Value(T[i], currency) = Value(U[i], currency)
    PROVE  Total(T, ids, currency) = Total(U, ids, currency)
<1> DEFINE g == [i \in ids |-> Value(T[i], currency)]
           h == [i \in ids |-> Value(U[i], currency)]
<1>1. PICK it : Sums(it, g, ids) /\ Total(T, ids, currency) = it[ids]
  BY TotalSum
<1>2. PICK jt : Sums(jt, h, ids) /\ Total(U, ids, currency) = jt[ids]
  BY TotalSum
<1>3. \A i \in ids : g[i] = h[i]
  OBVIOUS
<1>4. it[ids] = jt[ids]
  <2> HIDE DEF g, h
  <2>1. QED
    BY <1>1, <1>2, <1>3, SumsAgree
<1>5. QED
  BY <1>1, <1>2, <1>4

LEMMA TotalWithout ==
    ASSUME NEW T, NEW ids, IsFiniteSet(ids), \A i \in ids : IsPriced(T[i]), NEW currency,
           NEW x \in ids
    PROVE  Total(T, ids, currency) = Value(T[x], currency) + Total(T, ids \ {x}, currency)
<1> DEFINE g == [i \in ids |-> Value(T[i], currency)]
           rest == ids \ {x}
           h == [i \in rest |-> Value(T[i], currency)]
<1>1. PICK it : Sums(it, g, ids) /\ Total(T, ids, currency) = it[ids]
  BY TotalSum
<1>2. IsFiniteSet(rest)
  BY FS_RemoveElement
<1>3. PICK jt : Sums(jt, h, rest) /\ Total(T, rest, currency) = jt[rest]
  <2> HIDE DEF rest
  <2>1. QED
    BY <1>2, TotalSum
<1>4. \A i \in ids : g[i] \in Int
  BY ValueType
<1>5. it[ids] = g[x] + it[rest]
  <2> HIDE DEF g
  <2>1. QED
    BY <1>1, <1>4, SumWithout
<1>6. jt[rest] = it[rest]
  <2>1. rest \subseteq ids /\ \A i \in rest : h[i] = g[i]
    OBVIOUS
  <2> HIDE DEF g, h, rest
  <2>2. QED
    BY <1>1, <1>2, <1>3, <2>1, SumsAgree
<1>7. QED
  BY <1>1, <1>3, <1>5, <1>6

-----------------------------------------------------------------------------
(* Plans and overruns of a month *)

(* A record with the columns of a month, and no other.                        *)
MonthsOver(S) == [currency : S, opening : S, transferred : S, lines : S]

HasColumns(month) == \E S : month \in MonthsOver(S)

LEMMA MonthColumns ==
    ASSUME NEW currency, NEW opening, NEW transferred, NEW lines
    PROVE  HasColumns([currency |-> currency, opening |-> opening,
                       transferred |-> transferred, lines |-> lines])
<1> DEFINE S == {currency, opening, transferred, lines}
           month == [currency |-> currency, opening |-> opening,
                     transferred |-> transferred, lines |-> lines]
<1>1. month \in MonthsOver(S)
  BY DEF MonthsOver
<1> HIDE DEF month, S
<1>2. HasColumns(month)
  BY <1>1 DEF HasColumns
<1>3. QED
  BY <1>2 DEF month

(* A month with finitely many lines, as the tables hold it.                   *)
IsMonth(month) ==
    MonthType(month) /\ HasColumns(month) /\ IsFiniteSet(DOMAIN month.lines)

PlansOf(lines, ids) == MapThenSumSet(LAMBDA c : lines[c].plan, ids)

LEMMA PlansSum ==
    ASSUME NEW lines, NEW ids, IsFiniteSet(ids)
    PROVE  \E it : /\ Sums(it, [c \in ids |-> lines[c].plan], ids)
                   /\ PlansOf(lines, ids) = it[ids]
<1> DEFINE g == [c \in ids |-> lines[c].plan]
           Body(it, s) == IF s = {} THEN 0 ELSE lines[Picked(s)].plan + it[s \ {Picked(s)}]
           iter == CHOOSE it : it = [s \in SUBSET ids |-> Body(it, s)]
<1>1. PlansOf(lines, ids) = iter[ids]
  BY DEF PlansOf, MapThenSumSet, MapThenFoldSet, Picked
<1>2. ASSUME NEW it
      PROVE  (it = [s \in SUBSET ids |-> Body(it, s)]) <=> Sums(it, g, ids)
  <2>1. \A s \in SUBSET ids : s # {} => g[Picked(s)] = lines[Picked(s)].plan
    BY PickedIn
  <2> DEFINE Other(s) == IF s = {} THEN 0 ELSE g[Picked(s)] + it[s \ {Picked(s)}]
  <2>2. \A s \in SUBSET ids : Body(it, s) = Other(s)
    <3> HIDE DEF g
    <3>1. QED
      BY <2>1
  <2>3. [s \in SUBSET ids |-> Body(it, s)] = [s \in SUBSET ids |-> Other(s)]
    <3> HIDE DEF Body, Other
    <3>1. QED
      BY <2>2
  <2>4. QED
    <3> HIDE DEF Body, g
    <3>1. QED
      BY <2>3 DEF Sums
<1>3. \E it : Sums(it, g, ids)
  BY SumsExist
<1>4. Sums(iter, g, ids)
  <2> HIDE DEF Body, g
  <2>1. \E it : it = [s \in SUBSET ids |-> Body(it, s)]
    BY <1>2, <1>3
  <2>2. iter = [s \in SUBSET ids |-> Body(iter, s)]
    BY <2>1
  <2>3. QED
    BY <1>2, <2>2
<1>5. QED
  <2> HIDE DEF iter
  <2>1. QED
    BY <1>1, <1>4

LEMMA PlannedTypes ==
    ASSUME NEW M, NEW m \in DOMAIN M, IsMonth(M[m]), NEW scope \in Scopes(M, m)
    PROVE  Planned(M, m, scope) \in Int /\ Planned(M, m, scope) >= NoPlan
<1>0. PICK lines : lines = M[m].lines
  OBVIOUS
<1> DEFINE active == {c \in DOMAIN lines \cap Expense : lines[c].accepting}
           total == PlansOf(lines, active)
<1>1. \A c \in DOMAIN lines : lines[c].plan \in Int /\ lines[c].plan >= NoPlan
  BY <1>0 DEF IsMonth, MonthType
<1>2. CASE scope # WholeMonth
  BY <1>0, <1>1, <1>2 DEF Planned, Scopes
<1>3. CASE scope = WholeMonth
  <2>1. Planned(M, m, scope) =
            IF \E c \in active : lines[c].plan = NoPlan THEN NoPlan ELSE total
    BY <1>0, <1>3 DEF Planned, PlannedExpense, PlansOf
  <2>2. CASE \E c \in active : lines[c].plan = NoPlan
    BY <2>1, <2>2 DEF NoPlan
  <2>3. CASE ~ \E c \in active : lines[c].plan = NoPlan
    <3>1. IsFiniteSet(active)
      BY <1>0, FS_Subset DEF IsMonth
    <3> DEFINE g == [c \in active |-> lines[c].plan]
    <3>2. PICK it : Sums(it, g, active) /\ total = it[active]
      <4> HIDE DEF active
      <4>1. QED
        BY <3>1, PlansSum
    <3>3. \A c \in active : g[c] \in Int /\ g[c] >= 0
      BY <1>1, <2>3 DEF NoPlan
    <3>4. it[active] \in Int /\ it[active] >= 0
      <4> HIDE DEF g, active
      <4>1. QED
        BY <3>1, <3>2, <3>3, SumTypes
    <3>5. QED
      <4> HIDE DEF total, active
      <4>1. QED
        BY <2>1, <2>3, <3>2, <3>4 DEF NoPlan
  <2>4. QED
    BY <2>2, <2>3
<1>4. QED
  BY <1>2, <1>3

(* Rows of finitely many numbers, each with a price.                          *)
IsLedger(T) == IsFiniteSet(DOMAIN T) /\ \A i \in DOMAIN T : IsPriced(T[i])

(* The rows that a scope of a month counts                                    *)
Counted(T, m, scope) ==
    IF scope = WholeMonth THEN OfKind(T, m, "expense")
                          ELSE {i \in Booked(T, m) : T[i].cat = scope}

LEMMA SpentIs ==
    ASSUME NEW M, NEW T, NEW m, NEW scope
    PROVE  /\ Spent(M, T, m, scope) = Rounded(Total(T, Counted(T, m, scope), M[m].currency))
           /\ Counted(T, m, scope) \subseteq Booked(T, m) /\ Booked(T, m) \subseteq DOMAIN T
  BY DEF Spent, Actual, Counted, OfKind, Booked

LEMMA SpentTypes ==
    ASSUME NEW M, NEW T, NEW m, NEW scope, IsLedger(T)
    PROVE  Spent(M, T, m, scope) \in Nat
<1>1. IsFiniteSet(Counted(T, m, scope)) /\ \A i \in Counted(T, m, scope) : IsPriced(T[i])
  BY SpentIs, FS_Subset DEF IsLedger
<1>2. Total(T, Counted(T, m, scope), M[m].currency) \in Nat
  BY <1>1, TotalType
<1>3. QED
  BY <1>2, SpentIs, RoundedTypes

LEMMA SpentNone ==
    ASSUME NEW M, NEW T, NEW m, NEW scope, Booked(T, m) = {}
    PROVE  Spent(M, T, m, scope) = 0
<1>1. Counted(T, m, scope) = {}
  BY SpentIs
<1>2. QED
  BY <1>1, SpentIs, TotalNone, RoundedZero

(* The columns that decide what a row counts for                              *)
SameEntry(T, U, i) ==
    /\ i \in DOMAIN T <=> i \in DOMAIN U
    /\ i \in DOMAIN T => /\ U[i].month = T[i].month /\ U[i].deleted = T[i].deleted
                         /\ U[i].kind = T[i].kind
                         /\ U[i].rub = T[i].rub /\ U[i].rate = T[i].rate

(* Whether or not it is in T or U, the row i does not belong to the month m.  *)
Elsewhere(T, U, i, m) ==
    (i \in DOMAIN T => T[i].month # m) /\ (i \in DOMAIN U => U[i].month # m)

LEMMA SpentSame ==
    ASSUME NEW M, NEW N, NEW T, NEW U, NEW m, NEW scope, IsFiniteSet(DOMAIN T),
           M[m].currency = N[m].currency,
           \A i : \/ SameEntry(T, U, i) /\ (i \in DOMAIN T => U[i].cat = T[i].cat)
                  \/ Elsewhere(T, U, i, m)
    PROVE  Spent(M, T, m, scope) = Spent(N, U, m, scope)
<1>1. Counted(T, m, scope) = Counted(U, m, scope)
  <2>1. \A i : i \in Booked(T, m) <=> i \in Booked(U, m)
    BY DEF Booked, SameEntry, Elsewhere
  <2>2. \A i \in Booked(T, m) : T[i].cat = U[i].cat /\ T[i].kind = U[i].kind
    BY DEF Booked, SameEntry, Elsewhere
  <2>3. \A i : i \in Counted(T, m, scope) <=> i \in Counted(U, m, scope)
    BY <2>1, <2>2 DEF Counted, OfKind
  <2>4. QED
    BY <2>3
<1>2. IsFiniteSet(Counted(T, m, scope))
  BY SpentIs, FS_Subset
<1>3. \A i \in Counted(T, m, scope) :
          Value(T[i], M[m].currency) = Value(U[i], M[m].currency)
  <2>1. ASSUME NEW i \in Booked(T, m)
        PROVE  Value(T[i], M[m].currency) = Value(U[i], M[m].currency)
    <3>1. i \in DOMAIN T /\ T[i].month = m
      BY DEF Booked
    <3>2. U[i].rub = T[i].rub /\ U[i].rate = T[i].rate
      BY <3>1 DEF SameEntry, Elsewhere
    <3>3. QED
      BY <3>2 DEF Value
  <2>2. QED
    BY <2>1, SpentIs
<1>4. Total(T, Counted(T, m, scope), M[m].currency) = Total(U, Counted(T, m, scope), M[m].currency)
  BY <1>2, <1>3, TotalSame
<1>5. QED
  BY <1>1, <1>4, SpentIs

LEMMA ClosingSame ==
    ASSUME NEW M, NEW N, NEW T, NEW U, NEW m, IsFiniteSet(DOMAIN T),
           M[m].currency = N[m].currency, M[m].opening = N[m].opening,
           \A i : SameEntry(T, U, i) \/ Elsewhere(T, U, i, m)
    PROVE  Closing(M, T, m) = Closing(N, U, m)
<1>1. ASSUME NEW kind
      PROVE  Total(T, OfKind(T, m, kind), M[m].currency)
                 = Total(U, OfKind(U, m, kind), N[m].currency)
  <2>1. \A i : i \in OfKind(T, m, kind) <=> i \in OfKind(U, m, kind)
    BY DEF Booked, SameEntry, Elsewhere, OfKind
  <2>2. OfKind(T, m, kind) = OfKind(U, m, kind)
    BY <2>1
  <2>3. OfKind(T, m, kind) \subseteq DOMAIN T
    BY DEF OfKind, Booked
  <2>4. \A i \in OfKind(T, m, kind) :
            Value(T[i], M[m].currency) = Value(U[i], M[m].currency)
    BY DEF Booked, SameEntry, Elsewhere, OfKind, Value
  <2>5. Total(T, OfKind(T, m, kind), M[m].currency)
            = Total(U, OfKind(T, m, kind), M[m].currency)
    BY <2>3, <2>4, FS_Subset, TotalSame
  <2>6. QED
    BY <2>2, <2>5
<1>2. QED
  BY <1>1 DEF Closing

LEMMA ClosingType ==
    ASSUME NEW M, NEW T, NEW m, IsLedger(T), M[m].opening \in Int
    PROVE  Closing(M, T, m) \in Int
<1>1. ASSUME NEW kind
      PROVE  Total(T, OfKind(T, m, kind), M[m].currency) \in Nat
  <2>1. OfKind(T, m, kind) \subseteq DOMAIN T
    BY DEF OfKind, Booked
  <2>2. IsFiniteSet(OfKind(T, m, kind)) /\ \A i \in OfKind(T, m, kind) : IsPriced(T[i])
    BY <2>1, FS_Subset DEF IsLedger
  <2>3. QED
    BY <2>2, TotalType
<1>2. PICK income \in Nat, expense \in Nat :
          Closing(M, T, m) = Rounded(M[m].opening * Scale + income - expense)
  BY <1>1 DEF Closing
<1>3. M[m].opening * Scale + income - expense \in Int
  BY MoneyAssumption
<1>4. QED
  BY <1>2, <1>3, RoundedTypes

-----------------------------------------------------------------------------
(* The months that advance creates *)

(* A month whose lines are of categories that have not been deleted for good. *)
GoodMonth(S, month) ==
    IsMonth(month) /\ \A c \in DOMAIN month.lines : S[c] \in {"active", "archived"}

GoodMonths(S, M) ==
    /\ DOMAIN M \subseteq Int /\ IsFiniteSet(DOMAIN M)
    /\ \A m \in DOMAIN M : GoodMonth(S, M[m])

LEMMA LatestIs ==
    ASSUME DOMAIN months \subseteq Int, IsFiniteSet(DOMAIN months), DOMAIN months # {}
    PROVE  Latest \in DOMAIN months /\ Latest \in Int /\ \A m \in DOMAIN months : m <= Latest
  BY MaxOf DEF Latest

LEMMA WithMonthIs ==
    ASSUME NEW M, NEW m, NEW month, NEW N, N = WithMonth(M, m, month)
    PROVE  /\ DOMAIN N = DOMAIN M \cup {m} /\ N[m] = month
           /\ \A p \in DOMAIN M : p # m => N[p] = M[p]
  BY DEF WithMonth

LEMMA WithMonthGood ==
    ASSUME NEW S, NEW M, GoodMonths(S, M), NEW m \in Int, NEW month, GoodMonth(S, month)
    PROVE  GoodMonths(S, WithMonth(M, m, month))
<1>1. IsFiniteSet(DOMAIN M \cup {m})
  BY FS_AddElement DEF GoodMonths
<1>2. PICK N : N = WithMonth(M, m, month)
  OBVIOUS
<1>3. /\ DOMAIN N = DOMAIN M \cup {m} /\ N[m] = month
      /\ \A p \in DOMAIN M : p # m => N[p] = M[p]
  BY <1>2 DEF WithMonth
<1>4. GoodMonths(S, N)
  BY <1>1, <1>3 DEF GoodMonths
<1>5. QED
  BY <1>2, <1>4

LEMMA FollowingGood ==
    ASSUME NEW M, GoodMonths(stable, M), IsLedger(transactions), NEW m \in DOMAIN M
    PROVE  GoodMonth(stable, FollowingMonth(M, m))
<1> DEFINE closing == Closing(M, transactions, m)
           copied == {c \in DOMAIN M[m].lines :
                         M[m].lines[c].accepting /\ stable[c] # "archived"}
           lines == [c \in copied |-> [plan |-> M[m].lines[c].plan, accepting |-> TRUE]]
           new == [currency |-> M[m].currency, opening |-> closing, transferred |-> {closing},
                   lines |-> lines]
<1>1. FollowingMonth(M, m) = new
  BY DEF FollowingMonth
<1>2. /\ GoodMonth(stable, M[m]) /\ M[m].currency \in Currencies /\ M[m].opening \in Int
      /\ IsFiniteSet(DOMAIN M[m].lines)
      /\ \A c \in DOMAIN M[m].lines : /\ c \in Categories
                                      /\ M[m].lines[c].plan \in Int
                                      /\ M[m].lines[c].plan >= NoPlan
                                      /\ stable[c] \in {"active", "archived"}
  BY DEF GoodMonths, GoodMonth, IsMonth, MonthType
<1>3. closing \in Int
  BY <1>2, ClosingType
<1>4. Cardinality({closing}) <= 1
  BY FS_Singleton
<1>5. DOMAIN lines = copied /\ copied \subseteq DOMAIN M[m].lines
  OBVIOUS
<1>6. IsFiniteSet(DOMAIN lines)
  BY <1>2, <1>5, FS_Subset
<1>7. \A c \in DOMAIN lines : /\ c \in Categories
                              /\ lines[c] \in [plan : Int, accepting : BOOLEAN]
                              /\ lines[c].plan >= NoPlan
                              /\ stable[c] \in {"active", "archived"}
  BY <1>2
<1>8. new.currency = M[m].currency /\ new.opening = closing
      /\ new.transferred = {closing} /\ new.lines = lines
  OBVIOUS
<1>9. HasColumns(new)
  <2> HIDE DEF closing, lines
  <2>1. QED
    BY MonthColumns
<1>10. QED
  <2> HIDE DEF closing, lines, new
  <2>1. QED
    BY <1>1, <1>2, <1>3, <1>4, <1>6, <1>7, <1>8, <1>9 DEF GoodMonth, IsMonth, MonthType

LEMMA PrecedingGood ==
    ASSUME NEW S, NEW month, GoodMonth(S, month)
    PROVE  GoodMonth(S, PrecedingMonth(month))
<1> DEFINE lines == [c \in DOMAIN month.lines |->
                        [plan |-> NoPlan, accepting |-> month.lines[c].accepting]]
<1>1. /\ PrecedingMonth(month).currency = month.currency /\ PrecedingMonth(month).opening = 0
      /\ PrecedingMonth(month).transferred = {} /\ PrecedingMonth(month).lines = lines
  BY DEF PrecedingMonth
<1>2. Cardinality({}) <= 1
  BY FS_EmptySet
<1>3. \A c \in DOMAIN month.lines : /\ c \in Categories
                                    /\ month.lines[c].accepting \in BOOLEAN
                                    /\ S[c] \in {"active", "archived"}
  BY DEF GoodMonth, IsMonth, MonthType
<1>4. /\ DOMAIN lines = DOMAIN month.lines
      /\ \A c \in DOMAIN lines : /\ c \in Categories
                                 /\ lines[c] \in [plan : Int, accepting : BOOLEAN]
                                 /\ lines[c].plan >= NoPlan
                                 /\ S[c] \in {"active", "archived"}
  BY <1>3 DEF NoPlan
<1>5. HasColumns(PrecedingMonth(month))
  <2> HIDE DEF lines
  <2>1. QED
    BY MonthColumns DEF PrecedingMonth
<1>6. QED
  <2> HIDE DEF lines
  <2>1. QED
    BY <1>1, <1>2, <1>4, <1>5 DEF GoodMonth, IsMonth, MonthType

LEMMA InitialGood ==
    ASSUME NEW currency \in Currencies
    PROVE  GoodMonth(FirstCategories, InitialMonth(currency))
<1> DEFINE lines == [c \in Template |-> [plan |-> NoPlan, accepting |-> TRUE]]
<1>1. /\ InitialMonth(currency).currency = currency /\ InitialMonth(currency).opening = 0
      /\ InitialMonth(currency).transferred = {} /\ InitialMonth(currency).lines = lines
  BY DEF InitialMonth
<1>2. Cardinality({}) <= 1
  BY FS_EmptySet
<1>3. /\ DOMAIN lines = Template /\ IsFiniteSet(Template)
      /\ \A c \in DOMAIN lines : /\ c \in Categories
                                 /\ lines[c] \in [plan : Int, accepting : BOOLEAN]
                                 /\ lines[c].plan >= NoPlan
                                 /\ FirstCategories[c] \in {"active", "archived"}
  BY NameAssumption DEF NoPlan, FirstCategories
<1>4. HasColumns(InitialMonth(currency))
  BY MonthColumns DEF InitialMonth
<1>5. QED
  <2> HIDE DEF lines
  <2>1. QED
    BY <1>1, <1>2, <1>3, <1>4 DEF GoodMonth, IsMonth, MonthType

(* The recursive function of advance, over the months up to the current one.  *)
RolledAt(f, m) ==
    IF m = Latest THEN months ELSE WithMonth(f[m - 1], m, FollowingMonth(f[m - 1], m - 1))

Rolls(f, current) == f = [m \in Latest..current |-> RolledAt(f, m)]

LEMMA RollsExist ==
    ASSUME Latest \in Int, NEW current \in Int, Latest <= current
    PROVE  \E f : Rolls(f, current)
<1> DEFINE C == {k \in Int : \E f : Rolls(f, k)}
<1>1. Latest \in C
  <2> DEFINE f == [m \in Latest..Latest |-> months]
  <2>1. \A m \in Latest..Latest : RolledAt(f, m) = months
    BY DEF RolledAt
  <2>2. f = [m \in Latest..Latest |-> RolledAt(f, m)]
    BY <2>1
  <2>3. QED
    BY <2>2 DEF Rolls
<1>2. ASSUME NEW k \in Latest..current, k \in C, k < current
      PROVE  k + 1 \in C
  <2>1. PICK f : Rolls(f, k)
    BY <1>2
  <2>2. PICK g : g = [m \in Latest..(k + 1) |-> RolledAt(f, m)]
    OBVIOUS
  <2>3. ASSUME NEW m \in Latest..(k + 1)
        PROVE  RolledAt(f, m) = RolledAt(g, m)
    <3>1. CASE m = Latest
      BY <3>1 DEF RolledAt
    <3>2. CASE m # Latest
      <4>1. m - 1 \in Latest..k /\ m - 1 \in Latest..(k + 1)
        BY <3>2
      <4>2. f[m - 1] = RolledAt(f, m - 1)
        BY <2>1, <4>1, Zenon DEF Rolls
      <4>3. g[m - 1] = RolledAt(f, m - 1)
        BY <2>2, <4>1, Zenon
      <4>4. QED
        BY <4>2, <4>3 DEF RolledAt
    <3>3. QED
      BY <3>1, <3>2
  <2>4. g = [m \in Latest..(k + 1) |-> RolledAt(g, m)]
    BY <2>2, <2>3, Zenon
  <2>5. Rolls(g, k + 1) /\ k + 1 \in Int
    BY <2>4 DEF Rolls
  <2>6. QED
    BY <2>5
<1>3. current \in C
  <2> HIDE DEF C
  <2>1. Latest..current \subseteq C
    BY <1>1, <1>2, Ascends
  <2>2. QED
    BY <2>1
<1>4. QED
  BY <1>3

(* What advance leaves of the months that are there, and what it adds         *)
Grows(M, N) ==
    /\ DOMAIN M \subseteq DOMAIN N
    /\ \A m \in DOMAIN M : N[m] = M[m]

LEMMA RollsGrow ==
    ASSUME GoodMonths(stable, months), DOMAIN months # {}, IsLedger(transactions),
           NEW current \in Int, Latest <= current, NEW f, Rolls(f, current)
    PROVE  /\ GoodMonths(stable, f[current]) /\ Grows(months, f[current])
           /\ DOMAIN f[current] = DOMAIN months \cup Latest..current
<1>0. /\ Latest \in Int /\ Latest \in DOMAIN months /\ DOMAIN months \subseteq Int
      /\ \A m \in DOMAIN months : m <= Latest
  BY LatestIs DEF GoodMonths
<1> DEFINE Good(k) == /\ GoodMonths(stable, f[k]) /\ Grows(months, f[k])
                      /\ DOMAIN f[k] = DOMAIN months \cup Latest..k
           C == {k \in Latest..current : Good(k)}
<1>1. Latest \in C
  <2>1. f[Latest] = months
    <3>1. Latest \in Latest..current
      BY <1>0
    <3>2. f[Latest] = RolledAt(f, Latest)
      BY <3>1 DEF Rolls
    <3>3. QED
      BY <3>2 DEF RolledAt
  <2>2. DOMAIN months = DOMAIN months \cup Latest..Latest
    BY <1>0
  <2>3. QED
    BY <1>0, <2>1, <2>2 DEF Grows
<1>2. ASSUME NEW k \in Latest..current, k \in C, k < current
      PROVE  k + 1 \in C
  <2>1. PICK M : M = f[k]
    OBVIOUS
  <2>2. PICK month : month = FollowingMonth(M, k)
    OBVIOUS
  <2>3. k \in Int /\ k + 1 \in Latest..current /\ k + 1 # Latest /\ (k + 1) - 1 = k
    BY <1>0, <1>2
  <2>4. f[k + 1] = RolledAt(f, k + 1)
    BY <2>3 DEF Rolls
  <2>5. PICK N : N = f[k + 1]
    OBVIOUS
  <2>6. N = WithMonth(M, k + 1, month)
    BY <2>5, <2>1, <2>2, <2>3, <2>4 DEF RolledAt
  <2>7. GoodMonths(stable, M) /\ Grows(months, M) /\ DOMAIN M = DOMAIN months \cup Latest..k
    BY <1>2, <2>1
  <2>8. k \in DOMAIN M
    BY <1>0, <2>3, <2>7
  <2>9. GoodMonth(stable, month)
    BY <2>2, <2>7, <2>8, FollowingGood
  <2>10. /\ DOMAIN N = DOMAIN M \cup {k + 1}
         /\ \A p \in DOMAIN M : p # k + 1 => N[p] = M[p]
    BY <2>6 DEF WithMonth
  <2>11. GoodMonths(stable, N)
    BY <2>3, <2>6, <2>7, <2>9, WithMonthGood
  <2>12. DOMAIN N = DOMAIN months \cup Latest..(k + 1)
    <3>2. Latest..(k + 1) = Latest..k \cup {k + 1}
      BY <1>0, <2>3
    <3>3. QED
      BY <2>7, <2>10, <3>2
  <2>13. Grows(months, N)
    <3>1. k + 1 \notin DOMAIN months
      BY <1>0, <2>3
    <3>2. \A m \in DOMAIN months : m \in DOMAIN M /\ m # k + 1 /\ M[m] = months[m]
      BY <2>7, <3>1 DEF Grows
    <3>3. \A m \in DOMAIN months : N[m] = M[m]
      BY <2>10, <3>2
    <3>4. QED
      BY <2>12, <3>2, <3>3 DEF Grows
  <2>14. QED
    BY <2>3, <2>5, <2>11, <2>12, <2>13
<1>3. current \in C
  <2> HIDE DEF C
  <2>1. Latest..current \subseteq C
    BY <1>0, <1>1, <1>2, Ascends
  <2>2. current \in Latest..current
    BY <1>0
  <2>3. QED
    BY <2>1, <2>2
<1>4. QED
  BY <1>3

(* advance keeps every month that is there, and the months that it adds reach *)
(* from the latest to the current one, or are the current one alone.          *)
LEMMA AdvancedIs ==
    ASSUME GoodMonths(stable, months), DOMAIN months # {}, IsLedger(transactions),
           NEW current \in Int
    PROVE  /\ GoodMonths(stable, Advanced(current)) /\ Grows(months, Advanced(current))
           /\ DOMAIN Advanced(current) = DOMAIN months \cup (Latest..current) \cup {current}
<1>0. /\ Latest \in Int /\ Latest \in DOMAIN months /\ DOMAIN months \subseteq Int
      /\ \A m \in DOMAIN months : m <= Latest
  BY LatestIs DEF GoodMonths
<1> DEFINE f == CHOOSE f : f = [m \in Latest..current |-> RolledAt(f, m)]
<1>1. CASE Latest <= current
  <2>1. Advanced(current) = f[current]
    BY <1>1 DEF Advanced, RolledAt
  <2>2. \E g : g = [m \in Latest..current |-> RolledAt(g, m)]
    BY <1>0, <1>1, RollsExist DEF Rolls
  <2>3. Rolls(f, current)
    BY <2>2 DEF Rolls
  <2>4. current \in Latest..current
    BY <1>0, <1>1
  <2>5. QED
    <3> HIDE DEF f
    <3>1. QED
      BY <1>1, <2>1, <2>3, <2>4, RollsGrow
<1>2. CASE ~(Latest <= current)
  <2>1. Latest..current = {}
    BY <1>0, <1>2
  <2>2. CASE current \in DOMAIN months
    <3>1. Advanced(current) = months
      BY <1>2, <2>2 DEF Advanced
    <3>2. QED
      BY <2>1, <2>2, <3>1 DEF Grows
  <2>3. CASE current \notin DOMAIN months
    <3>1. PICK month : month = PrecedingMonth(months[Latest])
      OBVIOUS
    <3>2. Advanced(current) = WithMonth(months, current, month)
      BY <1>2, <2>3, <3>1 DEF Advanced
    <3>3. GoodMonth(stable, month)
      BY <1>0, <3>1, PrecedingGood DEF GoodMonths
    <3>4. GoodMonths(stable, Advanced(current))
      BY <3>2, <3>3, WithMonthGood
    <3>5. PICK N : N = Advanced(current)
      OBVIOUS
    <3>6. DOMAIN N = DOMAIN months \cup {current}
          /\ \A p \in DOMAIN months : p # current => N[p] = months[p]
      BY <3>2, <3>5 DEF WithMonth
    <3>7. Grows(months, N)
      BY <2>3, <3>6 DEF Grows
    <3>8. QED
      BY <2>1, <3>4, <3>5, <3>6, <3>7
  <2>4. QED
    BY <2>2, <2>3
<1>3. QED
  BY <1>1, <1>2

-----------------------------------------------------------------------------
(* Months that requests change *)

Kept(S, U) ==
    \A c \in Categories : S[c] \in {"active", "archived"} => U[c] \in {"active", "archived"}

(* Finitely many lines of categories that have not been deleted for good.     *)
GoodLines(S, lines) ==
    /\ IsFiniteSet(DOMAIN lines)
    /\ \A c \in DOMAIN lines : /\ c \in Categories
                               /\ lines[c] \in [plan : Int, accepting : BOOLEAN]
                               /\ lines[c].plan >= NoPlan
                               /\ S[c] \in {"active", "archived"}

LEMMA GoodMonthIs ==
    ASSUME NEW S, NEW month
    PROVE  GoodMonth(S, month)
               <=> /\ month.currency \in Currencies /\ month.opening \in Int
                   /\ Cardinality(month.transferred) <= 1
                   /\ HasColumns(month) /\ GoodLines(S, month.lines)
  BY DEF GoodMonth, IsMonth, MonthType, GoodLines

WithLines(month, lines) == [month EXCEPT !.lines = lines]

LEMMA WithLinesGood ==
    ASSUME NEW S, NEW U, NEW month, GoodMonth(S, month), NEW lines, GoodLines(U, lines)
    PROVE  GoodMonth(U, WithLines(month, lines)) /\ WithLines(month, lines).lines = lines
<1>1. PICK V : month \in MonthsOver(V)
  BY DEF GoodMonth, IsMonth, HasColumns
<1>2. month \in MonthsOver(V \cup {lines}) /\ lines \in V \cup {lines}
  BY <1>1 DEF MonthsOver
<1>3. PICK new : new = WithLines(month, lines)
  OBVIOUS
<1>4. /\ new \in MonthsOver(V \cup {lines})
      /\ new.currency = month.currency /\ new.opening = month.opening
      /\ new.transferred = month.transferred /\ new.lines = lines
  BY <1>2, <1>3 DEF MonthsOver, WithLines
<1>5. HasColumns(new)
  BY <1>4 DEF HasColumns
<1>6. QED
  BY <1>3, <1>4, <1>5, GoodMonthIs

LEMMA OpeningGood ==
    ASSUME NEW S, NEW month, GoodMonth(S, month), NEW amount \in Int
    PROVE  LET new == [month EXCEPT !.opening = amount]
           IN  GoodMonth(S, new) /\ new.lines = month.lines
<1>1. PICK V : month \in MonthsOver(V)
  BY DEF GoodMonth, IsMonth, HasColumns
<1>2. month \in MonthsOver(V \cup {amount}) /\ amount \in V \cup {amount}
  BY <1>1 DEF MonthsOver
<1>3. PICK new : new = [month EXCEPT !.opening = amount]
  OBVIOUS
<1>4. /\ new \in MonthsOver(V \cup {amount})
      /\ new.currency = month.currency /\ new.opening = amount
      /\ new.transferred = month.transferred /\ new.lines = month.lines
  BY <1>2, <1>3 DEF MonthsOver
<1>5. HasColumns(new)
  BY <1>4 DEF HasColumns
<1>6. QED
  BY <1>3, <1>4, <1>5, GoodMonthIs

LEMMA PlanLines ==
    ASSUME NEW S, NEW lines, GoodLines(S, lines), NEW c \in DOMAIN lines,
           NEW plan \in Plans \cup {NoPlan}
    PROVE  GoodLines(S, [lines EXCEPT ![c].plan = plan])
<1>1. plan \in Int /\ plan >= NoPlan
  BY MoneyAssumption DEF NoPlan
<1>2. PICK new : new = [lines EXCEPT ![c].plan = plan]
  OBVIOUS
<1>3. /\ DOMAIN new = DOMAIN lines
      /\ \A k \in DOMAIN lines : k # c => new[k] = lines[k]
      /\ new[c] = [lines[c] EXCEPT !.plan = plan]
  BY <1>2
<1>4. lines[c] \in [plan : Int, accepting : BOOLEAN]
  BY DEF GoodLines
<1>5. new[c] \in [plan : Int, accepting : BOOLEAN] /\ new[c].plan = plan
  BY <1>1, <1>3, <1>4
<1>6. GoodLines(S, new)
  BY <1>1, <1>3, <1>5 DEF GoodLines
<1>7. QED
  BY <1>2, <1>6

LEMMA AcceptingLines ==
    ASSUME NEW S, NEW lines, GoodLines(S, lines), NEW c \in DOMAIN lines,
           NEW accepting \in BOOLEAN, NEW U, Kept(S, U)
    PROVE  GoodLines(U, [lines EXCEPT ![c].accepting = accepting])
<1>1. PICK new : new = [lines EXCEPT ![c].accepting = accepting]
  OBVIOUS
<1>2. /\ DOMAIN new = DOMAIN lines
      /\ \A k \in DOMAIN lines : k # c => new[k] = lines[k]
      /\ new[c] = [lines[c] EXCEPT !.accepting = accepting]
  BY <1>1
<1>3. lines[c] \in [plan : Int, accepting : BOOLEAN] /\ lines[c].plan >= NoPlan
  BY DEF GoodLines
<1>4. new[c] \in [plan : Int, accepting : BOOLEAN] /\ new[c].plan = lines[c].plan
  BY <1>2, <1>3
<1>5. \A k \in DOMAIN lines : k \in Categories /\ U[k] \in {"active", "archived"}
  BY DEF GoodLines, Kept
<1>6. GoodLines(U, new)
  BY <1>2, <1>3, <1>4, <1>5 DEF GoodLines
<1>7. QED
  BY <1>1, <1>6

LEMMA FewerLines ==
    ASSUME NEW S, NEW lines, GoodLines(S, lines), NEW c, NEW U,
           \A k \in Categories \ {c} : U[k] = S[k]
    PROVE  GoodLines(U, [k \in DOMAIN lines \ {c} |-> lines[k]])
<1>1. PICK new : new = [k \in DOMAIN lines \ {c} |-> lines[k]]
  OBVIOUS
<1>2. DOMAIN new = DOMAIN lines \ {c} /\ \A k \in DOMAIN new : new[k] = lines[k]
  BY <1>1
<1>3. IsFiniteSet(DOMAIN new)
  BY <1>2, FS_Subset DEF GoodLines
<1>4. GoodLines(U, new)
  BY <1>2, <1>3 DEF GoodLines
<1>5. QED
  BY <1>1, <1>4

LEMMA MoreLines ==
    ASSUME NEW S, NEW lines, GoodLines(S, lines), NEW c \in Categories,
           NEW plan \in Plans \cup {NoPlan}, NEW U, Kept(S, U), U[c] = "active"
    PROVE  GoodLines(U, [k \in DOMAIN lines \cup {c} |->
                            IF k = c THEN [plan |-> plan, accepting |-> TRUE] ELSE lines[k]])
<1>1. plan \in Int /\ plan >= NoPlan
  BY MoneyAssumption DEF NoPlan
<1>2. PICK new : new = [k \in DOMAIN lines \cup {c} |->
                           IF k = c THEN [plan |-> plan, accepting |-> TRUE] ELSE lines[k]]
  OBVIOUS
<1>3. PICK line : line = [plan |-> plan, accepting |-> TRUE]
  OBVIOUS
<1>4. line \in [plan : Int, accepting : BOOLEAN] /\ line.plan = plan
  BY <1>1, <1>3
<1>5. /\ DOMAIN new = DOMAIN lines \cup {c} /\ new[c] = line
      /\ \A k \in DOMAIN lines : k # c => new[k] = lines[k]
  BY <1>2, <1>3
<1>6. IsFiniteSet(DOMAIN new)
  BY <1>5, FS_AddElement DEF GoodLines
<1>7. \A k \in DOMAIN lines : k \in Categories /\ U[k] \in {"active", "archived"}
  BY DEF GoodLines, Kept
<1>8. GoodLines(U, new)
  BY <1>1, <1>4, <1>5, <1>6, <1>7 DEF GoodLines
<1>9. QED
  BY <1>2, <1>8

LEMMA ConvertedGood ==
    ASSUME NEW S, NEW month, GoodMonth(S, month), NEW currency \in Currencies,
           NEW rate, IsRate(rate)
    PROVE  LET new == ConvertedMonth(month, currency, rate)
           IN  GoodMonth(S, new) /\ DOMAIN new.lines = DOMAIN month.lines
<1> DEFINE Convert(x) == Converted(x, rate, month.currency, currency)
           Changed(line) == [line EXCEPT !.plan = IF line.plan = NoPlan THEN NoPlan
                                                  ELSE Convert(line.plan)]
<1>1. PICK opening, lines : /\ opening = Convert(month.opening)
                            /\ lines = [c \in DOMAIN month.lines |-> Changed(month.lines[c])]
  OBVIOUS
<1>2. PICK V : month \in MonthsOver(V)
  BY DEF GoodMonth, IsMonth, HasColumns
<1>3. PICK W : W = V \cup {currency, opening, lines}
  OBVIOUS
<1>4. month \in MonthsOver(W) /\ currency \in W /\ opening \in W /\ lines \in W
  BY <1>2, <1>3 DEF MonthsOver
<1>5. PICK new : new = [month EXCEPT !.currency = currency, !.opening = opening,
                                     !.lines = lines]
  OBVIOUS
<1>6. ConvertedMonth(month, currency, rate) = new
  BY <1>1, <1>5 DEF ConvertedMonth
<1>7. /\ new \in MonthsOver(W)
      /\ new.currency = currency /\ new.opening = opening
      /\ new.transferred = month.transferred /\ new.lines = lines
  BY <1>4, <1>5 DEF MonthsOver
<1>8. HasColumns(new)
  BY <1>7 DEF HasColumns
<1>9. opening \in Int
  BY <1>1, GoodMonthIs, ConvertedTypes
<1>10. GoodLines(S, month.lines)
  BY GoodMonthIs
<1>11. ASSUME NEW c \in DOMAIN month.lines
       PROVE  lines[c] \in [plan : Int, accepting : BOOLEAN] /\ lines[c].plan >= NoPlan
  <2>1. PICK line : line = month.lines[c]
    OBVIOUS
  <2>2. line \in [plan : Int, accepting : BOOLEAN] /\ line.plan >= NoPlan
    BY <1>10, <2>1 DEF GoodLines
  <2>3. PICK plan : plan = IF line.plan = NoPlan THEN NoPlan ELSE Convert(line.plan)
    OBVIOUS
  <2>4. plan \in Int /\ plan >= NoPlan
    <3>1. CASE line.plan = NoPlan
      BY <2>3, <3>1 DEF NoPlan
    <3>2. CASE line.plan # NoPlan
      <4>1. line.plan \in Int /\ line.plan >= 0
        BY <2>2, <3>2 DEF NoPlan
      <4>2. Convert(line.plan) \in Int /\ Convert(line.plan) >= 0
        BY <4>1, ConvertedTypes
      <4>3. QED
        <5> HIDE DEF Convert
        <5>1. QED
          BY <2>3, <3>2, <4>2 DEF NoPlan
    <3>3. QED
      BY <3>1, <3>2
  <2>5. lines[c] = [line EXCEPT !.plan = plan]
    BY <1>1, <2>1, <2>3
  <2>6. QED
    BY <2>2, <2>4, <2>5
<1>12. DOMAIN lines = DOMAIN month.lines
  BY <1>1
<1>13. GoodLines(S, lines)
  BY <1>10, <1>11, <1>12 DEF GoodLines
<1>14. GoodMonth(S, new)
  BY <1>7, <1>8, <1>9, <1>13, GoodMonthIs
<1>15. QED
  BY <1>6, <1>7, <1>12, <1>14

-----------------------------------------------------------------------------
(* Rates, and requests in progress *)

TimeInv ==
    /\ scenario \in Scenarios /\ left \in 0..scenario.requests
    /\ clock \in Nat /\ zone \in scenario.zones \cup {0} /\ moved \in BOOLEAN

LEMMA ScenarioTypes ==
    ASSUME TimeInv
    PROVE  /\ scenario.zones \subseteq Int /\ scenario.rates \subseteq RateValues
           /\ scenario.days \subseteq Nat /\ scenario.amounts \subseteq Amounts
           /\ scenario.currencies \subseteq Currencies /\ scenario.requests \in Nat
           /\ scenario.operations \subseteq Operations
           /\ scenario.start \in Nat /\ scenario.forms \in Nat /\ scenario.events \in Nat
           /\ scenario.faults \in Nat
           /\ zone \in Int
  BY ScenarioAssumption DEF TimeInv

LEMMA RatesPriced == \A rate \in Rates : IsRate(rate)
  BY MoneyAssumption DEF Rates, IsRate

LEMMA PublishedRates ==
    ASSUME TimeInv, NEW day \in Int
    PROVE  Published(day) \subseteq Rates
<1>1. scenario.rates \subseteq RateValues
  BY ScenarioTypes
<1>2. (IF day \in Holidays THEN day - 1 ELSE day) \in Int
  OBVIOUS
<1>3. QED
  BY <1>1, <1>2 DEF Published, Rates

LEMMA SomeRate ==
    ASSUME rateSets \in Seq(Rates), NEW day
    PROVE  RateFor(day) \subseteq Rates
<1> DEFINE there == {n \in DOMAIN rateSets : rateSets[n].on = day}
<1>1. CASE there = {}
  BY <1>1 DEF RateFor
<1>2. CASE there # {}
  <2>1. DOMAIN rateSets = 1..Len(rateSets) /\ Len(rateSets) \in Nat
    OBVIOUS
  <2>2. IsFiniteSet(1..Len(rateSets))
    BY <2>1, FS_Interval
  <2>3. IsFiniteSet(there) /\ there \subseteq Int
    BY <2>1, <2>2, FS_Subset
  <2>4. Max(there) \in there
    <3> HIDE DEF there
    <3>1. QED
      BY <1>2, <2>3, MaxOf
  <2>5. rateSets[Max(there)] \in Rates
    BY <2>4
  <2>6. QED
    BY <1>2, <2>5 DEF RateFor
<1>3. QED
  BY <1>1, <1>2

LEMMA PricedRates ==
    ASSUME TimeInv, rateSets \in Seq(Rates), NEW day \in Int
    PROVE  Priced(day) \subseteq Rates
<1>1. RateFor(day) \subseteq Rates /\ Published(day) \subseteq Rates
  BY SomeRate, PublishedRates
<1>2. LatestRate(day) \subseteq Rates
  BY SomeRate DEF LatestRate
<1>3. QED
  BY <1>1, <1>2 DEF Priced

LEMMA SavedTypes ==
    ASSUME rateSets \in Seq(Rates), NEW rate \in Rates
    PROVE  Saved(rate) \in Seq(Rates)
  BY DEF Saved

EntryDraft(d) ==
    d.cat \in Categories /\ d.amount \in Amounts /\ d.currency \in Currencies /\ d.at \in Int

(* What the fields of a request hold, by its operation; `now` is not ahead.   *)
RequestType(r, now) ==
    /\ r.op \in Operations \cup {"idle", "page"}
    /\ r.op \in Operations => r.now \in 0..now
    /\ r.op \in {"create", "edit"} => EntryDraft(r.draft)
    /\ r.op \in {"create", "edit", "delete"} =>
           r.period = {} \/ \E m \in Int : r.period = {m}
    /\ r.op = "create" => r.rate \in Rates
    /\ r.op = "edit" => r.rates \subseteq Rates
    /\ r.op = "currency" => r.currency \in Currencies /\ r.rate \in Rates
    /\ r.op = "opening" => r.amount \in Plans
    /\ r.op \in {"plan", "category"} => r.plan \in Plans \cup {NoPlan}
    /\ r.op \in {"plan", "category", "archive", "restore", "remove"} => r.cat \in Categories

RequestsTyped == \A w \in Requests : RequestType(request[w], clock)

LEMMA DraftTypes ==
    ASSUME TimeInv, NEW draft \in Drafts
    PROVE  EntryDraft(draft)
  BY ScenarioTypes DEF Drafts, EntryDraft

LEMMA MonthOfType ==
    ASSUME NEW time \in Int, NEW z \in Int
    PROVE  MonthOf(time, z) \in Int
<1>1. time + z \in Int /\ MonthLength \in Nat \ {0}
  BY TimeAssumption
<1>2. (time + z) \div MonthLength \in Int
  BY <1>1, Division
<1>3. QED
  BY <1>2 DEF MonthOf

IsPeriod(period) == period = {} \/ \E m \in Int : period = {m}

LEMMA PeriodTypes ==
    ASSUME TimeInv
    PROVE  IsPeriod(NoPeriod) /\ IsPeriod(HistoricalPeriod)
<1>1. CurrentMonth \in Int
  BY MonthOfType, ScenarioTypes DEF CurrentMonth, TimeInv
<1>2. CurrentMonth - 1 \in Int
  BY <1>1
<1>3. QED
  BY <1>2 DEF IsPeriod, NoPeriod, HistoricalPeriod

LEMMA StartTypes ==
    ASSUME TimeInv, RowInv, RequestsTyped, rateSets \in Seq(Rates),
           NEW w \in Requests, Started(w)
    PROVE  \E r : request' = [request EXCEPT ![w] = r] /\ RequestType(r, clock)
<1> DEFINE Typed == \E r : request' = [request EXCEPT ![w] = r] /\ RequestType(r, clock)
<1> SUFFICES Typed
  OBVIOUS
<1>0. /\ clock \in Nat /\ clock \in 0..clock /\ zone \in Int
      /\ RequestType(request[w], clock)
  BY ScenarioTypes DEF TimeInv, RequestsTyped
<1>1. ASSUME NEW period, IsPeriod(period), StartCreate(w, period)
      PROVE  Typed
  <2>0. PICK draft \in Drafts : \E rate \in Priced(draft.at + zone) :
          request' = [request EXCEPT ![w] =
                         [op |-> "create", period |-> period, draft |-> draft,
                          rate |-> rate, now |-> clock]]
    BY <1>1 DEF StartCreate, Begin
  <2>1. PICK rate \in Priced(draft.at + zone) :
          request' = [request EXCEPT ![w] =
                         [op |-> "create", period |-> period, draft |-> draft,
                          rate |-> rate, now |-> clock]]
    BY <2>0
  <2>2. EntryDraft(draft)
    BY DraftTypes
  <2>3. rate \in Rates
    <3>1. draft.at + zone \in Int
      BY <1>0, <2>2 DEF EntryDraft
    <3>2. QED
      BY <3>1, PricedRates
  <2>4. PICK r : r = [op |-> "create", period |-> period, draft |-> draft,
                      rate |-> rate, now |-> clock]
    OBVIOUS
  <2>5. RequestType(r, clock)
    BY <1>0, <1>1, <2>2, <2>3, <2>4 DEF RequestType, Operations, IsPeriod
  <2>6. QED
    BY <2>1, <2>4, <2>5
<1>2. ASSUME NEW m, OpenPage(w, m)
      PROVE  Typed
  <2>1. PICK i \in DOMAIN transactions, op \in {"edit", "delete"} :
          request' = [request EXCEPT ![w] =
                         [op |-> "page", next |-> op, tx |-> i, seen |-> transactions[i]]]
    BY <1>2 DEF OpenPage, Begin, Page
  <2>2. RequestType([op |-> "page", next |-> op, tx |-> i, seen |-> transactions[i]], clock)
    BY DEF RequestType, Operations
  <2>3. QED
    BY <2>1, <2>2
<1>3. ASSUME NEW period, IsPeriod(period), StartUpdate(w, period)
      PROVE  Typed
  <2> DEFINE old == request[w]
             t == transactions[old.tx]
  <2>1. PICK draft \in Drafts :
          \E rates \in IF Reprices(t, draft)
                       THEN {{rate} : rate \in Priced(draft.at + zone)} ELSE {{}} :
             request' = [request EXCEPT ![w] =
                            [op |-> "edit", tx |-> old.tx, seen |-> old.seen,
                             period |-> period, draft |-> draft, rates |-> rates,
                             now |-> clock]]
    BY <1>3 DEF StartUpdate, Begin
  <2>2. PICK rates \in IF Reprices(t, draft)
                       THEN {{rate} : rate \in Priced(draft.at + zone)} ELSE {{}} :
             request' = [request EXCEPT ![w] =
                            [op |-> "edit", tx |-> old.tx, seen |-> old.seen,
                             period |-> period, draft |-> draft, rates |-> rates,
                             now |-> clock]]
    BY <2>1
  <2>3. EntryDraft(draft)
    BY DraftTypes
  <2>4. rates \subseteq Rates
    <3>1. draft.at + zone \in Int
      BY <1>0, <2>3 DEF EntryDraft
    <3>2. Priced(draft.at + zone) \subseteq Rates
      BY <3>1, PricedRates
    <3>3. QED
      BY <3>2
  <2>5. PICK r : r = [op |-> "edit", tx |-> old.tx, seen |-> old.seen,
                      period |-> period, draft |-> draft, rates |-> rates, now |-> clock]
    OBVIOUS
  <2>6. RequestType(r, clock)
    BY <1>0, <1>3, <2>3, <2>4, <2>5 DEF RequestType, Operations, IsPeriod
  <2>7. QED
    BY <2>2, <2>5, <2>6
<1>4. ASSUME NEW period, IsPeriod(period), NEW deleted, StartDeletion(w, period, deleted)
      PROVE  Typed
  <2> DEFINE old == request[w]
  <2>1. request' = [request EXCEPT ![w] =
                       [op |-> "delete", tx |-> old.tx, seen |-> old.seen,
                        period |-> period, now |-> clock]]
    BY <1>4 DEF StartDeletion, Begin
  <2>2. PICK r : r = [op |-> "delete", tx |-> old.tx, seen |-> old.seen,
                      period |-> period, now |-> clock]
    OBVIOUS
  <2>3. RequestType(r, clock)
    BY <1>0, <1>4, <2>2 DEF RequestType, Operations, IsPeriod
  <2>4. QED
    BY <2>1, <2>2, <2>3
<1>5. CASE StartCurrency(w)
  <2>0. PICK rate \in Priced(clock + zone) : \E r \in CurrencyRequests(rate) :
          request' = [request EXCEPT ![w] = r]
    BY <1>5 DEF StartCurrency, Begin
  <2>1. PICK r \in CurrencyRequests(rate) : request' = [request EXCEPT ![w] = r]
    BY <2>0
  <2>2. rate \in Rates
    BY <1>0, PricedRates
  <2>3. r.op = "currency" /\ r.now = clock /\ r.currency \in Currencies /\ r.rate = rate
    BY DEF CurrencyRequests
  <2>4. RequestType(r, clock)
    BY <1>0, <2>2, <2>3 DEF RequestType, Operations
  <2>5. QED
    BY <2>1, <2>4
<1>6. CASE StartBudget(w)
  <2>1. PICK r \in BudgetRequests : request' = [request EXCEPT ![w] = r]
    BY <1>6 DEF StartBudget, Begin
  <2>2. /\ r.op \in {"opening", "category", "plan", "archive", "restore", "remove"}
        /\ r.now = clock
        /\ r.op = "opening" => r.amount \in Plans
        /\ r.op \in {"plan", "category"} => r.plan \in Plans \cup {NoPlan}
        /\ r.op # "opening" => r.cat \in Categories
    BY DEF BudgetRequests, OpeningRequests, CategoryRequests, PlanRequests, ArchiveRequests,
           RestoreRequests, RemoveRequests, OnLine
  <2>3. RequestType(r, clock)
    BY <1>0, <2>2 DEF RequestType, Operations
  <2>4. QED
    BY <2>1, <2>3
<1>7. IsPeriod(NoPeriod) /\ IsPeriod(HistoricalPeriod)
  BY PeriodTypes
<1>8. QED
  BY <1>1, <1>2, <1>3, <1>4, <1>5, <1>6, <1>7
     DEF Started, CreateTransaction, CreateHistoricalTransaction, ListTransactions,
         ListHistoricalTransactions, UpdateTransaction,
         UpdateHistoricalTransaction, DeleteTransaction, DeleteHistoricalTransaction,
         RestoreTransaction, RestoreHistoricalTransaction

-----------------------------------------------------------------------------
(* What a budget request does to the books *)

States == {"absent", "active", "archived", "deleted"}

MonthsInv == stable \in [Categories -> States] /\ GoodMonths(stable, months)

(* One month is another, with its lines or more, ...                          *)
ChangesMonth(m) ==
    /\ SameRows
    /\ DOMAIN months' = DOMAIN months
    /\ \A p \in DOMAIN months : p # m => months'[p] = months[p]
    /\ DOMAIN months[m].lines \subseteq DOMAIN months'[m].lines
    /\ Kept(stable, stable')

Without(lines, c) == [k \in DOMAIN lines \ {c} |-> lines[k]]

(* ... or a category leaves every month and every row.                        *)
RemovesLines(c) ==
    /\ Uncategorizes(c)
    /\ DOMAIN months' = DOMAIN months
    /\ \A p \in DOMAIN months : months'[p] = WithLines(months[p], Without(months[p].lines, c))
    /\ \A k \in Categories \ {c} : stable'[k] = stable[k]

BudgetStep(w, m) ==
    /\ m \in DOMAIN months /\ m = MonthOf(request[w].now, zone)
    /\ request[w].op # "idle" /\ Ended(w) /\ Silently
    /\ UNCHANGED <<bounds, clock, zone, moved>>
    /\ MonthsInv'
    /\ ChangesMonth(m) \/ \E c \in Categories : RemovesLines(c)

LEMMA KeptGood ==
    ASSUME NEW S, NEW U, Kept(S, U), NEW month, GoodMonth(S, month)
    PROVE  GoodMonth(U, month)
  BY DEF Kept, GoodMonth, IsMonth, MonthType

LEMMA EditedGood ==
    ASSUME NEW S, NEW U, Kept(S, U), NEW M, GoodMonths(S, M), NEW m \in DOMAIN M,
           NEW month, GoodMonth(U, month), NEW N, N = [M EXCEPT ![m] = month]
    PROVE  /\ GoodMonths(U, N) /\ DOMAIN N = DOMAIN M /\ N[m] = month
           /\ \A p \in DOMAIN M : p # m => N[p] = M[p]
<1>1. /\ DOMAIN N = DOMAIN M /\ N[m] = month
      /\ \A p \in DOMAIN M : p # m => N[p] = M[p]
  OBVIOUS
<1>2. \A p \in DOMAIN M : GoodMonth(U, N[p])
  BY <1>1, KeptGood DEF GoodMonths
<1>3. QED
  BY <1>1, <1>2 DEF GoodMonths

(* The month of a budget request is edited; its lines stay or become more.    *)
LEMMA EditSteps ==
    ASSUME MonthsInv, NEW w \in Requests, NEW m \in DOMAIN months, NEW op \in Operations,
           LockedMonth(w, op, m), Finish(w), Silently, SameRows,
           Kept(stable, stable'), stable' \in [Categories -> States],
           NEW month, GoodMonth(stable', month), months' = [months EXCEPT ![m] = month],
           DOMAIN months[m].lines \subseteq DOMAIN month.lines
    PROVE  BudgetStep(w, m)
<1>1. /\ GoodMonths(stable', months') /\ DOMAIN months' = DOMAIN months /\ months'[m] = month
      /\ \A p \in DOMAIN months : p # m => months'[p] = months[p]
  BY EditedGood DEF MonthsInv
<1>2. ChangesMonth(m)
  BY <1>1 DEF ChangesMonth
<1>3. request[w].op # "idle" /\ m = MonthOf(request[w].now, zone)
  BY DEF LockedMonth, Operations
<1>4. QED
  BY <1>1, <1>2, <1>3 DEF BudgetStep, MonthsInv, Finish, Ended

LEMMA OpeningStep ==
    ASSUME MonthsInv, RequestsTyped, NEW w \in Requests, SetOpening(w)
    PROVE  \E m : BudgetStep(w, m)
<1>1. PICK m \in DOMAIN months :
          /\ LockedMonth(w, "opening", m)
          /\ months' = WithOpening(m, request[w].amount)
          /\ UNCHANGED <<stable, transactions, revisions, rateSets>>
          /\ Silently /\ Finish(w)
  BY DEF SetOpening
<1>2. PICK amount : amount = request[w].amount
  OBVIOUS
<1>3. amount \in Int
  <2>1. amount \in Plans
    BY <1>1, <1>2 DEF RequestsTyped, RequestType, LockedMonth
  <2>2. QED
    BY <2>1, MoneyAssumption
<1>4. PICK month : month = [months[m] EXCEPT !.opening = amount]
  OBVIOUS
<1>5. GoodMonth(stable, months[m])
  BY DEF MonthsInv, GoodMonths
<1>6. GoodMonth(stable, month) /\ month.lines = months[m].lines
  BY <1>3, <1>4, <1>5, OpeningGood
<1>7. months' = [months EXCEPT ![m] = month]
  BY <1>1, <1>2, <1>4 DEF WithOpening
<1>8. Kept(stable, stable') /\ "opening" \in Operations /\ SameRows
  BY <1>1 DEF Kept, Operations, SameRows
<1>9. stable' = stable /\ stable \in [Categories -> States]
  BY <1>1 DEF MonthsInv
<1>10. BudgetStep(w, m)
  BY <1>1, <1>6, <1>7, <1>8, <1>9, EditSteps
<1>11. QED
  BY <1>10

(* The lines of a month are edited.                                           *)
LEMMA LineSteps ==
    ASSUME MonthsInv, NEW w \in Requests, NEW m \in DOMAIN months, NEW op \in Operations,
           LockedMonth(w, op, m), Finish(w), Silently, SameRows,
           Kept(stable, stable'), stable' \in [Categories -> States],
           NEW lines, GoodLines(stable', lines),
           months' = [months EXCEPT ![m] = WithLines(months[m], lines)],
           DOMAIN months[m].lines \subseteq DOMAIN lines
    PROVE  BudgetStep(w, m)
<1>1. PICK month : month = WithLines(months[m], lines)
  OBVIOUS
<1>2. GoodMonth(stable, months[m])
  BY DEF MonthsInv, GoodMonths
<1>3. GoodMonth(stable', month) /\ month.lines = lines
  BY <1>1, <1>2, WithLinesGood
<1>4. months' = [months EXCEPT ![m] = month]
  BY <1>1
<1>5. QED
  BY <1>3, <1>4, EditSteps

LEMMA LinesOf ==
    ASSUME MonthsInv, NEW m \in DOMAIN months
    PROVE  GoodLines(stable, months[m].lines)
  BY GoodMonthIs DEF MonthsInv, GoodMonths

LEMMA PlanStep ==
    ASSUME MonthsInv, RequestsTyped, NEW w \in Requests, SetPlan(w)
    PROVE  \E m : BudgetStep(w, m)
<1>1. PICK m \in DOMAIN months :
          /\ LockedLine(w, "plan", m)
          /\ months' = WithPlan(m, request[w].cat, request[w].plan)
          /\ UNCHANGED <<stable, transactions, revisions, rateSets>>
          /\ Silently /\ Finish(w)
  BY DEF SetPlan
<1>2. PICK c, plan : c = request[w].cat /\ plan = request[w].plan
  OBVIOUS
<1>3. LockedMonth(w, "plan", m) /\ c \in DOMAIN months[m].lines /\ plan \in Plans \cup {NoPlan}
  BY <1>1, <1>2 DEF RequestsTyped, RequestType, LockedLine, LockedMonth
<1>4. PICK lines : lines = [months[m].lines EXCEPT ![c].plan = plan]
  OBVIOUS
<1>5. GoodLines(stable, lines)
  BY <1>3, <1>4, LinesOf, PlanLines
<1>6. DOMAIN lines = DOMAIN months[m].lines
  BY <1>4
<1>7. months' = [months EXCEPT ![m] = WithLines(months[m], lines)]
  BY <1>1, <1>2, <1>4 DEF WithPlan, WithLines
<1>8. Kept(stable, stable') /\ "plan" \in Operations /\ SameRows
  BY <1>1 DEF Kept, Operations, SameRows
<1>9. stable' = stable /\ stable \in [Categories -> States]
  BY <1>1 DEF MonthsInv
<1>10. BudgetStep(w, m)
  BY <1>1, <1>3, <1>5, <1>6, <1>7, <1>8, <1>9, LineSteps
<1>11. QED
  BY <1>10

LEMMA ArchiveStep ==
    ASSUME MonthsInv, RequestsTyped, NEW w \in Requests, NEW op \in {"archive", "restore"},
           NEW accepting \in BOOLEAN, SetArchived(w, op, accepting)
    PROVE  \E m : BudgetStep(w, m)
<1>1. PICK m \in DOMAIN months :
          /\ LockedLine(w, op, m)
          /\ months' = WithAccepting(m, request[w].cat, accepting)
          /\ stable' = [stable EXCEPT ![request[w].cat] =
                           IF accepting THEN "active" ELSE "archived"]
          /\ UNCHANGED <<transactions, revisions, rateSets>>
          /\ Silently /\ Finish(w)
  BY DEF SetArchived
<1>2. PICK c, state : /\ c = request[w].cat
                      /\ state = IF accepting THEN "active" ELSE "archived"
  OBVIOUS
<1>3. LockedMonth(w, op, m) /\ c \in DOMAIN months[m].lines
  BY <1>1, <1>2 DEF LockedLine
<1>4. stable' = [stable EXCEPT ![c] = state] /\ state \in {"active", "archived"}
  BY <1>1, <1>2
<1>5. stable' \in [Categories -> States] /\ Kept(stable, stable')
  BY <1>4 DEF MonthsInv, Kept, States
<1>6. PICK lines : lines = [months[m].lines EXCEPT ![c].accepting = accepting]
  OBVIOUS
<1>7. GoodLines(stable', lines)
  BY <1>3, <1>5, <1>6, LinesOf, AcceptingLines
<1>8. DOMAIN lines = DOMAIN months[m].lines
  BY <1>6
<1>9. months' = [months EXCEPT ![m] = WithLines(months[m], lines)]
  BY <1>1, <1>2, <1>6 DEF WithAccepting, WithLines
<1>10. op \in Operations /\ SameRows
  BY <1>1 DEF Operations, SameRows
<1>11. BudgetStep(w, m)
  BY <1>1, <1>3, <1>5, <1>7, <1>8, <1>9, <1>10, LineSteps
<1>12. QED
  BY <1>11

LEMMA CategoryStep ==
    ASSUME MonthsInv, RequestsTyped, NEW w \in Requests, CreateCategory(w)
    PROVE  \E m : BudgetStep(w, m)
<1>1. PICK c, plan : c = request[w].cat /\ plan = request[w].plan
  OBVIOUS
<1>2. PICK m \in DOMAIN months :
          /\ LockedMonth(w, "category", m)
          /\ stable[c] = "absent"
          /\ months' = WithCategory(m, c, plan)
          /\ stable' = [stable EXCEPT ![c] = "active"]
          /\ UNCHANGED <<transactions, revisions, rateSets>>
          /\ Silently /\ Finish(w)
  BY <1>1 DEF CreateCategory
<1>3. c \in Categories /\ plan \in Plans \cup {NoPlan}
  BY <1>1, <1>2 DEF RequestsTyped, RequestType, LockedMonth
<1>4. stable' \in [Categories -> States] /\ Kept(stable, stable') /\ stable'[c] = "active"
  BY <1>2, <1>3 DEF MonthsInv, Kept, States
<1>5. PICK old : old = months[m].lines
  OBVIOUS
<1>6. PICK lines : lines = [k \in DOMAIN old \cup {c} |->
                               IF k = c THEN [plan |-> plan, accepting |-> TRUE] ELSE old[k]]
  OBVIOUS
<1>7. GoodLines(stable', lines)
  BY <1>3, <1>4, <1>5, <1>6, LinesOf, MoreLines
<1>8. DOMAIN months[m].lines \subseteq DOMAIN lines
  BY <1>5, <1>6
<1>9. months' = [months EXCEPT ![m] = WithLines(months[m], lines)]
  BY <1>2, <1>5, <1>6 DEF WithCategory, WithLines
<1>10. "category" \in Operations /\ SameRows
  BY <1>2 DEF Operations, SameRows
<1>11. BudgetStep(w, m)
  BY <1>2, <1>4, <1>7, <1>8, <1>9, <1>10, LineSteps
<1>12. QED
  BY <1>11

LEMMA CurrencyStep ==
    ASSUME MonthsInv, RequestsTyped, NEW w \in Requests, CommitCurrency(w)
    PROVE  \E m : BudgetStep(w, m)
<1>1. PICK currency, rate : currency = request[w].currency /\ rate = request[w].rate
  OBVIOUS
<1>2. PICK m \in DOMAIN months :
          /\ LockedMonth(w, "currency", m)
          /\ months' = IF months[m].currency = currency THEN months
                       ELSE WithCurrency(m, currency, rate)
          /\ UNCHANGED <<stable, transactions, revisions>>
          /\ Silently /\ Finish(w)
  BY <1>1 DEF CommitCurrency
<1>3. currency \in Currencies /\ IsRate(rate)
  BY <1>1, <1>2, RatesPriced DEF RequestsTyped, RequestType, LockedMonth
<1>4. Kept(stable, stable') /\ "currency" \in Operations /\ SameRows
  BY <1>2 DEF Kept, Operations, SameRows
<1>5. stable' = stable /\ stable \in [Categories -> States]
  BY <1>2 DEF MonthsInv
<1>6. CASE months[m].currency = currency
  <2>1. months' = months
    BY <1>2, <1>6
  <2>2. ChangesMonth(m) /\ MonthsInv'
    BY <1>4, <1>5, <2>1 DEF ChangesMonth, MonthsInv
  <2>3. request[w].op # "idle" /\ m = MonthOf(request[w].now, zone)
    BY <1>2 DEF LockedMonth
  <2>4. BudgetStep(w, m)
    BY <1>2, <2>2, <2>3 DEF BudgetStep, Finish, Ended
  <2>5. QED
    BY <2>4
<1>7. CASE months[m].currency # currency
  <2>1. GoodMonth(stable, months[m])
    BY DEF MonthsInv, GoodMonths
  <2>2. PICK month : month = ConvertedMonth(months[m], currency, rate)
    OBVIOUS
  <2>3. GoodMonth(stable, month) /\ DOMAIN month.lines = DOMAIN months[m].lines
    BY <1>3, <2>1, <2>2, ConvertedGood
  <2>4. months' = [months EXCEPT ![m] = month]
    BY <1>2, <1>7, <2>2 DEF WithCurrency
  <2>5. BudgetStep(w, m)
    BY <1>2, <1>4, <1>5, <2>3, <2>4, EditSteps
  <2>6. QED
    BY <2>5
<1>8. QED
  BY <1>6, <1>7

LEMMA RemovalStep ==
    ASSUME MonthsInv, RequestsTyped, NEW w \in Requests, RemoveCategory(w)
    PROVE  \E m : BudgetStep(w, m)
<1>1. PICK c : c = request[w].cat
  OBVIOUS
<1>2. PICK m \in DOMAIN months :
          /\ LockedLine(w, "remove", m)
          /\ months' = WithoutCategory(c)
          /\ stable' = [stable EXCEPT ![c] = "deleted"]
          /\ Silently /\ Finish(w)
  BY <1>1 DEF RemoveCategory
<1>3. Uncategorizes(c) /\ Ended(w)
  BY <1>1, RemovalUncategorizes
<1>4. c \in Categories /\ m = MonthOf(request[w].now, zone) /\ request[w].op # "idle"
  BY <1>1, <1>2 DEF RequestsTyped, RequestType, LockedLine, LockedMonth
<1>5. /\ stable' \in [Categories -> States]
      /\ \A k \in Categories \ {c} : stable'[k] = stable[k]
  BY <1>2, <1>4 DEF MonthsInv, States
<1>6. /\ DOMAIN months' = DOMAIN months
      /\ \A p \in DOMAIN months :
             months'[p] = WithLines(months[p], Without(months[p].lines, c))
  BY <1>2 DEF WithoutCategory, WithLines, Without
<1>7. ASSUME NEW p \in DOMAIN months
      PROVE  GoodMonth(stable', months'[p])
  <2>1. GoodMonth(stable, months[p]) /\ GoodLines(stable, months[p].lines)
    BY LinesOf DEF MonthsInv, GoodMonths
  <2>2. PICK lines : lines = Without(months[p].lines, c)
    OBVIOUS
  <2>3. GoodLines(stable', lines)
    BY <1>5, <2>1, <2>2, FewerLines DEF Without
  <2>4. QED
    BY <1>6, <2>1, <2>2, <2>3, WithLinesGood
<1>8. MonthsInv'
  BY <1>5, <1>6, <1>7 DEF MonthsInv, GoodMonths
<1>9. RemovesLines(c)
  BY <1>3, <1>5, <1>6 DEF RemovesLines
<1>10. BudgetStep(w, m)
  BY <1>2, <1>3, <1>4, <1>8, <1>9 DEF BudgetStep, Finish
<1>11. QED
  BY <1>10

-----------------------------------------------------------------------------
(* What a request or a form does to the rows *)

RowsTyped ==
    /\ \A i \in DOMAIN transactions :
          /\ transactions[i] \in Rows /\ revisions[i] \in Seq(Rows)
          /\ Len(revisions[i]) + 1 = transactions[i].version
    /\ rateSets \in Seq(Rates)
    /\ opened \in Nat

LEMMA RowIn ==
    ASSUME NEW t, IsRow(t), t.month \in DOMAIN months,
           t.cat \in Categories \cup {NoCategory}, t.kind \in {"income", "expense"},
           t.amount \in Amounts, t.currency \in Currencies, t.rub \in Nat, t.rate \in Rates,
           t.at \in Int, t.form \in 0..opened, t.version \in Nat \ {0},
           t.deleted \in BOOLEAN, t.createdAt \in 0..clock
    PROVE  t \in Rows
<1>1. Columns(t) \in Rows
  BY DEF Columns, Rows
<1>2. QED
  BY <1>1, RowIsColumns

LEMMA RowFields ==
    ASSUME NEW t \in Rows
    PROVE  /\ t.month \in DOMAIN months
           /\ t.cat \in Categories \cup {NoCategory} /\ t.kind \in {"income", "expense"}
           /\ t.amount \in Amounts /\ t.currency \in Currencies
           /\ t.rub \in Nat /\ t.rate \in Rates
           /\ t.at \in Int /\ t.form \in 0..opened /\ t.version \in Nat \ {0}
           /\ t.deleted \in BOOLEAN /\ t.createdAt \in 0..clock
  BY DEF Rows

LEMMA RubType ==
    ASSUME NEW amount \in Amounts, NEW rate \in Rates, NEW currency
    PROVE  amount * RubPerUnit(rate, currency) \in Nat
<1>1. amount \in Nat
  BY MoneyAssumption
<1>2. RubPerUnit(rate, currency) \in Nat
  BY RatesPriced, UnitPrice
<1>3. QED
  BY <1>1, <1>2, TimesNat

LEMMA KindOfType == \A c : KindOf(c) \in {"income", "expense"}
  BY DEF KindOf

(* A new row of the month that it occurred in, in one of its categories.      *)
Enters(row, now) ==
    /\ Added(transactions, revisions, transactions', revisions', row)
    /\ row \in Rows /\ row.version = 1 /\ ~row.deleted
    /\ row.cat \in DOMAIN months[row.month].lines /\ row.kind = KindOf(row.cat)
    /\ MonthOf(row.at, zone) = row.month
    /\ Announce(row.month, NextId, now) /\ now \in 0..clock
    /\ UNCHANGED <<bounds, clock, zone, moved, months, stable>>

LEMMA RecordEnters ==
    ASSUME RowsTyped, TimeInv, NEW d, EntryDraft(d), NEW m \in DOMAIN months,
           Enterable(d, m), NEW rate \in Rates, NEW now \in 0..clock, NEW f \in 0..opened,
           Record(d, m, rate, now, f), UNCHANGED <<bounds, clock, zone, moved>>
    PROVE  Enters(Entered(d, m, rate, now, f), now) /\ rateSets' \in Seq(Rates)
<1>1. PICK row : row = Entered(d, m, rate, now, f)
  OBVIOUS
<1>2. /\ IsRow(row) /\ row.version = 1 /\ row.form = f /\ row.month = m /\ row.cat = d.cat
      /\ row.amount = d.amount /\ row.currency = d.currency
      /\ row.rate = rate /\ row.rub = d.amount * RubPerUnit(rate, d.currency)
  BY <1>1, EnteredRow
<1>3. /\ row.kind = KindOf(d.cat) /\ row.at = d.at
      /\ row.deleted = FALSE /\ row.createdAt = now
  BY <1>1 DEF Entered
<1>4. row.rub \in Nat
  BY <1>2, RubType DEF EntryDraft
<1>5. row \in Rows
  <2>1. row.deleted \in BOOLEAN
    BY <1>3
  <2>2. /\ row.month \in DOMAIN months /\ row.cat \in Categories \cup {NoCategory}
        /\ row.amount \in Amounts /\ row.currency \in Currencies /\ row.rate \in Rates
        /\ row.at \in Int /\ row.form \in 0..opened /\ row.version \in Nat \ {0}
        /\ row.createdAt \in 0..clock
    BY <1>2, <1>3 DEF EntryDraft
  <2>3. row.kind \in {"income", "expense"}
    BY <1>3, KindOfType
  <2>4. QED
    BY <1>2, <1>4, <2>1, <2>2, <2>3, RowIn
<1>6. d.cat \in DOMAIN months[m].lines /\ MonthOf(d.at, zone) = m
  BY DEF Enterable, Accepting, Listed
<1>7. /\ Added(transactions, revisions, transactions', revisions', row)
      /\ Announce(m, NextId, now) /\ UNCHANGED <<months, stable>>
      /\ rateSets' = Saved(rate)
  BY <1>1 DEF Record, Added, NextId
<1>8. rateSets' \in Seq(Rates)
  BY <1>7, SavedTypes DEF RowsTyped
<1>9. Enters(row, now)
  BY <1>2, <1>3, <1>5, <1>6, <1>7 DEF Enters
<1>10. QED
  BY <1>1, <1>8, <1>9

(* The next version of a row: an edit that chose a category of its month, or  *)
(* a deletion or restoration that changes nothing else.                       *)
Revises(w, row) ==
    LET r == request[w]
        t == transactions[r.tx]
    IN  /\ r.op \in {"edit", "delete"} /\ r.tx \in DOMAIN transactions
        /\ Editable(r.tx, r.period, r.now) /\ Ended(w)
        /\ Replaced(transactions, revisions, transactions', revisions', r.tx, row)
        /\ row \in Rows /\ row.month = t.month /\ row.version = t.version + 1
        /\ row.createdAt = t.createdAt
        /\ \/ /\ ~t.deleted /\ ~row.deleted
              /\ row.cat \in DOMAIN months[row.month].lines /\ row.kind = KindOf(row.cat)
              /\ row.at = t.at \/ MonthOf(row.at, zone) = row.month
           \/ /\ row.deleted = ~t.deleted
              /\ row.cat = t.cat /\ row.kind = t.kind /\ row.at = t.at
              /\ row.rub = t.rub /\ row.rate = t.rate
        /\ Announce(row.month, r.tx, r.now) /\ r.now \in 0..clock
        /\ UNCHANGED <<bounds, clock, zone, moved, months, stable>>

LEMMA UpdateRevises ==
    ASSUME RowInv, RowsTyped, RequestsTyped, NEW w \in Requests, CommitUpdate(w)
    PROVE  (\E row : Revises(w, row)) /\ rateSets' \in Seq(Rates)
<1> DEFINE r == request[w]
           t == transactions[r.tx]
<1>1. PICK row : row = Revised(t, r.draft, r.rates)
  OBVIOUS
<1>2. /\ r.op = "edit" /\ r.tx \in DOMAIN transactions /\ IsRow(t)
      /\ Editable(r.tx, r.period, r.now)
      /\ Updatable(t, r.seen.version, r.draft, t.month) /\ Chosen(r.draft, t)
      /\ Replace(r.tx, row, r.now)
      /\ rateSets' = IF r.rates = {} THEN rateSets ELSE Saved(CHOOSE s \in r.rates : TRUE)
      /\ Finish(w)
  BY <1>1 DEF CommitUpdate, RowInv, SeenBy, WellFormed
<1>3. EntryDraft(r.draft) /\ r.rates \subseteq Rates /\ r.now \in 0..clock
  BY <1>2 DEF RequestsTyped, RequestType, Operations
<1>4. /\ IsRow(row) /\ row.version = t.version + 1 /\ row.form = t.form
      /\ row.month = t.month /\ row.amount = r.draft.amount
      /\ row.currency = r.draft.currency
      /\ row.cat = r.draft.cat /\ row.kind = KindOf(r.draft.cat) /\ row.at = r.draft.at
      /\ row.deleted = t.deleted /\ row.createdAt = t.createdAt
      /\ r.rates = {} => row.rate = t.rate /\ row.rub = t.rub
      /\ r.rates # {} =>
             /\ row.rate = CHOOSE s \in r.rates : TRUE
             /\ row.rub = r.draft.amount * RubPerUnit(row.rate, r.draft.currency)
  BY <1>1, <1>2, RevisedRow
<1>5. t \in Rows
  BY <1>2 DEF RowsTyped
<1>6. row.rate \in Rates /\ row.rub \in Nat
  <2>1. CASE r.rates = {}
    BY <1>4, <1>5, <2>1, RowFields
  <2>2. CASE r.rates # {}
    <3>1. row.rate \in Rates
      BY <1>3, <1>4, <2>2
    <3>2. row.rub \in Nat
      BY <1>3, <1>4, <2>2, <3>1, RubType DEF EntryDraft
    <3>3. QED
      BY <3>1, <3>2
  <2>3. QED
    BY <2>1, <2>2
<1>7. t.version + 1 \in Nat \ {0}
  BY <1>5, RowFields
<1>8. row \in Rows
  BY <1>3, <1>4, <1>5, <1>6, <1>7, RowFields, KindOfType, RowIn DEF EntryDraft
<1>9. rateSets' \in Seq(Rates)
  <2>1. CASE r.rates = {}
    BY <1>2, <2>1 DEF RowsTyped
  <2>2. CASE r.rates # {}
    <3>1. PICK rate \in Rates : rate = CHOOSE s \in r.rates : TRUE
      BY <1>3, <2>2
    <3>2. rateSets' = Saved(rate)
      BY <1>2, <2>2, <3>1
    <3>3. QED
      BY <3>2, SavedTypes DEF RowsTyped
  <2>3. QED
    BY <2>1, <2>2
<1>10. /\ ~t.deleted /\ (r.draft.at = t.at \/ MonthOf(r.draft.at, zone) = t.month)
       /\ r.draft.cat \in DOMAIN months[t.month].lines
  BY <1>2 DEF Updatable, Chosen, Listed
<1>11. Replaced(transactions, revisions, transactions', revisions', r.tx, row)
       /\ Announce(row.month, r.tx, r.now) /\ UNCHANGED <<months, stable>>
  BY <1>2 DEF Replace, Replaced
<1>12. Ended(w) /\ UNCHANGED <<bounds, clock, zone, moved>>
  BY <1>2 DEF Finish, Ended
<1>13. Revises(w, row)
  BY <1>2, <1>3, <1>4, <1>8, <1>10, <1>11, <1>12 DEF Revises
<1>14. QED
  BY <1>9, <1>13

LEMMA DeletionRevises ==
    ASSUME RowInv, RowsTyped, RequestsTyped, NEW w \in Requests, CommitDeletion(w)
    PROVE  (\E row : Revises(w, row)) /\ rateSets' \in Seq(Rates)
<1> DEFINE r == request[w]
           t == transactions[r.tx]
<1>1. PICK version, deleted : version = t.version + 1 /\ deleted = ~r.seen.deleted
  OBVIOUS
<1>2. PICK row : row = WithDeletion(t, deleted, version)
  OBVIOUS
<1>3. /\ r.op = "delete" /\ r.tx \in DOMAIN transactions /\ IsRow(t)
      /\ Editable(r.tx, r.period, r.now)
      /\ t.deleted = r.seen.deleted
      /\ Replace(r.tx, row, r.now)
      /\ rateSets' = rateSets /\ Finish(w)
  BY <1>1, <1>2 DEF CommitDeletion, RowInv, SeenBy, WellFormed, WithDeletion
<1>4. r.now \in 0..clock
  BY <1>3 DEF RequestsTyped, RequestType, Operations
<1>5. /\ IsRow(row) /\ row.version = version /\ row.form = t.form /\ row.month = t.month
      /\ row.amount = t.amount /\ row.currency = t.currency
      /\ row.rate = t.rate /\ row.rub = t.rub
      /\ row.cat = t.cat /\ row.kind = t.kind /\ row.at = t.at
      /\ row.deleted = deleted /\ row.createdAt = t.createdAt
  BY <1>2, <1>3, DeletedRow
<1>6. t \in Rows
  BY <1>3 DEF RowsTyped
<1>7. version \in Nat \ {0} /\ deleted \in BOOLEAN /\ deleted = ~t.deleted
  BY <1>1, <1>3, <1>6, RowFields
<1>8. row \in Rows
  BY <1>5, <1>6, <1>7, RowFields, RowIn
<1>9. Replaced(transactions, revisions, transactions', revisions', r.tx, row)
      /\ Announce(row.month, r.tx, r.now) /\ UNCHANGED <<months, stable>>
  BY <1>3 DEF Replace, Replaced
<1>10. Ended(w) /\ UNCHANGED <<bounds, clock, zone, moved>>
  BY <1>3 DEF Finish, Ended
<1>11. Revises(w, row)
  BY <1>1, <1>3, <1>4, <1>5, <1>7, <1>8, <1>9, <1>10 DEF Revises
<1>12. QED
  BY <1>3, <1>11 DEF RowsTyped

-----------------------------------------------------------------------------
(* Drafts of the form *)

(* The steps of a form that has been given an amount                          *)
Past == {"currency", "date", "date_input", "description", "confirmation"}

DraftType(d) == d \in DraftsOf /\ (d.step \in Past => d.amount \in Amounts)

LEMMA NoDraftType ==
    ASSUME opened \in Nat
    PROVE  DraftType(NoDraft) /\ NoDraft.id = NoForm
<1>1. PICK d : d = NoDraft
  OBVIOUS
<1>2. d \in DraftsOf /\ d.step = "kind" /\ d.id = NoForm
  BY <1>1 DEF NoDraft, DraftsOf, Steps, NoForm, Currencies
<1>3. QED
  BY <1>1, <1>2 DEF DraftType, Past

LEMMA StepType ==
    ASSUME NEW d \in DraftsOf, NEW s \in Steps
    PROVE  ToStep(d, s) \in DraftsOf /\ ToStep(d, s).step = s /\ ToStep(d, s).amount = d.amount
  BY DEF DraftsOf, ToStep

LEMMA KindType ==
    ASSUME NEW d \in DraftsOf, NEW s \in Steps, NEW v \in {"income", "expense"}
    PROVE  WithKind(d, v, s) \in DraftsOf /\ WithKind(d, v, s).step = s
  BY DEF DraftsOf, WithKind

LEMMA CatType ==
    ASSUME NEW d \in DraftsOf, NEW s \in Steps, NEW v \in Categories
    PROVE  WithCat(d, v, s) \in DraftsOf /\ WithCat(d, v, s).step = s
  BY DEF DraftsOf, WithCat

LEMMA AmountType ==
    ASSUME NEW d \in DraftsOf, NEW s \in Steps, NEW v \in Amounts
    PROVE  /\ WithAmount(d, v, s) \in DraftsOf /\ WithAmount(d, v, s).step = s
           /\ WithAmount(d, v, s).amount = v
  BY DEF DraftsOf, WithAmount

LEMMA UnitType ==
    ASSUME NEW d \in DraftsOf, NEW s \in Steps, NEW v \in Currencies
    PROVE  /\ WithUnit(d, v, s) \in DraftsOf /\ WithUnit(d, v, s).step = s
           /\ WithUnit(d, v, s).amount = d.amount
  BY DEF DraftsOf, WithUnit

LEMMA DayType ==
    ASSUME NEW d \in DraftsOf, NEW s \in Steps, NEW v \in Int
    PROVE  /\ WithDay(d, v, s) \in DraftsOf /\ WithDay(d, v, s).step = s
           /\ WithDay(d, v, s).amount = d.amount
  BY DEF DraftsOf, WithDay

LEMMA OfferTypes ==
    ASSUME TimeInv, DraftType(form), NEW open, NEW d \in Offers(form, open)
    PROVE  DraftType(d)
<1>0. form \in DraftsOf /\ form.offered \subseteq Categories
  BY DEF DraftType, DraftsOf
<1>1. CASE form.step = "kind"
  <2>1. PICK k \in {"income", "expense"} : d = WithKind(form, k, "category")
    BY <1>1 DEF Offers, WithKind
  <2>2. QED
    BY <1>0, <2>1, KindType DEF DraftType, Past, Steps
<1>2. CASE form.step = "category"
  <2>1. PICK c \in form.offered : d = WithCat(form, c, "amount")
    BY <1>2 DEF Offers, WithCat
  <2>2. QED
    BY <1>0, <2>1, CatType DEF DraftType, Past, Steps
<1>3. CASE form.step = "currency"
  <2>1. PICK c \in scenario.currencies : d = WithUnit(form, c, "date")
    BY <1>3 DEF Offers, WithUnit
  <2>2. c \in Currencies
    BY ScenarioTypes
  <2>3. QED
    BY <1>0, <1>3, <2>1, <2>2, UnitType DEF DraftType, Past, Steps
<1>4. CASE form.step = "date"
  <2>1. \/ d = WithDay(form, clock, "description")
        \/ d = ToStep(form, "date_input")
    BY <1>4 DEF Offers, WithDay, ToStep
  <2>2. clock \in Int
    BY DEF TimeInv
  <2>3. "description" \in Steps /\ "date_input" \in Steps /\ form.amount \in Amounts
    BY <1>4 DEF DraftType, Past, Steps
  <2>4. CASE d = WithDay(form, clock, "description")
    <3>1. d \in DraftsOf /\ d.amount = form.amount
      BY <1>0, <2>2, <2>3, <2>4, DayType
    <3>2. QED
      BY <2>3, <3>1 DEF DraftType
  <2>5. CASE d = ToStep(form, "date_input")
    <3>1. d \in DraftsOf /\ d.amount = form.amount
      BY <1>0, <2>3, <2>5, StepType
    <3>2. QED
      BY <2>3, <3>1 DEF DraftType
  <2>6. QED
    BY <2>1, <2>4, <2>5
<1>5. CASE form.step = "description"
  <2>1. d = ToStep(form, "confirmation")
    BY <1>5 DEF Offers, ToStep
  <2>2. QED
    BY <1>0, <1>5, <2>1, StepType DEF DraftType, Past, Steps
<1>6. CASE form.step \notin {"kind", "category", "currency", "date", "description"}
  BY <1>6 DEF Offers
<1>7. QED
  BY <1>1, <1>2, <1>3, <1>4, <1>5, <1>6

LEMMA InputTypes ==
    ASSUME TimeInv, DraftType(form), NEW z, NEW d \in Inputs(form, z)
    PROVE  DraftType(d)
<1>0. form \in DraftsOf
  BY DEF DraftType
<1>1. CASE form.step = "amount"
  <2>1. PICK a \in scenario.amounts : d = WithAmount(form, a, "currency")
    BY <1>1 DEF Inputs, WithAmount
  <2>2. a \in Amounts
    BY ScenarioTypes
  <2>3. "currency" \in Steps
    BY DEF Steps
  <2>4. d \in DraftsOf /\ d.amount = a
    BY <1>0, <2>1, <2>2, <2>3, AmountType
  <2>5. QED
    BY <2>2, <2>4 DEF DraftType
<1>2. CASE form.step = "date_input"
  <2>1. PICK day \in scenario.days : d = WithDay(form, day, "description")
    BY <1>2 DEF Inputs, WithDay
  <2>2. day \in Int
    BY ScenarioTypes
  <2>3. QED
    BY <1>0, <1>2, <2>1, <2>2, DayType DEF DraftType, Past, Steps
<1>3. CASE form.step = "description"
  <2>1. d = ToStep(form, "confirmation")
    BY <1>3 DEF Inputs, ToStep
  <2>2. QED
    BY <1>0, <1>3, <2>1, StepType DEF DraftType, Past, Steps
<1>4. CASE form.step \notin {"amount", "date_input", "description"}
  BY <1>4 DEF Inputs
<1>5. QED
  BY <1>1, <1>2, <1>3, <1>4

LEMMA BackType ==
    ASSUME DraftType(form)
    PROVE  DraftType([form EXCEPT !.step = Before(form.step)])
<1>1. form \in DraftsOf /\ form.step \in Steps
  BY DEF DraftType, DraftsOf
<1>2. /\ Before(form.step) \in Steps
      /\ Before(form.step) \in Past => form.step \in Past
  BY <1>1 DEF Before, Steps, Past
<1>3. PICK s : s = Before(form.step)
  OBVIOUS
<1>4. ToStep(form, s) \in DraftsOf /\ ToStep(form, s).step = s
      /\ ToStep(form, s).amount = form.amount
  BY <1>1, <1>2, <1>3, StepType
<1>5. DraftType(ToStep(form, s))
  BY <1>2, <1>3, <1>4 DEF DraftType
<1>6. QED
  BY <1>3, <1>5 DEF ToStep

DraftsUpTo(n) ==
    [id : 0..n, step : Steps, month : Int, expires : Nat, offered : SUBSET Categories,
     kind : {"income", "expense"}, cat : Categories \cup {NoCategory}, amount : Amounts \cup {0},
     currency : Currencies, at : Int]

LEMMA NewDraftType ==
    ASSUME TimeInv, NEW n \in Nat, NEW id \in 0..n, NEW m \in Int,
           NEW offered \in SUBSET Categories
    PROVE  LET d == NewDraft(id, m, offered)
           IN  /\ d \in DraftsUpTo(n) /\ d.step = "kind"
               /\ d.id = id /\ d.month = m /\ d.offered = offered
<1>1. PICK expires : expires = clock + DraftTtl
  OBVIOUS
<1>2. expires \in Nat
  BY <1>1, EntryAssumption DEF TimeInv
<1>3. PICK empty : empty = NoDraft
  OBVIOUS
<1>4. empty \in DraftsUpTo(n) /\ empty.step = "kind"
  BY <1>3 DEF NoDraft, DraftsUpTo, Steps, NoForm, Currencies
<1>5. PICK d : d = [empty EXCEPT !.id = id, !.month = m, !.expires = expires,
                                 !.offered = offered]
  OBVIOUS
<1>6. /\ d \in DraftsUpTo(n) /\ d.step = empty.step /\ d.id = id /\ d.month = m
      /\ d.offered = offered
  BY <1>2, <1>4, <1>5 DEF DraftsUpTo
<1>7. d = NewDraft(id, m, offered)
  BY <1>1, <1>3, <1>5 DEF NewDraft
<1>8. QED
  BY <1>4, <1>6, <1>7

-----------------------------------------------------------------------------
(* Handlers of the form *)

Bases == [amount : Amounts \cup {0}, currency : Currencies, at : Int]
Screens == (1..opened) \X Bases

Taps == [kind : {"button"}, action : {"choose", "back", "cancel"}, id : 1..opened, live : BOOLEAN]
Confirms ==
    [kind : {"button"}, action : {"confirm"}, id : 1..opened, seen : Bases, live : BOOLEAN]

Events == UNION {[kind : {"entry", "text"}], Taps, Confirms}

Confirmed == {d \in DraftsOf : EntryDraft(d)}

Contexts ==
    [phase : {"context"}, event : Events, month : Int, zone : Int,
     offered : SUBSET Categories, open : SUBSET Categories]

HandlerStates ==
    UNION {{Free}, Contexts,
           [phase : {"pricing"}, draft : Confirmed, seen : Bases, rate : Rates],
           [phase : {"saved"}, draft : Confirmed, seen : Bases]}

Told == (1..opened) \X {"saved", "canceled"}

FormTyped ==
    /\ opened \in 0..scenario.forms /\ events \in 0..scenario.events
    /\ faults \in 0..scenario.faults /\ linked \in BOOLEAN
    /\ DraftType(form)
    /\ handler \in [Handlers -> HandlerStates]
    /\ DOMAIN newest \subseteq 1..opened /\ screens \subseteq Screens /\ answers \subseteq Told
    /\ mismatched \subseteq 1..opened /\ faulted \subseteq 1..opened

LEMMA OpenedType ==
    ASSUME TimeInv, FormTyped PROVE opened \in Nat
  BY ScenarioTypes DEF FormTyped

LEMMA StateOf ==
    ASSUME FormTyped, NEW h \in Handlers
    PROVE  /\ handler[h].phase \in {"free", "context", "pricing", "saved"}
           /\ handler[h].phase = "context" => handler[h] \in Contexts
           /\ handler[h].phase = "pricing" =>
                  /\ handler[h].draft \in Confirmed /\ handler[h].seen \in Bases
                  /\ handler[h].rate \in Rates
           /\ handler[h].phase = "saved" => handler[h].draft \in Confirmed
<1>1. handler[h] \in HandlerStates
  BY DEF FormTyped
<1>2. CASE handler[h] = Free
  BY <1>2 DEF Free
<1>3. CASE handler[h] \in Contexts
  BY <1>3 DEF Contexts
<1>4. CASE handler[h] \in [phase : {"pricing"}, draft : Confirmed, seen : Bases, rate : Rates]
  BY <1>4
<1>5. CASE handler[h] \in [phase : {"saved"}, draft : Confirmed, seen : Bases]
  BY <1>5
<1>6. QED
  BY <1>1, <1>2, <1>3, <1>4, <1>5 DEF HandlerStates

LEMMA StatesGrow ==
    ASSUME opened \in Nat, opened' \in Nat, opened <= opened'
    PROVE  /\ DraftsOf \subseteq DraftsOf' /\ HandlerStates \subseteq HandlerStates'
           /\ Told \subseteq Told' /\ 1..opened \subseteq 1..opened' /\ Screens \subseteq Screens'
<1>1. 0..opened \subseteq 0..opened' /\ 1..opened \subseteq 1..opened'
  OBVIOUS
<1>2. DraftsOf \subseteq DraftsOf'
  BY <1>1 DEF DraftsOf
<1>3. Events \subseteq Events' /\ Bases' = Bases
  <2>1. Bases' = Bases
    BY DEF Bases
  <2>2. Taps \subseteq Taps'
    BY <1>1 DEF Taps
  <2>3. Confirms \subseteq Confirms'
    <3> HIDE DEF Bases
    <3>1. QED
      BY <1>1, <2>1 DEF Confirms
  <2>4. QED
    <3> HIDE DEF Taps, Confirms
    <3>1. QED
      BY <2>1, <2>2, <2>3 DEF Events
<1>4. Contexts \subseteq Contexts'
  BY <1>3 DEF Contexts
<1>5. Confirmed \subseteq Confirmed'
  BY <1>2 DEF Confirmed
<1>6. HandlerStates \subseteq HandlerStates'
  <2>1. [phase : {"pricing"}, draft : Confirmed, seen : Bases, rate : Rates]
            \subseteq [phase : {"pricing"}, draft : Confirmed', seen : Bases, rate : Rates]
    BY <1>5
  <2>2. [phase : {"saved"}, draft : Confirmed, seen : Bases]
            \subseteq [phase : {"saved"}, draft : Confirmed', seen : Bases]
    BY <1>5
  <2>3. QED
    <3> HIDE DEF Contexts, Confirmed, Bases
    <3>1. QED
      BY <1>3, <1>4, <2>1, <2>2 DEF HandlerStates, Rates
<1>7. Told \subseteq Told' /\ Screens \subseteq Screens'
  BY <1>1, <1>3 DEF Told, Screens
<1>8. QED
  BY <1>1, <1>2, <1>6, <1>7

LEMMA BecomesTypes ==
    ASSUME FormTyped, NEW h \in Handlers, NEW state \in HandlerStates, Becomes(h, state)
    PROVE  handler' \in [Handlers -> HandlerStates]
  BY DEF FormTyped, Becomes

LEMMA FreeState == Free \in HandlerStates
  BY DEF HandlerStates

(* What remains to be shown of a step that opens no form                      *)
LEMMA FormTypedNext ==
    ASSUME TimeInv, FormTyped, UNCHANGED <<scenario, opened>>,
           linked' \in BOOLEAN, events' \in 0..events, faults' \in 0..faults,
           DraftType(form'), handler' \in [Handlers -> HandlerStates],
           DOMAIN newest' \subseteq 1..opened, screens' \subseteq Screens, answers' \subseteq Told,
           mismatched' \subseteq 1..opened, faulted' \subseteq 1..opened
    PROVE  FormTyped'
<1>1. /\ opened \in Nat /\ opened' = opened /\ scenario' = scenario
      /\ events \in 0..scenario.events /\ faults \in 0..scenario.faults
      /\ scenario.events \in Nat /\ scenario.faults \in Nat
      /\ opened \in 0..scenario.forms
  BY OpenedType, ScenarioTypes DEF FormTyped
<1>2. /\ DraftsOf \subseteq DraftsOf' /\ HandlerStates \subseteq HandlerStates'
      /\ Told \subseteq Told' /\ 1..opened \subseteq 1..opened' /\ Screens \subseteq Screens'
  BY <1>1, StatesGrow
<1>3. DraftType(form)'
  BY <1>2 DEF DraftType
<1>4. handler' \in [Handlers -> HandlerStates']
  BY <1>2
<1>5. events' \in 0..scenario'.events /\ faults' \in 0..scenario'.faults
  BY <1>1
<1>6. QED
  BY <1>1, <1>2, <1>3, <1>4, <1>5 DEF FormTyped

(* A step that changes neither the form nor what was said of it               *)
LEMMA QuietTyped ==
    ASSUME TimeInv, FormTyped, UNCHANGED <<scenario, opened>>,
           linked' \in BOOLEAN, events' \in 0..events, faults' \in 0..faults,
           form' \in {form, NoDraft}, handler' \in [Handlers -> HandlerStates],
           UNCHANGED <<newest, screens, answers, mismatched, faulted>>
    PROVE  FormTyped'
<1>1. DraftType(form')
  BY OpenedType, NoDraftType DEF FormTyped
<1>2. QED
  BY <1>1, FormTypedNext DEF FormTyped

LEMMA CountsKept ==
    ASSUME TimeInv, FormTyped
    PROVE  events \in 0..events /\ faults \in 0..faults /\ linked \in BOOLEAN
           /\ events \in Nat /\ faults \in Nat /\ handler \in [Handlers -> HandlerStates]
  BY ScenarioTypes DEF FormTyped

LEMMA ClearTyped ==
    ASSUME TimeInv, FormTyped, NEW h \in Handlers, NEW said \in SUBSET Told, Clear(h, said),
           UNCHANGED <<scenario, opened, linked, events, faults>>
    PROVE  FormTyped'
<1>1. handler' \in [Handlers -> HandlerStates]
  BY BecomesTypes, FreeState DEF Clear
<1>2. DraftType(form')
  BY OpenedType, NoDraftType DEF Clear
<1>3. /\ answers' \subseteq Told
      /\ UNCHANGED <<newest, screens, mismatched, faulted>>
  BY DEF Clear, FormTyped
<1>4. QED
  BY <1>1, <1>2, <1>3, CountsKept, FormTypedNext DEF FormTyped

LEMMA SavedTyped ==
    ASSUME TimeInv, FormTyped, NEW id \in 1..opened, NEW seen, NEW cleared,
           SaysSaved(id, seen, cleared),
           handler' \in [Handlers -> HandlerStates],
           UNCHANGED <<scenario, opened, linked, events, faults>>
    PROVE  FormTyped'
<1>1. DraftType(form')
  BY OpenedType, NoDraftType DEF SaysSaved, FormTyped
<1>2. <<id, "saved">> \in Told
  BY DEF Told
<1>3. /\ answers' \subseteq Told /\ mismatched' \subseteq 1..opened
      /\ UNCHANGED <<newest, screens, faulted>>
  BY <1>2 DEF SaysSaved, FormTyped
<1>4. QED
  BY <1>1, <1>3, CountsKept, FormTypedNext DEF FormTyped

LEMMA DeadEvent ==
    ASSUME NEW e \in Events, e.kind = "button"
    PROVE  [e EXCEPT !.live = FALSE] \in Events
<1>1. e \in Taps \/ e \in Confirms
  BY DEF Events
<1>2. CASE e \in Taps
  <2>1. [e EXCEPT !.live = FALSE] \in Taps
    BY <1>2 DEF Taps
  <2>2. QED
    BY <2>1 DEF Events
<1>3. CASE e \in Confirms
  <2>1. [e EXCEPT !.live = FALSE] \in Confirms
    BY <1>3 DEF Confirms
  <2>2. QED
    BY <2>1 DEF Events
<1>4. QED
  BY <1>1, <1>2, <1>3

LEMMA BasisType ==
    ASSUME NEW d, DraftType(d)
    PROVE  Basis(d) \in Bases
<1>1. d.amount \in Amounts \cup {0} /\ d.currency \in Currencies /\ d.at \in Int
  BY DEF DraftType, DraftsOf
<1>2. QED
  BY <1>1 DEF Basis, Bases

LEMMA WriteStates ==
    ASSUME FormTyped, NEW h \in Handlers, NEW d, Write(h, d)
    PROVE  handler' \in [Handlers -> HandlerStates]
<1>1. handler' = [k \in Handlers |->
           IF k = h THEN Free
           ELSE IF handler[k].phase = "context" /\ handler[k].event.kind = "button"
           THEN [handler[k] EXCEPT !.event.live = FALSE] ELSE handler[k]]
  BY DEF Write
<1>2. ASSUME NEW k \in Handlers
      PROVE  handler'[k] \in HandlerStates
  <2>1. CASE k = h
    BY <1>1, <2>1, FreeState
  <2>2. CASE k # h /\ ~(handler[k].phase = "context" /\ handler[k].event.kind = "button")
    BY <1>1, <2>2 DEF FormTyped
  <2>3. CASE k # h /\ handler[k].phase = "context" /\ handler[k].event.kind = "button"
    <3>1. handler[k] \in Contexts
      BY <2>3, StateOf
    <3>2. PICK e : e = [handler[k].event EXCEPT !.live = FALSE]
      OBVIOUS
    <3>3. e \in Events
      BY <2>3, <3>1, <3>2, DeadEvent DEF Contexts
    <3>4. handler'[k] = [handler[k] EXCEPT !.event = e]
      BY <1>1, <2>3, <3>2
    <3>5. [handler[k] EXCEPT !.event = e] \in Contexts
      BY <3>1, <3>3 DEF Contexts
    <3>6. QED
      BY <3>4, <3>5 DEF HandlerStates
  <2>4. QED
    BY <2>1, <2>2, <2>3
<1>3. QED
  BY <1>1, <1>2

LEMMA WriteTyped ==
    ASSUME TimeInv, FormTyped, NEW h \in Handlers, NEW d, DraftType(d), d.id \in 1..opened,
           Write(h, d), UNCHANGED <<scenario, opened, linked, events, faults>>
    PROVE  FormTyped'
<1>1. /\ handler' \in [Handlers -> HandlerStates] /\ form' = d
      /\ UNCHANGED <<answers, mismatched, faulted>>
  BY WriteStates DEF Write
<1>2. DOMAIN newest' \subseteq 1..opened
  BY DEF Write, FormTyped
<1>3. screens' \subseteq Screens
  <2>1. <<d.id, Basis(d)>> \in Screens
    BY BasisType DEF Screens
  <2>2. QED
    BY <2>1 DEF Write, FormTyped
<1>4. QED
  BY <1>1, <1>2, <1>3, CountsKept, FormTypedNext DEF FormTyped

-----------------------------------------------------------------------------
(* Steps of the form *)

(* What the steps of the form rely on of the ledger                           *)
BooksTyped == RowInv /\ RowsTyped /\ MonthsInv

FormBasis == TimeInv /\ BooksTyped /\ FormTyped /\ OutcomeInv

LEMMA LedgerOfRows ==
    ASSUME RowInv, RowsTyped
    PROVE  IsLedger(transactions)
<1>1. PICK n \in Nat : DOMAIN transactions = 1..n
  BY DEF RowInv, Numbered
<1>2. IsFiniteSet(DOMAIN transactions)
  BY <1>1, FS_Interval
<1>3. ASSUME NEW i \in DOMAIN transactions PROVE IsPriced(transactions[i])
  <2>1. transactions[i] \in Rows
    BY DEF RowsTyped
  <2>2. transactions[i].rub \in Nat /\ transactions[i].rate \in Rates
    BY <2>1, RowFields
  <2>3. QED
    BY <2>2, RatesPriced DEF IsPriced
<1>4. QED
  BY <1>2, <1>3 DEF IsLedger

LEMMA CurrentType == ASSUME TimeInv PROVE CurrentMonth \in Int
  BY MonthOfType, ScenarioTypes DEF CurrentMonth, TimeInv

(* What opening the account's month does to the months that are there         *)
Opens(account) ==
    /\ account \in scenario.zones /\ zone' = account /\ moved' \in BOOLEAN
    /\ months' = Advanced(MonthOf(clock, account))
    /\ GoodMonths(stable, months') /\ Grows(months, months')
    /\ MonthOf(clock, account) \in Int
    /\ DOMAIN months' = DOMAIN months \cup (Latest..MonthOf(clock, account))
                                      \cup {MonthOf(clock, account)}

LEMMA OpenOpens ==
    ASSUME TimeInv, BooksTyped, DOMAIN months # {}, NEW account \in scenario.zones,
           Open(account)
    PROVE  Opens(account)
<1>1. account \in Int /\ clock \in Int
  BY ScenarioTypes DEF TimeInv
<1>2. MonthOf(clock, account) \in Int
  BY <1>1, MonthOfType
<1>3. IsLedger(transactions)
  BY LedgerOfRows DEF BooksTyped
<1>4. /\ GoodMonths(stable, Advanced(MonthOf(clock, account)))
      /\ Grows(months, Advanced(MonthOf(clock, account)))
      /\ DOMAIN Advanced(MonthOf(clock, account))
           = DOMAIN months \cup (Latest..MonthOf(clock, account)) \cup {MonthOf(clock, account)}
  BY <1>2, <1>3, AdvancedIs DEF BooksTyped, MonthsInv
<1>5. moved' \in BOOLEAN
  BY DEF Open, TimeInv
<1>6. QED
  BY <1>2, <1>4, <1>5 DEF Opens, Open

LEMMA ReceiveTyped ==
    ASSUME FormBasis, NEW h \in Handlers, Receive(h)
    PROVE  FormTyped'
<1>1. PICK account \in scenario.zones : Open(account)
  BY DEF Receive
<1>2. Opens(account)
  BY <1>1, OpenOpens DEF Receive, FormBasis
<1>3. PICK m : m = MonthOf(clock, zone')
  OBVIOUS
<1>4. m \in Int /\ zone' \in Int /\ m \in DOMAIN months'
  BY <1>2, <1>3, ScenarioTypes DEF Opens, FormBasis
<1>5. PICK lines : lines = months'[m].lines
  OBVIOUS
<1>6. GoodMonth(stable, months'[m])
  BY <1>2, <1>4 DEF Opens, GoodMonths
<1>7. DOMAIN lines \subseteq Categories
  BY <1>5, <1>6 DEF GoodMonth, IsMonth, MonthType
<1>8. PICK e \in Updates :
          Becomes(h, [phase |-> "context", event |-> e, month |-> m, zone |-> zone',
                      offered |-> DOMAIN lines,
                      open |-> {c \in DOMAIN lines : lines[c].accepting}])
  BY <1>3, <1>5 DEF Receive
<1>9. e \in Events
  <2>1. screens \subseteq Screens
    BY DEF FormBasis, FormTyped
  <2>2. CASE e \in [kind : {"entry", "text"}] \cup Taps
    BY <2>2 DEF Events
  <2>3. ASSUME NEW screen \in screens, NEW live \in BOOLEAN,
               e = [kind |-> "button", action |-> "confirm", id |-> screen[1],
                    seen |-> screen[2], live |-> live]
        PROVE  e \in Events
    <3>1. screen[1] \in 1..opened /\ screen[2] \in Bases
      BY <2>1, <2>3 DEF Screens
    <3>2. e \in Confirms
      BY <2>3, <3>1 DEF Confirms
    <3>3. QED
      BY <3>2 DEF Events
  <2>4. QED
    BY <2>2, <2>3 DEF Updates, Taps
<1>10. PICK state : state = [phase |-> "context", event |-> e, month |-> m, zone |-> zone',
                             offered |-> DOMAIN lines,
                             open |-> {c \in DOMAIN lines : lines[c].accepting}]
  OBVIOUS
<1>11. state \in Contexts
  BY <1>4, <1>7, <1>9, <1>10 DEF Contexts
<1>12. state \in HandlerStates
  BY <1>11 DEF HandlerStates
<1>13. handler' \in [Handlers -> HandlerStates]
  BY <1>8, <1>10, <1>12, BecomesTypes DEF FormBasis
<1>14. events' \in 0..events /\ faults \in 0..faults /\ linked \in BOOLEAN
  BY CountsKept DEF Receive, FormBasis
<1>15. /\ UNCHANGED <<scenario, opened, form, newest, screens,
                  answers, mismatched, faulted>>
       /\ UNCHANGED <<linked, faults>>
  BY DEF Receive, bounds, heard
<1>16. QED
  BY <1>13, <1>14, <1>15, QuietTyped DEF FormBasis

LEMMA ContextOf ==
    ASSUME FormTyped, NEW h \in Handlers, Holding(h)
    PROVE  /\ handler[h].event \in Events /\ handler[h].month \in Int
           /\ handler[h].offered \subseteq Categories
           /\ handler[h].event.kind = "button" => handler[h].event.id \in 1..opened
           /\ /\ handler[h].event.kind = "button"
              /\ handler[h].event.action = "confirm"
              => handler[h].event.seen \in Bases
<1>1. handler[h] \in Contexts
  BY StateOf DEF Holding
<1>2. handler[h].event \in Events
  BY <1>1 DEF Contexts
<1>3. QED
  BY <1>1, <1>2 DEF Contexts, Events, Taps, Confirms

LEMMA HandlerFrees ==
    ASSUME FormTyped, NEW h \in Handlers, Becomes(h, Free)
    PROVE  handler' \in [Handlers -> HandlerStates]
  BY BecomesTypes, FreeState

LEMMA ReplayTyped ==
    ASSUME FormBasis, NEW h \in Handlers, Replay(h)
    PROVE  FormTyped'
<1>1. PICK id : id = handler[h].event.id
  OBVIOUS
<1>2. id \in 1..opened
  BY <1>1, ContextOf DEF Replay, Replays, FormBasis
<1>3. SaysSaved(id, newest[id], form.id = id)
  BY <1>1 DEF Replay
<1>4. handler' \in [Handlers -> HandlerStates]
  BY HandlerFrees DEF Replay, FormBasis
<1>5. UNCHANGED <<scenario, opened, linked, events, faults>>
  BY DEF Replay, Steady, vars, bounds
<1>6. QED
  BY <1>2, <1>3, <1>4, <1>5, SavedTyped DEF FormBasis

LEMMA OpenFormTyped ==
    ASSUME FormBasis, NEW h \in Handlers, OpenForm(h)
    PROVE  FormTyped'
<1>1. /\ opened \in Nat /\ opened' = opened + 1 /\ opened < scenario.forms
      /\ scenario.forms \in Nat
      /\ UNCHANGED <<scenario, linked, events, faults, clock>>
  BY OpenedType, ScenarioTypes DEF OpenForm, FormBasis, vars, bounds
<1>2. PICK n : n = opened + 1
  OBVIOUS
<1>3. PICK d : d = NewDraft(n, handler[h].month, handler[h].offered)
  OBVIOUS
<1>4. Write(h, d)
  BY <1>1, <1>2, <1>3 DEF OpenForm
<1>5. /\ handler[h].month \in Int /\ handler[h].offered \in SUBSET Categories
  BY ContextOf DEF OpenForm, FormBasis
<1>6. n \in Nat /\ n \in 0..n /\ n \in 1..n
  BY <1>1, <1>2
<1>7. d \in DraftsUpTo(n) /\ d.step = "kind" /\ d.id = n
  BY <1>3, <1>5, <1>6, NewDraftType DEF FormBasis
<1>8. /\ DraftsOf \subseteq DraftsOf' /\ HandlerStates \subseteq HandlerStates'
      /\ Told \subseteq Told' /\ 1..opened \subseteq 1..opened' /\ Screens \subseteq Screens'
  BY <1>1, StatesGrow
<1>9. DraftType(form)'
  <2>1. DraftsOf' = DraftsUpTo(n)
    BY <1>1, <1>2 DEF DraftsOf, DraftsUpTo
  <2>2. form' = d
    BY <1>4 DEF Write
  <2>3. QED
    BY <1>7, <2>1, <2>2 DEF DraftType, Past
<1>10. handler' \in [Handlers -> HandlerStates']
  BY <1>4, <1>8, WriteStates DEF FormBasis
<1>11. UNCHANGED <<newest, screens, answers, mismatched, faulted>>
  BY <1>4, <1>7 DEF Write
<1>12. opened' \in 0..scenario'.forms
  BY <1>1
<1>13. /\ events' \in 0..scenario'.events /\ faults' \in 0..scenario'.faults
       /\ linked' \in BOOLEAN
  BY <1>1 DEF FormBasis, FormTyped
<1>14. /\ DOMAIN newest' \subseteq 1..opened' /\ screens' \subseteq Screens' /\ answers' \subseteq Told'
       /\ mismatched' \subseteq 1..opened' /\ faulted' \subseteq 1..opened'
  BY <1>8, <1>11 DEF FormBasis, FormTyped
<1>15. QED
  BY <1>9, <1>10, <1>12, <1>13, <1>14 DEF FormTyped

LEMMA ClearingTyped ==
    ASSUME FormBasis, NEW h \in Handlers,
           NEW said, said = {} \/ (said = {<<form.id, "canceled">>} /\ form.id # NoForm),
           Clear(h, said), Steady
    PROVE  FormTyped'
<1>1. form.id # NoForm => form.id \in 1..opened
  BY OpenedType DEF FormBasis, FormTyped, DraftType, DraftsOf, NoForm
<1>2. said \in SUBSET Told
  BY <1>1 DEF Told
<1>3. UNCHANGED <<scenario, opened, linked, events, faults>>
  BY DEF Steady, vars, bounds
<1>4. QED
  BY <1>2, <1>3, ClearTyped DEF FormBasis

(* A draft of the present form is shown, or the form is cleared.              *)
LEMMA SteppedTyped ==
    ASSUME FormBasis, NEW h \in Handlers, NEW drafts, Step(h, drafts), CurrentDraft(h),
           \A d \in drafts : DraftType(d) /\ d.id = form.id
    PROVE  FormTyped'
<1>1. form.id \in 1..opened
  BY OpenedType DEF FormBasis, FormTyped, DraftType, DraftsOf, NoForm, CurrentDraft
<1>2. PICK d \in drafts : IF Selectable(h, d) THEN Write(h, d) ELSE Clear(h, {})
  BY DEF Step
<1>3. Steady /\ UNCHANGED <<scenario, opened, linked, events, faults>>
  BY DEF Step, Steady, vars, bounds
<1>4. CASE Selectable(h, d)
  BY <1>1, <1>2, <1>3, <1>4, WriteTyped DEF FormBasis
<1>5. CASE ~Selectable(h, d)
  BY <1>2, <1>3, <1>5, ClearingTyped
<1>6. QED
  BY <1>4, <1>5

LEMMA ScreenTyped ==
    ASSUME FormBasis, NEW h \in Handlers, Press(h) \/ Back(h) \/ Type(h) \/ ShowAgain(h)
    PROVE  FormTyped'
<1>1. DraftType(form) /\ IsDraft(form)
  BY DEF FormBasis, FormTyped, OutcomeInv, DraftInv
<1>2. CASE Press(h)
  <2>1. Step(h, Offers(form, handler[h].open)) /\ CurrentDraft(h)
    BY <1>2 DEF Press, Pressed
  <2>2. \A d \in Offers(form, handler[h].open) : DraftType(d) /\ d.id = form.id
    BY <1>1, OfferTypes, OfferedDraft DEF FormBasis
  <2>3. QED
    BY <2>1, <2>2, SteppedTyped
<1>3. CASE Back(h)
  <2>1. PICK d : d = [form EXCEPT !.step = Before(form.step)]
    OBVIOUS
  <2>2. Step(h, {d}) /\ CurrentDraft(h)
    BY <1>3, <2>1 DEF Back, Pressed
  <2>3. DraftType(d)
    BY <1>1, <2>1, BackType
  <2>4. d.id = form.id
    BY <2>1, <1>1, ChangedDraft DEF Changes, ToStep
  <2>5. QED
    BY <2>2, <2>3, <2>4, SteppedTyped
<1>4. CASE Type(h)
  <2>1. Step(h, Inputs(form, handler[h].zone)) /\ CurrentDraft(h)
    BY <1>4 DEF Type
  <2>2. \A d \in Inputs(form, handler[h].zone) : DraftType(d) /\ d.id = form.id
    BY <1>1, InputTypes, TypedDraft DEF FormBasis
  <2>3. QED
    BY <2>1, <2>2, SteppedTyped
<1>5. CASE ShowAgain(h)
  <2>1. Step(h, {form}) /\ CurrentDraft(h)
    BY <1>5 DEF ShowAgain
  <2>2. QED
    BY <1>1, <2>1, SteppedTyped
<1>6. QED
  BY <1>2, <1>3, <1>4, <1>5

LEMMA ClearedTyped ==
    ASSUME FormBasis, NEW h \in Handlers,
           Outdated(h) \/ ChooseGone(h) \/ Cancel(h) \/ ConfirmStale(h) \/ LostConfirm(h)
    PROVE  FormTyped'
<1>1. Steady
  BY DEF Outdated, ChooseGone, Cancel, ConfirmStale, LostConfirm
<1>2. CASE Cancel(h)
  <2>1. Clear(h, {<<form.id, "canceled">>}) /\ form.id # NoForm
    BY <1>2 DEF Cancel, Pressed, CurrentDraft
  <2>2. PICK said : said = {<<form.id, "canceled">>}
    OBVIOUS
  <2>3. QED
    BY <1>1, <2>1, <2>2, ClearingTyped
<1>3. CASE ~Cancel(h)
  <2>1. Clear(h, {})
    BY <1>3 DEF Outdated, ChooseGone, ConfirmStale, LostConfirm
  <2>2. QED
    BY <1>1, <2>1, ClearingTyped
<1>4. QED
  BY <1>2, <1>3

(* The form is as it was and nothing is said of it; its handler goes on.      *)
LEMMA GoesOnTyped ==
    ASSUME FormBasis, NEW h \in Handlers, NEW state \in HandlerStates, Becomes(h, state),
           UNCHANGED <<scenario, opened, linked, events, faults, form, newest, screens,
                  answers,
                       mismatched, faulted>>
    PROVE  FormTyped'
<1>1. handler' \in [Handlers -> HandlerStates]
  BY BecomesTypes DEF FormBasis
<1>2. events' \in 0..events /\ faults' \in 0..faults /\ linked' \in BOOLEAN
  BY CountsKept DEF FormBasis
<1>3. QED
  BY <1>1, <1>2, QuietTyped DEF FormBasis

(* What the ledger accepts of a form is an entry.                             *)
LEMMA CheckedEntry ==
    ASSUME FormBasis, NEW d \in DraftsOf, Checked(d), d.amount \in Amounts
    PROVE  EntryDraft(d)
<1>1. /\ CurrentMonth \in DOMAIN months
      /\ d.cat \in DOMAIN months[CurrentMonth].lines
  BY DEF Checked, Enterable, Accepting, Listed
<1>2. GoodMonth(stable, months[CurrentMonth])
  BY <1>1 DEF FormBasis, BooksTyped, MonthsInv, GoodMonths
<1>3. d.cat \in Categories
  BY <1>1, <1>2 DEF GoodMonth, IsMonth, MonthType
<1>4. QED
  BY <1>3 DEF EntryDraft, DraftsOf

LEMMA StartConfirmTyped ==
    ASSUME FormBasis, NEW h \in Handlers, StartConfirm(h)
    PROVE  FormTyped'
<1>1. PICK rate \in Priced(form.at + zone) :
          Becomes(h, [phase |-> "pricing", draft |-> form, seen |-> handler[h].event.seen,
                      rate |-> rate])
  BY DEF StartConfirm
<1>2. form \in DraftsOf /\ form.amount \in Amounts
  BY DEF StartConfirm, Confirmable, FormBasis, FormTyped, DraftType, Past
<1>3. form.at + zone \in Int
  BY <1>2, ScenarioTypes DEF FormBasis, DraftsOf
<1>4. rate \in Rates
  BY <1>3, PricedRates DEF FormBasis, BooksTyped, RowsTyped
<1>5. form \in Confirmed
  BY <1>2, CheckedEntry DEF StartConfirm, Confirmed
<1>6. PICK state : state = [phase |-> "pricing", draft |-> form,
                            seen |-> handler[h].event.seen, rate |-> rate]
  OBVIOUS
<1>7. state \in HandlerStates
  <2>1. handler[h].event.seen \in Bases
    BY ContextOf DEF StartConfirm, Confirmable, Pressed, FormBasis
  <2>2. QED
    BY <1>4, <1>5, <1>6, <2>1 DEF HandlerStates
<1>8. UNCHANGED <<scenario, opened, linked, events, faults, form, newest, screens,
                  answers,
                  mismatched, faulted>>
  BY DEF StartConfirm, Steady, vars, bounds, heard
<1>9. QED
  BY <1>1, <1>6, <1>7, <1>8, GoesOnTyped

LEMMA SavesTyped ==
    ASSUME FormBasis, NEW h \in Handlers, CommitConfirm(h) \/ FoundConfirmed(h)
    PROVE  FormTyped'
<1>1. PICK d : d = handler[h].draft
  OBVIOUS
<1>2. /\ handler[h].phase = "pricing"
      /\ Becomes(h, [phase |-> "saved", draft |-> d, seen |-> handler[h].seen])
  BY <1>1 DEF CommitConfirm, FoundConfirmed
<1>3. d \in Confirmed /\ handler[h].seen \in Bases
  BY <1>1, <1>2, StateOf DEF FormBasis
<1>4. PICK state : state = [phase |-> "saved", draft |-> d, seen |-> handler[h].seen]
  OBVIOUS
<1>5. state \in HandlerStates
  BY <1>3, <1>4 DEF HandlerStates
<1>6. UNCHANGED <<scenario, opened, linked, events, faults, form, newest, screens,
                  answers,
                  mismatched, faulted>>
  BY DEF CommitConfirm, FoundConfirmed, Steady, vars, bounds, heard
<1>7. QED
  BY <1>2, <1>4, <1>5, <1>6, GoesOnTyped

LEMMA FreedTyped ==
    ASSUME FormBasis, NEW h \in Handlers, Ignore(h) \/ Abandon(h)
    PROVE  FormTyped'
<1>1. Becomes(h, Free)
  BY DEF Ignore, Abandon
<1>2. UNCHANGED <<scenario, opened, linked, events, faults, form, newest, screens,
                  answers,
                  mismatched, faulted>>
  BY DEF Ignore, Abandon, Steady, vars, bounds, heard
<1>3. QED
  BY <1>1, <1>2, FreeState, GoesOnTyped

LEMMA FinishConfirmTyped ==
    ASSUME FormBasis, NEW h \in Handlers, FinishConfirm(h)
    PROVE  FormTyped'
<1>1. PICK id : id = handler[h].draft.id
  OBVIOUS
<1>2. id \in 1..opened
  BY <1>1 DEF FinishConfirm, FormBasis, OutcomeInv, HandlerInv, ConfirmationOf, Confirming
<1>3. SaysSaved(id, handler[h].seen, TRUE)
  BY <1>1 DEF FinishConfirm
<1>4. handler' \in [Handlers -> HandlerStates]
  BY HandlerFrees DEF FinishConfirm, FormBasis
<1>5. UNCHANGED <<scenario, opened, linked, events, faults>>
  BY DEF FinishConfirm, Steady, vars, bounds
<1>6. QED
  BY <1>2, <1>3, <1>4, <1>5, SavedTyped DEF FormBasis

LEMMA CrashTyped ==
    ASSUME FormBasis, NEW h \in Handlers, Crash(h)
    PROVE  FormTyped'
<1>1. handler[h].draft.id \in 1..opened
  BY DEF Crash, FormBasis, OutcomeInv, HandlerInv, ConfirmationOf, Confirming
<1>2. faulted' \subseteq 1..opened /\ DOMAIN newest' \subseteq 1..opened /\ screens' \subseteq Screens
      /\ answers' \subseteq Told /\ mismatched' \subseteq 1..opened
  BY <1>1 DEF Crash, FormBasis, FormTyped
<1>3. handler' \in [Handlers -> HandlerStates]
  BY HandlerFrees DEF Crash, FormBasis
<1>4. UNCHANGED <<scenario, opened, linked, events, form>>
  BY DEF Crash, vars, bounds
<1>5. /\ events' \in 0..events /\ linked' \in BOOLEAN /\ faults' \in 0..faults
      /\ DraftType(form')
  <2>1. events \in 0..events /\ faults \in Nat /\ linked \in BOOLEAN
    BY CountsKept DEF FormBasis
  <2>2. QED
    BY <1>4, <2>1 DEF Crash, Fault, FormBasis, FormTyped
<1>6. QED
  BY <1>2, <1>3, <1>4, <1>5, FormTypedNext DEF FormBasis

(* Faults, and /cancel, beside the handlers                                   *)
LEMMA BesideTyped ==
    ASSUME FormBasis, CancelCommand \/ LockExpires \/ Forget \/ Revoke
    PROVE  FormTyped'
<1>1. /\ events \in Nat /\ faults \in Nat /\ linked \in BOOLEAN
      /\ handler \in [Handlers -> HandlerStates]
      /\ DOMAIN newest \subseteq 1..opened /\ screens \subseteq Screens /\ answers \subseteq Told
      /\ mismatched \subseteq 1..opened /\ faulted \subseteq 1..opened
      /\ DraftType(form) /\ opened \in Nat
  BY CountsKept, OpenedType DEF FormBasis, FormTyped
<1>2. UNCHANGED <<scenario, opened, handler, newest, screens, mismatched>>
  BY DEF CancelCommand, LockExpires, Forget, Revoke, vars, bounds, heard
<1>3. /\ events' \in 0..events /\ faults' \in 0..faults /\ linked' \in BOOLEAN
  <2>1. CASE CancelCommand
    BY <1>1, <2>1 DEF CancelCommand
  <2>2. CASE LockExpires
    BY <1>1, <2>2 DEF LockExpires, Fault
  <2>3. CASE Forget
    BY <1>1, <2>3 DEF Forget, Fault
  <2>4. CASE Revoke
    <3>1. linked' \in BOOLEAN
      BY <2>4 DEF Revoke
    <3>2. faults > 0 /\ faults' = faults - 1 /\ events' = events
      BY <2>4 DEF Revoke, Fault
    <3>3. QED
      BY <1>1, <3>1, <3>2
  <2>5. QED
    BY <2>1, <2>2, <2>3, <2>4
<1>4. form' \in {form, NoDraft}
  BY DEF CancelCommand, LockExpires, Forget, Revoke
<1>5. answers' \subseteq Told
  <2>1. CASE CancelCommand
    <3>1. form.id \in 1..opened
      BY <1>1, <2>1 DEF CancelCommand, DraftType, DraftsOf, NoForm
    <3>2. QED
      BY <1>1, <2>1, <3>1 DEF CancelCommand, Told
  <2>2. CASE ~CancelCommand
    BY <1>1, <2>2 DEF LockExpires, Forget, Revoke, heard
  <2>3. QED
    BY <2>1, <2>2
<1>6. faulted' \subseteq 1..opened
  <2>1. CASE LockExpires
    <3>1. lock \in Handlers /\ Confirming(lock) /\ ConfirmationOf(lock)
      BY <2>1 DEF LockExpires, FormBasis, OutcomeInv, HandlerInv
    <3>2. handler[lock].draft.id \in 1..opened
      BY <3>1 DEF ConfirmationOf
    <3>3. QED
      BY <1>1, <2>1, <3>2 DEF LockExpires
  <2>2. CASE ~LockExpires
    BY <1>1, <2>2 DEF CancelCommand, Forget, Revoke, heard
  <2>3. QED
    BY <2>1, <2>2
<1>7. DraftType(form')
  BY <1>1, <1>4, NoDraftType
<1>8. QED
  BY <1>1, <1>2, <1>3, <1>5, <1>6, <1>7, FormTypedNext DEF FormBasis

LEMMA HandledTyped ==
    ASSUME FormBasis, NEW h \in Handlers, Handled(h)
    PROVE  FormTyped'
  BY ReceiveTyped, ReplayTyped, OpenFormTyped, ScreenTyped, ClearedTyped, StartConfirmTyped,
     SavesTyped, FreedTyped, FinishConfirmTyped, CrashTyped DEF Handled

LEMMA FormStepTyped ==
    ASSUME FormBasis, [EntryNext]_allVars
    PROVE  FormTyped'
<1>1. CASE LedgerNext /\ UNCHANGED entry /\ UNCHANGED heard
  <2>1. scenario' = scenario
    BY <1>1 DEF LedgerNext, EnsureMonth, InitializeTracker, RefreshRates, Tick, Deliver,
                Fail, Unlocked, bounds, Started, Committed, CreateTransaction,
                CreateHistoricalTransaction, StartCreate, ListTransactions,
                ListHistoricalTransactions, OpenPage, UpdateTransaction,
                UpdateHistoricalTransaction, StartUpdate, DeleteTransaction,
                DeleteHistoricalTransaction, RestoreTransaction,
                RestoreHistoricalTransaction, StartDeletion, StartCurrency, StartBudget,
                CommitCreate, CommitUpdate, CommitDeletion, CommitCurrency, SetOpening,
                SetPlan, Archive, Restore, SetArchived, RemoveCategory, CreateCategory,
                Finish
  <2>2. UNCHANGED <<opened, linked, events, faults, form, handler, newest,
                    screens, answers,
                    mismatched, faulted>>
    BY <1>1 DEF entry, heard
  <2>3. QED
    BY <2>1, <2>2, CountsKept, QuietTyped DEF FormBasis
<1>2. CASE UNCHANGED allVars
  <2>1. UNCHANGED <<scenario, opened, linked, events, faults, form, handler, newest,
                    screens, answers,
                    mismatched, faulted>>
    BY <1>2 DEF allVars, entry, heard, vars, bounds
  <2>2. QED
    BY <2>1, CountsKept, QuietTyped DEF FormBasis
<1>3. CASE \E h \in Handlers : Handled(h)
  BY <1>3, HandledTyped
<1>4. CASE CancelCommand \/ LockExpires \/ Forget \/ Revoke
  BY <1>4, BesideTyped
<1>5. QED
  BY <1>1, <1>2, <1>3, <1>4 DEF EntryNext

-----------------------------------------------------------------------------
(* The seven things a step may do to the books *)

OpensMonth ==
    /\ DOMAIN months # {}
    /\ \E account \in scenario.zones : Opens(account) /\ Open(account)
    /\ UNCHANGED <<bounds, clock, stable, transactions, revisions, rateSets, request, warnings>>

Initializes ==
    /\ DOMAIN months = {}
    /\ \E account \in scenario.zones, currency \in Currencies :
          zone' = account /\ months' = FirstMonths(account, currency)
    /\ stable' = FirstCategories
    /\ UNCHANGED <<bounds, clock, moved, transactions, revisions, rateSets, request, warnings>>

Budgets ==
    (\E w \in Requests : \E m : BudgetStep(w, m)) /\ rateSets' \in Seq(Rates)

(* A request enters a row in the month that it names, a form in the current.  *)
EntersBy(row, now) ==
    \/ \E w \in Requests :
          /\ request[w].op = "create" /\ Ended(w) /\ now = request[w].now
          /\ Found(now, request[w].period) /\ row.month = Period(now, request[w].period)
    \/ UNCHANGED request /\ row.month = CurrentMonth /\ row.form # NoForm

EntersRow ==
    (\E row, now : Enters(row, now) /\ EntersBy(row, now)) /\ rateSets' \in Seq(Rates)

RevisesRow ==
    (\E w \in Requests : \E row : Revises(w, row)) /\ rateSets' \in Seq(Rates)

Delivers == \E e \in outbox : Deliver(e)

(* Time passes, a rate is saved, or a request begins, goes on or fails.       *)
Rests ==
    /\ UNCHANGED <<scenario, zone, moved, months, stable, transactions, revisions, warnings>>
    /\ left' \in 0..left /\ clock' \in {clock, clock + 1} /\ rateSets' \in Seq(Rates)
    /\ \/ UNCHANGED request
       \/ \E w \in Requests : \E r : request' = [request EXCEPT ![w] = r]
                                     /\ RequestType(r, clock)

StepsBooks ==
    OpensMonth \/ Initializes \/ Budgets \/ EntersRow \/ RevisesRow \/ Delivers \/ Rests

LedgerBasis == FormBasis /\ RequestsTyped

LEMMA IdleType == \A now : RequestType(Idle, now)
<1>1. Idle.op = "idle"
  BY DEF Idle
<1>2. QED
  BY <1>1 DEF RequestType, Operations

LEMMA StandsStill ==
    ASSUME LedgerBasis, UNCHANGED <<bounds, clock, zone, moved, ledger, warnings, request>>
    PROVE  Rests
<1>1. left \in Nat /\ rateSets \in Seq(Rates)
  BY ScenarioTypes DEF LedgerBasis, FormBasis, TimeInv, BooksTyped, RowsTyped
<1>2. QED
  BY <1>1 DEF Rests, bounds, ledger

LEMMA StartRests ==
    ASSUME LedgerBasis, NEW w \in Requests, Started(w)
    PROVE  Rests
<1>1. left \in Nat /\ rateSets \in Seq(Rates)
  BY ScenarioTypes DEF LedgerBasis, FormBasis, TimeInv, BooksTyped, RowsTyped
<1>2. \E r : request' = [request EXCEPT ![w] = r] /\ RequestType(r, clock)
  BY <1>1, StartTypes DEF LedgerBasis, FormBasis, BooksTyped
<1>3. Unlocked
  BY DEF Started, CreateTransaction,
         CreateHistoricalTransaction, StartCreate, ListTransactions,
         ListHistoricalTransactions, OpenPage, UpdateTransaction,
         UpdateHistoricalTransaction, StartUpdate, DeleteTransaction,
         DeleteHistoricalTransaction, RestoreTransaction,
         RestoreHistoricalTransaction, StartDeletion, StartCurrency, StartBudget
<1>4. (left > 0 /\ left' = left - 1) \/ left' = left
  BY DEF Started, CreateTransaction,
         CreateHistoricalTransaction, StartCreate, ListTransactions,
         ListHistoricalTransactions, OpenPage, UpdateTransaction,
         UpdateHistoricalTransaction, StartUpdate, DeleteTransaction,
         DeleteHistoricalTransaction, RestoreTransaction,
         RestoreHistoricalTransaction, StartDeletion, StartCurrency, StartBudget, Fresh
<1>5. left' \in 0..left
  BY <1>1, <1>4
<1>6. QED
  BY <1>1, <1>2, <1>3, <1>5 DEF Rests, Unlocked, ledger

LEMMA FailRests ==
    ASSUME LedgerBasis, NEW w \in Requests, Fail(w)
    PROVE  Rests
<1>1. left \in 0..left /\ rateSets \in Seq(Rates)
  BY ScenarioTypes DEF LedgerBasis, FormBasis, TimeInv, BooksTyped, RowsTyped
<1>2. request' = [request EXCEPT ![w] = Idle] /\ RequestType(Idle, clock)
  BY IdleType DEF Fail
<1>3. UNCHANGED <<scenario, clock, zone, moved, ledger, warnings, left>>
  BY DEF Fail, Unlocked
<1>4. QED
  BY <1>1, <1>2, <1>3 DEF Rests, ledger

LEMMA CreateEnters ==
    ASSUME LedgerBasis, NEW w \in Requests, CommitCreate(w)
    PROVE  EntersRow
<1> DEFINE r == request[w]
           m == Period(r.now, r.period)
<1>1. /\ r.op = "create" /\ Found(r.now, r.period) /\ Enterable(r.draft, m)
      /\ Record(r.draft, m, r.rate, r.now, NoForm) /\ Finish(w)
  BY DEF CommitCreate
<1>2. EntryDraft(r.draft) /\ r.rate \in Rates /\ r.now \in 0..clock
  BY <1>1 DEF LedgerBasis, RequestsTyped, RequestType, Operations
<1>3. m \in DOMAIN months
  BY <1>1 DEF Found
<1>4. NoForm \in 0..opened
  BY OpenedType DEF NoForm, LedgerBasis, FormBasis
<1>5. UNCHANGED <<bounds, clock, zone, moved>> /\ Ended(w)
  BY <1>1 DEF Finish, Ended
<1>6. PICK row : row = Entered(r.draft, m, r.rate, r.now, NoForm)
  OBVIOUS
<1>7. Enters(row, r.now) /\ rateSets' \in Seq(Rates)
  BY <1>1, <1>2, <1>3, <1>4, <1>5, <1>6, RecordEnters DEF LedgerBasis, FormBasis, BooksTyped
<1>8. row.month = m
  BY <1>6, EnteredRow
<1>9. EntersBy(row, r.now)
  BY <1>1, <1>5, <1>8 DEF EntersBy
<1>10. QED
  BY <1>7, <1>9 DEF EntersRow

LEMMA ConfirmEnters ==
    ASSUME LedgerBasis, NEW h \in Handlers, CommitConfirm(h)
    PROVE  EntersRow
<1> DEFINE d == handler[h].draft
           rate == handler[h].rate
<1>1. /\ handler[h].phase = "pricing" /\ Checked(d) /\ Record(d, d.month, rate, clock, d.id)
      /\ UNCHANGED <<bounds, clock, zone, moved, request>>
  BY DEF CommitConfirm
<1>2. d \in Confirmed /\ rate \in Rates
  BY <1>1, StateOf DEF LedgerBasis, FormBasis
<1>3. EntryDraft(d)
  BY <1>2 DEF Confirmed
<1>4. d.id \in 1..opened
  BY <1>1 DEF LedgerBasis, FormBasis, OutcomeInv, HandlerInv, ConfirmationOf, Confirming
<1>5. d.month = CurrentMonth /\ d.month \in DOMAIN months /\ Enterable(d, d.month)
  BY <1>1 DEF Checked
<1>6. opened \in Nat /\ d.id \in 0..opened /\ d.id # NoForm
  BY <1>4, OpenedType DEF NoForm, LedgerBasis, FormBasis
<1>7. clock \in 0..clock
  BY DEF LedgerBasis, FormBasis, TimeInv
<1>8. PICK row : row = Entered(d, d.month, rate, clock, d.id)
  OBVIOUS
<1>9. Enters(row, clock) /\ rateSets' \in Seq(Rates)
  BY <1>1, <1>2, <1>3, <1>5, <1>6, <1>7, <1>8, RecordEnters
     DEF LedgerBasis, FormBasis, BooksTyped
<1>10. row.month = d.month /\ row.form = d.id
  BY <1>8, EnteredRow
<1>11. EntersBy(row, clock)
  BY <1>1, <1>5, <1>6, <1>10 DEF EntersBy
<1>12. QED
  BY <1>9, <1>11 DEF EntersRow

LEMMA CommitStepsBooks ==
    ASSUME LedgerBasis, NEW w \in Requests, Committed(w)
    PROVE  StepsBooks
<1>0. /\ MonthsInv /\ RequestsTyped /\ RowInv /\ RowsTyped /\ rateSets \in Seq(Rates)
      /\ RequestType(request[w], clock)
  BY DEF LedgerBasis, FormBasis, BooksTyped, RowsTyped, RequestsTyped
<1>1. CASE CommitCreate(w)
  BY <1>1, CreateEnters DEF StepsBooks
<1>2. CASE CommitUpdate(w)
  BY <1>0, <1>2, UpdateRevises DEF StepsBooks, RevisesRow
<1>3. CASE CommitDeletion(w)
  BY <1>0, <1>3, DeletionRevises DEF StepsBooks, RevisesRow
<1>4. CASE CommitCurrency(w)
  <2>1. \E m : BudgetStep(w, m)
    BY <1>0, <1>4, CurrencyStep
  <2>2. request[w].op = "currency" /\ rateSets' = Saved(request[w].rate)
    BY <1>4 DEF CommitCurrency, LockedMonth
  <2>3. request[w].rate \in Rates
    BY <1>0, <2>2 DEF RequestType
  <2>4. rateSets' \in Seq(Rates)
    BY <1>0, <2>2, <2>3, SavedTypes
  <2>5. QED
    BY <2>1, <2>4 DEF StepsBooks, Budgets
<1>5. CASE SetOpening(w) \/ SetPlan(w) \/ CreateCategory(w) \/ RemoveCategory(w)
  <2>1. rateSets' = rateSets
    BY <1>5 DEF SetOpening, SetPlan, CreateCategory, RemoveCategory
  <2>2. \E m : BudgetStep(w, m)
    BY <1>0, <1>5, OpeningStep, PlanStep, CategoryStep, RemovalStep
  <2>3. QED
    BY <1>0, <2>1, <2>2 DEF StepsBooks, Budgets
<1>6. CASE Archive(w) \/ Restore(w)
  <2>1. rateSets' = rateSets
    BY <1>6 DEF Archive, Restore, SetArchived
  <2>2. \E m : BudgetStep(w, m)
    BY <1>0, <1>6, ArchiveStep DEF Archive, Restore
  <2>3. QED
    BY <1>0, <2>1, <2>2 DEF StepsBooks, Budgets
<1>7. QED
  BY <1>1, <1>2, <1>3, <1>4, <1>5, <1>6 DEF Committed

LEMMA LedgerStepsBooks ==
    ASSUME LedgerBasis, LedgerNext
    PROVE  StepsBooks
<1>0. /\ TimeInv /\ BooksTyped /\ rateSets \in Seq(Rates) /\ left \in 0..left /\ clock \in Int
  BY ScenarioTypes DEF LedgerBasis, FormBasis, TimeInv, BooksTyped, RowsTyped
<1>1. CASE EnsureMonth
  <2>1. PICK account \in scenario.zones : Open(account)
    BY <1>1 DEF EnsureMonth
  <2>2. Opens(account)
    BY <1>0, <1>1, <2>1, OpenOpens DEF EnsureMonth
  <2>3. OpensMonth
    BY <1>1, <2>1, <2>2 DEF EnsureMonth, OpensMonth
  <2>4. QED
    BY <2>3 DEF StepsBooks
<1>2. CASE InitializeTracker
  <2>1. scenario.currencies \subseteq Currencies
    BY <1>0, ScenarioTypes
  <2>2. Initializes
    BY <1>2, <2>1 DEF InitializeTracker, Initializes
  <2>3. QED
    BY <2>2 DEF StepsBooks
<1>3. CASE RefreshRates
  <2>1. PICK rate \in Published(clock) : rateSets' = Saved(rate)
    BY <1>3 DEF RefreshRates
  <2>2. rate \in Rates
    BY <1>0, <2>1, PublishedRates
  <2>3. rateSets' \in Seq(Rates)
    BY <1>0, <2>1, <2>2, SavedTypes
  <2>4. Rests
    BY <1>0, <1>3, <2>3 DEF RefreshRates, Rests, bounds
  <2>5. QED
    BY <2>4 DEF StepsBooks
<1>4. CASE Tick
  <2>1. Rests
    BY <1>0, <1>4 DEF Tick, Rests, bounds, ledger
  <2>2. QED
    BY <2>1 DEF StepsBooks
<1>5. CASE \E w \in Requests : Started(w) \/ Committed(w) \/ Fail(w)
  BY <1>5, StartRests, FailRests, CommitStepsBooks DEF StepsBooks
<1>6. CASE \E e \in outbox : Deliver(e)
  BY <1>6 DEF StepsBooks, Delivers
<1>7. QED
  BY <1>1, <1>2, <1>3, <1>4, <1>5, <1>6 DEF LedgerNext

LEMMA HandledStepsBooks ==
    ASSUME LedgerBasis, NEW h \in Handlers, Handled(h)
    PROVE  StepsBooks
<1>1. CASE Receive(h)
  <2>1. PICK account \in scenario.zones : Open(account)
    BY <1>1 DEF Receive
  <2>2. Opens(account)
    BY <1>1, <2>1, OpenOpens DEF Receive, LedgerBasis, FormBasis
  <2>3. OpensMonth
    BY <1>1, <2>1, <2>2 DEF Receive, OpensMonth
  <2>4. QED
    BY <2>3 DEF StepsBooks
<1>2. CASE CommitConfirm(h)
  BY <1>2, ConfirmEnters DEF StepsBooks
<1>3. CASE ~Receive(h) /\ ~CommitConfirm(h)
  <2>1. UNCHANGED vars
    BY <1>3 DEF Handled, Replay, OpenForm, Outdated, Press, Back, Type, ShowAgain, Step,
                ChooseGone, Cancel, Ignore, StartConfirm, ConfirmStale, FoundConfirmed,
                LostConfirm, FinishConfirm, Abandon, Crash, Steady
  <2>2. Rests
    BY <2>1, StandsStill DEF vars
  <2>3. QED
    BY <2>2 DEF StepsBooks
<1>4. QED
  BY <1>1, <1>2, <1>3

LEMMA EntryStepsBooks ==
    ASSUME LedgerBasis, [EntryNext]_allVars
    PROVE  StepsBooks
<1>1. CASE LedgerNext
  BY <1>1, LedgerStepsBooks
<1>2. CASE \E h \in Handlers : Handled(h)
  BY <1>2, HandledStepsBooks
<1>3. CASE UNCHANGED vars
  <2>1. Rests
    BY <1>3, StandsStill DEF vars
  <2>2. QED
    BY <2>1 DEF StepsBooks
<1>4. CancelCommand \/ LockExpires \/ Forget \/ Revoke => UNCHANGED vars
  BY DEF CancelCommand, LockExpires, Forget, Revoke
<1>5. QED
  BY <1>1, <1>2, <1>3, <1>4 DEF EntryNext, allVars

-----------------------------------------------------------------------------
(* Types of the books *)

LEMMA TimeKept ==
    ASSUME LedgerBasis, StepsBooks
    PROVE  TimeInv' /\ scenario' = scenario /\ clock' \in {clock, clock + 1}
<1>1. /\ scenario \in Scenarios /\ left \in 0..scenario.requests
      /\ clock \in Nat /\ zone \in scenario.zones \cup {0} /\ moved \in BOOLEAN
      /\ scenario.requests \in Nat
  BY ScenarioTypes DEF LedgerBasis, FormBasis, TimeInv
<1>2. scenario' = scenario /\ clock' \in {clock, clock + 1}
  BY DEF StepsBooks, OpensMonth, Initializes, Budgets, BudgetStep, EntersRow, Enters,
         RevisesRow, Revises, Delivers, Deliver, Rests, bounds
<1>3. left' \in 0..left
  <2>1. left' = left \/ left' \in 0..left
    BY DEF StepsBooks, OpensMonth, Initializes, Budgets, BudgetStep, EntersRow, Enters,
           RevisesRow, Revises, Delivers, Deliver, Rests, bounds
  <2>2. QED
    BY <1>1, <2>1
<1>4. zone' \in scenario.zones \cup {0}
  <2>1. zone' = zone \/ zone' \in scenario.zones
    BY DEF StepsBooks, OpensMonth, Opens, Initializes, Budgets, BudgetStep, EntersRow, Enters,
           RevisesRow, Revises, Delivers, Deliver, Rests
  <2>2. QED
    BY <1>1, <2>1
<1>5. moved' = moved \/ moved' \in BOOLEAN
  BY DEF StepsBooks, OpensMonth, Opens, Initializes, Budgets, BudgetStep, EntersRow, Enters,
         RevisesRow, Revises, Delivers, Deliver, Rests
<1>6. clock' \in Nat /\ left' \in 0..scenario.requests /\ moved' \in BOOLEAN
  BY <1>1, <1>2, <1>3, <1>5
<1>7. QED
  BY <1>1, <1>2, <1>4, <1>6 DEF TimeInv

LEMMA FirstMonthsGood ==
    ASSUME NEW account, MonthOf(clock, account) \in Int, NEW currency \in Currencies
    PROVE  GoodMonths(FirstCategories, FirstMonths(account, currency))
<1>1. PICK m \in Int : m = MonthOf(clock, account)
  OBVIOUS
<1>2. FirstMonths(account, currency) = [p \in {m} |-> InitialMonth(currency)]
  BY <1>1 DEF FirstMonths
<1>3. GoodMonth(FirstCategories, InitialMonth(currency))
  BY InitialGood
<1>4. IsFiniteSet({m})
  BY FS_Singleton
<1>5. QED
  BY <1>2, <1>3, <1>4 DEF GoodMonths

LEMMA FirstStates == FirstCategories \in [Categories -> States]
  BY DEF FirstCategories, States

LEMMA MonthsKept ==
    ASSUME LedgerBasis, StepsBooks
    PROVE  MonthsInv' /\ DOMAIN months \subseteq DOMAIN months'
<1>0. MonthsInv
  BY DEF LedgerBasis, FormBasis, BooksTyped
<1>1. CASE OpensMonth
  BY <1>0, <1>1 DEF OpensMonth, Opens, MonthsInv, Grows
<1>2. CASE Initializes
  <2>1. PICK account \in scenario.zones, currency \in Currencies :
            months' = FirstMonths(account, currency)
    BY <1>2 DEF Initializes
  <2>2. clock \in Int /\ account \in Int
    BY ScenarioTypes DEF LedgerBasis, FormBasis, TimeInv
  <2>3. MonthOf(clock, account) \in Int
    BY <2>2, MonthOfType
  <2>4. GoodMonths(stable', months')
    BY <1>2, <2>1, <2>3, FirstMonthsGood DEF Initializes
  <2>5. QED
    BY <1>2, <2>4, FirstStates DEF Initializes, MonthsInv
<1>3. CASE Budgets
  BY <1>3 DEF Budgets, BudgetStep, ChangesMonth, RemovesLines
<1>4. CASE EntersRow \/ RevisesRow \/ Delivers \/ Rests
  <2>1. UNCHANGED <<months, stable>>
    BY <1>4 DEF EntersRow, Enters, RevisesRow, Revises, Delivers, Deliver, Rests, ledger
  <2>2. QED
    BY <1>0, <2>1 DEF MonthsInv
<1>5. QED
  BY <1>1, <1>2, <1>3, <1>4 DEF StepsBooks

LEMMA OpenedGrows ==
    ASSUME LedgerBasis, [EntryNext]_allVars
    PROVE  opened \in Nat /\ opened' \in {opened, opened + 1}
<1>1. opened \in Nat
  BY OpenedType DEF LedgerBasis, FormBasis
<1>2. CASE \E h \in Handlers : Handled(h)
  BY <1>1, <1>2 DEF Handled, Receive, Replay, OpenForm, Outdated, Press, Back, Type, ShowAgain, Step,
                ChooseGone, Cancel, Ignore, StartConfirm, ConfirmStale, FoundConfirmed,
                LostConfirm, FinishConfirm, Abandon, Crash, Steady, CommitConfirm
<1>3. CASE CancelCommand \/ LockExpires \/ Forget \/ Revoke
  BY <1>1, <1>3 DEF CancelCommand, LockExpires, Forget, Revoke
<1>4. CASE UNCHANGED entry
  BY <1>1, <1>4 DEF entry
<1>5. QED
  BY <1>1, <1>2, <1>3, <1>4 DEF EntryNext, allVars

LEMMA RowsGrow ==
    ASSUME opened \in Nat, opened' \in {opened, opened + 1},
           clock \in Nat, clock' \in {clock, clock + 1},
           DOMAIN months \subseteq DOMAIN months'
    PROVE  Rows \subseteq Rows'
<1>1. 0..opened \subseteq 0..opened' /\ 0..clock \subseteq 0..clock'
  OBVIOUS
<1>2. QED
  BY <1>1 DEF Rows, Rates

(* The rows T with their revisions V are of the set S.                        *)
TypedRows(T, V, S) ==
    \A i \in DOMAIN T : T[i] \in S /\ V[i] \in Seq(S) /\ Len(V[i]) + 1 = T[i].version

LEMMA AddedTyped ==
    ASSUME NEW T, NEW V, NEW U, NEW W, NEW S, Numbered(T, V), TypedRows(T, V, S),
           NEW row \in S, row.version = 1, Added(T, V, U, W, row)
    PROVE  TypedRows(U, W, S)
<1>1. PICK n : n = Cardinality(DOMAIN T) + 1
  OBVIOUS
<1>2. /\ U = [i \in DOMAIN T \cup {n} |-> IF i = n THEN row ELSE T[i]]
      /\ W = [i \in DOMAIN T \cup {n} |-> IF i = n THEN <<>> ELSE V[i]]
  BY <1>1 DEF Added
<1>3. <<>> \in Seq(S) /\ Len(<<>>) = 0
  OBVIOUS
<1>4. U[n] \in S /\ W[n] \in Seq(S) /\ Len(W[n]) + 1 = U[n].version
  BY <1>2, <1>3
<1>5. ASSUME NEW i \in DOMAIN T, i # n
      PROVE  U[i] \in S /\ W[i] \in Seq(S) /\ Len(W[i]) + 1 = U[i].version
  <2>1. U[i] = T[i] /\ W[i] = V[i]
    BY <1>2, <1>5
  <2>2. QED
    BY <2>1 DEF TypedRows
<1>6. DOMAIN U = DOMAIN T \cup {n}
  BY <1>2
<1>7. QED
  BY <1>4, <1>5, <1>6 DEF TypedRows

LEMMA ReplacedTyped ==
    ASSUME NEW T, NEW V, NEW U, NEW W, NEW S, Numbered(T, V), TypedRows(T, V, S),
           NEW i \in DOMAIN T, NEW row \in S, T[i].version \in Nat,
           row.version = T[i].version + 1, Replaced(T, V, U, W, i, row)
    PROVE  TypedRows(U, W, S) /\ DOMAIN U = DOMAIN T
<1>1. PICK n \in Nat : DOMAIN T = 1..n /\ DOMAIN V = 1..n
  BY DEF Numbered
<1>2. /\ DOMAIN U = DOMAIN T
      /\ U[i] = row /\ W[i] = Append(V[i], T[i])
      /\ \A k \in DOMAIN T : k # i => U[k] = T[k] /\ W[k] = V[k]
  BY <1>1 DEF Replaced
<1>3. T[i] \in S /\ V[i] \in Seq(S) /\ Len(V[i]) + 1 = T[i].version
  BY DEF TypedRows
<1>4. W[i] \in Seq(S) /\ Len(W[i]) = Len(V[i]) + 1
  BY <1>2, <1>3
<1>5. Len(W[i]) + 1 = row.version
  BY <1>3, <1>4
<1>6. ASSUME NEW k \in DOMAIN T, k # i
      PROVE  U[k] \in S /\ W[k] \in Seq(S) /\ Len(W[k]) + 1 = U[k].version
  <2>1. U[k] = T[k] /\ W[k] = V[k]
    BY <1>2, <1>6
  <2>2. QED
    BY <2>1 DEF TypedRows
<1>7. QED
  BY <1>2, <1>4, <1>5, <1>6 DEF TypedRows

LEMMA UncategorizedTyped ==
    ASSUME NEW T, NEW V, NEW U, NEW W, NEW S, NEW c, TypedRows(T, V, S),
           \A t \in S : /\ [t EXCEPT !.cat = NoCategory] \in S
                        /\ [t EXCEPT !.cat = NoCategory].version = t.version,
           Uncategorized(T, V, U, W, c)
    PROVE  TypedRows(U, W, S) /\ DOMAIN U = DOMAIN T
<1>1. DOMAIN U = DOMAIN T /\ W = V
  BY DEF Uncategorized
<1>2. ASSUME NEW i \in DOMAIN T
      PROVE  U[i] \in S /\ U[i].version = T[i].version
  <2>1. T[i] \in S
    BY DEF TypedRows
  <2>2. U[i] = [T[i] EXCEPT !.cat = NoCategory] \/ U[i] = T[i]
    BY DEF Uncategorized
  <2>3. QED
    BY <2>1, <2>2
<1>3. QED
  BY <1>1, <1>2 DEF TypedRows

LEMMA NoCategoryRows ==
    \A t \in Rows : /\ [t EXCEPT !.cat = NoCategory] \in Rows
                    /\ [t EXCEPT !.cat = NoCategory].version = t.version
  BY DEF Rows

(* What a step does to the rows, seen from the rows alone                     *)
RowSteps ==
    \/ SameRows
    \/ \E row \in Rows : row.version = 1
                         /\ Added(transactions, revisions, transactions', revisions', row)
    \/ \E i \in DOMAIN transactions : \E row \in Rows :
          /\ row.version = transactions[i].version + 1 /\ row.month = transactions[i].month
          /\ Replaced(transactions, revisions, transactions', revisions', i, row)
    \/ \E c : Uncategorizes(c)

LEMMA BooksRowSteps ==
    ASSUME StepsBooks
    PROVE  RowSteps
<1>1. CASE OpensMonth \/ Initializes \/ Delivers \/ Rests
  BY <1>1 DEF OpensMonth, Initializes, Delivers, Deliver, Rests, ledger, RowSteps, SameRows
<1>2. CASE Budgets
  BY <1>2 DEF Budgets, BudgetStep, ChangesMonth, RemovesLines, RowSteps
<1>3. CASE EntersRow
  BY <1>3 DEF EntersRow, Enters, RowSteps
<1>4. CASE RevisesRow
  BY <1>4 DEF RevisesRow, Revises, RowSteps
<1>5. QED
  BY <1>1, <1>2, <1>3, <1>4 DEF StepsBooks

LEMMA RowsKept ==
    ASSUME LedgerBasis, StepsBooks, [EntryNext]_allVars
    PROVE  RowsTyped' /\ DOMAIN transactions \subseteq DOMAIN transactions'
<1>0. /\ Numbered(transactions, revisions) /\ TypedRows(transactions, revisions, Rows)
      /\ rateSets \in Seq(Rates)
  BY DEF LedgerBasis, FormBasis, BooksTyped, RowInv, RowsTyped, TypedRows
<1>1. /\ TypedRows(transactions', revisions', Rows)
      /\ DOMAIN transactions \subseteq DOMAIN transactions'
  <2>1. CASE SameRows
    BY <1>0, <2>1 DEF SameRows
  <2>2. ASSUME NEW row \in Rows, row.version = 1,
               Added(transactions, revisions, transactions', revisions', row)
        PROVE  /\ TypedRows(transactions', revisions', Rows)
               /\ DOMAIN transactions \subseteq DOMAIN transactions'
    <3>1. TypedRows(transactions', revisions', Rows)
      BY <1>0, <2>2, AddedTyped
    <3>2. DOMAIN transactions \subseteq DOMAIN transactions'
      BY <2>2 DEF Added
    <3>3. QED
      BY <3>1, <3>2
  <2>3. ASSUME NEW i \in DOMAIN transactions, NEW row \in Rows,
               row.version = transactions[i].version + 1,
               Replaced(transactions, revisions, transactions', revisions', i, row)
        PROVE  /\ TypedRows(transactions', revisions', Rows)
               /\ DOMAIN transactions' = DOMAIN transactions
    <3>1. transactions[i] \in Rows
      BY <1>0 DEF TypedRows
    <3>2. transactions[i].version \in Nat
      BY <3>1, RowFields
    <3>3. QED
      BY <1>0, <2>3, <3>2, ReplacedTyped
  <2>4. ASSUME NEW c, Uncategorizes(c)
        PROVE  /\ TypedRows(transactions', revisions', Rows)
               /\ DOMAIN transactions' = DOMAIN transactions
    BY <1>0, <2>4, NoCategoryRows, UncategorizedTyped DEF Uncategorizes
  <2>5. QED
    BY <2>1, <2>2, <2>3, <2>4, BooksRowSteps DEF RowSteps
<1>2. Rows \subseteq Rows' /\ opened' \in Nat
  <2>1. opened \in Nat /\ opened' \in {opened, opened + 1}
    BY OpenedGrows
  <2>2. clock \in Nat /\ clock' \in {clock, clock + 1}
    BY TimeKept DEF LedgerBasis, FormBasis, TimeInv
  <2>3. DOMAIN months \subseteq DOMAIN months'
    BY MonthsKept
  <2>4. QED
    BY <2>1, <2>2, <2>3, RowsGrow
<1>3. rateSets' \in Seq(Rates)
  <2>1. rateSets' = rateSets \/ rateSets' \in Seq(Rates)
    BY DEF StepsBooks, OpensMonth, Initializes, Budgets, EntersRow, RevisesRow, Delivers,
           Deliver, Rests, ledger
  <2>2. QED
    BY <1>0, <2>1
<1>4. TypedRows(transactions', revisions', Rows')
  <2>1. PICK S : S = Rows
    OBVIOUS
  <2>2. PICK R : R = Rows'
    OBVIOUS
  <2>3. S \subseteq R /\ TypedRows(transactions', revisions', S)
    BY <1>1, <1>2, <2>1, <2>2
  <2>4. \A s \in Seq(S) : s \in Seq(R)
    BY <2>3
  <2>5. TypedRows(transactions', revisions', R)
    BY <2>3, <2>4 DEF TypedRows
  <2>6. QED
    BY <2>2, <2>5
<1>5. Rates' = Rates
  BY DEF Rates
<1>6. QED
  BY <1>1, <1>2, <1>3, <1>4, <1>5 DEF RowsTyped, TypedRows

LEMMA RequestLater ==
    ASSUME NEW r, NEW now \in Nat, NEW later \in {now, now + 1}, RequestType(r, now)
    PROVE  RequestType(r, later)
<1>1. 0..now \subseteq 0..later
  OBVIOUS
<1>2. QED
  BY <1>1 DEF RequestType

LEMMA RequestsKept ==
    ASSUME LedgerBasis, StepsBooks
    PROVE  RequestsTyped'
<1>1. clock \in Nat /\ clock' \in {clock, clock + 1}
  BY TimeKept DEF LedgerBasis, FormBasis, TimeInv
<1>2. DOMAIN request = Requests /\ \A w \in Requests : RequestType(request[w], clock)
  BY DEF LedgerBasis, FormBasis, BooksTyped, RowInv, RequestsTyped
<1>3. \/ request' = request
      \/ \E w \in Requests : \E r : request' = [request EXCEPT ![w] = r]
                                    /\ RequestType(r, clock)
  BY IdleType DEF StepsBooks, OpensMonth, Initializes, Budgets, BudgetStep, EntersRow, EntersBy,
         RevisesRow, Revises, Delivers, Deliver, Rests, Ended
<1>4. \A w \in Requests : RequestType(request'[w], clock)
  BY <1>2, <1>3
<1>5. QED
  BY <1>1, <1>4, RequestLater DEF RequestsTyped

(* Warnings are about months, scopes and rows that there are.                 *)
Limits == Categories \cup {WholeMonth}

LimitEvents ==
    [month : DOMAIN months, scope : Limits, tx : DOMAIN transactions, version : Nat,
     createdAt : 0..clock]

WarningsTyped ==
    outbox \subseteq LimitEvents /\ told \cup excused \subseteq (DOMAIN months) \X Limits

LEMMA ScopeTypes ==
    ASSUME NEW M, NEW m PROVE Scopes(M, m) \subseteq Limits
  BY DEF Scopes, Limits, Categories

LEMMA OverrunIs ==
    ASSUME NEW M, NEW T, NEW m, NEW scope
    PROVE  <<m, scope>> \in Overruns(M, T)
               <=> m \in DOMAIN M /\ scope \in Scopes(M, m) /\ Exceeded(M, T, m, scope)
  BY DEF Overruns

LEMMA OverrunTypes ==
    ASSUME NEW M, NEW T
    PROVE  /\ Overruns(M, T) \subseteq (DOMAIN M) \X Limits
           /\ \A o \in Overruns(M, T) : \E m \in DOMAIN M : \E scope \in Scopes(M, m) :
                  o = <<m, scope>> /\ Exceeded(M, T, m, scope)
<1>1. ASSUME NEW o \in Overruns(M, T)
      PROVE  \E m \in DOMAIN M : \E scope \in Scopes(M, m) :
                 o = <<m, scope>> /\ Exceeded(M, T, m, scope)
  BY DEF Overruns
<1>2. \A m \in DOMAIN M : Scopes(M, m) \subseteq Limits
  BY ScopeTypes
<1>3. QED
  BY <1>1, <1>2

LEMMA EventsGrow ==
    ASSUME DOMAIN months \subseteq DOMAIN months',
           DOMAIN transactions \subseteq DOMAIN transactions',
           clock \in Nat, clock' \in {clock, clock + 1}
    PROVE  LimitEvents \subseteq LimitEvents'
<1>1. 0..clock \subseteq 0..clock'
  OBVIOUS
<1>2. QED
  BY <1>1 DEF LimitEvents

(* The events of a row that there is                                          *)
LEMMA AnnounceTypes ==
    ASSUME WarningsTyped, NEW m \in DOMAIN months, NEW i \in DOMAIN transactions',
           transactions'[i].version \in Nat, NEW now \in 0..clock, Announce(m, i, now),
           LimitEvents \subseteq LimitEvents', UNCHANGED <<months, clock>>
    PROVE  WarningsTyped'
<1>1. Crossed(m, transactions') \subseteq Limits
  BY ScopeTypes DEF Crossed
<1>2. ASSUME NEW scope \in Crossed(m, transactions')
      PROVE  LimitEvent(m, scope, i, transactions'[i].version, now) \in LimitEvents'
  BY <1>1 DEF LimitEvent, LimitEvents, Limits
<1>3. outbox' = outbox \cup {LimitEvent(m, scope, i, transactions'[i].version, now) :
                                 scope \in Crossed(m, transactions')}
  BY DEF Announce
<1>4. outbox' \subseteq LimitEvents'
  BY <1>2, <1>3 DEF WarningsTyped
<1>5. told' \subseteq told /\ excused' \subseteq excused
  BY DEF Announce
<1>6. QED
  BY <1>4, <1>5 DEF WarningsTyped, Limits

LEMMA BudgetWarnings ==
    ASSUME WarningsTyped, Silently, LimitEvents \subseteq LimitEvents',
           DOMAIN months' = DOMAIN months
    PROVE  WarningsTyped'
<1>1. Overruns(months', transactions') \subseteq (DOMAIN months') \X Limits
  BY OverrunTypes
<1>2. QED
  BY <1>1 DEF Silently, WarningsTyped, Limits

LEMMA DeliveryWarnings ==
    ASSUME WarningsTyped, NEW e \in outbox, Deliver(e), LimitEvents \subseteq LimitEvents'
    PROVE  WarningsTyped'
<1>1. Overruns(months, transactions) \subseteq (DOMAIN months) \X Limits
  BY OverrunTypes
<1>2. months' = months
  BY DEF Deliver, ledger
<1>3. QED
  BY <1>1, <1>2 DEF Deliver, WarningsTyped, Limits

LEMMA RowStepNumbers ==
    ASSUME RowInv, NEW row, Added(transactions, revisions, transactions', revisions', row)
    PROVE  /\ NextId \notin DOMAIN transactions
           /\ DOMAIN transactions' = DOMAIN transactions \cup {NextId}
           /\ transactions'[NextId] = row
           /\ \A i \in DOMAIN transactions : transactions'[i] = transactions[i]
<1>1. PICK n \in Nat : /\ DOMAIN transactions = 1..n
                       /\ Cardinality(DOMAIN transactions) + 1 = n + 1
  BY NextIsNew DEF RowInv
<1>2. NextId = n + 1 /\ NextId \notin DOMAIN transactions
  BY <1>1 DEF NextId
<1>3. transactions' = [i \in DOMAIN transactions \cup {NextId} |->
                          IF i = NextId THEN row ELSE transactions[i]]
  BY DEF Added, NextId
<1>4. QED
  BY <1>2, <1>3

LEMMA ReplacedRow ==
    ASSUME RowInv, NEW i \in DOMAIN transactions, NEW row,
           Replaced(transactions, revisions, transactions', revisions', i, row)
    PROVE  /\ DOMAIN transactions' = DOMAIN transactions /\ transactions'[i] = row
           /\ \A k \in DOMAIN transactions : k # i => transactions'[k] = transactions[k]
<1>1. PICK n \in Nat : DOMAIN transactions = 1..n
  BY DEF RowInv, Numbered
<1>2. transactions' = [transactions EXCEPT ![i] = row]
  BY DEF Replaced
<1>3. QED
  BY <1>1, <1>2

LEMMA WarningsKept ==
    ASSUME LedgerBasis, WarningsTyped, StepsBooks, [EntryNext]_allVars
    PROVE  WarningsTyped'
<1>0. /\ RowInv /\ clock \in Nat /\ clock' \in {clock, clock + 1}
      /\ DOMAIN months \subseteq DOMAIN months'
      /\ DOMAIN transactions \subseteq DOMAIN transactions'
  BY TimeKept, MonthsKept, RowsKept DEF LedgerBasis, FormBasis, TimeInv, BooksTyped
<1>1. LimitEvents \subseteq LimitEvents'
  BY <1>0, EventsGrow
<1>2. CASE OpensMonth \/ Initializes \/ Rests
  <2>1. UNCHANGED warnings
    BY <1>2 DEF OpensMonth, Initializes, Rests
  <2>2. QED
    BY <1>0, <1>1, <2>1 DEF warnings, WarningsTyped, Limits
<1>3. CASE Budgets
  <2>1. Silently /\ DOMAIN months' = DOMAIN months
    BY <1>3 DEF Budgets, BudgetStep, ChangesMonth, RemovesLines
  <2>2. QED
    BY <1>1, <2>1, BudgetWarnings
<1>4. CASE EntersRow
  <2>1. PICK row, now : Enters(row, now)
    BY <1>4 DEF EntersRow
  <2>2. /\ row \in Rows /\ Added(transactions, revisions, transactions', revisions', row)
        /\ Announce(row.month, NextId, now) /\ now \in 0..clock /\ UNCHANGED <<months, clock>>
    BY <2>1 DEF Enters
  <2>3. row.month \in DOMAIN months /\ row.version \in Nat
    BY <2>2, RowFields
  <2>4. NextId \in DOMAIN transactions' /\ transactions'[NextId] = row
    BY <1>0, <2>2, RowStepNumbers
  <2>5. QED
    BY <1>1, <2>2, <2>3, <2>4, AnnounceTypes
<1>5. CASE RevisesRow
  <2>1. PICK w \in Requests : \E row : Revises(w, row)
    BY <1>5 DEF RevisesRow
  <2>2. PICK row : Revises(w, row)
    BY <2>1
  <2>3. PICK i : i = request[w].tx
    OBVIOUS
  <2>4. /\ row \in Rows /\ i \in DOMAIN transactions
        /\ Replaced(transactions, revisions, transactions', revisions', i, row)
        /\ Announce(row.month, i, request[w].now) /\ request[w].now \in 0..clock
        /\ UNCHANGED <<months, clock>>
    BY <2>2, <2>3 DEF Revises
  <2>5. row.month \in DOMAIN months /\ row.version \in Nat
    BY <2>4, RowFields
  <2>6. i \in DOMAIN transactions' /\ transactions'[i] = row
    BY <1>0, <2>4, ReplacedRow
  <2>7. QED
    BY <1>1, <2>4, <2>5, <2>6, AnnounceTypes
<1>6. CASE Delivers
  BY <1>1, <1>6, DeliveryWarnings DEF Delivers
<1>7. QED
  BY <1>2, <1>3, <1>4, <1>5, <1>6 DEF StepsBooks

-----------------------------------------------------------------------------
(* The invariant on the books *)

LedgerInv == LedgerBasis /\ WarningsTyped

LEMMA FilledType ==
    ASSUME TimeInv, NEW c \in Template, NEW amount \in scenario.amounts,
           NEW currency \in scenario.currencies, NEW day \in scenario.days
    PROVE  LET d == FilledDraft(c, amount, currency, day)
           IN  d \in DraftsUpTo(1) /\ d.amount \in Amounts
<1>1. PICK new : new = NewDraft(1, CurrentMonth, Template)
  OBVIOUS
<1>2. CurrentMonth \in Int /\ Template \in SUBSET Categories
  BY CurrentType, NameAssumption
<1>3. new \in DraftsUpTo(1)
  BY <1>1, <1>2, NewDraftType
<1>4. /\ c \in Categories /\ amount \in Amounts /\ currency \in Currencies /\ day \in Int
      /\ scenario.step \in Steps
  BY <1>2, ScenarioTypes, ScenarioAssumption DEF TimeInv, Steps
<1>5. PICK d : d = [new EXCEPT !.step = scenario.step, !.cat = c, !.amount = amount,
                               !.currency = currency, !.at = day]
  OBVIOUS
<1>6. d \in DraftsUpTo(1) /\ d.amount = amount
  BY <1>3, <1>4, <1>5 DEF DraftsUpTo
<1>7. d = FilledDraft(c, amount, currency, day)
  BY <1>1, <1>5 DEF FilledDraft
<1>8. QED
  BY <1>4, <1>6, <1>7

LEMMA TimeInit == ASSUME Init PROVE TimeInv
<1>1. /\ scenario.requests \in Nat /\ scenario.start \in Nat
  BY ScenarioAssumption DEF Init
<1>2. scenario \in Scenarios /\ left \in 0..scenario.requests /\ clock \in Nat
  BY <1>1 DEF Init
<1>3. moved \in BOOLEAN /\ zone \in scenario.zones \cup {0}
  BY DEF Init
<1>4. QED
  BY <1>2, <1>3 DEF TimeInv

LEMMA MonthsInit == ASSUME Init PROVE MonthsInv
<1>1. TimeInv /\ scenario.currencies \subseteq Currencies
  BY TimeInit, ScenarioTypes
<1>2. CASE ~scenario.started
  <2>1. months = [m \in {} |-> {}] /\ stable = [c \in Categories |-> "absent"]
    BY <1>2 DEF Init
  <2>2. IsFiniteSet({})
    BY FS_EmptySet
  <2>3. QED
    BY <2>1, <2>2 DEF MonthsInv, States, GoodMonths
<1>3. CASE scenario.started
  <2>1. PICK currency \in Currencies : months = FirstMonths(zone, currency)
    BY <1>1, <1>3 DEF Init
  <2>2. MonthOf(clock, zone) \in Int
    BY <1>1, MonthOfType, ScenarioTypes DEF TimeInv
  <2>3. stable = FirstCategories
    BY <1>3 DEF Init
  <2>4. QED
    BY <2>1, <2>2, <2>3, FirstMonthsGood, FirstStates DEF MonthsInv
<1>4. QED
  BY <1>2, <1>3 DEF Init

LEMMA FormInit == ASSUME EntryInit PROVE FormTyped
<1>1. /\ Init /\ TimeInv /\ scenario.events \in Nat /\ scenario.faults \in Nat
      /\ scenario.forms \in Nat
      /\ events = scenario.events /\ faults = scenario.faults /\ linked = TRUE
      /\ handler = [h \in Handlers |-> Free]
      /\ answers = {} /\ mismatched = {} /\ faulted = {}
  BY TimeInit, ScenarioTypes DEF EntryInit
<1>2. handler \in [Handlers -> HandlerStates]
  BY <1>1, FreeState
<1>3. /\ opened \in 0..scenario.forms /\ DOMAIN newest \subseteq 1..opened
      /\ screens \subseteq Screens /\ DraftType(form)
  <2>1. CASE form = NoDraft /\ opened = 0 /\ newest = [f \in {} |-> 0] /\ screens = {}
    <3>1. opened \in Nat
      BY <2>1
    <3>2. DraftType(form)
      BY <2>1, <3>1, NoDraftType
    <3>3. QED
      BY <1>1, <2>1, <3>2
  <2>2. ASSUME opened = 1, scenario.forms > 0, newest = [f \in {1} |-> Basis(form)],
               screens = {<<1, Basis(form)>>},
               NEW c \in Template \ Income, NEW amount \in scenario.amounts,
               NEW currency \in scenario.currencies, NEW day \in scenario.days,
               form = FilledDraft(c, amount, currency, day)
        PROVE  /\ opened \in 0..scenario.forms /\ DOMAIN newest \subseteq 1..opened
               /\ screens \subseteq Screens /\ DraftType(form)
    <3>1. form \in DraftsUpTo(1) /\ form.amount \in Amounts
      BY <1>1, <2>2, FilledType
    <3>2. DraftType(form)
      BY <2>2, <3>1 DEF DraftType, DraftsOf, DraftsUpTo
    <3>3. opened \in 0..scenario.forms /\ DOMAIN newest \subseteq 1..opened
      BY <1>1, <2>2
    <3>4. screens \subseteq Screens
      BY <2>2, <3>2, BasisType DEF Screens
    <3>5. QED
      BY <3>2, <3>3, <3>4
  <2>3. QED
    BY <2>1, <2>2 DEF EntryInit
<1>4. linked \in BOOLEAN
  BY <1>1
<1>5. QED
  BY <1>1, <1>2, <1>3, <1>4 DEF FormTyped

LEMMA LedgerInit == ASSUME EntryInit PROVE LedgerInv
<1>1. Init /\ TimeInv /\ RowInv /\ MonthsInv /\ FormTyped /\ OutcomeInv
  BY TimeInit, RowInvInit, MonthsInit, FormInit, OutcomeInit DEF EntryInit
<1>2. /\ transactions = [i \in {} |-> {}] /\ rateSets = <<>>
      /\ request = [w \in Requests |-> Idle]
      /\ outbox = {} /\ told = {} /\ excused = {}
  BY <1>1 DEF Init
<1>3. RowsTyped
  <2>1. DOMAIN transactions = {} /\ rateSets \in Seq(Rates) /\ opened \in Nat
    BY <1>1, <1>2, OpenedType
  <2>2. QED
    BY <2>1 DEF RowsTyped
<1>4. RequestsTyped
  BY <1>2, IdleType DEF RequestsTyped
<1>5. WarningsTyped
  BY <1>2 DEF WarningsTyped
<1>6. QED
  BY <1>1, <1>3, <1>4, <1>5 DEF LedgerInv, LedgerBasis, FormBasis, BooksTyped

LEMMA LedgerStepKept ==
    ASSUME LedgerInv, [EntryNext]_allVars
    PROVE  LedgerInv'
<1>1. LedgerBasis /\ WarningsTyped /\ RowInv /\ OutcomeInv /\ FormBasis
  BY DEF LedgerInv, LedgerBasis, FormBasis, BooksTyped
<1>2. StepsBooks
  BY <1>1, EntryStepsBooks
<1>3. RowInv'
  BY <1>1, EntryStep, RowInvKept
<1>4. OutcomeInv'
  BY <1>1, OutcomeStep
<1>5. TimeInv' /\ MonthsInv' /\ RowsTyped' /\ RequestsTyped' /\ WarningsTyped'
  BY <1>1, <1>2, TimeKept, MonthsKept, RowsKept, RequestsKept, WarningsKept
<1>6. FormTyped'
  BY <1>1, FormStepTyped
<1>7. QED
  BY <1>3, <1>4, <1>5, <1>6 DEF LedgerInv, LedgerBasis, FormBasis, BooksTyped

(* The books, the requests and forms in progress, and the warnings keep the   *)
(* types that the proofs below compute with.                                  *)
THEOREM BooksTypedCorrect == EntrySpec => []LedgerInv
<1>1. EntryInit => LedgerInv
  BY LedgerInit
<1>2. LedgerInv /\ [EntryNext]_allVars => LedgerInv'
  BY LedgerStepKept
<1>3. QED
  BY <1>1, <1>2, PTL DEF EntrySpec

LEMMA TypesHold == ASSUME LedgerInv PROVE TypeOK
<1>0. /\ TimeInv /\ MonthsInv /\ RowInv /\ RowsTyped /\ RequestsTyped /\ WarningsTyped
      /\ FormTyped /\ OutcomeInv
  BY DEF LedgerInv, LedgerBasis, FormBasis, BooksTyped
<1>1. /\ scenario \in Scenarios /\ left \in 0..scenario.requests
      /\ clock \in Nat /\ zone \in Int /\ moved \in BOOLEAN
  BY <1>0, ScenarioTypes DEF TimeInv
<1>2. /\ \A m \in DOMAIN months : m \in Int /\ MonthType(months[m])
      /\ stable \in [Categories -> {"absent", "active", "archived", "deleted"}]
  BY <1>0 DEF MonthsInv, GoodMonths, GoodMonth, IsMonth, States
<1>3. /\ DOMAIN transactions = 1..Cardinality(DOMAIN transactions)
      /\ DOMAIN revisions = DOMAIN transactions
  <2>1. PICK n \in Nat : DOMAIN transactions = 1..n /\ DOMAIN revisions = 1..n
    BY <1>0 DEF RowInv, Numbered
  <2>2. Cardinality(1..n) = n
    BY FS_Interval
  <2>3. QED
    BY <2>1, <2>2
<1>4. /\ \A i \in DOMAIN transactions :
            /\ transactions[i] \in Rows /\ revisions[i] \in Seq(Rows)
            /\ Len(revisions[i]) + 1 = transactions[i].version
      /\ rateSets \in Seq(Rates)
  BY <1>0 DEF RowsTyped
<1>5. \A w \in Requests : request[w].op \in Operations \cup {"idle", "page"}
  BY <1>0 DEF RequestsTyped, RequestType
<1>6. /\ outbox \subseteq [month : DOMAIN months, scope : Categories \cup {WholeMonth},
                           tx : DOMAIN transactions, version : Nat, createdAt : 0..clock]
      /\ told \cup excused \subseteq (DOMAIN months) \X (Categories \cup {WholeMonth})
  BY <1>0 DEF WarningsTyped, LimitEvents, Limits
<1>7. linked \in BOOLEAN /\ form \in DraftsOf
  BY <1>0 DEF FormTyped, DraftType
<1>8. \A h \in Handlers : handler[h].phase \in {"free", "context", "pricing", "saved"}
  BY <1>0, StateOf
<1>9. lock = NoHandler \/ handler[lock].phase \in {"pricing", "saved"}
  BY <1>0 DEF OutcomeInv, HandlerInv, Confirming
<1>10. /\ opened \in 0..scenario.forms /\ events \in 0..scenario.events
       /\ faults \in 0..scenario.faults
       /\ DOMAIN newest \subseteq 1..opened
       /\ screens \subseteq (1..opened) \X [amount : Amounts \cup {0}, currency : Currencies, at : Int]
       /\ answers \subseteq (1..opened) \X {"saved", "canceled"}
       /\ mismatched \cup faulted \subseteq 1..opened
  BY <1>0 DEF FormTyped, Told, Screens, Bases
<1>11. QED
  BY <1>1, <1>2, <1>3, <1>4, <1>5, <1>6, <1>7, <1>8, <1>9, <1>10 DEF TypeOK

(* Every variable keeps its type, with as many months as the zones open and   *)
(* as many rows, revisions, rates and forms as the requests make: amounts     *)
(* stay whole, versions and revisions in step, and the lock with its holder.  *)
THEOREM LedgerTypesCorrect == EntrySpec => []TypeOK
<1>1. LedgerInv => TypeOK
  BY TypesHold
<1>2. QED
  BY <1>1, BooksTypedCorrect, PTL

-----------------------------------------------------------------------------
(* Limits that are passed *)

(* A deleted row spends nothing any more.                                     *)
LEMMA DeletionSpends ==
    ASSUME NEW M, NEW T, NEW U, IsLedger(T), NEW i \in DOMAIN T, DOMAIN U = DOMAIN T,
           U[i].deleted, ~T[i].deleted, \A k \in DOMAIN T : k # i => U[k] = T[k],
           NEW m, NEW scope
    PROVE  Spent(M, U, m, scope) <= Spent(M, T, m, scope)
<1> DEFINE ids == Counted(T, m, scope)
           currency == M[m].currency
<1>1. /\ Spent(M, T, m, scope) = Rounded(Total(T, ids, currency))
      /\ Spent(M, U, m, scope) = Rounded(Total(U, Counted(U, m, scope), currency))
      /\ ids \subseteq DOMAIN T
  BY SpentIs
<1>2. Counted(U, m, scope) = ids \ {i}
  <2>1. Booked(U, m) = Booked(T, m) \ {i}
    BY DEF Booked
  <2>2. OfKind(U, m, "expense") = OfKind(T, m, "expense") \ {i}
    BY <2>1 DEF OfKind, Booked
  <2>3. {k \in Booked(U, m) : U[k].cat = scope} = {k \in Booked(T, m) : T[k].cat = scope} \ {i}
    BY <2>1 DEF Booked
  <2>4. QED
    BY <2>2, <2>3 DEF Counted
<1>3. IsFiniteSet(ids) /\ IsFiniteSet(ids \ {i}) /\ \A k \in ids : IsPriced(T[k])
  <2>1. IsFiniteSet(DOMAIN T) /\ ids \ {i} \subseteq DOMAIN T
    BY <1>1 DEF IsLedger
  <2>2. QED
    BY <1>1, <2>1, FS_Subset DEF IsLedger
<1> HIDE DEF ids, currency
<1>4. Total(U, ids \ {i}, currency) = Total(T, ids \ {i}, currency)
  <2>1. \A k \in ids \ {i} : Value(T[k], currency) = Value(U[k], currency)
    BY <1>1
  <2>2. QED
    BY <1>3, <2>1, TotalSame
<1>5. /\ Total(T, ids, currency) \in Nat /\ Total(T, ids \ {i}, currency) \in Nat
      /\ Total(T, ids \ {i}, currency) <= Total(T, ids, currency)
  <2>1. Total(T, ids, currency) \in Nat /\ Total(T, ids \ {i}, currency) \in Nat
    BY <1>3, TotalType
  <2>2. CASE i \in ids
    <3>1. Total(T, ids, currency) = Value(T[i], currency) + Total(T, ids \ {i}, currency)
      BY <1>3, <2>2, TotalWithout
    <3>2. Value(T[i], currency) \in Nat
      BY <1>3, <2>2, ValueType
    <3>3. QED
      BY <2>1, <3>1, <3>2
  <2>3. CASE i \notin ids
    <3>1. ids \ {i} = ids
      BY <2>3
    <3>2. QED
      BY <2>1, <3>1
  <2>4. QED
    BY <2>2, <2>3
<1>6. QED
  BY <1>1, <1>2, <1>4, <1>5, RoundedMonotone

(* An overrun of a month that stays as it is, with its rows, is not new.      *)
LEMMA OverrunStays ==
    ASSUME NEW M, NEW N, NEW T, NEW U, IsFiniteSet(DOMAIN T), NEW m \in DOMAIN M,
           N[m] = M[m], NEW scope, <<m, scope>> \in Overruns(N, U),
           \A i : \/ SameEntry(T, U, i) /\ (i \in DOMAIN T => U[i].cat = T[i].cat)
                  \/ Elsewhere(T, U, i, m)
    PROVE  <<m, scope>> \in Overruns(M, T)
<1>1. scope \in Scopes(N, m) /\ Exceeded(N, U, m, scope)
  BY OverrunIs
<1>2. scope \in Scopes(M, m) /\ Planned(M, m, scope) = Planned(N, m, scope)
  BY <1>1 DEF Scopes, Planned, PlannedExpense
<1>3. Spent(M, T, m, scope) = Spent(N, U, m, scope)
  BY SpentSame
<1>4. QED
  BY <1>1, <1>2, <1>3, OverrunIs DEF Exceeded

(* A month without rows passes no limit.                                      *)
LEMMA NoneSpent ==
    ASSUME NEW M, NEW T, NEW m \in DOMAIN M, IsMonth(M[m]), Booked(T, m) = {}, NEW scope
    PROVE  <<m, scope>> \notin Overruns(M, T)
<1>1. SUFFICES ASSUME <<m, scope>> \in Overruns(M, T) PROVE FALSE
  OBVIOUS
<1>2. scope \in Scopes(M, m) /\ Exceeded(M, T, m, scope)
  BY <1>1, OverrunIs
<1>3. Planned(M, m, scope) \in Int /\ Planned(M, m, scope) >= NoPlan
  BY <1>2, PlannedTypes
<1>4. Spent(M, T, m, scope) = 0
  BY SpentNone
<1>5. QED
  BY <1>2, <1>3, <1>4 DEF Exceeded, NoPlan

(* What a limit event says of its row: it is one of the event's month, not    *)
(* older than the event, and not deleted as of the event.                     *)
EventInv ==
    \A e \in outbox :
        LET t == transactions[e.tx]
        IN  /\ t.month = e.month /\ e.version <= t.version
            /\ t.version = e.version => ~t.deleted

TellInv == LedgerInv /\ EventInv /\ OverrunTold

Announced == {<<e.month, e.scope>> : e \in outbox}

LEMMA RowsOfMonths ==
    ASSUME LedgerInv
    PROVE  /\ IsLedger(transactions) /\ RowInv
           /\ \A i \in DOMAIN transactions : transactions[i] \in Rows
           /\ \A m : m \notin DOMAIN months => Booked(transactions, m) = {}
<1>1. RowInv /\ RowsTyped
  BY DEF LedgerInv, LedgerBasis, FormBasis, BooksTyped
<1>2. \A i \in DOMAIN transactions : transactions[i] \in Rows
  BY <1>1 DEF RowsTyped
<1>3. \A i \in DOMAIN transactions : transactions[i].month \in DOMAIN months
  BY <1>2, RowFields
<1>4. \A m : m \notin DOMAIN months => Booked(transactions, m) = {}
  BY <1>3 DEF Booked
<1>5. QED
  BY <1>1, <1>2, <1>4, LedgerOfRows

(* Months that come change nothing of those that are there.                   *)
LEMMA ComingTells ==
    ASSUME TellInv, Grows(months, months'), GoodMonths(stable', months'),
           UNCHANGED <<transactions, warnings>>
    PROVE  OverrunTold'
<1>1. /\ IsFiniteSet(DOMAIN transactions)
      /\ \A m : m \notin DOMAIN months => Booked(transactions, m) = {}
  BY RowsOfMonths DEF TellInv, IsLedger
<1>2. Overruns(months', transactions) \subseteq Overruns(months, transactions)
  <2>1. SUFFICES ASSUME NEW o \in Overruns(months', transactions)
                 PROVE  o \in Overruns(months, transactions)
    OBVIOUS
  <2>2. PICK m \in DOMAIN months' : \E scope \in Scopes(months', m) : o = <<m, scope>>
    BY OverrunTypes
  <2>3. PICK scope : o = <<m, scope>>
    BY <2>2
  <2>4. CASE m \in DOMAIN months
    <3>1. months'[m] = months[m]
      BY <2>4 DEF Grows
    <3>2. \A i : SameEntry(transactions, transactions, i)
      BY DEF SameEntry
    <3>3. QED
      BY <1>1, <2>1, <2>3, <2>4, <3>1, <3>2, OverrunStays
  <2>5. CASE m \notin DOMAIN months
    <3>1. IsMonth(months'[m])
      BY <2>2 DEF GoodMonths, GoodMonth
    <3>2. Booked(transactions, m) = {}
      BY <1>1, <2>5
    <3>3. QED
      BY <2>1, <2>2, <2>3, <3>1, <3>2, NoneSpent
  <2>6. QED
    BY <2>4, <2>5
<1>3. Announced' = Announced /\ UNCHANGED <<told, excused>>
  BY DEF Announced, warnings
<1>4. Overruns(months, transactions) \subseteq told \cup excused \cup Announced
  BY DEF TellInv, OverrunTold, Announced
<1>5. Overruns(months', transactions') \subseteq told' \cup excused' \cup Announced'
  BY <1>2, <1>3, <1>4
<1>6. QED
  BY <1>5 DEF OverrunTold, Announced

(* A budget step that passes a limit excuses it.                              *)
LEMMA BudgetTells ==
    ASSUME OverrunTold, Silently
    PROVE  OverrunTold'
  BY DEF OverrunTold, Silently

(* What a row's step passes is of the row's month, and announced.             *)
LEMMA AnnounceTells ==
    ASSUME TellInv, NEW m \in DOMAIN months, NEW i, NEW now, Announce(m, i, now),
           UNCHANGED <<months>>, IsLedger(transactions'),
           \A k : \/ SameEntry(transactions, transactions', k)
                     /\ (k \in DOMAIN transactions => transactions'[k].cat = transactions[k].cat)
                  \/ \A p : p # m => Elsewhere(transactions, transactions', k, p)
    PROVE  OverrunTold'
<1>1. /\ IsLedger(transactions) /\ IsFiniteSet(DOMAIN transactions)
      /\ \A p \in DOMAIN months : IsMonth(months[p])
  BY RowsOfMonths DEF TellInv, IsLedger, LedgerInv, LedgerBasis, FormBasis, BooksTyped,
                      MonthsInv, GoodMonths, GoodMonth
<1>2. /\ told' = told \cap Overruns(months, transactions')
      /\ excused' = excused \cap Overruns(months, transactions')
      /\ outbox' = outbox \cup
              {LimitEvent(m, scope, i, transactions'[i].version, now) :
                  scope \in Crossed(m, transactions')}
  BY DEF Announce
<1>3. ASSUME NEW o \in Overruns(months, transactions')
      PROVE  o \in told' \cup excused' \cup Announced'
  <2>1. PICK p \in DOMAIN months : \E scope \in Scopes(months, p) :
            o = <<p, scope>> /\ Exceeded(months, transactions', p, scope)
    BY OverrunTypes
  <2>2. PICK scope \in Scopes(months, p) :
            o = <<p, scope>> /\ Exceeded(months, transactions', p, scope)
    BY <2>1
  <2>3. CASE o \in Overruns(months, transactions)
    <3>1. o \in told \cup excused \cup Announced
      BY <2>3 DEF TellInv, OverrunTold, Announced
    <3>2. Announced \subseteq Announced'
      BY <1>2 DEF Announced
    <3>3. QED
      BY <1>2, <1>3, <3>1, <3>2
  <2>4. CASE o \notin Overruns(months, transactions)
    <3>1. p = m
      <4>1. SUFFICES ASSUME p # m PROVE FALSE
        OBVIOUS
      <4>2. \A k : \/ SameEntry(transactions, transactions', k)
                      /\ (k \in DOMAIN transactions =>
                             transactions'[k].cat = transactions[k].cat)
                   \/ Elsewhere(transactions, transactions', k, p)
        BY <4>1
      <4>3. <<p, scope>> \in Overruns(months, transactions)
        BY <1>1, <1>3, <2>2, <4>2, OverrunStays
      <4>4. QED
        BY <2>2, <2>4, <4>3
    <3>2. Planned(months, p, scope) \in Int
      BY <1>1, PlannedTypes
    <3>3. /\ Spent(months, transactions, p, scope) \in Nat
          /\ Spent(months, transactions', p, scope) \in Nat
      BY <1>1, SpentTypes
    <3>4. ~Exceeded(months, transactions, p, scope)
      BY <2>2, <2>4, OverrunIs
    <3>5. scope \in Crossed(m, transactions')
      BY <2>2, <3>1, <3>2, <3>3, <3>4 DEF Exceeded, Crossed
    <3>6. PICK e : e = LimitEvent(m, scope, i, transactions'[i].version, now)
      OBVIOUS
    <3>7. e \in outbox' /\ e.month = m /\ e.scope = scope
      BY <1>2, <3>5, <3>6 DEF LimitEvent
    <3>8. o \in Announced'
      BY <2>2, <3>1, <3>7 DEF Announced
    <3>9. QED
      BY <3>8
  <2>5. QED
    BY <2>3, <2>4
<1>4. Overruns(months', transactions') \subseteq told' \cup excused' \cup Announced'
  BY <1>3
<1>5. QED
  BY <1>4 DEF OverrunTold, Announced

(* A delivery reports the overrun, or has been superseded.                    *)
LEMMA DeliveryTells ==
    ASSUME TellInv, NEW e \in outbox, Deliver(e)
    PROVE  OverrunTold'
<1>1. /\ outbox' = outbox \ {e} /\ UNCHANGED <<months, transactions>>
      /\ told \subseteq told' /\ excused \subseteq excused'
  BY DEF Deliver, ledger
<1>2. e.month \in DOMAIN months
  BY DEF TellInv, LedgerInv, WarningsTyped, LimitEvents
<1>3. ASSUME NEW o \in Overruns(months, transactions)
      PROVE  o \in told' \cup excused' \cup Announced'
  <2>1. o \in told \cup excused \cup Announced
    BY DEF TellInv, OverrunTold, Announced
  <2>2. CASE o \in told \cup excused
    BY <1>1, <2>2
  <2>3. CASE o \in Announced /\ o # <<e.month, e.scope>>
    BY <1>1, <2>3 DEF Announced
  <2>4. CASE o = <<e.month, e.scope>>
    <3>1. e.scope \in Scopes(months, e.month) /\ Exceeded(months, transactions, e.month, e.scope)
      BY <1>3, <2>4, OverrunIs
    <3>2. CASE Superseded(e)
      BY <1>3, <2>4, <3>2 DEF Deliver
    <3>3. CASE ~Superseded(e)
      <4>1. Holds(e)
        BY <1>2, <3>1, <3>3 DEF Holds, Superseded, TellInv, EventInv
      <4>2. QED
        BY <1>3, <2>4, <4>1 DEF Deliver
    <3>4. QED
      BY <3>2, <3>3
  <2>5. QED
    BY <2>1, <2>2, <2>3, <2>4
<1>4. Overruns(months', transactions') \subseteq told' \cup excused' \cup Announced'
  BY <1>1, <1>3
<1>5. QED
  BY <1>4 DEF OverrunTold, Announced

LEMMA LaterLedger ==
    ASSUME LedgerInv'
    PROVE  IsLedger(transactions')
<1>0. RowInv' /\ RowsTyped'
  BY DEF LedgerInv, LedgerBasis, FormBasis, BooksTyped
<1>1. PICK n \in Nat : DOMAIN transactions' = 1..n
  BY <1>0 DEF RowInv, Numbered
<1>2. IsFiniteSet(DOMAIN transactions')
  BY <1>1, FS_Interval
<1>3. ASSUME NEW i \in DOMAIN transactions' PROVE IsPriced(transactions'[i])
  <2>1. transactions'[i] \in Rows'
    BY <1>0 DEF RowsTyped
  <2>2. transactions'[i].rub \in Nat /\ transactions'[i].rate \in Rates
    BY <2>1 DEF Rows, Rates
  <2>3. QED
    BY <2>2, RatesPriced DEF IsPriced
<1>4. QED
  BY <1>2, <1>3 DEF IsLedger

LEMMA EntersTells ==
    ASSUME TellInv, LedgerInv', EntersRow
    PROVE  OverrunTold' /\ EventInv'
<1>1. PICK row, now : Enters(row, now)
  BY DEF EntersRow
<1>2. /\ row \in Rows /\ Added(transactions, revisions, transactions', revisions', row)
      /\ Announce(row.month, NextId, now) /\ months' = months
      /\ row.version = 1 /\ ~row.deleted
  BY <1>1 DEF Enters
<1>3. /\ NextId \notin DOMAIN transactions
      /\ DOMAIN transactions' = DOMAIN transactions \cup {NextId}
      /\ transactions'[NextId] = row
      /\ \A k \in DOMAIN transactions : transactions'[k] = transactions[k]
  BY <1>2, RowStepNumbers, RowsOfMonths DEF TellInv
<1>4. row.month \in DOMAIN months
  BY <1>2, RowFields
<1>5. IsLedger(transactions')
  BY LaterLedger
<1>6. \A k : \/ SameEntry(transactions, transactions', k)
                /\ (k \in DOMAIN transactions => transactions'[k].cat = transactions[k].cat)
             \/ \A p : p # row.month => Elsewhere(transactions, transactions', k, p)
  <2>1. \A k : k # NextId => SameEntry(transactions, transactions', k)
                        /\ (k \in DOMAIN transactions =>
                                transactions'[k].cat = transactions[k].cat)
    BY <1>3 DEF SameEntry
  <2>2. \A p : p # row.month => Elsewhere(transactions, transactions', NextId, p)
    BY <1>3 DEF Elsewhere
  <2>3. QED
    BY <2>1, <2>2
<1>7. OverrunTold'
  BY <1>2, <1>4, <1>5, <1>6, AnnounceTells
<1>8. EventInv'
  <2>1. SUFFICES ASSUME NEW e \in outbox'
                 PROVE  LET t == transactions'[e.tx]
                        IN  /\ t.month = e.month /\ e.version <= t.version
                            /\ t.version = e.version => ~t.deleted
    BY DEF EventInv
  <2>2. CASE e \in outbox
    <3>1. e.tx \in DOMAIN transactions
      BY <2>2 DEF TellInv, LedgerInv, WarningsTyped, LimitEvents
    <3>2. transactions'[e.tx] = transactions[e.tx]
      BY <1>3, <3>1
    <3>3. QED
      BY <2>2, <3>2 DEF TellInv, EventInv
  <2>3. CASE e \notin outbox
    <3>1. PICK scope : e = LimitEvent(row.month, scope, NextId, transactions'[NextId].version, now)
      BY <1>2, <2>1, <2>3 DEF Announce
    <3>2. e.tx = NextId /\ e.month = row.month /\ e.version = row.version
      BY <1>3, <3>1 DEF LimitEvent
    <3>3. QED
      BY <1>2, <1>3, <3>2
  <2>4. QED
    BY <2>2, <2>3
<1>9. QED
  BY <1>7, <1>8

(* A deletion passes no limit, so an event is about a row that is there.      *)
LEMMA DeletionCrosses ==
    ASSUME TellInv, NEW i \in DOMAIN transactions, DOMAIN transactions' = DOMAIN transactions,
           transactions'[i].deleted, ~transactions[i].deleted,
           \A k \in DOMAIN transactions : k # i => transactions'[k] = transactions[k],
           IsLedger(transactions'), NEW m \in DOMAIN months
    PROVE  Crossed(m, transactions') = {}
<1>1. SUFFICES ASSUME NEW scope \in Crossed(m, transactions') PROVE FALSE
  OBVIOUS
<1>2. /\ IsLedger(transactions) /\ IsMonth(months[m])
  BY RowsOfMonths DEF TellInv, LedgerInv, LedgerBasis, FormBasis, BooksTyped,
                      MonthsInv, GoodMonths, GoodMonth
<1>3. /\ scope \in Scopes(months, m)
      /\ Spent(months, transactions, m, scope) <= Planned(months, m, scope)
      /\ Planned(months, m, scope) < Spent(months, transactions', m, scope)
  BY <1>1 DEF Crossed
<1>4. Spent(months, transactions', m, scope) <= Spent(months, transactions, m, scope)
  BY <1>2, DeletionSpends
<1>5. /\ Planned(months, m, scope) \in Int
      /\ Spent(months, transactions, m, scope) \in Nat
      /\ Spent(months, transactions', m, scope) \in Nat
  BY <1>2, <1>3, PlannedTypes, SpentTypes
<1>6. QED
  BY <1>3, <1>4, <1>5

LEMMA RevisesTells ==
    ASSUME TellInv, LedgerInv', RevisesRow
    PROVE  OverrunTold' /\ EventInv'
<1>1. PICK w \in Requests : \E row : Revises(w, row)
  BY DEF RevisesRow
<1>2. PICK row : Revises(w, row)
  BY <1>1
<1> DEFINE i == request[w].tx
           now == request[w].now
           m == row.month
<1>3. /\ row \in Rows /\ i \in DOMAIN transactions
      /\ Replaced(transactions, revisions, transactions', revisions', i, row)
      /\ row.month = transactions[i].month /\ row.version = transactions[i].version + 1
      /\ ~row.deleted \/ row.deleted = ~transactions[i].deleted
      /\ Announce(row.month, i, now) /\ months' = months
  BY <1>2 DEF Revises
<1>4. /\ DOMAIN transactions' = DOMAIN transactions /\ transactions'[i] = row
      /\ \A k \in DOMAIN transactions : k # i => transactions'[k] = transactions[k]
  BY <1>3, ReplacedRow, RowsOfMonths DEF TellInv
<1>5. m \in DOMAIN months /\ Announce(m, i, now)
  <2>1. row.month \in DOMAIN months
    BY <1>3, RowFields
  <2>2. QED
    BY <1>3, <2>1
<1>6. IsLedger(transactions')
  BY LaterLedger
<1>7. \A k : \/ SameEntry(transactions, transactions', k)
                 /\ (k \in DOMAIN transactions => transactions'[k].cat = transactions[k].cat)
             \/ \A p : p # m => Elsewhere(transactions, transactions', k, p)
  <2>1. \A k : k # i => SameEntry(transactions, transactions', k)
                        /\ (k \in DOMAIN transactions =>
                                transactions'[k].cat = transactions[k].cat)
    BY <1>4 DEF SameEntry
  <2>2. \A p : p # m => Elsewhere(transactions, transactions', i, p)
    BY <1>3, <1>4 DEF Elsewhere
  <2>3. QED
    BY <2>1, <2>2
<1>8. OverrunTold'
  BY <1>3, <1>5, <1>6, <1>7, AnnounceTells
<1>9. transactions[i].version \in Nat /\ transactions[i] \in Rows
  BY <1>3, RowsOfMonths, RowFields DEF TellInv
<1>10. EventInv'
  <2>1. SUFFICES ASSUME NEW e \in outbox'
                 PROVE  LET t == transactions'[e.tx]
                        IN  /\ t.month = e.month /\ e.version <= t.version
                            /\ t.version = e.version => ~t.deleted
    BY DEF EventInv
  <2>2. CASE e \in outbox
    <3>1. /\ e.tx \in DOMAIN transactions /\ e.version \in Nat
          /\ transactions[e.tx].month = e.month /\ e.version <= transactions[e.tx].version
          /\ transactions[e.tx].version = e.version => ~transactions[e.tx].deleted
      BY <2>2 DEF TellInv, LedgerInv, WarningsTyped, LimitEvents, EventInv
    <3>2. CASE e.tx = i
      <4>1. e.version < row.version /\ row.month = e.month
        BY <1>3, <1>9, <3>1, <3>2
      <4>2. row.version \in Nat
        BY <1>3, <1>9
      <4>3. QED
        BY <1>4, <3>1, <3>2, <4>1, <4>2
    <3>3. CASE e.tx # i
      <4>1. transactions'[e.tx] = transactions[e.tx]
        BY <1>4, <3>1, <3>3
      <4>2. QED
        BY <3>1, <4>1
    <3>4. QED
      BY <3>2, <3>3
  <2>3. CASE e \notin outbox
    <3>1. PICK scope \in Crossed(m, transactions') :
              e = LimitEvent(m, scope, i, transactions'[i].version, now)
      BY <1>5, <2>1, <2>3 DEF Announce
    <3>2. e.tx = i /\ e.month = m /\ e.version = row.version
      BY <1>4, <3>1 DEF LimitEvent
    <3>3. ~row.deleted
      <4>1. SUFFICES ASSUME row.deleted PROVE FALSE
        OBVIOUS
      <4>2. ~transactions[i].deleted /\ transactions'[i].deleted
        BY <1>3, <1>4, <4>1
      <4>3. Crossed(m, transactions') = {}
        BY <1>3, <1>4, <1>5, <1>6, <4>2, DeletionCrosses
      <4>4. QED
        BY <3>1, <4>3
    <3>4. row.version \in Nat
      BY <1>3, <1>9
    <3>5. QED
      BY <1>4, <3>2, <3>3, <3>4
  <2>4. QED
    BY <2>2, <2>3
<1>11. QED
  BY <1>8, <1>10

(* Rows keep what events say of them, unless they are revised.                *)
LEMMA EventsKept ==
    ASSUME TellInv, outbox' \subseteq outbox,
           SameRows \/ \E c \in Categories : RemovesLines(c)
    PROVE  EventInv'
<1>1. RowInv
  BY RowsOfMonths DEF TellInv
<1>2. \A i \in DOMAIN transactions : /\ transactions'[i].month = transactions[i].month
                                     /\ transactions'[i].version = transactions[i].version
                                     /\ transactions'[i].deleted = transactions[i].deleted
  <2>1. CASE SameRows
    BY <2>1 DEF SameRows
  <2>2. ASSUME NEW c \in Categories, RemovesLines(c)
        PROVE  \A i \in DOMAIN transactions : Reflects(transactions'[i], transactions[i])
    BY <1>1, <2>2, UncategorizedSucceeds DEF RemovesLines, Uncategorizes, RowInv
  <2>3. QED
    BY <2>1, <2>2 DEF Reflects
<1>3. \A e \in outbox : e.tx \in DOMAIN transactions
  BY DEF TellInv, LedgerInv, WarningsTyped, LimitEvents
<1>4. QED
  BY <1>2, <1>3 DEF TellInv, EventInv

LEMMA TellKept ==
    ASSUME TellInv, LedgerInv', StepsBooks
    PROVE  OverrunTold' /\ EventInv'
<1>0. OverrunTold /\ MonthsInv'
  BY DEF TellInv, LedgerInv, LedgerBasis, FormBasis, BooksTyped
<1>1. CASE OpensMonth \/ Initializes \/ Rests
  <2>1. /\ Grows(months, months') /\ SameRows /\ UNCHANGED <<transactions, warnings>>
    BY <1>1 DEF OpensMonth, Opens, Initializes, Rests, Grows, SameRows
  <2>2. OverrunTold'
    BY <1>0, <2>1, ComingTells DEF MonthsInv
  <2>3. EventInv'
    BY <2>1, EventsKept DEF warnings
  <2>4. QED
    BY <2>2, <2>3
<1>2. CASE Budgets
  <2>1. Silently /\ (SameRows \/ \E c \in Categories : RemovesLines(c))
    BY <1>2 DEF Budgets, BudgetStep, ChangesMonth
  <2>2. OverrunTold'
    BY <1>0, <2>1, BudgetTells
  <2>3. outbox' = outbox
    BY <2>1 DEF Silently
  <2>4. QED
    BY <2>1, <2>2, <2>3, EventsKept
<1>3. CASE EntersRow
  BY <1>3, EntersTells
<1>4. CASE RevisesRow
  BY <1>4, RevisesTells
<1>5. CASE Delivers
  <2>1. PICK e \in outbox : Deliver(e)
    BY <1>5 DEF Delivers
  <2>2. outbox' \subseteq outbox /\ SameRows
    BY <2>1 DEF Deliver, ledger, SameRows
  <2>3. QED
    BY <2>1, <2>2, DeliveryTells, EventsKept
<1>6. QED
  BY <1>1, <1>2, <1>3, <1>4, <1>5 DEF StepsBooks

LEMMA TellInit == ASSUME EntryInit PROVE TellInv
<1>1. LedgerInv
  BY LedgerInit
<1>2. DOMAIN transactions = {} /\ outbox = {}
  BY DEF EntryInit, Init
<1>3. \A m \in DOMAIN months : IsMonth(months[m])
  BY <1>1 DEF LedgerInv, LedgerBasis, FormBasis, BooksTyped, MonthsInv, GoodMonths, GoodMonth
<1>4. Overruns(months, transactions) = {}
  <2>1. SUFFICES ASSUME NEW o \in Overruns(months, transactions) PROVE FALSE
    OBVIOUS
  <2>2. PICK m \in DOMAIN months : \E scope \in Scopes(months, m) : o = <<m, scope>>
    BY OverrunTypes
  <2>3. PICK scope : o = <<m, scope>>
    BY <2>2
  <2>4. Booked(transactions, m) = {}
    BY <1>2 DEF Booked
  <2>5. QED
    BY <1>3, <2>1, <2>3, <2>4, NoneSpent
<1>5. QED
  BY <1>1, <1>2, <1>4 DEF TellInv, EventInv, OverrunTold

(* No limit is passed in silence: the transaction that passes it announces    *)
(* it, whatever requests, forms, midnights and budget changes surround it,    *)
(* and the delivery of the event reports it unless the row has been revised   *)
(* since or the zone has moved the event into another month.                  *)
THEOREM OverrunToldCorrect == EntrySpec => []OverrunTold
<1>1. EntryInit => TellInv
  BY TellInit
<1>2. TellInv /\ LedgerInv' /\ [EntryNext]_allVars => TellInv'
  BY EntryStepsBooks, TellKept DEF TellInv, LedgerInv
<1>3. TellInv => OverrunTold
  BY DEF TellInv
<1>4. QED
  BY <1>1, <1>2, <1>3, BooksTypedCorrect, PTL DEF EntrySpec

-----------------------------------------------------------------------------
(* Months without a gap *)

Convex(S) == \A a, b \in S : \A p \in a..b : p \in S

(* Whichever zone the account has, its month is one of the tracker's, or a    *)
(* later one, or the one before the first.                                    *)
Reaches(M, now) ==
    DOMAIN M # {} => \A z \in scenario.zones : \E m \in DOMAIN M : m <= MonthOf(now, z) + 1

GapInv == Convex(DOMAIN months) /\ Reaches(months, clock)

LEMMA ConvexMonths ==
    ASSUME MonthsInv, Convex(DOMAIN months)
    PROVE  MonthsContiguous
<1>1. SUFFICES ASSUME NEW m \in DOMAIN months, NEW p \in m..Latest PROVE p \in DOMAIN months
  BY DEF MonthsContiguous
<1>2. Latest \in DOMAIN months
  BY LatestIs DEF MonthsInv, GoodMonths
<1>3. QED
  BY <1>2 DEF Convex

LEMMA MonthLater ==
    ASSUME NEW a \in Int, NEW b \in Int, NEW z \in Int, a <= b
    PROVE  /\ MonthOf(a, z) \in Int /\ MonthOf(b, z) \in Int
           /\ MonthOf(a, z) <= MonthOf(b, z)
<1>1. a + z \in Int /\ b + z \in Int /\ a + z <= b + z
  OBVIOUS
<1>2. QED
  BY <1>1, TimeAssumption, DivideMonotone DEF MonthOf

LEMMA QuotientUnique ==
    ASSUME NEW n \in Nat \ {0}, NEW s \in Int, NEW r \in Int, NEW t \in Int, NEW u \in Int,
           n * s + r = n * t + u, 0 <= r, r < n, 0 <= u, u < n
    PROVE  s = t
<1>1. PICK p \in Int, q \in Int : p = n * s /\ q = n * t
  OBVIOUS
<1>2. ~(s + 1 <= t)
  <2>1. SUFFICES ASSUME s + 1 <= t PROVE FALSE
    OBVIOUS
  <2>2. n * (s + 1) <= n * t
    BY <2>1
  <2>3. n * (s + 1) = n * s + n
    OBVIOUS
  <2>4. QED
    BY <1>1, <2>2, <2>3
<1>3. ~(t + 1 <= s)
  <2>1. SUFFICES ASSUME t + 1 <= s PROVE FALSE
    OBVIOUS
  <2>2. n * (t + 1) <= n * s
    BY <2>1
  <2>3. n * (t + 1) = n * t + n
    OBVIOUS
  <2>4. QED
    BY <1>1, <2>2, <2>3
<1>4. QED
  BY <1>2, <1>3

LEMMA DivideNext ==
    ASSUME NEW b \in Int, NEW n \in Nat \ {0}
    PROVE  b \div n \in Int /\ (b + n) \div n = b \div n + 1
<1>1. PICK c \in Int : c = b + n
  OBVIOUS
<1>2. PICK s \in Int, r \in Int : s = b \div n /\ r = b % n
  BY Division
<1>3. b = n * s + r /\ 0 <= r /\ r < n
  BY <1>2, Division
<1>4. PICK t \in Int, u \in Int : t = c \div n /\ u = c % n
  BY Division
<1>5. c = n * t + u /\ 0 <= u /\ u < n
  BY <1>4, Division
<1>6. n * (s + 1) = n * s + n /\ s + 1 \in Int
  OBVIOUS
<1>7. n * (s + 1) + r = n * t + u
  BY <1>1, <1>3, <1>5, <1>6
<1>8. s + 1 = t
  BY <1>3, <1>5, <1>6, <1>7, QuotientUnique
<1>9. QED
  BY <1>1, <1>2, <1>4, <1>8

(* A month is longer than two zones are apart.                                *)
LEMMA ZonesNear ==
    ASSUME TimeInv, NEW one \in scenario.zones \cup {0}, NEW other \in scenario.zones
    PROVE  MonthOf(clock, one) <= MonthOf(clock, other) + 1
<1>1. /\ one \in Int /\ other \in Int /\ clock \in Int /\ one - other <= MonthLength
      /\ MonthLength \in Nat \ {0}
  BY ScenarioTypes, ZoneAssumption, TimeAssumption DEF TimeInv
<1>2. PICK a \in Int : a = clock + one
  BY <1>1
<1>3. PICK b \in Int : b = clock + other
  BY <1>1
<1>4. PICK q \in Int : q = a \div MonthLength
  BY <1>1, Division
<1>5. PICK s \in Int : s = b \div MonthLength
  BY <1>1, Division
<1>6. a <= b + MonthLength /\ b + MonthLength \in Int
  BY <1>1, <1>2, <1>3
<1>7. PICK c \in Int : c = b + MonthLength
  BY <1>6
<1>8. c \div MonthLength = s + 1
  BY <1>1, <1>5, <1>7, DivideNext
<1>9. a \div MonthLength <= c \div MonthLength
  BY <1>1, <1>6, <1>7, DivideMonotone
<1>10. q <= s + 1
  BY <1>4, <1>8, <1>9
<1>11. QED
  BY <1>2, <1>3, <1>4, <1>5, <1>10 DEF MonthOf

LEMMA FirstMonthGaps ==
    ASSUME TimeInv, NEW account \in scenario.zones \cup {0}, NEW M,
           DOMAIN M = {MonthOf(clock, account)}
    PROVE  Convex(DOMAIN M) /\ Reaches(M, clock)
<1> clock \in Int /\ account \in Int
  BY ScenarioTypes DEF TimeInv
<1>1. PICK m \in Int : m = MonthOf(clock, account)
  BY MonthOfType
<1>2. Convex(DOMAIN M)
  <2>1. \A p \in m..m : p = m
    BY <1>1
  <2>2. QED
    BY <1>1, <2>1 DEF Convex
<1>3. QED
  BY <1>2, ZonesNear DEF Reaches

LEMMA OpenedGaps ==
    ASSUME LedgerBasis, GapInv, OpensMonth
    PROVE  GapInv'
<1>1. PICK account \in scenario.zones : Opens(account)
  BY DEF OpensMonth
<1>2. PICK current \in Int : current = MonthOf(clock, account)
  BY <1>1 DEF Opens
<1>3. PICK S : S = DOMAIN months
  OBVIOUS
<1>4. PICK last \in S : last = Latest /\ last \in Int /\ \A m \in S : m <= last
  BY <1>3, LatestIs DEF OpensMonth, LedgerBasis, FormBasis, BooksTyped, MonthsInv, GoodMonths
<1>5. DOMAIN months' = S \cup (last..current) \cup {current}
  BY <1>1, <1>2, <1>3, <1>4 DEF Opens
<1>6. S \subseteq Int /\ Convex(S)
  BY <1>3 DEF LedgerBasis, FormBasis, BooksTyped, MonthsInv, GoodMonths, GapInv
<1>7. PICK low \in S : low <= current + 1
  BY <1>2, <1>3, <1>4 DEF GapInv, Reaches
<1>8. Convex(S \cup (last..current) \cup {current})
  <2>1. SUFFICES ASSUME NEW a \in S \cup (last..current) \cup {current},
                        NEW b \in S \cup (last..current) \cup {current},
                        NEW p \in a..b
                 PROVE  p \in S \cup (last..current) \cup {current}
    BY DEF Convex
  <2>2. a \in Int /\ b \in Int /\ p \in Int /\ a <= p /\ p <= b
    BY <1>6, <2>1
  <2>3. \A x \in S, y \in Int : (x <= y /\ y <= last) => y \in S
    BY <1>4, <1>6 DEF Convex
  <2>4. CASE last <= p
    BY <1>4, <1>6, <2>2, <2>4
  <2>5. CASE p < last
    <3>1. CASE a \in S
      BY <1>4, <2>2, <2>3, <2>5, <3>1
    <3>2. CASE a \notin S
      <4>1. a = current
        BY <1>4, <2>2, <2>5, <3>2
      <4>2. p = current \/ current + 1 <= p
        BY <2>2, <4>1
      <4>3. QED
        BY <1>4, <1>6, <1>7, <2>2, <2>3, <2>5, <4>2
    <3>3. QED
      BY <3>1, <3>2
  <2>6. QED
    BY <1>4, <1>6, <2>2, <2>4, <2>5
<1>9. Reaches(months, clock)'
  <2>1. clock' = clock /\ scenario' = scenario
    BY DEF OpensMonth, bounds
  <2>2. \A z \in scenario.zones : \E m \in DOMAIN months : m <= MonthOf(clock, z) + 1
    BY <1>3, <1>4 DEF GapInv, Reaches
  <2>3. QED
    BY <1>3, <1>5, <2>1, <2>2 DEF Reaches
<1>10. QED
  BY <1>5, <1>8, <1>9 DEF GapInv

LEMMA GapsKept ==
    ASSUME LedgerBasis, GapInv, StepsBooks
    PROVE  GapInv'
<1>1. CASE OpensMonth
  BY <1>1, OpenedGaps
<1>2. CASE Initializes
  <2>1. PICK account \in scenario.zones, currency \in Currencies : months' = FirstMonths(account, currency)
    BY <1>2 DEF Initializes
  <2>2. DOMAIN months' = {MonthOf(clock, account)}
    BY <2>1 DEF FirstMonths
  <2>3. Convex(DOMAIN months') /\ Reaches(months', clock)
    BY <2>2, FirstMonthGaps DEF LedgerBasis, FormBasis
  <2>4. clock' = clock /\ scenario' = scenario
    BY <1>2 DEF Initializes, bounds
  <2>5. QED
    BY <2>3, <2>4 DEF GapInv, Reaches
<1>3. CASE Budgets \/ EntersRow \/ RevisesRow \/ Delivers \/ Rests
  <2>1. DOMAIN months' = DOMAIN months
    BY <1>3 DEF Budgets, BudgetStep, ChangesMonth, RemovesLines, EntersRow, Enters, RevisesRow,
                Revises, Delivers, Deliver, Rests, ledger
  <2>2. /\ scenario' = scenario /\ clock \in Int /\ clock' \in Int /\ clock <= clock'
        /\ scenario.zones \subseteq Int /\ DOMAIN months \subseteq Int
    <3>1. /\ scenario' = scenario /\ clock' \in {clock, clock + 1} /\ TimeInv
      BY TimeKept DEF LedgerBasis, FormBasis
    <3>2. clock \in Int /\ scenario.zones \subseteq Int
      BY <3>1, ScenarioTypes DEF TimeInv
    <3>3. DOMAIN months \subseteq Int
      BY DEF LedgerBasis, FormBasis, BooksTyped, MonthsInv, GoodMonths
    <3>4. QED
      BY <3>1, <3>2, <3>3
  <2>3. Reaches(months, clock)'
    <3>1. SUFFICES ASSUME DOMAIN months # {}, NEW z \in scenario.zones
                   PROVE  \E m \in DOMAIN months : m <= MonthOf(clock', z) + 1
      BY <2>1, <2>2 DEF Reaches
    <3>2. PICK m \in DOMAIN months : m <= MonthOf(clock, z) + 1
      BY <3>1 DEF GapInv, Reaches
    <3>3. /\ MonthOf(clock, z) \in Int /\ MonthOf(clock', z) \in Int
          /\ MonthOf(clock, z) <= MonthOf(clock', z)
      BY <2>2, MonthLater
    <3>4. m \in Int /\ m <= MonthOf(clock', z) + 1
      BY <2>2, <3>2, <3>3
    <3>5. QED
      BY <3>4
  <2>4. QED
    BY <2>1, <2>3 DEF GapInv
<1>4. QED
  BY <1>1, <1>2, <1>3 DEF StepsBooks

LEMMA GapInit == ASSUME EntryInit PROVE GapInv
<1>1. Init /\ TimeInv
  BY TimeInit DEF EntryInit
<1>2. CASE ~scenario.started
  <2>1. DOMAIN months = {}
    BY <1>1, <1>2 DEF Init
  <2>2. QED
    BY <2>1 DEF GapInv, Convex, Reaches
<1>3. CASE scenario.started
  <2>1. PICK currency : months = FirstMonths(zone, currency)
    BY <1>1, <1>3 DEF Init
  <2>2. DOMAIN months = {MonthOf(clock, zone)}
    BY <2>1 DEF FirstMonths
  <2>3. zone \in scenario.zones \cup {0}
    BY <1>1 DEF TimeInv
  <2>4. QED
    BY <1>1, <2>2, <2>3, FirstMonthGaps DEF GapInv
<1>4. QED
  BY <1>2, <1>3

-----------------------------------------------------------------------------
(* Rows in their month and category *)

(* Of the months M, the rows T are each in a line of their month, of its kind.*)
Lined(M, T) ==
    \A i \in DOMAIN T :
        T[i].cat # NoCategory => /\ T[i].cat \in DOMAIN M[T[i].month].lines
                                 /\ T[i].kind = KindOf(T[i].cat)

Dated(z, T) == \A i \in DOMAIN T : MonthOf(T[i].at, z) = T[i].month

PlacedInv == Lined(months, transactions) /\ (moved \/ Dated(zone, transactions))

LEMMA LinedRows ==
    ASSUME LedgerInv, Lined(months, transactions)
    PROVE  NoDangling
<1>1. \A i \in DOMAIN transactions : transactions[i].month \in DOMAIN months
  BY RowsOfMonths, RowFields
<1>2. \A m \in DOMAIN months : \A c \in DOMAIN months[m].lines :
          stable[c] \in {"active", "archived"}
  BY DEF LedgerInv, LedgerBasis, FormBasis, BooksTyped, MonthsInv, GoodMonths, GoodMonth
<1>3. QED
  BY <1>1, <1>2 DEF Lined, NoDangling

LEMMA PlacedConsistent ==
    ASSUME LedgerInv, GapInv, PlacedInv, PricingConsistent
    PROVE  LedgerConsistent
<1>1. NoDangling
  BY LinedRows DEF PlacedInv
<1>2. MonthsContiguous
  BY ConvexMonths DEF GapInv, LedgerInv, LedgerBasis, FormBasis, BooksTyped
<1>3. WithinMonth
  BY DEF PlacedInv, Dated, WithinMonth
<1>4. QED
  BY <1>1, <1>2, <1>3 DEF LedgerConsistent

(* Lines that come take no row out of its line.                               *)
LEMMA LinesStay ==
    ASSUME LedgerInv, PlacedInv, UNCHANGED transactions,
           \A m \in DOMAIN months : DOMAIN months[m].lines \subseteq DOMAIN months'[m].lines
    PROVE  Lined(months', transactions')
<1>1. \A i \in DOMAIN transactions : transactions[i].month \in DOMAIN months
  BY RowsOfMonths, RowFields
<1>2. QED
  BY <1>1 DEF PlacedInv, Lined

(* A category that goes takes the rows that were in it out of it.             *)
LEMMA RemovalPlaces ==
    ASSUME LedgerInv, PlacedInv, NEW c \in Categories, RemovesLines(c)
    PROVE  Lined(months', transactions') /\ (Dated(zone, transactions)
                                                 => Dated(zone, transactions'))
<1>1. /\ DOMAIN transactions' = DOMAIN transactions
      /\ \A i \in DOMAIN transactions : Reflects(transactions'[i], transactions[i])
  BY RowsOfMonths, UncategorizedSucceeds DEF RemovesLines, Uncategorizes, RowInv
<1>2. \A i \in DOMAIN transactions :
          /\ transactions[i].month \in DOMAIN months /\ IsRow(transactions[i])
          /\ transactions[i].cat \in Categories \cup {NoCategory}
  BY RowsOfMonths, RowFields DEF RowInv, WellFormed
<1>3. \A i \in DOMAIN transactions : transactions[i].cat = c => transactions'[i].cat = NoCategory
  BY <1>2, RowWithCategory DEF RemovesLines, Uncategorizes, Uncategorized
<1>4. \A m \in DOMAIN months : DOMAIN months[m].lines \ {c} \subseteq DOMAIN months'[m].lines
  <2>1. SUFFICES ASSUME NEW m \in DOMAIN months
                 PROVE  DOMAIN months[m].lines \ {c} \subseteq DOMAIN months'[m].lines
    OBVIOUS
  <2>2. PICK lines : lines = months[m].lines
    OBVIOUS
  <2>3. GoodMonth(stable, months[m])
    BY DEF LedgerInv, LedgerBasis, FormBasis, BooksTyped, MonthsInv, GoodMonths
  <2>4. GoodLines(stable, lines)
    BY <2>2, <2>3, GoodMonthIs
  <2>5. PICK rest : rest = Without(lines, c)
    OBVIOUS
  <2>6. PICK U : /\ \A k \in Categories \ {c} : U[k] = stable[k]
    OBVIOUS
  <2>7. GoodLines(U, rest)
    BY <2>4, <2>5, <2>6, FewerLines DEF Without
  <2>8. WithLines(months[m], rest).lines = rest
    BY <2>3, <2>7, WithLinesGood
  <2>9. DOMAIN rest = DOMAIN lines \ {c}
    BY <2>5 DEF Without
  <2>10. QED
    BY <2>2, <2>5, <2>8, <2>9 DEF RemovesLines
<1>5. Lined(months', transactions')
  <2>1. SUFFICES ASSUME NEW i \in DOMAIN transactions, transactions'[i].cat # NoCategory
                 PROVE  /\ transactions'[i].cat \in DOMAIN months'[transactions'[i].month].lines
                        /\ transactions'[i].kind = KindOf(transactions'[i].cat)
    BY <1>1 DEF Lined
  <2>2. /\ transactions'[i].cat = transactions[i].cat
        /\ transactions'[i].month = transactions[i].month
        /\ transactions'[i].kind = transactions[i].kind
    BY <1>1, <2>1 DEF Reflects
  <2>3. transactions[i].cat # c /\ transactions[i].cat # NoCategory
    BY <1>3, <2>1, <2>2
  <2>4. QED
    BY <1>2, <1>4, <2>2, <2>3 DEF PlacedInv, Lined
<1>6. ASSUME Dated(zone, transactions) PROVE Dated(zone, transactions')
  BY <1>1, <1>6 DEF Dated, Reflects
<1>7. QED
  BY <1>5, <1>6

LEMMA EntersPlaces ==
    ASSUME LedgerInv, PlacedInv, EntersRow
    PROVE  PlacedInv'
<1>1. PICK row, now : Enters(row, now)
  BY DEF EntersRow
<1>2. /\ NextId \notin DOMAIN transactions
      /\ DOMAIN transactions' = DOMAIN transactions \cup {NextId}
      /\ transactions'[NextId] = row
      /\ \A i \in DOMAIN transactions : transactions'[i] = transactions[i]
  BY <1>1, RowsOfMonths, RowStepNumbers DEF Enters
<1>3. /\ row.cat \in DOMAIN months[row.month].lines /\ row.kind = KindOf(row.cat)
      /\ MonthOf(row.at, zone) = row.month /\ UNCHANGED <<zone, moved, months>>
  BY <1>1 DEF Enters
<1>4. Lined(months, transactions')
  BY <1>2, <1>3 DEF PlacedInv, Lined
<1>5. Dated(zone, transactions) => Dated(zone, transactions')
  BY <1>2, <1>3 DEF Dated
<1>6. QED
  BY <1>3, <1>4, <1>5 DEF PlacedInv

LEMMA RevisesPlaces ==
    ASSUME LedgerInv, PlacedInv, RevisesRow
    PROVE  PlacedInv'
<1>1. PICK w \in Requests : \E row : Revises(w, row)
  BY DEF RevisesRow
<1>2. PICK row : Revises(w, row)
  BY <1>1
<1>3. PICK i \in DOMAIN transactions : i = request[w].tx
  BY <1>2 DEF Revises
<1>4. PICK t : t = transactions[i]
  OBVIOUS
<1>5. /\ Replaced(transactions, revisions, transactions', revisions', i, row)
      /\ row.month = t.month /\ UNCHANGED <<zone, moved, months>>
      /\ \/ /\ row.cat \in DOMAIN months[row.month].lines /\ row.kind = KindOf(row.cat)
            /\ row.at = t.at \/ MonthOf(row.at, zone) = row.month
         \/ row.cat = t.cat /\ row.kind = t.kind /\ row.at = t.at
  BY <1>2, <1>3, <1>4 DEF Revises
<1>6. /\ DOMAIN transactions' = DOMAIN transactions /\ transactions'[i] = row
      /\ \A k \in DOMAIN transactions : k # i => transactions'[k] = transactions[k]
  BY <1>5, RowsOfMonths, ReplacedRow
<1>7. Lined(months, transactions')
  <2>1. row.cat # NoCategory => /\ row.cat \in DOMAIN months[row.month].lines
                                /\ row.kind = KindOf(row.cat)
    BY <1>4, <1>5 DEF PlacedInv, Lined
  <2>2. QED
    BY <1>6, <2>1 DEF PlacedInv, Lined
<1>8. ASSUME Dated(zone, transactions) PROVE Dated(zone, transactions')
  <2>1. MonthOf(row.at, zone) = row.month
    BY <1>4, <1>5, <1>8 DEF Dated
  <2>2. QED
    BY <1>6, <1>8, <2>1 DEF Dated
<1>9. QED
  BY <1>5, <1>7, <1>8 DEF PlacedInv

LEMMA PlacedKept ==
    ASSUME LedgerInv, PlacedInv, StepsBooks
    PROVE  PlacedInv'
<1>1. CASE OpensMonth
  <2>1. PICK account \in scenario.zones : Opens(account) /\ Open(account)
    BY <1>1 DEF OpensMonth
  <2>2. Lined(months', transactions')
    BY <1>1, <2>1, LinesStay DEF OpensMonth, Opens, Grows
  <2>3. moved' \/ (~moved /\ zone' = zone)
    BY <2>1 DEF Open
  <2>4. QED
    BY <1>1, <2>2, <2>3 DEF PlacedInv, OpensMonth, Dated
<1>2. CASE Initializes
  <2>1. DOMAIN transactions = {} /\ UNCHANGED transactions
    BY <1>2, RowsOfMonths, RowFields DEF Initializes
  <2>2. QED
    BY <2>1 DEF PlacedInv, Lined, Dated
<1>3. CASE Budgets
  <2>1. UNCHANGED <<zone, moved>>
    BY <1>3 DEF Budgets, BudgetStep
  <2>2. ASSUME NEW m, ChangesMonth(m) PROVE PlacedInv'
    <3>1. UNCHANGED transactions
      BY <2>2 DEF ChangesMonth, SameRows
    <3>2. Lined(months', transactions')
      BY <2>2, <3>1, LinesStay DEF ChangesMonth
    <3>3. QED
      BY <2>1, <3>1, <3>2 DEF PlacedInv
  <2>3. ASSUME NEW c \in Categories, RemovesLines(c) PROVE PlacedInv'
    BY <2>1, <2>3, RemovalPlaces DEF PlacedInv
  <2>4. QED
    BY <1>3, <2>2, <2>3 DEF Budgets, BudgetStep
<1>4. CASE EntersRow
  BY <1>4, EntersPlaces
<1>5. CASE RevisesRow
  BY <1>5, RevisesPlaces
<1>6. CASE Delivers \/ Rests
  BY <1>6 DEF Delivers, Deliver, Rests, ledger, PlacedInv
<1>7. QED
  BY <1>1, <1>2, <1>3, <1>4, <1>5, <1>6 DEF StepsBooks

LEMMA PlacedInit == ASSUME EntryInit PROVE PlacedInv
<1>1. DOMAIN transactions = {}
  BY DEF EntryInit, Init
<1>2. QED
  BY <1>1 DEF PlacedInv, Lined, Dated

(* The books agree with themselves after any sequence of requests, forms,     *)
(* midnights and moves of the account: no month is missing between two, every *)
(* row has a category of its month and the price of its rate set, and a row   *)
(* is of the month that it occurred in as long as the zone has not moved.     *)
THEOREM LedgerConsistentCorrect == EntrySpec => []LedgerConsistent
<1>1. EntryInit => GapInv /\ PlacedInv
  BY GapInit, PlacedInit
<1>2. LedgerInv /\ GapInv /\ PlacedInv /\ [EntryNext]_allVars => GapInv' /\ PlacedInv'
  BY EntryStepsBooks, GapsKept, PlacedKept DEF LedgerInv
<1>3. LedgerInv /\ GapInv /\ PlacedInv /\ PricingConsistent => LedgerConsistent
  BY PlacedConsistent
<1>4. QED
  BY <1>1, <1>2, <1>3, BooksTypedCorrect, PricesCorrect, PTL DEF EntrySpec

-----------------------------------------------------------------------------
(* Months that another one follows *)

BooksStay(m) ==
    /\ months'[m].currency = months[m].currency
    /\ months'[m].opening = months[m].opening
    /\ \A c \in DOMAIN months[m].lines \cap DOMAIN months'[m].lines :
           months'[m].lines[c].plan = months[m].lines[c].plan
    /\ Closing(months', transactions', m) = Closing(months, transactions, m)

(* A request of the month, or a late entry of it, ends.                       *)
RequestWrites(w, m) ==
    /\ request[w] # Idle /\ request'[w] = Idle
    /\ \/ MonthOf(request[w].now, zone) = m
       \/ /\ request[w].op \in {"create", "edit", "delete"}
          /\ request[w].period = {m}
          /\ MonthOf(request[w].now, zone) = m + 1
          /\ request[w].op # "create" =>
                MonthOf(transactions[request[w].tx].createdAt, zone) = m + 1

FormWrites(m) ==
    /\ m = CurrentMonth
    /\ \E i \in DOMAIN transactions' \ DOMAIN transactions : transactions'[i].form # NoForm

Accounted(m) ==
    \/ BooksStay(m)
    \/ \E w \in Requests : RequestWrites(w, m)
    \/ FormWrites(m)

LEMMA OthersStay ==
    ASSUME LedgerInv, NEW m, months'[m] = months[m],
           \A i : SameEntry(transactions, transactions', i)
                  \/ Elsewhere(transactions, transactions', i, m)
    PROVE  BooksStay(m)
<1>1. IsFiniteSet(DOMAIN transactions)
  BY RowsOfMonths DEF IsLedger
<1>2. Closing(months', transactions', m) = Closing(months, transactions, m)
  BY <1>1, ClosingSame
<1>3. QED
  BY <1>2 DEF BooksStay

LEMMA SameEntries ==
    ASSUME UNCHANGED transactions, NEW i
    PROVE  SameEntry(transactions, transactions', i)
BY DEF SameEntry

LEMMA LinesColumns ==
    ASSUME NEW month, HasColumns(month), NEW lines
    PROVE  LET new == WithLines(month, lines)
           IN  /\ new.currency = month.currency /\ new.opening = month.opening
               /\ new.lines = lines
<1>1. PICK V : month \in MonthsOver(V)
  BY DEF HasColumns
<1>2. month \in MonthsOver(V \cup {lines}) /\ lines \in V \cup {lines}
  BY <1>1 DEF MonthsOver
<1>3. PICK new : new = WithLines(month, lines)
  OBVIOUS
<1>4. new.currency = month.currency /\ new.opening = month.opening /\ new.lines = lines
  BY <1>2, <1>3 DEF MonthsOver, WithLines
<1>5. QED
  BY <1>3, <1>4

(* A category that goes takes its plans with it, and nothing else.            *)
LEMMA RemovalStays ==
    ASSUME LedgerInv, NEW c \in Categories, RemovesLines(c), NEW m \in DOMAIN months
    PROVE  BooksStay(m)
<1>1. /\ DOMAIN transactions' = DOMAIN transactions
      /\ \A i \in DOMAIN transactions : Reflects(transactions'[i], transactions[i])
  BY RowsOfMonths, UncategorizedSucceeds DEF RemovesLines, Uncategorizes, RowInv
<1>2. HasColumns(months[m])
  BY DEF LedgerInv, LedgerBasis, FormBasis, BooksTyped, MonthsInv, GoodMonths, GoodMonth, IsMonth
<1>3. PICK rest : rest = Without(months[m].lines, c)
  OBVIOUS
<1>4. /\ months'[m].currency = months[m].currency /\ months'[m].opening = months[m].opening
      /\ months'[m].lines = rest
  BY <1>2, <1>3, LinesColumns DEF RemovesLines
<1>5. \A k \in DOMAIN rest : rest[k] = months[m].lines[k]
  BY <1>3 DEF Without
<1>6. \A i : SameEntry(transactions, transactions', i)
  BY <1>1 DEF SameEntry, Reflects
<1>7. IsFiniteSet(DOMAIN transactions)
  BY RowsOfMonths DEF IsLedger
<1>8. Closing(months', transactions', m) = Closing(months, transactions, m)
  BY <1>4, <1>6, <1>7, ClosingSame
<1>9. QED
  BY <1>4, <1>5, <1>8 DEF BooksStay

LEMMA RequestEnds ==
    ASSUME LedgerInv, NEW w \in Requests, request[w].op # "idle", Ended(w)
    PROVE  request[w] # Idle /\ request'[w] = Idle
<1>1. DOMAIN request = Requests
  BY RowsOfMonths DEF RowInv
<1>2. request[w] # Idle
  BY DEF Idle
<1>3. QED
  BY <1>1, <1>2 DEF Ended

(* The month a request works on is that of its now, or the one it names.      *)
LEMMA PeriodIs ==
    ASSUME NEW now, NEW period, IsPeriod(period), NEW m, m = Period(now, period)
    PROVE  m = MonthOf(now, zone) \/ period = {m}
<1>1. CASE period = {}
  BY <1>1 DEF Period
<1>2. CASE period # {}
  <2>1. PICK k \in Int : period = {k}
    BY <1>2 DEF IsPeriod
  <2>2. {k} \subseteq Int /\ IsFiniteSet({k}) /\ {k} # {}
    BY FS_Singleton
  <2>3. Max({k}) \in {k}
    BY <2>2, MaxOf
  <2>4. QED
    BY <1>2, <2>1, <2>3 DEF Period
<1>3. QED
  BY <1>1, <1>2

LEMMA BudgetAccounted ==
    ASSUME LedgerInv, Budgets, NEW m \in DOMAIN months
    PROVE  Accounted(m)
<1>1. PICK w \in Requests : \E k : BudgetStep(w, k)
  BY DEF Budgets
<1>2. PICK k : BudgetStep(w, k)
  BY <1>1
<1>3. CASE k = m
  <2>1. request[w] # Idle /\ request'[w] = Idle
    BY <1>2, RequestEnds DEF BudgetStep
  <2>2. RequestWrites(w, m)
    BY <1>2, <1>3, <2>1 DEF BudgetStep, RequestWrites
  <2>3. QED
    BY <2>2 DEF Accounted
<1>4. CASE k # m
  <2>1. CASE ChangesMonth(k)
    <3>1. months'[m] = months[m] /\ UNCHANGED transactions
      BY <1>4, <2>1 DEF ChangesMonth, SameRows
    <3>2. \A i : SameEntry(transactions, transactions', i)
      BY <3>1, SameEntries
    <3>3. QED
      BY <3>1, <3>2, OthersStay DEF Accounted
  <2>2. CASE \E c \in Categories : RemovesLines(c)
    BY <2>2, RemovalStays DEF Accounted
  <2>3. QED
    BY <1>2, <2>1, <2>2 DEF BudgetStep
<1>5. QED
  BY <1>3, <1>4

LEMMA EntryAccounted ==
    ASSUME LedgerInv, EntersRow, NEW m \in DOMAIN months
    PROVE  Accounted(m)
<1>1. PICK row, now : Enters(row, now) /\ EntersBy(row, now)
  BY DEF EntersRow
<1>2. /\ NextId \notin DOMAIN transactions
      /\ DOMAIN transactions' = DOMAIN transactions \cup {NextId}
      /\ transactions'[NextId] = row
      /\ \A i \in DOMAIN transactions : transactions'[i] = transactions[i]
  BY <1>1, RowsOfMonths, RowStepNumbers DEF Enters
<1>3. CASE row.month # m
  <2>1. \A i : i # NextId => SameEntry(transactions, transactions', i)
    BY <1>2 DEF SameEntry
  <2>2. Elsewhere(transactions, transactions', NextId, m)
    BY <1>2, <1>3 DEF Elsewhere
  <2>3. months'[m] = months[m]
    BY <1>1 DEF Enters
  <2>4. QED
    BY <2>1, <2>2, <2>3, OthersStay DEF Accounted
<1>4. CASE row.month = m
  <2>1. ASSUME NEW w \in Requests,
               request[w].op = "create", Ended(w), now = request[w].now,
               Found(now, request[w].period), row.month = Period(now, request[w].period)
        PROVE  RequestWrites(w, m)
    <3>1. request[w] # Idle /\ request'[w] = Idle
      BY <2>1, RequestEnds
    <3>2. IsPeriod(request[w].period)
      BY <2>1 DEF LedgerInv, LedgerBasis, RequestsTyped, RequestType, IsPeriod
    <3>3. m = MonthOf(now, zone) \/ request[w].period = {m}
      BY <1>4, <2>1, <3>2, PeriodIs
    <3>4. m \in {MonthOf(now, zone) - 1, MonthOf(now, zone)} /\ MonthOf(now, zone) \in Int
      <4>1. DOMAIN months \subseteq Int
        BY DEF LedgerInv, LedgerBasis, FormBasis, BooksTyped, MonthsInv, GoodMonths
      <4>2. QED
        BY <1>4, <2>1, <4>1 DEF Found
    <3>5. m = MonthOf(now, zone) \/ MonthOf(now, zone) = m + 1
      BY <3>4
    <3>6. QED
      BY <2>1, <3>1, <3>3, <3>5 DEF RequestWrites
  <2>2. ASSUME row.month = CurrentMonth, row.form # NoForm
        PROVE  FormWrites(m)
    BY <1>2, <1>4, <2>2 DEF FormWrites
  <2>3. QED
    BY <1>1, <2>1, <2>2 DEF EntersBy, Accounted
<1>5. QED
  BY <1>3, <1>4

LEMMA RevisionAccounted ==
    ASSUME LedgerInv, RevisesRow, NEW m \in DOMAIN months
    PROVE  Accounted(m)
<1>1. PICK w \in Requests : \E row : Revises(w, row)
  BY DEF RevisesRow
<1>2. PICK row : Revises(w, row)
  BY <1>1
<1>3. PICK i \in DOMAIN transactions : i = request[w].tx
  BY <1>2 DEF Revises
<1>4. PICK now, period : now = request[w].now /\ period = request[w].period
  OBVIOUS
<1>5. /\ request[w].op \in {"edit", "delete"} /\ Ended(w)
      /\ Editable(i, period, now) /\ row.month = transactions[i].month /\ months' = months
      /\ Replaced(transactions, revisions, transactions', revisions', i, row)
  BY <1>2, <1>3, <1>4 DEF Revises
<1>6. /\ DOMAIN transactions' = DOMAIN transactions /\ transactions'[i] = row
      /\ \A k \in DOMAIN transactions : k # i => transactions'[k] = transactions[k]
  BY <1>5, RowsOfMonths, ReplacedRow
<1>7. CASE row.month # m
  <2>1. \A k : k # i => SameEntry(transactions, transactions', k)
    BY <1>6 DEF SameEntry
  <2>2. Elsewhere(transactions, transactions', i, m)
    BY <1>5, <1>6, <1>7 DEF Elsewhere
  <2>3. QED
    BY <1>5, <2>1, <2>2, OthersStay DEF Accounted
<1>8. CASE row.month = m
  <2>1. request[w] # Idle /\ request'[w] = Idle
    BY <1>5, RequestEnds
  <2>2. IsPeriod(period)
    BY <1>4, <1>5 DEF LedgerInv, LedgerBasis, RequestsTyped, RequestType, IsPeriod
  <2>3. m = Period(now, period) /\ Writable(transactions[i], m, now)
    BY <1>5, <1>8 DEF Editable
  <2>4. m = MonthOf(now, zone) \/ period = {m}
    BY <2>2, <2>3, PeriodIs
  <2>5. \/ m = MonthOf(now, zone)
        \/ MonthOf(now, zone) = m + 1 /\ MonthOf(transactions[i].createdAt, zone) = m + 1
    BY <2>3 DEF Writable
  <2>6. RequestWrites(w, m)
    BY <1>3, <1>4, <1>5, <2>1, <2>4, <2>5 DEF RequestWrites
  <2>7. QED
    BY <2>6 DEF Accounted
<1>9. QED
  BY <1>7, <1>8

LEMMA StepAccounted ==
    ASSUME LedgerInv, StepsBooks, NEW m \in DOMAIN months
    PROVE  Accounted(m)
<1>1. CASE OpensMonth \/ Delivers \/ Rests
  <2>1. months'[m] = months[m] /\ UNCHANGED transactions
    BY <1>1 DEF OpensMonth, Opens, Grows, Delivers, Deliver, Rests, ledger
  <2>2. \A i : SameEntry(transactions, transactions', i)
    BY <2>1, SameEntries
  <2>3. QED
    BY <2>1, <2>2, OthersStay DEF Accounted
<1>2. CASE Initializes
  BY <1>2 DEF Initializes
<1>3. CASE Budgets
  BY <1>3, BudgetAccounted
<1>4. CASE EntersRow
  BY <1>4, EntryAccounted
<1>5. CASE RevisesRow
  BY <1>5, RevisionAccounted
<1>6. QED
  BY <1>1, <1>2, <1>3, <1>4, <1>5 DEF StepsBooks

(* Whoever changes the books of a month that another one follows is known: a  *)
(* request of that month, a late entry that names it, or a form of the month  *)
(* that the account has come back to.  Nothing else reaches it, by whatever   *)
(* order requests, forms, midnights and moves of the account come in.         *)
THEOREM ClosedBooksCorrect == EntrySpec => ClosedBooks
<1>1. LedgerInv /\ [EntryNext]_allVars => \A m \in DOMAIN months : Accounted(m)
  BY EntryStepsBooks, StepAccounted DEF LedgerInv
<1>2. EntrySpec => [][\A m \in DOMAIN months :
                          (m + 1 \in DOMAIN months /\ m \in DOMAIN months') => Accounted(m)]_vars
  <2>1. LedgerInv /\ [EntryNext]_allVars =>
            [\A m \in DOMAIN months :
                (m + 1 \in DOMAIN months /\ m \in DOMAIN months') => Accounted(m)]_vars
    BY <1>1
  <2>2. QED
    BY <2>1, BooksTypedCorrect, PTL DEF EntrySpec
<1>3. QED
  BY <1>2 DEF ClosedBooks, Accounted, BooksStay, RequestWrites, FormWrites

-----------------------------------------------------------------------------
(* Windows of local days *)

LEMMA TodayType == ASSUME TimeInv PROVE Today \in Int
BY ScenarioTypes DEF TimeInv, Today

LEMMA Lengths ==
    WeekLength \in Nat \ {0} /\ MonthLength \in Nat \ {0} /\ DaysOfYear \in Nat \ {0}
    /\ LastDays \in Nat \ {0}
<1>1. \A a \in Nat \ {0}, b \in Nat \ {0} : a * b \in Nat \ {0}
  OBVIOUS
<1>2. QED
  BY <1>1, TimeAssumption, WindowAssumption DEF DaysOfYear

(* A day lies in its block, and the day before the block in the one before.   *)
LEMMA Blocks ==
    ASSUME NEW day \in Int, NEW n \in Nat \ {0}
    PROVE  /\ BlockStart(day, n) \in Int
           /\ BlockStart(day, n) <= day /\ day < BlockStart(day, n) + n
           /\ BlockStart(BlockStart(day, n) - 1, n) = BlockStart(day, n) - n
<1>1. PICK q \in Int, r \in Int : q = day \div n /\ r = day % n
  BY Division
<1>2. day = n * q + r /\ 0 <= r /\ r < n
  BY <1>1, Division
<1>3. PICK from \in Int : from = BlockStart(day, n)
  BY <1>1 DEF BlockStart
<1>4. from = day - r
  BY <1>1, <1>3 DEF BlockStart
<1>5. n * q \in Int /\ from = n * q
  BY <1>2, <1>4
<1>6. PICK e \in Int : e = from - 1
  OBVIOUS
<1>7. PICK t \in Int, u \in Int : t = e \div n /\ u = e % n
  BY Division
<1>8. e = n * t + u /\ 0 <= u /\ u < n
  BY <1>7, Division
<1>9. n * (q - 1) = n * q - n /\ q - 1 \in Int /\ n - 1 \in Int
  OBVIOUS
<1>10. n * (q - 1) + (n - 1) = n * t + u
  BY <1>5, <1>6, <1>8, <1>9
<1>11. q - 1 = t
  BY <1>8, <1>9, <1>10, QuotientUnique
<1>12. u = n - 1
  BY <1>8, <1>9, <1>10, <1>11
<1>13. BlockStart(e, n) = from - n
  BY <1>6, <1>7, <1>12 DEF BlockStart
<1>14. QED
  BY <1>2, <1>3, <1>4, <1>6, <1>13

(* A window is not empty, and ends a block or with the day.                   *)
LEMMA WindowTypes ==
    ASSUME NEW day \in Int, NEW period \in Periods
    PROVE  /\ Window(period, day).from \in Int /\ Window(period, day).to \in Int
           /\ Window(period, day).from <= day /\ day < Window(period, day).to
<1>1. CASE period = "today"
  BY <1>1 DEF Window
<1>2. CASE period = "thisWeek"
  BY <1>2, Blocks, Lengths DEF Window
<1>3. CASE period = "thisMonth"
  BY <1>3, Blocks, Lengths DEF Window
<1>4. CASE period = "thisYear"
  BY <1>4, Blocks, Lengths DEF Window
<1>5. CASE period = "last"
  BY <1>5, Lengths DEF Window
<1>6. CASE period = "lastYear"
  BY <1>6, Lengths DEF Window
<1>7. QED
  BY <1>1, <1>2, <1>3, <1>4, <1>5, <1>6 DEF Periods

LEMMA PreviousBlock ==
    ASSUME NEW day \in Int, NEW n \in Nat \ {0}, NEW period,
           \A d \in Int : Window(period, d) = [from |-> BlockStart(d, n),
                                               to |-> BlockStart(d, n) + n]
    PROVE  PreviousWindow(period, day)
               = Window(period, PreviousWindow(period, day).to - 1)
<1>1. PICK from \in Int : from = BlockStart(day, n)
  BY Blocks
<1>2. BlockStart(from - 1, n) = from - n
  BY <1>1, Blocks
<1>3. PreviousWindow(period, day) = [from |-> from - n, to |-> from]
  <2>1. Window(period, day).from = from /\ Window(period, day).to = from + n
    BY <1>1
  <2>2. from - ((from + n) - from) = from - n
    OBVIOUS
  <2>3. QED
    BY <2>1, <2>2 DEF PreviousWindow
<1>4. Window(period, from - 1) = [from |-> from - n, to |-> from]
  <2>1. from - 1 \in Int /\ (from - n) + n = from
    OBVIOUS
  <2>2. QED
    BY <1>2, <2>1
<1>5. QED
  BY <1>3, <1>4

LEMMA PreviousRolling ==
    ASSUME NEW day \in Int, NEW n \in Nat \ {0}, NEW period,
           \A d \in Int : Window(period, d) = [from |-> d + 1 - n, to |-> d + 1]
    PROVE  PreviousWindow(period, day)
               = Window(period, PreviousWindow(period, day).to - 1)
<1>1. PICK from \in Int : from = day + 1 - n
  OBVIOUS
<1>2. PreviousWindow(period, day) = [from |-> from - n, to |-> from]
  <2>1. Window(period, day).from = from /\ Window(period, day).to = day + 1
    BY <1>1
  <2>2. from - ((day + 1) - from) = from - n
    BY <1>1
  <2>3. QED
    BY <2>1, <2>2 DEF PreviousWindow
<1>3. Window(period, from - 1) = [from |-> from - n, to |-> from]
  <2>1. from - 1 \in Int /\ (from - 1) + 1 = from
    OBVIOUS
  <2>2. QED
    BY <2>1
<1>4. QED
  BY <1>2, <1>3

LEMMA PreviousHolds == ASSUME TimeInv PROVE PreviousAgrees
<1>1. SUFFICES ASSUME NEW period \in Periods
               PROVE  PreviousWindow(period, Today)
                          = Window(period, PreviousWindow(period, Today).to - 1)
  BY DEF PreviousAgrees
<1>2. Today \in Int
  BY TodayType
<1>3. CASE period = "today"
  <2>1. \A d \in Int : Window(period, d) = [from |-> d + 1 - 1, to |-> d + 1]
    BY <1>3 DEF Window
  <2>2. QED
    BY <1>2, <2>1, PreviousRolling
<1>4. CASE period = "thisWeek"
  BY <1>2, <1>4, PreviousBlock, Lengths DEF Window
<1>5. CASE period = "thisMonth"
  BY <1>2, <1>5, PreviousBlock, Lengths DEF Window
<1>6. CASE period = "thisYear"
  BY <1>2, <1>6, PreviousBlock, Lengths DEF Window
<1>7. CASE period = "last"
  BY <1>2, <1>7, PreviousRolling, Lengths DEF Window
<1>8. CASE period = "lastYear"
  BY <1>2, <1>8, PreviousRolling, Lengths DEF Window
<1>9. QED
  BY <1>3, <1>4, <1>5, <1>6, <1>7, <1>8 DEF Periods

-----------------------------------------------------------------------------
(* Points of a timeline *)

LEMMA TimesMonotone ==
    ASSUME NEW a \in Int, NEW b \in Int, NEW n \in Nat \ {0}, a <= b
    PROVE  a * n \in Int /\ b * n \in Int /\ a * n <= b * n
  OBVIOUS

LEMMA DivideExact ==
    ASSUME NEW q \in Int, NEW n \in Nat \ {0}
    PROVE  q * n \in Int /\ (q * n) \div n = q /\ (q * n) % n = 0
<1>1. PICK a \in Int : a = q * n
  OBVIOUS
<1>2. PICK t \in Int, u \in Int : t = a \div n /\ u = a % n
  BY Division
<1>3. a = n * t + u /\ 0 <= u /\ u < n
  BY <1>2, Division
<1>4. n * q + 0 = n * t + u
  BY <1>1, <1>3
<1>5. q = t
  BY <1>3, <1>4, QuotientUnique
<1>6. u = 0
  BY <1>3, <1>4, <1>5
<1>7. QED
  BY <1>1, <1>2, <1>5, <1>6

(* A day lies between the multiples around it.                                *)
LEMMA Multiples ==
    ASSUME NEW d \in Int, NEW n \in Nat \ {0}
    PROVE  /\ d \div n \in Int
           /\ (d \div n) * n <= d /\ d < (d \div n + 1) * n
           /\ (d \div n) * n \in Int /\ (d \div n + 1) * n \in Int
           /\ d % n = 0 => (d \div n) * n = d
<1>1. PICK t \in Int, u \in Int : t = d \div n /\ u = d % n
  BY Division
<1>2. d = n * t + u /\ 0 <= u /\ u < n
  BY <1>1, Division
<1>3. t * n = n * t /\ (t + 1) * n = n * t + n /\ t * n \in Int /\ (t + 1) * n \in Int
  OBVIOUS
<1>4. QED
  BY <1>1, <1>2, <1>3

Capped(d, to) == IF d <= to THEN d ELSE to

(* Where the points of a window end in steps of u                             *)
Stop(from, to, u, n) ==
    IF n = 0 THEN from ELSE Capped((from \div u + n) * u, to)

LEMMA StopTypes ==
    ASSUME NEW from \in Int, NEW to \in Int, NEW u \in Nat \ {0}, from <= to, NEW n \in Nat
    PROVE  /\ Stop(from, to, u, n) \in Int /\ (from \div u + n) * u \in Int
           /\ from <= Stop(from, to, u, n) /\ Stop(from, to, u, n) <= to
<1>1. PICK f \in Int : f = from \div u
  BY Division
<1>2. from < (f + 1) * u
  BY <1>1, Multiples
<1>3. CASE n = 0
  <2>1. (f + n) * u \in Int
    BY <1>3
  <2>2. QED
    BY <1>1, <1>3, <2>1 DEF Stop
<1>4. CASE n # 0
  <2>1. f + 1 \in Int /\ f + n \in Int /\ f + 1 <= f + n
    BY <1>4
  <2>2. PICK a \in Int, b \in Int : a = (f + 1) * u /\ b = (f + n) * u /\ a <= b
    BY <2>1, TimesMonotone
  <2>3. QED
    BY <1>1, <1>2, <1>4, <2>2 DEF Stop, Capped
<1>5. QED
  BY <1>3, <1>4

(* The first multiple of u after a day                                        *)
After(day, u) == (day \div u + 1) * u

LEMMA StopNext ==
    ASSUME NEW from \in Int, NEW to \in Int, NEW u \in Nat \ {0}, from <= to, NEW n \in Nat
    PROVE  Capped(After(Stop(from, to, u, n), u), to) = Stop(from, to, u, n + 1)
<1>1. PICK f \in Int : f = from \div u
  BY Division
<1>2. CASE n = 0
  <2>1. n + 1 # 0 /\ f + (n + 1) = f + 1
    BY <1>2
  <2>2. QED
    BY <1>1, <1>2, <2>1 DEF Stop, After
<1>3. CASE n # 0
  <2>1. PICK q \in Int : q = f + n
    OBVIOUS
  <2>2. PICK x \in Int : x = q * u
    OBVIOUS
  <2>3. n + 1 # 0 /\ f + (n + 1) = q + 1
    BY <2>1
  <2>4. (q + 1) * u = x + u
    BY <2>2
  <2>5. Stop(from, to, u, n) = Capped(x, to) /\ Stop(from, to, u, n + 1) = Capped(x + u, to)
    BY <1>1, <1>3, <2>1, <2>2, <2>3, <2>4 DEF Stop
  <2>6. CASE x <= to
    <3>1. x \div u = q
      BY <2>2, DivideExact
    <3>2. QED
      BY <2>4, <2>5, <2>6, <3>1 DEF Capped, After
  <2>7. CASE ~(x <= to)
    <3>1. to < After(to, u) /\ After(to, u) \in Int
      BY Multiples DEF After
    <3>2. Stop(from, to, u, n) = to /\ Stop(from, to, u, n + 1) = to
      BY <2>2, <2>5, <2>7 DEF Capped
    <3>3. Capped(After(to, u), to) = to
      BY <3>1 DEF Capped
    <3>4. QED
      BY <3>2, <3>3
  <2>8. QED
    BY <2>6, <2>7
<1>4. QED
  BY <1>2, <1>3

LEMMA StopMonotone ==
    ASSUME NEW from \in Int, NEW to \in Int, NEW u \in Nat \ {0}, from <= to,
           NEW a \in Nat, NEW b \in Nat, a <= b
    PROVE  Stop(from, to, u, a) <= Stop(from, to, u, b)
<1>1. PICK f \in Int : f = from \div u
  BY Division
<1>2. CASE a = 0
  BY <1>2, StopTypes DEF Stop
<1>3. CASE a # 0
  <2>1. f + a \in Int /\ f + b \in Int /\ f + a <= f + b /\ b # 0
    BY <1>3
  <2>2. PICK x \in Int, y \in Int : x = (f + a) * u /\ y = (f + b) * u /\ x <= y
    BY <2>1, TimesMonotone
  <2>3. QED
    BY <1>1, <1>3, <2>1, <2>2 DEF Stop, Capped
<1>4. QED
  BY <1>2, <1>3

(* A day is of one point only ...                                             *)
LEMMA StopsApart ==
    ASSUME NEW from \in Int, NEW to \in Int, NEW u \in Nat \ {0}, from <= to, NEW d \in Int,
           NEW a \in Nat, Stop(from, to, u, a) <= d, d < Stop(from, to, u, a + 1),
           NEW b \in Nat, Stop(from, to, u, b) <= d, d < Stop(from, to, u, b + 1)
    PROVE  a = b
<1>1. ASSUME NEW m \in Nat, NEW n \in Nat, m < n,
             Stop(from, to, u, n) <= d, d < Stop(from, to, u, m + 1)
      PROVE  FALSE
  <2>1. m + 1 \in Nat /\ m + 1 <= n
    BY <1>1
  <2>2. PICK x \in Int, y \in Int : x = Stop(from, to, u, m + 1) /\ y = Stop(from, to, u, n)
    BY <2>1, StopTypes
  <2>3. x <= y
    BY <2>1, <2>2, StopMonotone
  <2>4. QED
    BY <1>1, <2>2, <2>3
<1>2. QED
  BY <1>1

(* ... and of one at least, whose number is not above that of the days.       *)
LEMMA StopsCover ==
    ASSUME NEW from \in Int, NEW to \in Int, NEW u \in Nat \ {0},
           NEW d \in from..(to - 1)
    PROVE  \E n \in 0..(to - from) : /\ Stop(from, to, u, n) <= d
                                     /\ d < Stop(from, to, u, n + 1)
<1>1. PICK f \in Int, q \in Int : f = from \div u /\ q = d \div u
  BY Division
<1>2. from <= d /\ d < to /\ d \in Int
  OBVIOUS
<1>3. PICK n \in Int : n = q - f
  OBVIOUS
<1>4. 0 <= n
  BY <1>1, <1>2, <1>3, DivideMonotone
<1>5. PICK x \in Int, y \in Int : /\ x = (f + n) * u /\ y = (f + (n + 1)) * u
                                  /\ x <= d /\ d < y
  <2>1. q * u <= d /\ d < (q + 1) * u /\ q * u \in Int /\ (q + 1) * u \in Int
    BY <1>1, Multiples
  <2>2. f + n = q /\ f + (n + 1) = q + 1
    BY <1>3
  <2>3. QED
    BY <2>1, <2>2
<1>6. Stop(from, to, u, n) <= d /\ d < Stop(from, to, u, n + 1)
  <2>1. n + 1 # 0
    BY <1>4
  <2>2. Stop(from, to, u, n + 1) = Capped(y, to)
    BY <1>1, <1>5, <2>1 DEF Stop
  <2>3. Stop(from, to, u, n) \in {from, x}
    BY <1>1, <1>2, <1>5 DEF Stop, Capped
  <2>4. QED
    BY <1>2, <1>5, <2>2, <2>3 DEF Capped
<1>7. n <= to - from
  <2>1. CASE n = 0
    BY <1>2, <2>1
  <2>2. CASE n # 0
    <3>1. PICK a \in Int : a = (f + 1) * u /\ from < a
      BY <1>1, Multiples
    <3>2. (n - 1) * u >= n - 1
      <4>1. PICK k \in Nat : k = n - 1
        BY <1>4, <2>2
      <4>2. k * u >= k
        OBVIOUS
      <4>3. QED
        BY <4>1, <4>2
    <3>3. x = a + (n - 1) * u
      BY <1>5, <3>1
    <3>4. (n - 1) * u \in Int
      OBVIOUS
    <3>5. QED
      BY <1>2, <1>5, <3>1, <3>2, <3>3, <3>4
  <2>3. QED
    BY <2>1, <2>2
<1>8. QED
  BY <1>2, <1>4, <1>6, <1>7

Long == {"thisYear", "lastYear"}
PointLength(period) == IF period \in Long THEN MonthLength ELSE 1

LEMMA PointLengthType == \A period : PointLength(period) \in Nat \ {0}
  BY TimeAssumption DEF PointLength

(* The windows of a period end at `to`, their points have the length u.       *)
Ends(window, period, to, u) == to = window.to /\ u = PointLength(period)

LEMMA PointEndIs ==
    ASSUME NEW window, NEW period, NEW to \in Int, NEW u \in Nat \ {0},
           Ends(window, period, to, u), NEW day \in Int
    PROVE  PointEnd(day, window, period) = Capped(After(day, u), to)
<1>2. PICK e \in Int : e = (day \div u + 1) * u
  BY Multiples
<1>3. PointEnd(day, window, period) = Min({e, to})
  <2>1. CASE period \in Long
    BY <1>2, <2>1 DEF Ends, PointEnd, PointLength, Long
  <2>2. CASE period \notin Long
    <3>1. u = 1
      BY <2>2 DEF Ends, PointLength
    <3>2. e = day + 1
      <4>1. PICK q \in Int : q = day \div u
        BY Multiples
      <4>2. q * u <= day /\ day < (q + 1) * u
        BY <4>1, Multiples
      <4>3. q = day
        BY <3>1, <4>2
      <4>4. QED
        BY <1>2, <3>1, <4>1, <4>3
    <3>3. QED
      BY <2>2, <3>2 DEF Ends, PointEnd, Long
  <2>3. QED
    BY <2>1, <2>2
<1>4. QED
  BY <1>2, <1>3, MinOfTwo DEF Capped, After

(* Where the points begin that the recursive function of Timeline reaches     *)
Begins(start, window, period) ==
    start = [n \in Nat |-> IF n = 0 THEN window.from
                           ELSE PointEnd(start[n - 1], window, period)]

LEMMA BeginsExist ==
    ASSUME NEW window, window.from \in Int, window.to \in Int, window.from <= window.to,
           NEW period
    PROVE  Begins([n \in Nat |-> Stop(window.from, window.to, PointLength(period), n)],
                  window, period)
<1>1. PICK u \in Nat \ {0} : u = PointLength(period)
  BY PointLengthType
<1>2. PICK from \in Int, to \in Int : from = window.from /\ to = window.to /\ from <= to
  OBVIOUS
<1>3. PICK g : g = [n \in Nat |-> Stop(from, to, u, n)]
  OBVIOUS
<1>4. Ends(window, period, to, u)
  BY <1>1, <1>2 DEF Ends
<1>5. ASSUME NEW n \in Nat
      PROVE  g[n] = IF n = 0 THEN window.from ELSE PointEnd(g[n - 1], window, period)
  <2>1. CASE n = 0
    BY <1>2, <1>3, <2>1 DEF Stop
  <2>2. CASE n # 0
    <3>1. PICK k \in Nat : k = n - 1 /\ n = k + 1
      BY <2>2
    <3>2. PICK x \in Int : x = Stop(from, to, u, k)
      BY <1>2, StopTypes
    <3>3. PointEnd(x, window, period) = Capped(After(x, u), to)
      BY <1>4, PointEndIs
    <3>4. PointEnd(x, window, period) = Stop(from, to, u, k + 1)
      BY <1>2, <3>2, <3>3, StopNext
    <3>5. g[k] = x /\ g[n] = Stop(from, to, u, k + 1)
      BY <1>3, <3>1, <3>2
    <3>6. QED
      BY <2>2, <3>1, <3>4, <3>5
  <2>3. QED
    BY <2>1, <2>2
<1>6. g = [n \in Nat |-> IF n = 0 THEN window.from ELSE PointEnd(g[n - 1], window, period)]
  BY <1>3, <1>5, Zenon
<1>7. QED
  BY <1>1, <1>2, <1>3, <1>6 DEF Begins

LEMMA BeginsSame ==
    ASSUME NEW window, NEW period, NEW f, NEW g, Begins(f, window, period),
           Begins(g, window, period)
    PROVE  \A n \in Nat : f[n] = g[n]
<1> DEFINE S == {n \in Nat : f[n] = g[n]}
<1>1. \A n \in Nat : /\ f[n] = IF n = 0 THEN window.from ELSE PointEnd(f[n - 1], window, period)
                     /\ g[n] = IF n = 0 THEN window.from ELSE PointEnd(g[n - 1], window, period)
  BY Zenon DEF Begins
<1>2. 0 \in S
  BY <1>1
<1>3. SUFFICES ASSUME NEW b \in Nat PROVE f[b] = g[b]
  OBVIOUS
<1>4. ASSUME NEW k \in 0..b, k \in S, k < b PROVE k + 1 \in S
  <2>1. k + 1 \in Nat /\ k + 1 # 0 /\ (k + 1) - 1 = k
    OBVIOUS
  <2>2. f[k] = g[k]
    BY <1>4
  <2>3. /\ f[k + 1] = PointEnd(f[k], window, period)
        /\ g[k + 1] = PointEnd(g[k], window, period)
    <3>1. PICK n \in Nat : n = k + 1
      BY <2>1
    <3>2. f[n] = PointEnd(f[n - 1], window, period) /\ g[n] = PointEnd(g[n - 1], window, period)
      BY <1>1, <2>1, <3>1
    <3>3. QED
      BY <2>1, <3>1, <3>2
  <2>4. QED
    BY <2>1, <2>2, <2>3
<1>5. 0..b \subseteq S
  <2> HIDE DEF S
  <2>1. QED
    BY <1>2, <1>4, Ascends
<1>6. QED
  BY <1>5

(* The point of a timeline that begins on a day                               *)
PointOf(ids, window, period, currency, day) ==
    [from |-> day, to |-> PointEnd(day, window, period),
     amount |-> Rounded(Sum({i \in ids : /\ day <= transactions[i].at + zone
                                         /\ transactions[i].at + zone
                                                < PointEnd(day, window, period)}, currency))]

LEMMA TimelineIs ==
    ASSUME NEW ids, NEW window, window.from \in Int, window.to \in Int,
           window.from <= window.to, NEW period, NEW currency
    PROVE  \E g : /\ \A n \in Nat : g[n] = Stop(window.from, window.to, PointLength(period), n)
                  /\ Timeline(ids, window, period, currency)
                         = {PointOf(ids, window, period, currency, g[n]) :
                               n \in {k \in 0..(window.to - window.from) : g[k] < window.to}}
<1> DEFINE start == CHOOSE start : start = [n \in Nat |->
               IF n = 0 THEN window.from ELSE PointEnd(start[n - 1], window, period)]
<1>1. Timeline(ids, window, period, currency)
          = {PointOf(ids, window, period, currency, start[n]) :
                n \in {k \in 0..(window.to - window.from) : start[k] < window.to}}
  BY DEF Timeline, PointOf
<1>2. PICK g : g = [n \in Nat |-> Stop(window.from, window.to, PointLength(period), n)]
  OBVIOUS
<1>3. Begins(g, window, period)
  BY <1>2, BeginsExist
<1>4. \E f : f = [n \in Nat |->
               IF n = 0 THEN window.from ELSE PointEnd(f[n - 1], window, period)]
  BY <1>3 DEF Begins
<1>5. Begins(start, window, period)
  BY <1>4 DEF Begins
<1> HIDE DEF start
<1>6. \A n \in Nat : start[n] = g[n]
  BY <1>3, <1>5, BeginsSame
<1>7. QED
  BY <1>1, <1>2, <1>6

LEMMA TimelineTilesWindow ==
    ASSUME NEW window, NEW period, NEW P, NEW from \in Int, NEW to \in Int, from < to,
           from = window.from, to = window.to, P = Timeline({}, window, period, "RUB")
    PROVE  /\ \A day \in from..(to - 1) :
                  Cardinality({p \in P : p.from <= day /\ day < p.to}) = 1
           /\ {p.from : p \in P}
                  = {from} \cup {day \in from..(to - 1) :
                                    period \in Long => day % MonthLength = 0}
<1>1. PICK u \in Nat \ {0} : u = PointLength(period)
  BY PointLengthType
<1>2. Ends(window, period, to, u)
  BY <1>1 DEF Ends
<1> DEFINE E(n) == Stop(from, to, u, n)
           Point(day) == PointOf({}, window, period, "RUB", day)
           N == {k \in 0..(to - from) : E(k) < to}
<1>3. P = {Point(E(n)) : n \in N}
  <2>1. PICK g : /\ \A n \in Nat : g[n] = Stop(window.from, window.to, PointLength(period), n)
                 /\ Timeline({}, window, period, "RUB")
                        = {PointOf({}, window, period, "RUB", g[n]) :
                              n \in {k \in 0..(window.to - window.from) : g[k] < window.to}}
    BY TimelineIs
  <2>2. \A n \in Nat : g[n] = E(n)
    BY <1>1, <2>1
  <2>3. {k \in 0..(to - from) : g[k] < to} = N
    BY <2>2
  <2>4. QED
    BY <2>1, <2>2, <2>3
<1>4. \A n \in Nat : E(n) \in Int /\ from <= E(n) /\ E(n) <= to
  <2>1. from <= to
    OBVIOUS
  <2>2. QED
    BY <2>1, StopTypes
<1>5. ASSUME NEW n \in N
      PROVE  Point(E(n)).from = E(n) /\ Point(E(n)).to = E(n + 1)
  <2>1. n \in Nat /\ E(n) \in Int
    BY <1>4
  <2>2. PointEnd(E(n), window, period) = Capped(After(E(n), u), to)
    <3> HIDE DEF E
    <3>1. QED
      BY <1>2, <2>1, PointEndIs
  <2>3. Capped(After(E(n), u), to) = E(n + 1)
    BY <2>1, StopNext
  <2>4. QED
    <3> HIDE DEF E
    <3>1. QED
      BY <2>2, <2>3 DEF PointOf
<1> HIDE DEF Point
<1>6. ASSUME NEW day \in from..(to - 1)
      PROVE  Cardinality({p \in P : p.from <= day /\ day < p.to}) = 1
  <2>1. PICK n \in 0..(to - from) : E(n) <= day /\ day < E(n + 1)
    BY StopsCover
  <2>2. day \in Int /\ day < to /\ n \in Nat
    OBVIOUS
  <2>3. n \in N
    BY <1>4, <2>1, <2>2
  <2>4. ASSUME NEW k \in N, E(k) <= day, day < E(k + 1)
        PROVE  k = n
    <3>1. k \in Nat
      OBVIOUS
    <3>2. QED
      <4>1. from <= to
        OBVIOUS
      <4>2. Stop(from, to, u, k) <= day /\ day < Stop(from, to, u, k + 1)
        BY <2>4
      <4>3. Stop(from, to, u, n) <= day /\ day < Stop(from, to, u, n + 1)
        BY <2>1
      <4>4. QED
        BY <2>2, <3>1, <4>1, <4>2, <4>3, StopsApart
  <2>5. {p \in P : p.from <= day /\ day < p.to} = {Point(E(n))}
    <3> HIDE DEF E, N
    <3>1. QED
      BY <1>3, <1>5, <2>1, <2>3, <2>4
  <2>6. QED
    BY <2>5, FS_Singleton
<1>7. {p.from : p \in P} = {E(n) : n \in N}
  <2> HIDE DEF E, N
  <2>1. QED
    BY <1>3, <1>5
<1>8. ASSUME NEW n \in N
      PROVE  E(n) = from \/ (E(n) \in from..(to - 1) /\ E(n) % u = 0)
  <2>1. n \in Nat /\ E(n) < to /\ E(n) \in Int /\ from <= E(n)
    BY <1>4
  <2>2. CASE n = 0
    BY <2>2 DEF Stop
  <2>3. CASE n # 0
    <3>1. PICK q \in Int : q = from \div u + n
      BY Division
    <3>2. E(n) = q * u
      BY <2>1, <2>3, <3>1 DEF Stop, Capped
    <3>3. (q * u) % u = 0
      BY DivideExact
    <3>4. QED
      BY <2>1, <3>2, <3>3
  <2>4. QED
    BY <2>2, <2>3
<1>9. ASSUME NEW day \in from..(to - 1), day % u = 0
      PROVE  \E n \in N : E(n) = day
  <2>1. PICK n \in 0..(to - from) : E(n) <= day /\ day < E(n + 1)
    BY StopsCover
  <2>2. /\ day \in Int /\ from <= day /\ day < to /\ n \in Nat
        /\ E(n) \in Int /\ from <= E(n)
    BY <1>4
  <2>3. n \in N
    BY <2>1, <2>2
  <2>4. PICK f \in Int, q \in Int : f = from \div u /\ q = day \div u
    BY <2>2, Division
  <2>5. q * u = day /\ f <= q
    BY <1>9, <2>2, <2>4, Multiples, DivideMonotone
  <2>6. PICK y \in Int : y = (f + (n + 1)) * u /\ day < y
    <3>1. n + 1 # 0 /\ f + (n + 1) \in Int
      BY <2>2
    <3>2. PICK y \in Int : y = (f + (n + 1)) * u
      BY <3>1
    <3>3. E(n + 1) = Capped(y, to)
      BY <2>4, <3>1, <3>2 DEF Stop
    <3>4. QED
      BY <2>1, <2>2, <3>2, <3>3 DEF Capped
  <2>7. q <= f + n
    <3>1. SUFFICES ASSUME f + (n + 1) <= q PROVE FALSE
      BY <2>2
    <3>2. (f + (n + 1)) * u <= q * u
      BY <2>2, <3>1, TimesMonotone
    <3>3. QED
      BY <2>2, <2>5, <2>6, <3>2
  <2>8. CASE n = 0
    <3>1. q = f /\ E(n) = from
      BY <2>5, <2>7, <2>8 DEF Stop
    <3>2. f * u <= from
      BY <2>4, Multiples
    <3>3. QED
      BY <2>2, <2>3, <2>5, <3>1, <3>2
  <2>9. CASE n # 0
    <3>1. PICK x \in Int : x = (f + n) * u
      BY <2>2
    <3>2. q * u <= x
      BY <2>2, <2>7, <3>1, TimesMonotone
    <3>3. E(n) = Capped(x, to)
      BY <2>4, <2>9, <3>1 DEF Stop
    <3>4. QED
      BY <2>1, <2>2, <2>3, <2>5, <3>2, <3>3 DEF Capped
  <2>10. QED
    BY <2>8, <2>9
<1>10. \E n \in N : E(n) = from
  <2>1. 0 \in 0..(to - from) /\ E(0) = from
    BY DEF Stop
  <2>2. QED
    BY <2>1
<1>11. \A day \in Int : day % u = 0 <=> (period \in Long => day % MonthLength = 0)
  <2>1. CASE period \in Long
    BY <1>1, <2>1 DEF PointLength
  <2>2. CASE period \notin Long
    <3>1. u = 1
      BY <1>1, <2>2 DEF PointLength
    <3>2. \A day \in Int : day % 1 = 0
      OBVIOUS
    <3>3. QED
      BY <2>2, <3>1, <3>2
  <2>3. QED
    BY <2>1, <2>2
<1>12. {E(n) : n \in N} = {from} \cup {day \in from..(to - 1) :
                                          period \in Long => day % MonthLength = 0}
  <2> HIDE DEF E, N
  <2>1. \A n \in N : E(n) = from \/ (E(n) \in from..(to - 1)
                                     /\ (period \in Long => E(n) % MonthLength = 0))
    BY <1>8, <1>11
  <2>2. \A day \in from..(to - 1) :
            (period \in Long => day % MonthLength = 0) => \E n \in N : E(n) = day
    BY <1>9, <1>11
  <2>3. QED
    BY <1>10, <2>1, <2>2
<1>13. QED
  BY <1>6, <1>7, <1>12

LEMMA TilesHold == ASSUME TimeInv PROVE TimelineTiles
<1>1. ASSUME NEW period \in Periods
      PROVE  LET window == Window(period, Today)
                 points == Timeline({}, window, period, "RUB")
                 long == period \in {"thisYear", "lastYear"}
             IN  /\ \A day \in window.from..(window.to - 1) :
                       Cardinality({p \in points : p.from <= day /\ day < p.to}) = 1
                 /\ {p.from : p \in points}
                       = {window.from} \cup {day \in window.from..(window.to - 1) :
                                                long => day % MonthLength = 0}
  <2>1. PICK window : window = Window(period, Today)
    OBVIOUS
  <2>2. PICK P : P = Timeline({}, window, period, "RUB")
    OBVIOUS
  <2>3. /\ window.from \in Int /\ window.to \in Int
        /\ window.from <= Today /\ Today < window.to /\ Today \in Int
    BY <2>1, TodayType, WindowTypes
  <2>4. PICK from \in Int, to \in Int : from = window.from /\ to = window.to /\ from < to
    BY <2>3
  <2>5. /\ \A day \in from..(to - 1) :
               Cardinality({p \in P : p.from <= day /\ day < p.to}) = 1
        /\ {p.from : p \in P}
               = {from} \cup {day \in from..(to - 1) :
                                 period \in Long => day % MonthLength = 0}
    BY <2>2, <2>4, TimelineTilesWindow
  <2>6. QED
    BY <2>1, <2>2, <2>4, <2>5 DEF Long
<1>2. QED
  BY <1>1 DEF TimelineTiles

-----------------------------------------------------------------------------
(* The report of a month *)

LEMMA InBlock ==
    ASSUME NEW a \in Int, NEW q \in Int, NEW n \in Nat \ {0}
    PROVE  q * n \in Int /\ (a \div n = q <=> (q * n <= a /\ a < q * n + n))
<1>1. PICK t \in Int, u \in Int : t = a \div n /\ u = a % n
  BY Division
<1>2. a = n * t + u /\ 0 <= u /\ u < n
  BY <1>1, Division
<1>3. PICK x \in Int : x = q * n /\ x = n * q
  OBVIOUS
<1>4. ASSUME t = q PROVE x <= a /\ a < x + n
  BY <1>2, <1>3, <1>4
<1>5. ASSUME x <= a, a < x + n PROVE t = q
  <2>1. PICK v \in Int : v = a - x
    OBVIOUS
  <2>2. n * t + u = n * q + v /\ 0 <= v /\ v < n
    BY <1>2, <1>3, <1>5, <2>1
  <2>3. QED
    BY <1>2, <2>2, QuotientUnique
<1>6. QED
  BY <1>1, <1>3, <1>4, <1>5

LEMMA MonthWindow ==
    ASSUME NEW m \in Int
    PROVE  LET day == m * MonthLength
           IN  /\ day \in Int
               /\ Window("thisMonth", day) = [from |-> day, to |-> day + MonthLength]
<1>1. PICK day \in Int : day = m * MonthLength /\ day % MonthLength = 0
  BY DivideExact, TimeAssumption
<1>2. BlockStart(day, MonthLength) = day
  BY <1>1 DEF BlockStart
<1>3. Window("thisMonth", day) = [from |-> day, to |-> day + MonthLength]
  BY <1>2 DEF Window
<1>4. QED
  BY <1>1, <1>3

(* The facts of a month's window are the rows of the month.                   *)
LEMMA MonthFacts ==
    ASSUME LedgerInv, Dated(zone, transactions), NEW m \in DOMAIN months
    PROVE  Facts(Window("thisMonth", m * MonthLength)) = Booked(transactions, m)
<1>1. m \in Int
  BY DEF LedgerInv, LedgerBasis, FormBasis, BooksTyped, MonthsInv, GoodMonths
<1>2. PICK day \in Int : /\ day = m * MonthLength
                         /\ Window("thisMonth", day) = [from |-> day, to |-> day + MonthLength]
  BY <1>1, MonthWindow
<1>3. PICK window : window = Window("thisMonth", day)
  OBVIOUS
<1>4. window.from = day /\ window.to = day + MonthLength
  BY <1>2, <1>3
<1>5. zone \in Int
  BY ScenarioTypes DEF LedgerInv, LedgerBasis, FormBasis
<1>6. ASSUME NEW i \in DOMAIN transactions
      PROVE  transactions[i].month = m <=> /\ day <= transactions[i].at + zone
                                           /\ transactions[i].at + zone < day + MonthLength
  <2>1. transactions[i].at \in Int
    BY RowsOfMonths, RowFields
  <2>2. PICK a \in Int : a = transactions[i].at + zone
    BY <1>5, <2>1
  <2>3. a \div MonthLength = m <=> (day <= a /\ a < day + MonthLength)
    BY <1>1, <1>2, InBlock, TimeAssumption
  <2>4. MonthOf(transactions[i].at, zone) = transactions[i].month
    BY DEF Dated
  <2>5. MonthOf(transactions[i].at, zone) = a \div MonthLength
    BY <2>2 DEF MonthOf
  <2>6. QED
    BY <2>2, <2>3, <2>4, <2>5
<1>7. Facts(window) = Booked(transactions, m)
  BY <1>4, <1>6 DEF Facts, Booked
<1>8. QED
  BY <1>2, <1>3, <1>7

(* What is counted of a month, and in which currency                          *)
MonthShown(window, F, m, currency) ==
    Facts(window) = F /\ F = Booked(transactions, m) /\ currency = months[m].currency

LEMMA ProjectionIs ==
    ASSUME NEW window, NEW F, NEW m, NEW currency, MonthShown(window, F, m, currency)
    PROVE  Projection(m, window, currency) = MonthView(m)
<1>1. \A kind : /\ Sum(OfKindIn(F, kind), currency)
                       = Total(transactions, OfKind(transactions, m, kind), currency)
  BY DEF MonthShown, Sum, OfKindIn, OfKind
<1>2. PICK plan : plan = [c \in DOMAIN months[m].lines |-> months[m].lines[c].plan]
  OBVIOUS
<1>4. PICK spent : spent = [c \in DOMAIN months[m].lines |->
                               Rounded(Sum(OfCategory(F, c), currency))]
  OBVIOUS
<1>5. PICK income, expense, closing :
          /\ income = Rounded(Sum(OfKindIn(F, "income"), currency))
          /\ expense = Rounded(Sum(OfKindIn(F, "expense"), currency))
          /\ closing = Rounded(months[m].opening * Scale
                                   + Sum(OfKindIn(F, "income"), currency)
                                   - Sum(OfKindIn(F, "expense"), currency))
  OBVIOUS
<1>6. Projection(m, window, currency)
          = [income |-> income, expense |-> expense, closing |-> closing,
             plan |-> plan, spent |-> spent]
  BY <1>2, <1>4, <1>5 DEF Projection, MonthShown
<1>7. /\ income = Actual(months, transactions, m, "income")
      /\ expense = Actual(months, transactions, m, "expense")
      /\ closing = Closing(months, transactions, m)
  BY <1>1, <1>5 DEF Actual, Closing, MonthShown
<1>8. spent = [c \in DOMAIN months[m].lines |->
                  Rounded(Sum(OfCategory(Booked(transactions, m), c), months[m].currency))]
  BY <1>4 DEF MonthShown
<1>9. QED
  BY <1>2, <1>6, <1>7, <1>8 DEF MonthView

LEMMA BreakdownIs ==
    ASSUME NEW day, NEW F, NEW m, NEW currency, NEW kind,
           MonthShown(Window("thisMonth", day), F, m, currency)
    PROVE  LET b == Breakdown("thisMonth", day, kind, "month", currency)
           IN  /\ b.actual = Actual(months, transactions, m, kind)
               /\ DOMAIN b.categories = {transactions[i].cat : i \in OfKindIn(F, kind)}
               /\ \A c \in DOMAIN b.categories :
                     b.categories[c]
                         = Rounded(Sum(OfCategory(OfKindIn(F, kind), c), currency))
<1>1. Reported(Window("thisMonth", day), "thisMonth", "month", currency) = F
  BY DEF Reported, MonthShown
<1>2. PICK S : S = OfKindIn(F, kind)
  OBVIOUS
<1>3. PICK b : b = Breakdown("thisMonth", day, kind, "month", currency)
  OBVIOUS
<1>4. /\ b.actual = Rounded(Sum(S, currency))
      /\ b.categories = [c \in {transactions[i].cat : i \in S} |->
                            Rounded(Sum(OfCategory(S, c), currency))]
  BY <1>1, <1>2, <1>3 DEF Breakdown
<1>5. S = OfKind(transactions, m, kind)
  BY <1>2 DEF OfKindIn, OfKind, MonthShown
<1>6. b.actual = Actual(months, transactions, m, kind)
  BY <1>4, <1>5 DEF Actual, Sum, MonthShown
<1>7. QED
  BY <1>2, <1>3, <1>4, <1>6

(* A category's row is of the category's kind.                                *)
LEMMA RowsOfCategory ==
    ASSUME LedgerInv, Lined(months, transactions), NEW m \in DOMAIN months,
           NEW i \in Booked(transactions, m)
    PROVE  /\ transactions[i].kind \in {"income", "expense"}
           /\ transactions[i].cat \in DOMAIN months[m].lines \cup {NoCategory}
           /\ transactions[i].cat # NoCategory => transactions[i].kind = KindOf(transactions[i].cat)
<1>1. i \in DOMAIN transactions /\ transactions[i].month = m
  BY DEF Booked
<1>2. transactions[i].kind \in {"income", "expense"}
  BY <1>1, RowsOfMonths, RowFields
<1>3. QED
  BY <1>1, <1>2 DEF Lined

LEMMA NoLineOfNone ==
    ASSUME LedgerInv, NEW m \in DOMAIN months
    PROVE  NoCategory \notin DOMAIN months[m].lines
<1>1. GoodMonth(stable, months[m])
  BY DEF LedgerInv, LedgerBasis, FormBasis, BooksTyped, MonthsInv, GoodMonths
<1>2. GoodLines(stable, months[m].lines)
  BY <1>1, GoodMonthIs
<1>3. QED
  BY <1>2, NameAssumption DEF GoodLines

(* What a breakdown shows of a category is what the month shows of it.        *)
LEMMA BreakdownAgrees ==
    ASSUME LedgerInv, Lined(months, transactions), NEW day, NEW F, NEW m \in DOMAIN months,
           NEW currency, MonthShown(Window("thisMonth", day), F, m, currency), NEW kind,
           NEW b, b = Breakdown("thisMonth", day, kind, "month", currency)
    PROVE  /\ \A c \in DOMAIN months[m].lines \cap DOMAIN b.categories :
                 b.categories[c] = MonthView(m).spent[c]
           /\ DOMAIN b.categories \subseteq DOMAIN months[m].lines \cup {NoCategory}
<1>1. /\ DOMAIN b.categories = {transactions[i].cat : i \in OfKindIn(F, kind)}
      /\ \A c \in DOMAIN b.categories :
            b.categories[c] = Rounded(Sum(OfCategory(OfKindIn(F, kind), c), currency))
  BY BreakdownIs
<1>2. F = Booked(transactions, m) /\ currency = months[m].currency
  BY DEF MonthShown
<1>3. \A i \in F : /\ transactions[i].cat \in DOMAIN months[m].lines \cup {NoCategory}
                   /\ transactions[i].cat # NoCategory =>
                          transactions[i].kind = KindOf(transactions[i].cat)
  BY <1>2, RowsOfCategory
<1>4. ASSUME NEW c \in DOMAIN months[m].lines, c \in DOMAIN b.categories
      PROVE  b.categories[c] = MonthView(m).spent[c]
  <2>1. c # NoCategory
    BY NoLineOfNone
  <2>2. PICK j \in F : transactions[j].cat = c /\ transactions[j].kind = kind
    BY <1>1, <1>4 DEF OfKindIn
  <2>3. kind = KindOf(c)
    BY <1>3, <2>1, <2>2
  <2>4. OfCategory(OfKindIn(F, kind), c) = OfCategory(F, c)
    BY <1>3, <2>1, <2>3 DEF OfCategory, OfKindIn
  <2>5. MonthView(m).spent[c] = Rounded(Sum(OfCategory(F, c), currency))
    BY <1>2, <1>4 DEF MonthView
  <2>6. QED
    BY <1>1, <1>4, <2>4, <2>5
<1>5. DOMAIN b.categories \subseteq DOMAIN months[m].lines \cup {NoCategory}
  BY <1>1, <1>3 DEF OfKindIn
<1>6. QED
  BY <1>4, <1>5

(* What the month has spent in a category is broken down under its kind.      *)
LEMMA SpentShown ==
    ASSUME LedgerInv, Lined(months, transactions), NEW day, NEW F, NEW m \in DOMAIN months,
           NEW currency, MonthShown(Window("thisMonth", day), F, m, currency),
           NEW c \in DOMAIN months[m].lines, MonthView(m).spent[c] # 0
    PROVE  \E kind \in {"income", "expense"} :
               c \in DOMAIN Breakdown("thisMonth", day, kind, "month", currency).categories
<1>1. F = Booked(transactions, m) /\ currency = months[m].currency
  BY DEF MonthShown
<1>2. MonthView(m).spent[c] = Rounded(Sum(OfCategory(F, c), currency))
  BY <1>1 DEF MonthView
<1>3. OfCategory(F, c) # {}
  <2>1. SUFFICES ASSUME OfCategory(F, c) = {} PROVE FALSE
    OBVIOUS
  <2>2. Sum(OfCategory(F, c), currency) = 0
    BY <2>1, TotalNone DEF Sum
  <2>3. QED
    BY <1>2, <2>2, RoundedZero
<1>4. PICK i \in F : transactions[i].cat = c
  BY <1>3 DEF OfCategory
<1>5. PICK kind \in {"income", "expense"} : transactions[i].kind = kind
  BY <1>1, RowsOfCategory
<1>6. PICK b : b = Breakdown("thisMonth", day, kind, "month", currency)
  OBVIOUS
<1>7. DOMAIN b.categories = {transactions[k].cat : k \in OfKindIn(F, kind)}
  BY <1>6, BreakdownIs
<1>8. c \in DOMAIN b.categories
  BY <1>4, <1>5, <1>7 DEF OfKindIn
<1>9. QED
  BY <1>6, <1>8

LEMMA ReportIs ==
    ASSUME NEW day, NEW F, NEW m, NEW currency,
           MonthShown(Window("thisMonth", day), F, m, currency),
           NEW report, report = Report("thisMonth", day, m, "month", currency)
    PROVE  /\ report.income = Breakdown("thisMonth", day, "income", "month", currency)
           /\ report.expense = Breakdown("thisMonth", day, "expense", "month", currency)
           /\ report.net = Actual(months, transactions, m, "income")
                               - Actual(months, transactions, m, "expense")
           /\ report.monthly = {MonthView(m)}
<1>1. PICK window : window = Window("thisMonth", day)
  OBVIOUS
<1>2. PICK income, expense :
          /\ income = Breakdown("thisMonth", day, "income", "month", currency)
          /\ expense = Breakdown("thisMonth", day, "expense", "month", currency)
  OBVIOUS
<1>4. PICK none : none = [kind \in {"income", "expense"} |->
              Rounded(Sum(OfKindIn(OfCategory(Reported(window, "thisMonth", "month", currency),
                                              NoCategory), kind), currency))]
  OBVIOUS
<1>5. Report("thisMonth", day, m, "month", currency)
          = [income |-> income, expense |-> expense, net |-> income.actual - expense.actual,
             uncategorized |-> none, monthly |-> {Projection(m, window, currency)}]
  BY <1>1, <1>2, <1>4 DEF Report
<1>6. /\ income.actual = Actual(months, transactions, m, "income")
      /\ expense.actual = Actual(months, transactions, m, "expense")
  BY <1>2, BreakdownIs
<1>7. Projection(m, window, currency) = MonthView(m)
  BY <1>1, ProjectionIs
<1>8. QED
  BY <1>2, <1>5, <1>6, <1>7

LEMMA ProjectionHolds ==
    ASSUME LedgerInv, PlacedInv
    PROVE  ProjectionAgrees
<1>1. SUFFICES ASSUME Dated(zone, transactions), NEW m \in DOMAIN months
               PROVE  LET day == m * MonthLength
                          view == MonthView(m)
                          report == Report("thisMonth", day, m, "month", months[m].currency)
                          Shares(b) == [c \in DOMAIN view.spent \cap DOMAIN b.categories |->
                                           b.categories[c]]
                      IN  /\ report.monthly = {view}
                          /\ report.net = view.income - view.expense
                          /\ \A b \in {report.income, report.expense} :
                                /\ \A c \in DOMAIN Shares(b) : b.categories[c] = view.spent[c]
                                /\ DOMAIN b.categories \subseteq DOMAIN view.spent \cup {NoCategory}
                          /\ \A c \in DOMAIN view.spent :
                                view.spent[c] # 0 => c \in DOMAIN report.income.categories
                                                            \cup DOMAIN report.expense.categories
  BY DEF ProjectionAgrees, PlacedInv
<1>2. Lined(months, transactions)
  BY DEF PlacedInv
<1>3. PICK day : day = m * MonthLength
  OBVIOUS
<1>4. PICK currency : currency = months[m].currency
  OBVIOUS
<1>5. PICK F : F = Booked(transactions, m)
  OBVIOUS
<1>6. MonthShown(Window("thisMonth", day), F, m, currency)
  BY <1>1, <1>3, <1>4, <1>5, MonthFacts DEF MonthShown
<1>7. PICK report : report = Report("thisMonth", day, m, "month", currency)
  OBVIOUS
<1>8. PICK view : view = MonthView(m)
  OBVIOUS
<1>9. PICK income, expense :
          /\ income = Breakdown("thisMonth", day, "income", "month", currency)
          /\ expense = Breakdown("thisMonth", day, "expense", "month", currency)
  OBVIOUS
<1>10. /\ view.income = Actual(months, transactions, m, "income")
       /\ view.expense = Actual(months, transactions, m, "expense")
       /\ DOMAIN view.spent = DOMAIN months[m].lines
  BY <1>8 DEF MonthView
<1>11. /\ report.monthly = {view} /\ report.net = view.income - view.expense
       /\ report.income = income /\ report.expense = expense
  BY <1>6, <1>7, <1>8, <1>9, <1>10, ReportIs
<1>12. \A b \in {income, expense} :
          /\ \A c \in DOMAIN view.spent \cap DOMAIN b.categories : b.categories[c] = view.spent[c]
          /\ DOMAIN b.categories \subseteq DOMAIN view.spent \cup {NoCategory}
  <2>1. ASSUME NEW kind, NEW b, b = Breakdown("thisMonth", day, kind, "month", currency)
        PROVE  /\ \A c \in DOMAIN months[m].lines \cap DOMAIN b.categories :
                     b.categories[c] = MonthView(m).spent[c]
               /\ DOMAIN b.categories \subseteq DOMAIN months[m].lines \cup {NoCategory}
    BY <1>1, <1>2, <1>6, <2>1, BreakdownAgrees
  <2>2. QED
    BY <1>8, <1>9, <1>10, <2>1
<1>13. \A c \in DOMAIN view.spent :
          view.spent[c] # 0 => c \in DOMAIN income.categories \cup DOMAIN expense.categories
  BY <1>1, <1>2, <1>6, <1>8, <1>9, <1>10, SpentShown
<1>14. QED
  BY <1>3, <1>4, <1>7, <1>8, <1>11, <1>12, <1>13

-----------------------------------------------------------------------------
(* Reports by currency *)

(* The month of a fact begins before the end of the fact's window, and not    *)
(* before the month in which the previous window begins.                      *)
LEMMA MonthOfFact ==
    ASSUME LedgerInv, Dated(zone, transactions), NEW period \in Periods,
           NEW i \in Facts(Window(period, Today)), NEW m, m = transactions[i].month
    PROVE  /\ m \in DOMAIN months
           /\ MonthOf(PreviousWindow(period, Today).from, 0) <= m
           /\ m * MonthLength < Window(period, Today).to
<1>1. i \in DOMAIN transactions /\ transactions[i] \in Rows
  BY RowsOfMonths DEF Facts
<1>2. m \in DOMAIN months /\ transactions[i].at \in Int
  BY <1>1, RowFields
<1>3. zone \in Int /\ Today \in Int
  BY ScenarioTypes, TodayType DEF LedgerInv, LedgerBasis, FormBasis
<1>4. PICK window : window = Window(period, Today)
  OBVIOUS
<1>5. PICK from \in Int, to \in Int : from = window.from /\ to = window.to /\ from < to
  <2>1. /\ window.from \in Int /\ window.to \in Int
        /\ window.from <= Today /\ Today < window.to
    BY <1>3, <1>4, WindowTypes
  <2>2. QED
    BY <1>3, <2>1
<1>6. PICK a \in Int : a = transactions[i].at + zone
  BY <1>2, <1>3
<1>7. from <= a /\ a < to
  BY <1>4, <1>5, <1>6 DEF Facts
<1>8. m = a \div MonthLength
  BY <1>1, <1>6 DEF Dated, MonthOf
<1>9. PICK first \in Int : first = PreviousWindow(period, Today).from /\ first <= a
  <2>1. PreviousWindow(period, Today).from = from - (to - from)
    BY <1>4, <1>5 DEF PreviousWindow
  <2>2. from - (to - from) \in Int /\ from - (to - from) <= a
    BY <1>5, <1>7
  <2>3. QED
    BY <2>1, <2>2
<1>10. MonthOf(first, 0) = first \div MonthLength
  <2>1. first + 0 = first
    OBVIOUS
  <2>2. QED
    BY <2>1 DEF MonthOf
<1>11. first \div MonthLength <= m
  BY <1>8, <1>9, DivideMonotone, TimeAssumption
<1>12. m * MonthLength < to
  <2>1. PICK q \in Int : q = a \div MonthLength
    BY Multiples, TimeAssumption
  <2>2. q * MonthLength <= a /\ q * MonthLength \in Int
    BY <2>1, Multiples, TimeAssumption
  <2>3. QED
    BY <1>5, <1>7, <1>8, <2>1, <2>2
<1>13. QED
  BY <1>2, <1>4, <1>5, <1>9, <1>10, <1>11, <1>12

LEMMA CompleteHolds ==
    ASSUME LedgerInv, PlacedInv
    PROVE  ReportsComplete
<1>1. SUFFICES ASSUME NEW period \in Periods \ {"thisMonth"}, Dated(zone, transactions),
                      NEW i \in Facts(Window(period, Today))
               PROVE  /\ \E currency \in ReportedCurrencies(period, Today, CurrentMonth, "month") :
                            i \in Reported(Window(period, Today), period, "month", currency)
                      /\ transactions[i].cat = NoCategory \/ Named(i, Window(period, Today))
  BY DEF ReportsComplete, PlacedInv
<1>2. PICK m : m = transactions[i].month
  OBVIOUS
<1>3. PICK window : window = Window(period, Today)
  OBVIOUS
<1>4. /\ m \in DOMAIN months
      /\ MonthOf(PreviousWindow(period, Today).from, 0) <= m
      /\ m * MonthLength < window.to
  BY <1>1, <1>2, <1>3, MonthOfFact
<1>5. PICK currency : currency = months[m].currency
  OBVIOUS
<1>6. currency \in ReportedCurrencies(period, Today, CurrentMonth, "month")
  BY <1>1, <1>3, <1>4, <1>5 DEF ReportedCurrencies
<1>7. i \in Reported(window, period, "month", currency)
  BY <1>1, <1>2, <1>3, <1>5 DEF Reported
<1>8. transactions[i].cat = NoCategory \/ Named(i, window)
  <2>1. i \in DOMAIN transactions
    BY <1>1 DEF Facts
  <2>2. transactions[i].cat # NoCategory => transactions[i].cat \in DOMAIN months[m].lines
    BY <1>2, <2>1 DEF PlacedInv, Lined
  <2>3. QED
    BY <1>4, <2>2 DEF Named
<1>9. QED
  BY <1>3, <1>6, <1>7, <1>8

(* The statistics agree with the books: the report of a month, which goes by  *)
(* the time of the rows, shows what the month shows, which goes by theirs;    *)
(* no fact falls between the reports of its currencies; periods meet, and the *)
(* points of a timeline tile its window.                                      *)
THEOREM BooksAgreeCorrect == EntrySpec => []BooksAgree
<1>1. EntryInit => PlacedInv
  BY PlacedInit
<1>2. LedgerInv /\ PlacedInv /\ [EntryNext]_allVars => PlacedInv'
  BY EntryStepsBooks, PlacedKept DEF LedgerInv
<1>3. LedgerInv /\ PlacedInv /\ LedgerConsistent => BooksAgree
  <2>1. LedgerInv => TimeInv
    BY DEF LedgerInv, LedgerBasis, FormBasis
  <2>2. QED
    BY <2>1, ProjectionHolds, CompleteHolds, PreviousHolds, TilesHold DEF BooksAgree
<1>4. QED
  BY <1>1, <1>2, <1>3, BooksTypedCorrect, LedgerConsistentCorrect, PTL DEF EntrySpec
=============================================================================
