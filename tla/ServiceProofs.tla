----------------------------- MODULE ServiceProofs -----------------------------
(***************************************************************************)
(* Proofs about the worker's use of services that may be slow, refuse or   *)
(* change under it.  GeminiCircuit's breaker, for any calls, models,       *)
(* chains and threshold.  XeroPull's pages, for any ledger, page size and  *)
(* number of edits.  And what WorkflowRules makes of those pages: the      *)
(* chase-up's customers and the pay run's bank file, for any ledger, bank  *)
(* details and parameters.  The last rests on lemmas about sums and orders *)
(* (Places), the chase-up's rows (ChaseUp) and the payments (PayRun),      *)
(* which come first; the breaker shares nothing with the rest.             *)
(***************************************************************************)
EXTENDS GeminiCircuit, WorkflowRules, SequenceTheorems, FiniteSetTheorems,
        FunctionTheorems, NaturalsInduction, TLAPS

(***************************************************************************)
(*                                                                         *)
(*                     Sums, and lists put in an order                     *)
(*                                                                         *)
(***************************************************************************)

\* Some numbers have a least one.
LEMMA Least ==
    ASSUME NEW S, S \subseteq Nat, S # {}
    PROVE  \E x \in S : \A y \in S : x <= y
<1> DEFINE Less == {ss \in Nat \X Nat : ss[1] < ss[2]}
<1>1. IsWellFoundedOn(Less, Nat)
    BY NatLessThanWellFounded DEF OpToRel
<1>2. \E x \in S : \A y \in S : <<y, x>> \notin Less
  <2> HIDE DEF Less
  <2> QED
      BY <1>1, WFMin
<1>3. \A x, y \in Nat : <<y, x>> \notin Less => x <= y
  <2> SUFFICES ASSUME NEW x \in Nat, NEW y \in Nat, y < x
               PROVE  <<y, x>> \in Less
      OBVIOUS
  <2>1. <<y, x>> \in Nat \X Nat /\ <<y, x>>[1] < <<y, x>>[2]
      OBVIOUS
  <2> QED
      BY <2>1
<1> HIDE DEF Less
<1> QED
    BY <1>2, <1>3

\* Induction over the numbers, and over a finite set's subsets, for a set.
LEMMA NumberInduction ==
    ASSUME NEW P, 0 \in P, \A n \in Nat : n \in P => n + 1 \in P
    PROVE  Nat \subseteq P
<1> SUFFICES ASSUME Nat \ P # {} PROVE FALSE
    OBVIOUS
<1>1. PICK x \in Nat \ P : \A y \in Nat \ P : x <= y
    BY Least
<1>2. x - 1 \in Nat /\ (x - 1) + 1 = x /\ ~(x <= x - 1)
    OBVIOUS
<1> QED
    BY <1>1, <1>2

LEMMA SubsetInduction ==
    ASSUME NEW D, IsFiniteSet(D), NEW P, {} \in P,
           \A U \in SUBSET D : U # {} /\ (\A x \in U : U \ {x} \in P) => U \in P
    PROVE  SUBSET D \subseteq P
<1> DEFINE N == {n \in Nat : \A U \in SUBSET D : Cardinality(U) = n => U \in P}
<1>1. \A U \in SUBSET D : IsFiniteSet(U) /\ Cardinality(U) \in Nat
    BY FS_Subset, FS_CardinalityType
<1>2. 0 \in N
    BY <1>1, FS_EmptySet
<1>3. ASSUME NEW n \in Nat, n \in N
      PROVE  n + 1 \in N
  <2> SUFFICES ASSUME NEW U \in SUBSET D, Cardinality(U) = n + 1
               PROVE  U \in P
      OBVIOUS
  <2>1. U # {}
      BY FS_EmptySet
  <2>2. \A x \in U : U \ {x} \in SUBSET D /\ Cardinality(U \ {x}) = n
      BY <1>1, FS_RemoveElement
  <2>3. \A x \in U : U \ {x} \in P
      BY <1>3, <2>2
  <2> QED
      BY <2>1, <2>3
<1> HIDE DEF N
<1>4. Nat \subseteq N
    BY <1>2, <1>3, NumberInduction
<1> QED
    BY <1>1, <1>4 DEF N

\* The recursive function that Sum is defined by exists.
SumsOf(value, D, sum) ==
    /\ sum \in [SUBSET D -> Int]
    /\ sum[{}] = 0
    /\ \A U \in SUBSET D : U # {} =>
          sum[U] = value[CHOOSE n \in U : TRUE] + sum[U \ {CHOOSE n \in U : TRUE}]

LEMMA SumsExist ==
    ASSUME NEW D, IsFiniteSet(D), NEW value \in [D -> Int]
    PROVE  \E sum : SumsOf(value, D, sum)
<1> DEFINE Small(n) == {U \in SUBSET D : Cardinality(U) <= n}
           Adds(sum, U) == IF U = {} THEN 0
                           ELSE value[CHOOSE n \in U : TRUE]
                                + sum[U \ {CHOOSE n \in U : TRUE}]
           N == {n \in Nat : \E sum \in [Small(n) -> Int] :
                                \A U \in Small(n) : sum[U] = Adds(sum, U)}
<1>1. \A U \in SUBSET D : IsFiniteSet(U) /\ Cardinality(U) \in Nat
    BY FS_Subset, FS_CardinalityType
<1>2. Small(0) = {{}}
    BY <1>1, FS_EmptySet
<1>3. 0 \in N
  <2> DEFINE sum == [U \in Small(0) |-> 0]
  <2>1. sum \in [Small(0) -> Int] /\ \A U \in Small(0) : sum[U] = Adds(sum, U)
      BY <1>2
  <2> QED
      BY <2>1
<1>4. \A U \in SUBSET D : U # {} =>
         /\ (CHOOSE n \in U : TRUE) \in U
         /\ value[CHOOSE n \in U : TRUE] \in Int
    OBVIOUS
<1>5. ASSUME NEW k \in Nat, k \in N
      PROVE  k + 1 \in N
  <2> DEFINE c(U) == CHOOSE n \in U : TRUE
  <2>1. PICK old \in [Small(k) -> Int] : \A U \in Small(k) : old[U] = Adds(old, U)
      BY <1>5
  <2>2. \A U \in Small(k + 1) : U # {} => U \ {c(U)} \in Small(k)
    <3> SUFFICES ASSUME NEW U \in Small(k + 1), U # {}
                 PROVE  U \ {c(U)} \in Small(k)
        OBVIOUS
    <3>1. c(U) \in U
        BY <1>4
    <3> HIDE DEF c
    <3>2. Cardinality(U \ {c(U)}) = Cardinality(U) - 1
        BY <1>1, <3>1, FS_RemoveElement
    <3> QED
        BY <1>1, <3>2
  <2> DEFINE sum == [U \in Small(k + 1) |-> Adds(old, U)]
  <2>3. Small(k) \subseteq Small(k + 1)
      BY <1>1
  <2>4. sum \in [Small(k + 1) -> Int]
    <3>1. ASSUME NEW U \in Small(k + 1)
          PROVE  Adds(old, U) \in Int
      <4>1. U # {} => old[U \ {c(U)}] \in Int /\ value[c(U)] \in Int
          BY <1>4, <2>2
      <4> HIDE DEF Small
      <4> QED
          BY <4>1
    <3> QED
        BY <3>1
  <2>5. \A U \in Small(k) : sum[U] = old[U]
      BY <2>1, <2>3
  <2>6. ASSUME NEW U \in Small(k + 1)
        PROVE  sum[U] = Adds(sum, U)
    <3>1. sum[U] = Adds(old, U)
        OBVIOUS
    <3>2. U # {} => sum[U \ {c(U)}] = old[U \ {c(U)}]
        BY <2>2, <2>5
    <3> HIDE DEF sum, Small
    <3> QED
        BY <3>1, <3>2
  <2>7. \E s \in [Small(k + 1) -> Int] :
          \A U \in Small(k + 1) : s[U] = Adds(s, U)
    <3> HIDE DEF sum, Small, c
    <3> WITNESS sum \in [Small(k + 1) -> Int]
    <3> QED
        BY <2>6
  <2>8. k + 1 \in Nat
      OBVIOUS
  <2> HIDE DEF Small, Adds
  <2> QED
      BY <2>7, <2>8
<1> HIDE DEF N
<1>6. Nat \subseteq N
    BY <1>3, <1>5, NumberInduction
<1>7. Cardinality(D) \in N
    BY <1>1, <1>6
<1>8. Small(Cardinality(D)) = SUBSET D
    BY <1>1, FS_Subset
<1>9. PICK sum \in [SUBSET D -> Int] : \A U \in SUBSET D : sum[U] = Adds(sum, U)
  <2> HIDE DEF Small
  <2> QED
      BY <1>7, <1>8 DEF N
<1>10. SumsOf(value, D, sum)
    BY <1>9 DEF SumsOf
<1> QED
    BY <1>10

LEMMA SumIsLast ==
    ASSUME NEW D, IsFiniteSet(D), NEW value \in [D -> Int],
           NEW sums, SumsOf(value, D, sums)
    PROVE  Sum(value) = sums[D]
<1> DEFINE Goes(f) == f = [S \in SUBSET D |->
                              IF S = {} THEN 0
                              ELSE LET n == CHOOSE n \in S : TRUE
                                   IN value[n] + f[S \ {n}]]
           all == CHOOSE f : Goes(f)
           P == {U \in SUBSET D : all[U] = sums[U]}
<1>1. sums \in [SUBSET D -> Int]
    BY DEF SumsOf
<1>2. ASSUME NEW U \in SUBSET D
      PROVE  sums[U] = IF U = {} THEN 0
                       ELSE LET n == CHOOSE n \in U : TRUE
                            IN value[n] + sums[U \ {n}]
    BY DEF SumsOf
<1>3. Goes(sums)
    BY <1>1, <1>2
<1>4. Goes(all)
  <2> HIDE DEF Goes
  <2> QED
      BY <1>3
<1>5. Sum(value) = all[D]
  <2>1. DOMAIN value = D
      OBVIOUS
  <2> QED
      BY <2>1 DEF Sum
<1> HIDE DEF all
<1>6. {} \in P
    BY <1>4 DEF SumsOf
<1>7. ASSUME NEW U \in SUBSET D, U # {}, \A x \in U : U \ {x} \in P
      PROVE  U \in P
  <2> DEFINE n == CHOOSE n \in U : TRUE
  <2>1. n \in U
      BY <1>7
  <2>2. all[U] = value[n] + all[U \ {n}]
      BY <1>4, <1>7
  <2>3. sums[U] = value[n] + sums[U \ {n}]
      BY <1>2, <1>7
  <2>4. all[U \ {n}] = sums[U \ {n}]
      BY <1>7, <2>1
  <2> HIDE DEF n
  <2> QED
      BY <2>2, <2>3, <2>4
<1> HIDE DEF P
<1>8. SUBSET D \subseteq P
    BY <1>6, <1>7, SubsetInduction
<1> QED
    BY <1>5, <1>8 DEF P

\* A part of the values has the same sums.
LEMMA SumsAgree ==
    ASSUME NEW D, IsFiniteSet(D), NEW value \in [D -> Int], NEW sums,
           SumsOf(value, D, sums), NEW E \in SUBSET D,
           NEW part \in [E -> Int], \A n \in E : part[n] = value[n]
    PROVE  Sum(part) = sums[E]
<1>1. IsFiniteSet(E)
    BY FS_Subset
<1>2. PICK few : SumsOf(part, E, few)
    BY <1>1, SumsExist
<1>3. Sum(part) = few[E]
    BY <1>1, <1>2, SumIsLast
<1> DEFINE P == {U \in SUBSET E : few[U] = sums[U]}
<1>4. {} \in P
    BY <1>2 DEF SumsOf
<1>5. ASSUME NEW U \in SUBSET E, U # {}, \A x \in U : U \ {x} \in P
      PROVE  U \in P
  <2> DEFINE n == CHOOSE n \in U : TRUE
  <2>1. n \in U
      BY <1>5
  <2>2. few[U] = part[n] + few[U \ {n}]
      BY <1>2, <1>5 DEF SumsOf
  <2>3. sums[U] = value[n] + sums[U \ {n}]
      BY <1>5 DEF SumsOf
  <2> HIDE DEF n
  <2>4. few[U \ {n}] = sums[U \ {n}] /\ part[n] = value[n]
      BY <1>5, <2>1
  <2> QED
      BY <2>2, <2>3, <2>4
<1> HIDE DEF P
<1>6. SUBSET E \subseteq P
    BY <1>1, <1>4, <1>5, SubsetInduction
<1> QED
    BY <1>3, <1>6 DEF P

\* Nothing adds up to nothing, and a sum is any of its values and the rest's.
LEMMA SumEmpty == ASSUME NEW value \in [{} -> Int] PROVE Sum(value) = 0
<1>1. IsFiniteSet({})
    BY FS_EmptySet
<1>2. PICK sums : SumsOf(value, {}, sums)
    BY <1>1, SumsExist
<1> QED
  <2>1. Sum(value) = sums[{}]
      BY <1>1, <1>2, SumIsLast
  <2> QED
      BY <1>2, <2>1 DEF SumsOf

LEMMA SumTakes ==
    ASSUME NEW D, IsFiniteSet(D), NEW value \in [D -> Int], NEW x \in D,
           NEW rest \in [D \ {x} -> Int], \A n \in D \ {x} : rest[n] = value[n]
    PROVE  Sum(value) = value[x] + Sum(rest)
<1>1. PICK sums : SumsOf(value, D, sums)
    BY SumsExist
<1>2. Sum(value) = sums[D] /\ sums \in [SUBSET D -> Int]
  <2>1. Sum(value) = sums[D]
      BY <1>1, SumIsLast
  <2>2. sums \in [SUBSET D -> Int]
      BY <1>1 DEF SumsOf
  <2> QED
      BY <2>1, <2>2
<1>3. Sum(rest) = sums[D \ {x}]
    BY <1>1, SumsAgree
<1> DEFINE P == {U \in SUBSET D : \A y \in U : sums[U] = value[y] + sums[U \ {y}]}
<1>4. {} \in P
    OBVIOUS
<1>5. ASSUME NEW U \in SUBSET D, U # {}, \A y \in U : U \ {y} \in P
      PROVE  U \in P
  <2> SUFFICES ASSUME NEW y \in U PROVE sums[U] = value[y] + sums[U \ {y}]
      OBVIOUS
  <2> DEFINE n == CHOOSE n \in U : TRUE
  <2>1. n \in U
      BY <1>5
  <2>2. sums[U] = value[n] + sums[U \ {n}]
      BY <1>1, <1>5 DEF SumsOf
  <2> HIDE DEF n
  <2>3. CASE n = y
      BY <2>2, <2>3
  <2>4. CASE n # y
    <3>1. sums[U \ {n}] = value[y] + sums[(U \ {n}) \ {y}]
        BY <1>5, <2>1, <2>4
    <3>2. sums[U \ {y}] = value[n] + sums[(U \ {y}) \ {n}]
        BY <1>5, <2>1, <2>4
    <3>3. (U \ {n}) \ {y} = (U \ {y}) \ {n} /\ (U \ {n}) \ {y} \in SUBSET D
        OBVIOUS
    <3>4. value[y] \in Int /\ value[n] \in Int /\ sums[(U \ {n}) \ {y}] \in Int
        BY <1>2, <2>1, <3>3
    <3> DEFINE both == sums[(U \ {n}) \ {y}]
    <3>5. sums[U \ {n}] = value[y] + both /\ sums[U \ {y}] = value[n] + both
        BY <3>1, <3>2, <3>3
    <3> HIDE DEF both
    <3>6. both \in Int
        BY <3>4 DEF both
    <3> QED
        BY <2>2, <3>4, <3>5, <3>6
  <2> QED
      BY <2>3, <2>4
<1> HIDE DEF P
<1>6. D \in P
    BY <1>4, <1>5, SubsetInduction
<1> QED
    BY <1>2, <1>3, <1>6 DEF P

LEMMA SumType ==
    ASSUME NEW D, IsFiniteSet(D), NEW value \in [D -> Int]
    PROVE  Sum(value) \in Int
<1>1. PICK sums : SumsOf(value, D, sums)
    BY SumsExist
<1>2. Sum(value) = sums[D]
    BY <1>1, SumIsLast
<1> QED
    BY <1>1, <1>2 DEF SumsOf

\* A sum in other places: each value of the one, once, is a value of the other.
LEMMA SumMoves ==
    ASSUME NEW D, IsFiniteSet(D), NEW value, value \in [D -> Int],
           NEW E, IsFiniteSet(E), NEW f, f \in [E -> D],
           \A k, l \in E : f[k] = f[l] => k = l,
           \A n \in D : \E k \in E : f[k] = n
    PROVE  Sum([k \in E |-> value[f[k]]]) = Sum(value)
<1> DEFINE image(U) == {f[k] : k \in U}
           moved(U) == [k \in U |-> value[f[k]]]
           kept(U) == [n \in image(U) |-> value[n]]
           P == {U \in SUBSET E : Sum(moved(U)) = Sum(kept(U))}
<1>1. {} \in P
  <2>1. moved({}) \in [{} -> Int] /\ kept({}) \in [{} -> Int]
      OBVIOUS
  <2>2. Sum(moved({})) = 0 /\ Sum(kept({})) = 0
    <3> HIDE DEF moved, kept
    <3> QED
        BY <2>1, SumEmpty
  <2> QED
      BY <2>2
<1>2. ASSUME NEW U \in SUBSET E, U # {}, \A x \in U : U \ {x} \in P
      PROVE  U \in P
  <2>1. PICK x \in U : TRUE
      BY <1>2
  <2>2. moved(U) \in [U -> Int] /\ IsFiniteSet(U) /\ x \in U
      BY FS_Subset
  <2>3. kept(U) \in [image(U) -> Int] /\ IsFiniteSet(image(U)) /\ f[x] \in image(U)
    <3>1. image(U) \in SUBSET D
        OBVIOUS
    <3> QED
        BY <3>1, FS_Subset
  <2>4. /\ moved(U \ {x}) \in [U \ {x} -> Int]
        /\ \A k \in U \ {x} : moved(U \ {x})[k] = moved(U)[k]
      OBVIOUS
  <2>5. image(U) \ {f[x]} = image(U \ {x})
      OBVIOUS
  <2>6. /\ kept(U \ {x}) \in [image(U) \ {f[x]} -> Int]
        /\ \A n \in image(U) \ {f[x]} : kept(U \ {x})[n] = kept(U)[n]
    <3>1. \A n \in image(U \ {x}) : n \in image(U)
        OBVIOUS
    <3>2. kept(U \ {x}) \in [image(U \ {x}) -> Int]
        OBVIOUS
    <3>3. \A n \in image(U \ {x}) : kept(U \ {x})[n] = kept(U)[n]
      <4> HIDE DEF image
      <4> QED
          BY <3>1
    <3> HIDE DEF image, kept
    <3> QED
        BY <2>5, <3>2, <3>3
  <2>7. Sum(moved(U)) = moved(U)[x] + Sum(moved(U \ {x}))
    <3> HIDE DEF moved
    <3> QED
        BY ONLY <2>2, <2>4, SumTakes
  <2>8. Sum(kept(U)) = kept(U)[f[x]] + Sum(kept(U \ {x}))
    <3> HIDE DEF kept, image
    <3> SUFFICES ASSUME NEW y, y = f[x], NEW A, A = image(U), NEW g, g = kept(U),
                        NEW rest, rest = kept(U \ {x})
                 PROVE  Sum(g) = g[y] + Sum(rest)
        OBVIOUS
    <3>1. /\ g \in [A -> Int] /\ IsFiniteSet(A) /\ y \in A
          /\ rest \in [A \ {y} -> Int]
          /\ \A n \in A \ {y} : rest[n] = g[n]
        BY <2>3, <2>6
    <3> QED
        BY ONLY <3>1, SumTakes
  <2>9. moved(U)[x] = value[f[x]] /\ kept(U)[f[x]] = value[f[x]]
    <3>1. moved(U)[x] = value[f[x]]
        OBVIOUS
    <3> HIDE DEF image
    <3> QED
        BY <2>3, <3>1
  <2>10. Sum(moved(U \ {x})) = Sum(kept(U \ {x}))
      BY <1>2
  <2> HIDE DEF moved, kept, image
  <2> QED
      BY <2>7, <2>8, <2>9, <2>10
<1> HIDE DEF P
<1>3. E \in P
    BY <1>1, <1>2, SubsetInduction
<1>4. image(E) = D /\ kept(E) = value
    OBVIOUS
<1> QED
    BY <1>3, <1>4 DEF P

\* Listed gives each of the set's elements, once, in the order.
IsOrder(order, S) ==
    /\ \A m \in S : <<m, m>> \notin order
    /\ \A l, m, n \in S : <<l, m>> \in order /\ <<m, n>> \in order => <<l, n>> \in order
    /\ \A m, n \in S : m # n => <<m, n>> \in order \/ <<n, m>> \in order

LEMMA Listing ==
    ASSUME NEW S, IsFiniteSet(S), NEW order, IsOrder(order, S)
    PROVE  /\ Cardinality(S) \in Nat
           /\ Listed(S, order) \in [1..Cardinality(S) -> S]
           /\ \A i, j \in 1..Cardinality(S) :
                 i < j => <<Listed(S, order)[i], Listed(S, order)[j]>> \in order
           /\ \A i, j \in 1..Cardinality(S) :
                 Listed(S, order)[i] = Listed(S, order)[j] => i = j
           /\ \A n \in S : \E k \in 1..Cardinality(S) : Listed(S, order)[k] = n
<1> DEFINE earlier(n) == {m \in S : <<m, n>> \in order}
           rank == [n \in S |-> Cardinality(earlier(n))]
           N == Cardinality(S)
<1>1. N \in Nat
    BY FS_CardinalityType
<1>2. ASSUME NEW n \in S
      PROVE  rank[n] \in 0..N - 1
  <2>1. earlier(n) \in SUBSET S /\ earlier(n) # S
      BY DEF IsOrder
  <2>2. /\ IsFiniteSet(earlier(n)) /\ Cardinality(earlier(n)) <= Cardinality(S)
        /\ Cardinality(S) = Cardinality(earlier(n)) => S = earlier(n)
    <3> HIDE DEF earlier
    <3> QED
        BY <2>1, FS_Subset
  <2>3. Cardinality(earlier(n)) \in Nat
    <3> HIDE DEF earlier
    <3> QED
        BY <2>2, FS_CardinalityType
  <2>4. rank[n] = Cardinality(earlier(n))
      OBVIOUS
  <2> HIDE DEF earlier, rank
  <2> QED
      BY <1>1, <2>1, <2>2, <2>3, <2>4
<1>3. ASSUME NEW m \in S, NEW n \in S, <<m, n>> \in order
      PROVE  rank[m] < rank[n]
  <2>1. earlier(m) \in SUBSET earlier(n) /\ m \in earlier(n) /\ m \notin earlier(m)
      BY <1>3 DEF IsOrder
  <2>2. earlier(n) \in SUBSET S
      OBVIOUS
  <2>3. rank[m] = Cardinality(earlier(m)) /\ rank[n] = Cardinality(earlier(n))
      OBVIOUS
  <2> HIDE DEF earlier
  <2>4. IsFiniteSet(earlier(n))
      BY <2>2, FS_Subset
  <2>5. /\ Cardinality(earlier(m)) <= Cardinality(earlier(n))
        /\ Cardinality(earlier(n)) # Cardinality(earlier(m))
      BY <2>1, <2>4, FS_Subset
  <2>6. rank[m] \in Int /\ rank[n] \in Int
      BY <1>2
  <2> HIDE DEF rank
  <2> QED
      BY <2>3, <2>5, <2>6
<1>4. \A n \in S : rank[n] \in Int
    BY <1>2
<1>5. ASSUME NEW m \in S, NEW n \in S, rank[m] = rank[n]
      PROVE  m = n
  <2> HIDE DEF rank
  <2>1. rank[m] \in Int /\ ~(rank[m] < rank[n]) /\ ~(rank[n] < rank[m])
      BY <1>4, <1>5
  <2>2. <<m, n>> \notin order /\ <<n, m>> \notin order
      BY <1>3, <2>1
  <2> QED
      BY <2>2 DEF IsOrder
<1>6. \A k \in 0..N - 1 : \E n \in S : rank[n] = k
  <2>1. rank \in [S -> 0..N - 1]
      BY <1>2
  <2>2. IsFiniteSet(0..N - 1) /\ Cardinality(0..N - 1) = N
      BY <1>1, FS_Interval
  <2> HIDE DEF rank
  <2>3. rank \in Injection(S, 0..N - 1)
      BY <1>5, <2>1, Fun_IsInj
  <2>4. rank \in Surjection(S, 0..N - 1)
      BY <2>2, <2>3, FS_Injection
  <2> QED
      BY <2>4 DEF Surjection
<1> DEFINE list == Listed(S, order)
<1>7. ASSUME NEW k \in 1..N
      PROVE  list[k] \in S /\ rank[list[k]] = k - 1
  <2>1. list[k] = CHOOSE n \in S : Cardinality(earlier(n)) = k - 1
      BY DEF Listed
  <2>2. k - 1 \in 0..N - 1
      BY <1>1
  <2>3. PICK n \in S : rank[n] = k - 1
    <3> HIDE DEF rank
    <3> QED
        BY <1>6, <2>2
  <2>4. Cardinality(earlier(n)) = k - 1
      BY <2>3
  <2> HIDE DEF list, earlier
  <2>5. list[k] \in S /\ Cardinality(earlier(list[k])) = k - 1
      BY <2>1, <2>4
  <2> QED
      BY <2>5
<1>8. list \in [1..N -> S]
  <2> DEFINE at(k) == CHOOSE n \in S : Cardinality({m \in S : <<m, n>> \in order})
                                         = k - 1
  <2>1. list = [k \in 1..N |-> at(k)]
      BY DEF Listed
  <2> HIDE DEF list, at
  <2>2. \A k \in 1..N : at(k) \in S
      BY <1>7, <2>1
  <2> QED
      BY <2>1, <2>2
<1> HIDE DEF list, rank
<1>9. ASSUME NEW i \in 1..N, NEW j \in 1..N, i < j
      PROVE  <<list[i], list[j]>> \in order
  <2>1. list[i] # list[j] /\ ~(rank[list[j]] < rank[list[i]])
      BY <1>7, <1>9, <1>1
  <2> QED
      BY <1>3, <1>7, <2>1 DEF IsOrder
<1>10. \A i, j \in 1..N : list[i] = list[j] => i = j
    BY <1>1, <1>7
<1>11. ASSUME NEW n \in S
       PROVE  \E k \in 1..N : list[k] = n
  <2>1. rank[n] + 1 \in 1..N /\ (rank[n] + 1) - 1 = rank[n]
      BY <1>1, <1>2
  <2>2. rank[list[rank[n] + 1]] = rank[n] /\ list[rank[n] + 1] \in S
      BY <1>7, <2>1
  <2> QED
      BY <1>5, <2>1, <2>2
<1> QED
    BY <1>1, <1>8, <1>9, <1>10, <1>11 DEF list

(***************************************************************************)
(*                                                                         *)
(*                           The chase-up's rows                           *)
(*                                                                         *)
(***************************************************************************)

\* A finite set of integers that is not empty has a largest.
LEMMA Largest ==
    ASSUME NEW D, IsFiniteSet(D), D \subseteq Int, D # {}
    PROVE  Max(D) \in D /\ \A y \in D : Max(D) >= y
<1> DEFINE P == {U \in SUBSET D : U = {} \/ \E x \in U : \A y \in U : x >= y}
<1>1. {} \in P
    OBVIOUS
<1>2. ASSUME NEW U \in SUBSET D, U # {}, \A x \in U : U \ {x} \in P
      PROVE  U \in P
  <2>1. PICK z \in U : TRUE
      BY <1>2
  <2>2. U \ {z} = {} \/ \E x \in U \ {z} : \A y \in U \ {z} : x >= y
      BY <1>2
  <2>3. CASE U \ {z} = {}
    <3>1. \A y \in U : z >= y
        BY <2>3
    <3> QED
        BY <3>1
  <2>4. CASE \E x \in U \ {z} : \A y \in U \ {z} : x >= y
    <3>1. PICK x \in U \ {z} : \A y \in U \ {z} : x >= y
        BY <2>4
    <3>2. x \in Int /\ z \in Int
        OBVIOUS
    <3>3. CASE x >= z
      <4>1. \A y \in U : x >= y
          BY <3>1, <3>3
      <4> QED
          BY <4>1
    <3>4. CASE z >= x
      <4>1. \A y \in U : z >= y
          BY <3>1, <3>2, <3>4
      <4> QED
          BY <4>1
    <3> QED
        BY <3>2, <3>3, <3>4
  <2> QED
      BY <2>2, <2>3, <2>4
<1> HIDE DEF P
<1>3. D \in P
    BY <1>1, <1>2, SubsetInduction
<1>4. \E x \in D : \A y \in D : x >= y
    BY <1>3 DEF P
<1> QED
    BY <1>4 DEF Max

\* Each key comes first in one place.
LEMMA FirstPlace ==
    ASSUME NEW key, DOMAIN key \subseteq Nat
    PROVE  /\ Firsts(key) \subseteq DOMAIN key
           /\ \A n \in DOMAIN key : \E m \in Firsts(key) : key[m] = key[n]
           /\ \A m, n \in Firsts(key) : key[m] = key[n] => m = n
<1>1. ASSUME NEW n \in DOMAIN key
      PROVE  \E m \in Firsts(key) : key[m] = key[n]
  <2> DEFINE same == {m \in DOMAIN key : key[m] = key[n]}
  <2>1. same \subseteq Nat /\ same # {}
      OBVIOUS
  <2>2. PICK x \in same : \A y \in same : x <= y
    <3> HIDE DEF same
    <3> QED
        BY <2>1, Least
  <2>6. x \in Firsts(key)
      BY <2>2 DEF Firsts
  <2> QED
      BY <2>6
<1> QED
    BY <1>1 DEF Firsts

\* The rows that are arranged are those there were, each once.
LEMMA Arrangement ==
    ASSUME NEW items, IsFiniteSet(DOMAIN items), NEW order,
           IsOrder(order, DOMAIN items)
    PROVE  LET N == Cardinality(DOMAIN items)
           IN  /\ N \in Nat
               /\ \E place \in [1..N -> DOMAIN items] :
                    /\ DOMAIN Arranged(items, order) = 1..N
                    /\ \A k \in 1..N : Arranged(items, order)[k] = items[place[k]]
                    /\ \A i, j \in 1..N : i < j => <<place[i], place[j]>> \in order
                    /\ \A i, j \in 1..N : place[i] = place[j] => i = j
                    /\ \A n \in DOMAIN items : \E k \in 1..N : place[k] = n
<1> DEFINE place == Listed(DOMAIN items, order)
           N == Cardinality(DOMAIN items)
<1>1. /\ N \in Nat /\ place \in [1..N -> DOMAIN items]
      /\ \A i, j \in 1..N : i < j => <<place[i], place[j]>> \in order
      /\ \A i, j \in 1..N : place[i] = place[j] => i = j
      /\ \A n \in DOMAIN items : \E k \in 1..N : place[k] = n
    BY Listing
<1>2. Arranged(items, order) = [k \in 1..N |-> items[place[k]]]
    BY DEF Arranged
<1> HIDE DEF place, N
<1>3. /\ DOMAIN Arranged(items, order) = 1..N
      /\ \A k \in 1..N : Arranged(items, order)[k] = items[place[k]]
    BY <1>2
<1> QED
    BY <1>1, <1>3 DEF N

LEMMA WorkedFirstOrders ==
    ASSUME NEW items, DOMAIN items \subseteq Nat,
           \A n \in DOMAIN items : items[n].oldest \in Int /\ items[n].amount \in Int
    PROVE  /\ IsOrder(WorkedFirst(items), DOMAIN items)
           /\ \A m, n \in DOMAIN items : <<m, n>> \in WorkedFirst(items) =>
                /\ items[m].oldest >= items[n].oldest
                /\ items[m].oldest = items[n].oldest => items[m].amount >= items[n].amount
<1> DEFINE old(n) == items[n].oldest
           sum(n) == items[n].amount
<1>1. ASSUME NEW m \in DOMAIN items, NEW n \in DOMAIN items
      PROVE  <<m, n>> \in WorkedFirst(items) <=>
                \/ old(m) > old(n)
                \/ old(m) = old(n) /\ sum(m) > sum(n)
                \/ old(m) = old(n) /\ sum(m) = sum(n) /\ m < n
  <2>1. <<m, n>> \in WorkedFirst(items) <=>
           Before(items[m], items[n]) \/ (~Before(items[n], items[m]) /\ m < n)
      BY DEF WorkedFirst
  <2>2. Before(items[m], items[n]) <=>
           old(m) > old(n) \/ (old(m) = old(n) /\ sum(m) > sum(n))
      BY DEF Before
  <2>3. Before(items[n], items[m]) <=>
           old(n) > old(m) \/ (old(n) = old(m) /\ sum(n) > sum(m))
      BY DEF Before
  <2>4. old(m) \in Int /\ old(n) \in Int /\ sum(m) \in Int /\ sum(n) \in Int
      OBVIOUS
  <2> HIDE DEF old, sum
  <2> QED
      BY <2>1, <2>2, <2>3, <2>4
<1>2. \A n \in DOMAIN items : old(n) \in Int /\ sum(n) \in Int /\ n \in Int
    OBVIOUS
<1> HIDE DEF old, sum
<1>3. IsOrder(WorkedFirst(items), DOMAIN items)
  <2>1. \A m \in DOMAIN items : <<m, m>> \notin WorkedFirst(items)
      BY <1>1, <1>2
  <2>2. ASSUME NEW l \in DOMAIN items, NEW m \in DOMAIN items, NEW n \in DOMAIN items,
               <<l, m>> \in WorkedFirst(items), <<m, n>> \in WorkedFirst(items)
        PROVE  <<l, n>> \in WorkedFirst(items)
      BY <1>1, <1>2, <2>2
  <2>3. ASSUME NEW m \in DOMAIN items, NEW n \in DOMAIN items, m # n
        PROVE  <<m, n>> \in WorkedFirst(items) \/ <<n, m>> \in WorkedFirst(items)
      BY <1>1, <1>2, <2>3
  <2> QED
      BY <2>1, <2>2, <2>3 DEF IsOrder
<1> QED
    BY <1>1, <1>2, <1>3 DEF old, sum

\* A list of invoices, what a customer owes on it, and the sum of that.
IsList(list) ==
    /\ IsFiniteSet(DOMAIN list) /\ DOMAIN list \subseteq Nat
    /\ \A n \in DOMAIN list : list[n].due \in Int /\ list[n].days \in Int \cup {NoDate}
Debts(list, minDays, cid) ==
    {n \in DOMAIN list : list[n].cid = cid /\ IsOverdue(list[n], minDays)}
Total(list, minDays, cid) ==
    Sum([n \in Debts(list, minDays, cid) |-> list[n].due])

LEMMA DebtsAdd ==
    ASSUME NEW list, IsList(list), NEW minDays, NEW cid
    PROVE  /\ Debts(list, minDays, cid) \subseteq DOMAIN list
           /\ IsFiniteSet(Debts(list, minDays, cid))
           /\ Total(list, minDays, cid) \in Int
<1> DEFINE owed == Debts(list, minDays, cid)
           value == [n \in owed |-> list[n].due]
<1>1. owed \in SUBSET DOMAIN list
    BY DEF Debts
<1>2. IsFiniteSet(owed)
    BY <1>1, FS_Subset DEF IsList
<1>3. value \in [owed -> Int]
    BY <1>1 DEF IsList
<1>4. Sum(value) \in Int
  <2> HIDE DEF value, owed
  <2> QED
      BY <1>2, <1>3, SumType
<1> QED
    BY <1>1, <1>2, <1>4 DEF Total

\* A customer's row.
AddsUp(r, list, minDays, cid) ==
    /\ r.id = cid /\ r.amount = Total(list, minDays, cid) /\ r.oldest \in Int
    /\ r.tone = "final" <=> \E i \in Debts(list, minDays, cid) : list[i].days >= 90

LEMMA RowAdds ==
    ASSUME NEW list, IsList(list), NEW minDays, NEW found, NEW first \in DOMAIN list
    PROVE  AddsUp(CustomerRow(list, Debts(list, minDays, list[first].cid),
                              list[first], found), list, minDays, list[first].cid)
<1> DEFINE cid == list[first].cid
           owed == Debts(list, minDays, cid)
           r == CustomerRow(list, owed, list[first], found)
           days == {list[n].days : n \in owed}
           all == {0} \cup days
<1>1. IsFiniteSet(owed) /\ owed \subseteq DOMAIN list
    BY DebtsAdd
<1>2. \A n \in owed : list[n].days \in Int
    BY <1>1 DEF IsList, Debts, IsOverdue
<1>3. all \subseteq Int /\ all # {}
    BY <1>2
<1>4. IsFiniteSet(days)
  <2> HIDE DEF owed
  <2> DEFINE at == [n \in owed |-> list[n].days]
  <2>1. at \in [owed -> days] /\ \A d \in days : \E n \in owed : at[n] = d
      OBVIOUS
  <2> HIDE DEF at, days
  <2>2. at \in Surjection(owed, days)
      BY <2>1, Fun_IsSurj
  <2> QED
      BY <1>1, <2>2, FS_Surjection
<1>5. IsFiniteSet(all)
  <2> HIDE DEF days
  <2>1. IsFiniteSet(days \cup {0})
      BY <1>4, FS_AddElement
  <2>2. all = days \cup {0}
      OBVIOUS
  <2> QED
      BY <2>1, <2>2
<1>6. Max(all) \in all /\ \A d \in all : Max(all) >= d
  <2> HIDE DEF all
  <2> QED
      BY <1>3, <1>5, Largest
<1>7. /\ r.id = cid /\ r.oldest = Max(all) /\ r.tone = Tone(Max(all))
      /\ r.amount = Sum([n \in owed |-> list[n].due])
  <2> HIDE DEF owed
  <2> QED
      BY DEF CustomerRow
<1>8. \A d \in Int : Tone(d) = "final" <=> d >= 90
    BY DEF Tone
<1>9. Max(all) >= 90 <=> \E i \in owed : list[i].days >= 90
  <2> HIDE DEF owed
  <2>1. ASSUME Max(all) >= 90
        PROVE  \E i \in owed : list[i].days >= 90
    <3>1. Max(all) \in days
        BY <1>6, <2>1
    <3> QED
        BY <2>1, <3>1
  <2>2. ASSUME NEW i \in owed, list[i].days >= 90
        PROVE  Max(all) >= 90
    <3>1. list[i].days \in all /\ list[i].days \in Int
        BY <1>2
    <3>2. Max(all) \in Int /\ Max(all) >= list[i].days
        BY <1>3, <1>6, <3>1
    <3> HIDE DEF all
    <3> QED
        BY <2>2, <3>1, <3>2
  <2> QED
      BY <2>1, <2>2
<1>10. Max(all) \in Int
    BY <1>3, <1>6
<1> HIDE DEF all, r
<1> QED
    BY <1>7, <1>8, <1>9, <1>10 DEF Total, AddsUp, r

\* The chase-up's rows: one for each customer who owes enough, and in order.
LEMMA ChaseIs ==
    ASSUME NEW list, IsList(list), NEW minDays, NEW minAmount \in Int, NEW found,
           NEW made, made = ChaseRows(list, minDays, minAmount, found)
    PROVE  /\ DOMAIN made \subseteq Nat
           /\ \A n \in DOMAIN made :
                LET owed == Debts(list, minDays, made[n].id)
                IN  /\ owed # {} /\ made[n].amount >= minAmount
                    /\ made[n].amount = Total(list, minDays, made[n].id)
                    /\ made[n].tone = "final" <=> \E i \in owed : list[i].days >= 90
           /\ \A cid : Debts(list, minDays, cid) # {}
                       /\ Total(list, minDays, cid) >= minAmount =>
                           \E n \in DOMAIN made : made[n].id = cid
           /\ \A m, n \in DOMAIN made : made[m].id = made[n].id => m = n
           /\ \A m, n \in DOMAIN made : m < n =>
                /\ made[m].oldest >= made[n].oldest
                /\ made[m].oldest = made[n].oldest =>
                       made[m].amount >= made[n].amount
<1> DEFINE overdue == {n \in DOMAIN list : IsOverdue(list[n], minDays)}
           key == [m \in overdue |-> list[m].cid]
           own(n) == {m \in overdue : list[m].cid = list[n].cid}
           row(n) == CustomerRow(list, own(n), list[n], found)
           customers == [n \in Firsts(key) |-> row(n)]
           items == [n \in {m \in DOMAIN customers : customers[m].amount >= minAmount}
                      |-> customers[n]]
           owed(n) == Debts(list, minDays, list[n].cid)
           sum(n) == Total(list, minDays, list[n].cid)
<1>1. made = Arranged(items, WorkedFirst(items))
    BY DEF ChaseRows
<1>2. /\ overdue \subseteq DOMAIN list /\ DOMAIN list \subseteq Nat
      /\ IsFiniteSet(DOMAIN list)
    BY DEF IsList
<1>3. /\ Firsts(key) \subseteq overdue
      /\ \A n \in overdue : \E m \in Firsts(key) : list[m].cid = list[n].cid
      /\ \A m, n \in Firsts(key) : list[m].cid = list[n].cid => m = n
  <2>1. DOMAIN key = overdue /\ \A n \in overdue : key[n] = list[n].cid
      OBVIOUS
  <2>2. DOMAIN key \subseteq Nat
      BY <1>2, <2>1
  <2> HIDE DEF key, overdue
  <2> QED
      BY <2>1, <2>2, FirstPlace
<1>4. \A n \in overdue : own(n) = owed(n) /\ n \in owed(n)
    BY DEF Debts
<1>5. ASSUME NEW n \in Firsts(key)
      PROVE  /\ row(n).id = list[n].cid /\ row(n).amount = sum(n)
             /\ row(n).oldest \in Int /\ sum(n) \in Int
             /\ row(n).tone = "final" <=> \E i \in owed(n) : list[i].days >= 90
  <2>1. n \in overdue /\ n \in DOMAIN list /\ IsOverdue(list[n], minDays)
      BY <1>3
  <2>2. row(n) = CustomerRow(list, owed(n), list[n], found)
    <3> HIDE DEF own, owed
    <3> QED
        BY <1>4, <2>1
  <2>3. sum(n) \in Int
      BY DebtsAdd
  <2>4. owed(n) = Debts(list, minDays, list[n].cid)
        /\ sum(n) = Total(list, minDays, list[n].cid)
      OBVIOUS
  <2> HIDE DEF row, owed, sum, key, overdue, own, items
  <2>5. AddsUp(row(n), list, minDays, list[n].cid)
      BY <2>1, <2>2, <2>4, RowAdds
  <2> QED
      BY <2>3, <2>4, <2>5 DEF AddsUp
<1> DEFINE kept == {n \in Firsts(key) : sum(n) >= minAmount}
<1>6. /\ DOMAIN items = kept
      /\ \A n \in kept : items[n] = row(n)
  <2> HIDE DEF row, key, sum
  <2> QED
      BY <1>5
<1>7. kept \subseteq Nat /\ IsFiniteSet(kept)
  <2>1. kept \in SUBSET DOMAIN list
      BY <1>2, <1>3
  <2> HIDE DEF kept
  <2> QED
      BY <1>2, <2>1, FS_Subset
<1> HIDE DEF items, kept, row, key, owed, sum, overdue, own
<1>8. ASSUME NEW n \in kept
      PROVE  /\ n \in Firsts(key) /\ items[n].id = list[n].cid
             /\ items[n].amount = sum(n) /\ items[n].amount \in Int
             /\ items[n].oldest \in Int /\ items[n].amount >= minAmount
             /\ items[n].tone = "final" <=> \E i \in owed(n) : list[i].days >= 90
    BY <1>5, <1>6 DEF kept
<1>9. /\ IsOrder(WorkedFirst(items), kept)
      /\ \A m, n \in kept : <<m, n>> \in WorkedFirst(items) =>
            /\ items[m].oldest >= items[n].oldest
            /\ items[m].oldest = items[n].oldest => items[m].amount >= items[n].amount
    BY <1>6, <1>7, <1>8, WorkedFirstOrders
<1> DEFINE N == Cardinality(kept)
<1>10. PICK place \in [1..N -> kept] :
          /\ N \in Nat /\ DOMAIN made = 1..N
          /\ \A k \in 1..N : made[k] = items[place[k]]
          /\ \A i, j \in 1..N : i < j => <<place[i], place[j]>> \in WorkedFirst(items)
          /\ \A i, j \in 1..N : place[i] = place[j] => i = j
          /\ \A n \in kept : \E k \in 1..N : place[k] = n
    BY <1>1, <1>6, <1>7, <1>9, Arrangement
<1> HIDE DEF N
<1>11. DOMAIN made \subseteq Nat
    BY <1>10
<1>12. \A k \in DOMAIN made : place[k] \in kept /\ made[k] = items[place[k]]
    BY <1>10
<1>13. ASSUME NEW n \in DOMAIN made
       PROVE  /\ Debts(list, minDays, made[n].id) # {} /\ made[n].amount >= minAmount
              /\ made[n].amount = Total(list, minDays, made[n].id)
              /\ made[n].tone = "final" <=>
                    \E i \in Debts(list, minDays, made[n].id) : list[i].days >= 90
  <2>1. place[n] \in overdue
      BY <1>3, <1>8, <1>12
  <2> QED
      BY <1>4, <1>8, <1>12, <2>1 DEF owed, sum
<1>14. ASSUME NEW cid, Debts(list, minDays, cid) # {},
              Total(list, minDays, cid) >= minAmount
       PROVE  \E n \in DOMAIN made : made[n].id = cid
  <2>1. PICK i \in overdue : list[i].cid = cid
      BY <1>14 DEF Debts, overdue
  <2>2. PICK m \in Firsts(key) : list[m].cid = cid
      BY <1>3, <2>1
  <2>3. m \in kept
      BY <1>14, <2>2 DEF kept, sum
  <2> QED
      BY <1>8, <1>10, <1>12, <2>2, <2>3
<1>15. ASSUME NEW m \in DOMAIN made, NEW n \in DOMAIN made, made[m].id = made[n].id
       PROVE  m = n
  <2>1. place[m] = place[n]
      BY <1>3, <1>8, <1>12, <1>15
  <2> QED
      BY <1>10, <2>1
<1>16. ASSUME NEW m \in DOMAIN made, NEW n \in DOMAIN made, m < n
       PROVE  /\ made[m].oldest >= made[n].oldest
              /\ made[m].oldest = made[n].oldest => made[m].amount >= made[n].amount
  <2>1. <<place[m], place[n]>> \in WorkedFirst(items)
      BY <1>10, <1>16
  <2> QED
      BY <1>9, <1>12, <2>1
<1> QED
    BY <1>11, <1>13, <1>14, <1>15, <1>16

(***************************************************************************)
(*                                                                         *)
(*                               The payments                              *)
(*                                                                         *)
(***************************************************************************)

\* The lines of a vendor among some rows, and what they pay.
Lines(payments, v) == {n \in DOMAIN payments : Norm[payments[n].name] = v}
Paid(payments, v) == Sum([n \in Lines(payments, v) |-> payments[n].amount])

\* A payment's row: what it pays, and to an account which is the vendor's own.
IsPayment(r, accounts) ==
    /\ {"name", "reference", "amount"} \subseteq DOMAIN r /\ r.amount \in Int
    /\ Cell(r, "accountnumber") # Blank =>
          /\ Norm[r.name] \in DOMAIN accounts
          /\ "accountnumber" \in DOMAIN accounts[Norm[r.name]]
          /\ Cell(r, "accountnumber") = accounts[Norm[r.name]]["accountnumber"]
IsPayments(payments, accounts) ==
    /\ IsFiniteSet(DOMAIN payments) /\ DOMAIN payments \subseteq Nat
    /\ \A n \in DOMAIN payments : IsPayment(payments[n], accounts)

LEMMA PlacesOrder ==
    ASSUME NEW D, D \subseteq Nat
    PROVE  IsOrder({p \in D \X D : p[1] < p[2]}, D)
<1> DEFINE order == {p \in D \X D : p[1] < p[2]}
<1>1. ASSUME NEW m \in D, NEW n \in D
      PROVE  <<m, n>> \in order <=> m < n
    OBVIOUS
<1>2. \A n \in D : n \in Int
    OBVIOUS
<1> HIDE DEF order
<1>3. IsOrder(order, D)
    BY <1>1, <1>2 DEF IsOrder
<1> QED
    BY <1>3 DEF order

\* Put in their order, the lines of a vendor pay the same.
LEMMA ArrangedPays ==
    ASSUME NEW accounts, NEW payments, IsPayments(payments, accounts), NEW made,
           made = Arranged(payments, {p \in (DOMAIN payments) \X (DOMAIN payments) :
                                         p[1] < p[2]})
    PROVE  /\ IsPayments(made, accounts)
           /\ \A v : Paid(made, v) = Paid(payments, v)
<1> DEFINE D == DOMAIN payments
           order == {p \in D \X D : p[1] < p[2]}
           N == Cardinality(D)
<1>1. D \subseteq Nat /\ IsFiniteSet(D) /\ \A n \in D : payments[n].amount \in Int
    BY DEF IsPayments, IsPayment
<1>2. IsOrder(order, D)
  <2> HIDE DEF D
  <2> QED
      BY <1>1, PlacesOrder
<1>3. made = Arranged(payments, order)
    OBVIOUS
<1>a. D = DOMAIN payments
    OBVIOUS
<1> HIDE DEF order, D
<1>4. /\ N \in Nat
      /\ \E place \in [1..N -> D] :
           /\ DOMAIN made = 1..N
           /\ \A k \in 1..N : made[k] = payments[place[k]]
           /\ \A i, j \in 1..N : place[i] = place[j] => i = j
           /\ \A n \in D : \E k \in 1..N : place[k] = n
  <2>1. IsFiniteSet(DOMAIN payments) /\ IsOrder(order, DOMAIN payments)
      BY <1>1, <1>2, <1>a
  <2> DEFINE M == Cardinality(DOMAIN payments)
  <2>2. /\ M \in Nat
        /\ \E place \in [1..M -> DOMAIN payments] :
             /\ DOMAIN Arranged(payments, order) = 1..M
             /\ \A k \in 1..M : Arranged(payments, order)[k] = payments[place[k]]
             /\ \A i, j \in 1..M : i < j => <<place[i], place[j]>> \in order
             /\ \A i, j \in 1..M : place[i] = place[j] => i = j
             /\ \A n \in DOMAIN payments : \E k \in 1..M : place[k] = n
      BY ONLY <2>1, Arrangement
  <2>3. M = N
      BY <1>a
  <2>4. PICK place : place \in [1..M -> DOMAIN payments]
             /\ DOMAIN Arranged(payments, order) = 1..M
             /\ (\A k \in 1..M : Arranged(payments, order)[k] = payments[place[k]])
             /\ (\A i, j \in 1..M : place[i] = place[j] => i = j)
             /\ (\A n \in DOMAIN payments : \E k \in 1..M : place[k] = n)
      BY <2>2
  <2>5. /\ place \in [1..N -> D]
        /\ DOMAIN made = 1..N
        /\ \A k \in 1..N : made[k] = payments[place[k]]
        /\ \A i, j \in 1..N : place[i] = place[j] => i = j
        /\ \A n \in D : \E k \in 1..N : place[k] = n
      BY <1>3, <1>a, <2>3, <2>4
  <2> HIDE DEF N, M
  <2> QED
      BY <2>2, <2>3, <2>5
<1>5. PICK place : place \in [1..N -> D] /\ DOMAIN made = 1..N
                   /\ (\A k \in 1..N : made[k] = payments[place[k]])
                   /\ (\A i, j \in 1..N : place[i] = place[j] => i = j)
                   /\ (\A n \in D : \E k \in 1..N : place[k] = n)
    BY <1>4
<1> HIDE DEF N
<1>6. \A k \in 1..N : k \in Nat /\ place[k] \in D
    BY <1>4, <1>5
<1>7. ASSUME NEW v
      PROVE  Paid(made, v) = Paid(payments, v)
  <2> DEFINE E == Lines(made, v)
             F == Lines(payments, v)
             value == [n \in F |-> payments[n].amount]
             f == [k \in E |-> place[k]]
  <2>1. E \in SUBSET (1..N) /\ F \in SUBSET D
      BY <1>5, <1>a DEF Lines
  <2>2. IsFiniteSet(E) /\ IsFiniteSet(F)
    <3>1. IsFiniteSet(1..N)
        BY <1>4, FS_Interval
    <3> HIDE DEF E, F
    <3> QED
        BY <1>1, <2>1, <3>1, FS_Subset
  <2>3. value \in [F -> Int]
      BY <1>1, <2>1
  <2>4. \A k \in E : place[k] \in F /\ made[k] = payments[place[k]] /\ k \in 1..N
      BY <1>5, <1>6, <1>a DEF Lines
  <2>5. ASSUME NEW n \in F
        PROVE  \E k \in E : place[k] = n
    <3>1. PICK k \in 1..N : place[k] = n
        BY <1>5, <2>1
    <3>2. k \in E
        BY <1>5, <3>1 DEF Lines
    <3> QED
        BY <3>1, <3>2
  <2> HIDE DEF E, F
  <2>6. /\ f \in [E -> F]
        /\ \A k, l \in E : f[k] = f[l] => k = l
        /\ \A n \in F : \E k \in E : f[k] = n
    <3>1. \A k \in E : f[k] = place[k]
        OBVIOUS
    <3>2. f \in [E -> F]
        BY <2>4
    <3> HIDE DEF f
    <3>3. ASSUME NEW k \in E, NEW l \in E, f[k] = f[l]
          PROVE  k = l
      <4>1. place[k] = place[l] /\ k \in 1..N /\ l \in 1..N
          BY <2>4, <3>1, <3>3
      <4> QED
          BY <1>5, <4>1
    <3>4. \A n \in F : \E k \in E : f[k] = n
        BY <2>5, <3>1
    <3> QED
        BY ONLY <3>2, <3>3, <3>4
  <2>7. \A k \in E : value[f[k]] = made[k].amount
      BY <2>4
  <2>8. [k \in E |-> value[f[k]]] = [k \in E |-> made[k].amount]
    <3> HIDE DEF value, f
    <3> QED
        BY <2>7
  <2>9. Sum([k \in E |-> value[f[k]]]) = Sum(value)
    <3> HIDE DEF value, f
    <3> QED
        BY ONLY <2>2, <2>3, <2>6, SumMoves
  <2>10. Sum([k \in E |-> made[k].amount]) = Sum(value)
    <3> HIDE DEF value, f
    <3> QED
        BY <2>8, <2>9
  <2> QED
      BY <2>10 DEF Paid, E, F
<1>8. \A k \in DOMAIN made : \E n \in DOMAIN payments : made[k] = payments[n]
    BY <1>5, <1>6, <1>a
<1>9. DOMAIN made \subseteq Nat /\ IsFiniteSet(DOMAIN made)
  <2>1. IsFiniteSet(1..N)
      BY <1>4, FS_Interval
  <2> QED
      BY <1>5, <1>6, <2>1
<1>10. IsPayments(made, accounts)
    BY <1>8, <1>9 DEF IsPayments
<1> QED
    BY <1>7, <1>10

\* Of the bill's own fields and the account, a row shows its own.
LEMMA CellIs ==
    ASSUME NEW r
    PROVE  /\ Cell(r, "name") = r.name /\ Cell(r, "amount") = r.amount
           /\ Cell(r, "accountnumber") = IF "accountnumber" \in DOMAIN r
                                          THEN r["accountnumber"] ELSE Blank
<1>1. /\ DOMAIN BillFields = {"name", "amount", "paymentreference"}
      /\ BillFields["name"] = "name" /\ BillFields["amount"] = "amount"
      /\ {"name", "amount", "accountnumber"} \cap DOMAIN Defaults = {}
    BY DEF BillFields, Defaults
<1>2. Cell(r, "name") = r["name"] /\ Cell(r, "amount") = r["amount"]
    BY <1>1 DEF Cell
<1>3. Cell(r, "accountnumber") = IF "accountnumber" \in DOMAIN r
                                 THEN r["accountnumber"] ELSE Blank
    BY <1>1 DEF Cell
<1> QED
    BY <1>2, <1>3

\* Whether there is anything to pay a vendor with.
Matched(accounts, v) ==
    v \in DOMAIN accounts /\ \E k \in DOMAIN accounts[v] : accounts[v][k] # Blank

\* The row of a bill, where no banking field is named like one of its own.
LEMMA PaymentRowIs ==
    ASSUME NEW bill, bill.due \in Int, NEW accounts,
           {"name", "reference", "amount", "matched"} \cap Keys(accounts) = {},
           NEW r, r = PaymentRow(bill, accounts)
    PROVE  /\ IsPayment(r, accounts) /\ r.name = bill.vendor /\ r.amount = bill.due
           /\ r.matched <=> Matched(accounts, Norm[bill.vendor])
<1> DEFINE v == Norm[bill.vendor]
           found == LookUp(accounts, bill.vendor)
           own == [name |-> bill.vendor, reference |-> bill.reference,
                   amount |-> bill.due,
                   matched |-> \E k \in DOMAIN found : found[k] # Blank]
<1>1. r = [k \in DOMAIN own \cup DOMAIN found |->
             IF k \in DOMAIN found THEN found[k] ELSE own[k]]
    BY DEF PaymentRow
<1>2. /\ v \in DOMAIN accounts =>
            /\ DOMAIN found = Keys(accounts)
            /\ \A k \in Keys(accounts) :
                 found[k] = IF k \in DOMAIN accounts[v] THEN accounts[v][k] ELSE Blank
      /\ v \notin DOMAIN accounts => DOMAIN found = {}
    BY DEF LookUp
<1>3. \A k \in {"name", "reference", "amount", "matched"} : k \notin DOMAIN found
    BY <1>2
<1>4. /\ DOMAIN own = {"name", "reference", "amount", "matched"}
      /\ own["name"] = bill.vendor /\ own["amount"] = bill.due
      /\ own["matched"] = (\E k \in DOMAIN found : found[k] # Blank)
    OBVIOUS
<1>5. v \in DOMAIN accounts => DOMAIN accounts[v] \subseteq Keys(accounts)
    BY DEF Keys
<1>6. (\E k \in DOMAIN found : found[k] # Blank) <=> Matched(accounts, v)
  <2> HIDE DEF found, v
  <2> QED
      BY <1>2, <1>5 DEF Matched
<1> HIDE DEF own, found, v
<1>7. /\ r["name"] = bill.vendor /\ r["amount"] = bill.due
      /\ r["matched"] = (\E k \in DOMAIN found : found[k] # Blank)
      /\ DOMAIN r = {"name", "reference", "amount", "matched"} \cup DOMAIN found
      /\ \A k \in DOMAIN found : r[k] = found[k]
    BY <1>1, <1>3, <1>4
<1>8. ASSUME Cell(r, "accountnumber") # Blank
      PROVE  /\ v \in DOMAIN accounts /\ "accountnumber" \in DOMAIN accounts[v]
             /\ Cell(r, "accountnumber") = accounts[v]["accountnumber"]
  <2>1. "accountnumber" \in DOMAIN r /\ Cell(r, "accountnumber") = r["accountnumber"]
      BY <1>8, CellIs
  <2>2. "accountnumber" \in DOMAIN found /\ found["accountnumber"] # Blank
        /\ Cell(r, "accountnumber") = found["accountnumber"]
      BY <1>7, <1>8, <2>1
  <2> QED
      BY <1>2, <2>2
<1>9. IsPayment(r, accounts)
    BY <1>7, <1>8 DEF IsPayment, v
<1> QED
    BY <1>6, <1>7, <1>9 DEF v

LEMMA SumOne ==
    ASSUME NEW x, NEW value, value \in [{x} -> Int]
    PROVE  Sum(value) = value[x]
<1>1. IsFiniteSet({x})
    BY FS_Singleton
<1>2. PICK sums : SumsOf(value, {x}, sums)
    BY <1>1, SumsExist
<1>3. Sum(value) = sums[{x}]
    BY <1>1, <1>2, SumIsLast
<1>4. (CHOOSE n \in {x} : TRUE) = x /\ {x} \ {x} = {} /\ {x} # {}
    OBVIOUS
<1>5. sums[{x}] = value[x] + sums[{}] /\ sums[{}] = 0
    BY <1>2, <1>4 DEF SumsOf
<1>6. value[x] \in Int
    OBVIOUS
<1> QED
    BY <1>3, <1>5, <1>6

\* One line or several for a vendor, it is paid the same.
LEMMA ConsolidatedPays ==
    ASSUME NEW accounts, NEW payments, IsPayments(payments, accounts),
           NEW merged, merged = Consolidated(payments)
    PROVE  /\ IsPayments(merged, accounts)
           /\ \A v : Paid(merged, v) = Paid(payments, v)
<1> DEFINE key == [m \in DOMAIN payments |-> Norm[payments[m].name]]
           own(n) == {m \in DOMAIN payments :
                        Norm[payments[m].name] = Norm[payments[n].name]}
           amount(n) == Sum([m \in own(n) |-> payments[m].amount])
           references(n) == UNION {payments[m].reference : m \in own(n)}
<1>1. merged = [n \in Firsts(key) |->
                  [payments[n] EXCEPT !.amount = amount(n), !.reference = references(n)]]
    BY DEF Consolidated
<1>2. /\ IsFiniteSet(DOMAIN payments) /\ DOMAIN payments \subseteq Nat
      /\ \A n \in DOMAIN payments : IsPayment(payments[n], accounts)
    BY DEF IsPayments
<1>3. /\ Firsts(key) \subseteq DOMAIN payments
      /\ \A n \in DOMAIN payments :
            \E m \in Firsts(key) : Norm[payments[m].name] = Norm[payments[n].name]
      /\ \A m, n \in Firsts(key) :
            Norm[payments[m].name] = Norm[payments[n].name] => m = n
  <2>1. DOMAIN key = DOMAIN payments
        /\ \A n \in DOMAIN payments : key[n] = Norm[payments[n].name]
      OBVIOUS
  <2> HIDE DEF key
  <2>2. DOMAIN key \subseteq Nat
      BY <1>2, <2>1
  <2>3. /\ Firsts(key) \subseteq DOMAIN key
        /\ \A n \in DOMAIN key : \E m \in Firsts(key) : key[m] = key[n]
        /\ \A m, n \in Firsts(key) : key[m] = key[n] => m = n
      BY ONLY <2>2, FirstPlace
  <2> QED
      BY <2>1, <2>3
<1>4. \A v : /\ Lines(payments, v) \in SUBSET DOMAIN payments
              /\ IsFiniteSet(Lines(payments, v))
              /\ [n \in Lines(payments, v) |-> payments[n].amount]
                    \in [Lines(payments, v) -> Int]
  <2> TAKE v
  <2>1. Lines(payments, v) \in SUBSET DOMAIN payments
      BY DEF Lines
  <2>2. \A n \in Lines(payments, v) : payments[n].amount \in Int
      BY <1>2, <2>1 DEF IsPayment
  <2> QED
      BY <1>2, <2>1, <2>2, FS_Subset
<1>5. \A v : Paid(payments, v) \in Int
    BY <1>4, SumType DEF Paid
<1>6. \A n : amount(n) = Paid(payments, Norm[payments[n].name])
    BY DEF Paid, Lines
<1> HIDE DEF key, amount, references
<1>7. ASSUME NEW n \in Firsts(key)
      PROVE  /\ IsPayment(merged[n], accounts) /\ merged[n].name = payments[n].name
             /\ merged[n].amount = Paid(payments, Norm[payments[n].name])
  <2> DEFINE r == payments[n]
             s == merged[n]
  <2>1. s = [r EXCEPT !.amount = amount(n), !.reference = references(n)]
      BY <1>1
  <2>2. IsPayment(r, accounts)
      BY <1>2, <1>3
  <2>3. amount(n) = Paid(payments, Norm[r.name]) /\ amount(n) \in Int
      BY <1>5, <1>6
  <2> HIDE DEF r, s
  <2>4. /\ DOMAIN s = DOMAIN r /\ s.name = r.name /\ s.amount = amount(n)
        /\ "accountnumber" \in DOMAIN r => s["accountnumber"] = r["accountnumber"]
      BY <2>1, <2>2 DEF IsPayment
  <2>5. Cell(s, "accountnumber") = Cell(r, "accountnumber")
      BY <2>4, CellIs
  <2>6. IsPayment(s, accounts)
      BY <2>2, <2>3, <2>4, <2>5 DEF IsPayment
  <2> QED
      BY <2>3, <2>4, <2>6 DEF r, s
<1>8. DOMAIN merged = Firsts(key)
    BY <1>1
<1>9. IsPayments(merged, accounts)
  <2>1. Firsts(key) \in SUBSET DOMAIN payments
      BY <1>3
  <2> QED
      BY <1>2, <1>7, <1>8, <2>1, FS_Subset DEF IsPayments
<1>10. ASSUME NEW v
       PROVE  Paid(merged, v) = Paid(payments, v)
  <2>1. CASE Lines(payments, v) = {}
    <3>1. Lines(merged, v) = {}
        BY <1>3, <1>7, <1>8, <2>1 DEF Lines
    <3> DEFINE few == [n \in Lines(payments, v) |-> payments[n].amount]
               none == [n \in Lines(merged, v) |-> merged[n].amount]
    <3>2. few \in [{} -> Int] /\ none \in [{} -> Int]
        BY <2>1, <3>1
    <3>3. Paid(payments, v) = Sum(few) /\ Paid(merged, v) = Sum(none)
        BY DEF Paid
    <3> HIDE DEF few, none
    <3> QED
        BY <3>2, <3>3, SumEmpty
  <2>2. CASE Lines(payments, v) # {}
    <3>1. PICK i \in Lines(payments, v) : TRUE
        BY <2>2
    <3>2. PICK n \in Firsts(key) : Norm[payments[n].name] = v
        BY <1>3, <3>1 DEF Lines
    <3>3. Lines(merged, v) = {n}
        BY <1>3, <1>7, <1>8, <3>2 DEF Lines
    <3> DEFINE one == [m \in Lines(merged, v) |-> merged[m].amount]
    <3>4. merged[n].amount = Paid(payments, v) /\ merged[n].amount \in Int
        BY <1>5, <1>7, <3>2
    <3>5. /\ one \in [{n} -> Int] /\ one[n] = merged[n].amount
        BY <3>3, <3>4
    <3> HIDE DEF one
    <3>8. Sum(one) = one[n]
        BY <3>5, SumOne
    <3>10. Sum(one) = merged[n].amount
        BY <3>5, <3>8
    <3> QED
        BY <3>4, <3>10 DEF Paid, one
  <2> QED
      BY <2>1, <2>2
<1> QED
    BY <1>9, <1>10

\* What a list of bills owes a vendor, among those that the filters leave.
Owing(bills, v, region, cutoff) ==
    {n \in DOMAIN bills : IsSelected(bills[n], region, cutoff)
                           /\ Norm[bills[n].vendor] = v}

\* The pay run's rows pay what is owed to those who can be paid.
LEMMA PayIs ==
    ASSUME NEW bills, IsFiniteSet(DOMAIN bills), DOMAIN bills \subseteq Nat,
           \A n \in DOMAIN bills : bills[n].due \in Int, NEW accounts,
           {"name", "reference", "amount", "matched"} \cap Keys(accounts) = {},
           NEW request, NEW made, made = PayRows(bills, accounts, request)
    PROVE  /\ IsPayments(made, accounts)
           /\ \A v : Paid(made, v) =
                 IF Matched(accounts, v) \/ request.includeUnmatched
                 THEN Sum([n \in Owing(bills, v, request.region, request.cutoff)
                             |-> bills[n].due])
                 ELSE 0
<1> DEFINE selected == {n \in DOMAIN bills :
                          IsSelected(bills[n], request.region, request.cutoff)}
           prepared == [n \in selected |-> PaymentRow(bills[n], accounts)]
           P == {m \in selected : prepared[m].matched \/ request.includeUnmatched}
           payable == [n \in P |-> prepared[n]]
           merged == IF request.region.consolidate THEN Consolidated(payable) ELSE payable
           owing(v) == Owing(bills, v, request.region, request.cutoff)
<1>1. made = Arranged(merged, {p \in (DOMAIN merged) \X (DOMAIN merged) : p[1] < p[2]})
    BY DEF PayRows
<1>2. ASSUME NEW n \in selected
      PROVE  /\ n \in DOMAIN bills /\ IsPayment(prepared[n], accounts)
             /\ prepared[n].name = bills[n].vendor /\ prepared[n].amount = bills[n].due
             /\ prepared[n].matched <=> Matched(accounts, Norm[bills[n].vendor])
  <2>1. prepared[n] = PaymentRow(bills[n], accounts) /\ n \in DOMAIN bills
      OBVIOUS
  <2>2. bills[n].due \in Int
      BY <2>1
  <2> HIDE DEF prepared
  <2> QED
      BY <2>1, <2>2, PaymentRowIs
<1>3. \A v, n : n \in owing(v) <=> n \in selected /\ Norm[bills[n].vendor] = v
    BY DEF Owing
<1>4. P \in SUBSET DOMAIN bills /\ DOMAIN payable = P
      /\ \A n \in P : n \in selected /\ payable[n] = prepared[n]
    OBVIOUS
<1>5. \A n \in selected : n \in P <=> prepared[n].matched \/ request.includeUnmatched
    OBVIOUS
<1> HIDE DEF selected, prepared, P, payable, owing
<1>6. IsPayments(payable, accounts)
    BY <1>2, <1>4, FS_Subset DEF IsPayments
<1>7. ASSUME NEW v
      PROVE  Paid(payable, v) = IF Matched(accounts, v) \/ request.includeUnmatched
                                THEN Sum([n \in owing(v) |-> bills[n].due])
                                ELSE 0
  <2>1. \A n \in P : payable[n].name = bills[n].vendor /\ payable[n].amount = bills[n].due
      BY <1>2, <1>4
  <2>2. CASE Matched(accounts, v) \/ request.includeUnmatched
    <3>1. Lines(payable, v) = owing(v)
      <4>1. \A n \in Lines(payable, v) : n \in owing(v)
          BY <1>3, <1>4, <2>1 DEF Lines
      <4>2. \A n \in owing(v) : n \in Lines(payable, v)
          BY <1>2, <1>3, <1>4, <1>5, <2>1, <2>2 DEF Lines
      <4> QED
          BY <4>1, <4>2
    <3>2. \A n \in owing(v) : payable[n].amount = bills[n].due
        BY <1>4, <2>1, <3>1 DEF Lines
    <3>3. [n \in Lines(payable, v) |-> payable[n].amount]
            = [n \in owing(v) |-> bills[n].due]
        BY <3>1, <3>2
    <3> QED
        BY <2>2, <3>3 DEF Paid
  <2>3. CASE ~(Matched(accounts, v) \/ request.includeUnmatched)
    <3>1. Lines(payable, v) = {}
        BY <1>2, <1>4, <1>5, <2>1, <2>3 DEF Lines
    <3> DEFINE none == [n \in Lines(payable, v) |-> payable[n].amount]
    <3>2. none \in [{} -> Int]
        BY <3>1
    <3>3. Paid(payable, v) = Sum(none)
        BY DEF Paid
    <3> HIDE DEF none
    <3> QED
        BY <2>3, <3>2, <3>3, SumEmpty
  <2> QED
      BY <2>2, <2>3
<1>8. IsPayments(merged, accounts) /\ \A v : Paid(merged, v) = Paid(payable, v)
    BY <1>6, ConsolidatedPays
<1> HIDE DEF merged
<1>9. IsPayments(made, accounts) /\ \A v : Paid(made, v) = Paid(merged, v)
    BY <1>1, <1>8, ArrangedPays
<1> QED
    BY <1>7, <1>8, <1>9 DEF owing

(***************************************************************************)
(*                                                                         *)
(*                           The circuit breaker                           *)
(*                                                                         *)
(***************************************************************************)

(***************************************************************************)
(* The inductive invariant: what the count and the circuit are while an    *)
(* answer is being recorded, as long as only one ever is.                  *)
(***************************************************************************)

Agrees == failures >= Threshold <=> opened # "never"

\* Two threads record only if records have overlapped.
OneRecorder ==
    \A c, d \in Calls :
        call[c].pc \in Recording /\ call[d].pc \in Recording => c = d

\* What a thread that records an answer has still to do.
Pending(c) ==
    /\ call[c].pc = "counting" =>
          call[c].read = failures /\ streak = More(failures) /\ Agrees
    /\ call[c].pc = "opening" =>
          failures = streak /\ (opened # "never" => failures >= Threshold)
    /\ call[c].pc = "setting" => failures = streak /\ failures >= Threshold
    /\ call[c].pc = "clearing" => failures = 0 /\ streak = 0

Settled == failures = streak /\ Agrees

Honest ==
    /\ OneRecorder
    /\ \A c \in Calls : Pending(c)
    /\ (\A c \in Calls : call[c].pc \notin Recording) => Settled

IInv == TypeOK /\ (~overlapped => Honest)

(***************************************************************************)
(* Type correctness.                                                       *)
(***************************************************************************)

USE ThresholdAssumption

Underway == {"idle", "checking", "trying", "asking"}
CallRecord == [pc : {"idle", "checking", "trying", "asking"} \cup Recording,
               left : Seq(Models), read : Counts]

LEMMA MoreType == \A n \in Counts : More(n) \in Counts
BY DEF More, Counts

\* What a call is replaced by, unless it goes on along its chain.
LEMMA FreshCall ==
    ASSUME NEW pc \in {"idle", "checking", "trying"} \cup Recording, NEW n \in Counts
    PROVE  /\ [pc |-> pc, left |-> <<>>, read |-> n] \in CallRecord
           /\ \A s \in Seq(Models) : [pc |-> pc, left |-> s, read |-> n] \in CallRecord
<1>1. <<>> \in Seq(Models)
    OBVIOUS
<1>2. \A s \in Seq(Models) : [pc |-> pc, left |-> s, read |-> n] \in CallRecord
    BY DEF CallRecord
<1>3. QED
    BY <1>1, <1>2

LEMMA IdleCall == Idle \in CallRecord /\ Idle.pc = "idle"
<1>1. 0 \in Counts
    BY DEF Counts
<1>2. [pc |-> "idle", left |-> <<>>, read |-> 0] \in CallRecord
    BY <1>1, FreshCall
<1>3. QED
    BY <1>2 DEF Idle

LEMMA TypeInit == Init => TypeOK
<1> SUFFICES ASSUME Init PROVE TypeOK
    OBVIOUS
<1>1. call \in [Calls -> CallRecord] /\ \A c \in Calls : call[c].pc # "asking"
    BY IdleCall DEF Init
<1>2. failures \in Counts /\ streak \in Counts /\ bad \subseteq Retired
    BY DEF Init, Counts
<1>3. QED
    BY <1>1, <1>2 DEF Init, TypeOK, CallRecord

\* The next candidate of a chain is a model, and the rest is a chain.
LEMMA Candidates ==
    ASSUME NEW s \in Seq(Models), s # <<>>
    PROVE  Head(s) \in Models /\ Tail(s) \in Seq(Models)
OBVIOUS

\* A call whose record is replaced by another of its kind.
LEMMA GotoTypes ==
    ASSUME TypeOK, NEW c \in Calls, NEW next \in CallRecord, Goto(c, next),
           next.pc = "asking" => next.left # <<>>
    PROVE  /\ call' \in [Calls -> CallRecord]
           /\ \A d \in Calls : call'[d].pc = "asking" => call'[d].left # <<>>
BY DEF Goto, TypeOK, CallRecord

LEMMA TypeStep == TypeOK /\ [Next]_vars => TypeOK'
<1> SUFFICES ASSUME TypeOK, [Next]_vars PROVE TypeOK'
    OBVIOUS
<1>a. \A c \in Calls : call[c] \in CallRecord
    BY DEF TypeOK, CallRecord
<1>b. Idle \in CallRecord /\ Idle.pc # "asking"
    BY IdleCall
<1>1. ASSUME NEW c \in Calls, Call(c) PROVE TypeOK'
    <2> DEFINE next == IF failures < Threshold
                       THEN [pc |-> "trying", left |-> Chain[c], read |-> 0]
                       ELSE [pc |-> "checking", left |-> Chain[c], read |-> failures]
    <2>1. Chain[c] \in Seq(Models)
        BY ChainAssumption
    <2>2. 0 \in Counts /\ failures \in Counts
        BY DEF Counts, TypeOK
    <2>3. next \in CallRecord /\ next.pc # "asking"
        BY <2>1, <2>2, FreshCall
    <2>4. QED
        BY <1>1, <2>3, GotoTypes DEF Call, TypeOK, CallRecord
<1>2. ASSUME NEW c \in Calls, Clear(c) PROVE TypeOK'
    <2> DEFINE next == [Idle EXCEPT !.pc = "clearing"]
    <2>1. next \in CallRecord /\ next.pc # "asking"
        BY FreshCall DEF Idle, Recording, Counts
    <2>2. QED
        BY <1>2, <2>1, GotoTypes DEF Clear, Record, TypeOK, CallRecord, Counts
<1>3. ASSUME NEW c \in Calls, TryNext(c) PROVE TypeOK'
    <2> DEFINE next == IF call[c].left = <<>> THEN Idle
                       ELSE IF Head(call[c].left) \in resting
                            THEN [call[c] EXCEPT !.left = Tail(@)]
                            ELSE [call[c] EXCEPT !.pc = "asking"]
    <2>1. CASE call[c].left = <<>>
        BY <1>3, <1>b, <2>1, GotoTypes DEF TryNext, TypeOK, CallRecord
    <2>2. CASE call[c].left # <<>>
        <3>1. call[c].left \in Seq(Models)
            BY <1>a DEF CallRecord
        <3>2. Tail(call[c].left) \in Seq(Models)
            BY <2>2, <3>1, Candidates
        <3>3. next \in CallRecord /\ (next.pc = "asking" => next.left # <<>>)
            BY <1>3, <1>a, <2>2, <3>2 DEF TryNext, CallRecord
        <3>4. QED
            BY <1>3, <3>3, GotoTypes DEF TryNext, TypeOK, CallRecord
    <2>3. QED
        BY <2>1, <2>2
<1>4. ASSUME NEW c \in Calls, RateLimited(c) PROVE TypeOK'
    <2> DEFINE next == [call[c] EXCEPT !.pc = "trying", !.left = Tail(@)]
    <2>1. call[c].left \in Seq(Models) /\ call[c].left # <<>>
        BY <1>4, <1>a DEF RateLimited, CallRecord, TypeOK
    <2>2. Head(call[c].left) \in Models /\ Tail(call[c].left) \in Seq(Models)
        BY <2>1, Candidates
    <2>3. next \in CallRecord /\ next.pc # "asking"
        BY <1>a, <2>2 DEF CallRecord
    <2>4. QED
        BY <1>4, <2>2, <2>3, GotoTypes DEF RateLimited, TypeOK, CallRecord
<1>5. ASSUME NEW c \in Calls, NotAnObject(c) PROVE TypeOK'
    BY <1>5, <1>b, GotoTypes DEF NotAnObject, TypeOK, CallRecord
<1>6. ASSUME NEW c \in Calls, Fail(c) PROVE TypeOK'
    <2> DEFINE next == [pc |-> "counting", left |-> <<>>, read |-> failures]
    <2>1. next \in CallRecord /\ next.pc # "asking"
        BY FreshCall DEF Recording, TypeOK
    <2>2. QED
        BY <1>6, <2>1, GotoTypes, MoreType DEF Fail, Record, TypeOK, CallRecord
<1>7. ASSUME NEW c \in Calls, CountFailure(c) PROVE TypeOK'
    <2> DEFINE next == [Idle EXCEPT !.pc = "opening"]
    <2>1. next \in CallRecord /\ next.pc # "asking"
        BY FreshCall DEF Idle, Recording, Counts
    <2>2. call[c].read \in Counts
        BY <1>a DEF CallRecord
    <2>3. QED
        BY <1>7, <2>1, <2>2, GotoTypes, MoreType
        DEF CountFailure, Counted, TypeOK, CallRecord
<1>8. ASSUME NEW c \in Calls, OpenCircuit(c) \/ ForgetOpening(c) PROVE TypeOK'
    BY <1>8, <1>b, GotoTypes DEF OpenCircuit, ForgetOpening, TypeOK, CallRecord
<1>12. ASSUME NEW c \in Calls, CheckCooldown(c) PROVE TypeOK'
    <2>1. CASE Hot
        BY <1>12, <1>b, <2>1, GotoTypes DEF CheckCooldown, TypeOK, CallRecord
    <2>2. CASE ~Hot
        <3> DEFINE next == [call[c] EXCEPT !.pc = "trying"]
        <3>1. next \in CallRecord /\ next.pc # "asking"
            BY <1>a DEF CallRecord
        <3>2. QED
            BY <1>12, <2>2, <3>1, GotoTypes DEF CheckCooldown, TypeOK, CallRecord
    <2>3. QED
        BY <2>1, <2>2
<1>13. ASSUME NEW c \in Calls, ReachThreshold(c) PROVE TypeOK'
    <2> DEFINE next == [Idle EXCEPT !.pc = "setting"]
    <2>1. next \in CallRecord /\ next.pc # "asking"
        BY FreshCall DEF Idle, Recording, Counts
    <2>2. CASE failures >= Threshold
        BY <1>13, <2>1, <2>2, GotoTypes DEF ReachThreshold, TypeOK, CallRecord
    <2>3. CASE ~(failures >= Threshold)
        BY <1>13, <1>b, <2>3, GotoTypes DEF ReachThreshold, TypeOK, CallRecord
    <2>4. QED
        BY <2>2, <2>3
<1>9. CASE Cool \/ Recover \/ (\E m \in Models : Wake(m)) \/ UNCHANGED vars
    BY <1>9 DEF Cool, Recover, Wake, vars, TypeOK
<1>10. CASE Restart
    <2>1. call' \in [Calls -> CallRecord] /\ \A c \in Calls : call'[c].pc # "asking"
        BY <1>10, IdleCall DEF Restart
    <2>2. failures' \in Counts /\ streak' \in Counts
        BY <1>10 DEF Restart, Counts
    <2>3. QED
        BY <1>10, <2>1, <2>2 DEF Restart, TypeOK, CallRecord
<1>11. QED
    BY <1>1, <1>2, <1>3, <1>4, <1>5, <1>6, <1>7, <1>8, <1>9, <1>10, <1>12, <1>13
    DEF Next, Reset, Succeed

(***************************************************************************)
(* The count.                                                              *)
(***************************************************************************)

\* A step between two answers: one call, which records nothing before or after,
\* moves on, and neither the count nor the circuit changes.
Still(c) ==
    /\ UNCHANGED <<failures, opened, streak, overlapped>>
    /\ call[c].pc \notin Recording /\ call'[c].pc \notin Recording
    /\ \A d \in Calls \ {c} : call'[d] = call[d]

LEMMA StillStep ==
    ASSUME NEW c \in Calls, ~overlapped => Honest, Still(c)
    PROVE  ~overlapped' => Honest'
BY DEF Still, Honest, OneRecorder, Pending, Settled, Agrees, Recording

\* A step that leaves the calls, the count and whether the circuit was opened.
Outside ==
    /\ UNCHANGED <<failures, call, streak, overlapped>>
    /\ opened # "never" <=> opened' # "never"

LEMMA OutsideStep ==
    ASSUME ~overlapped => Honest, Outside
    PROVE  ~overlapped' => Honest'
BY DEF Outside, Honest, OneRecorder, Pending, Settled, Agrees

\* An answer that is the first to be recorded finds the count settled, and no
\* other thread that records.
LEMMA RecordAlone ==
    ASSUME TypeOK, NEW c \in Calls, NEW next, Record(c, next),
           ~overlapped => Honest, ~overlapped'
    PROVE  /\ Honest /\ Settled
           /\ call'[c] = next
           /\ \A d \in Calls : call[d].pc \notin Recording
           /\ \A d \in Calls \ {c} : call'[d] = call[d]
BY DEF Record, Goto, Honest, TypeOK

LEMMA FailStep ==
    ASSUME TypeOK, NEW c \in Calls, Fail(c), ~overlapped => Honest, ~overlapped'
    PROVE  Honest'
<1>1. /\ Settled
      /\ call'[c] = [pc |-> "counting", left |-> <<>>, read |-> failures]
      /\ \A d \in Calls : call[d].pc \notin Recording
      /\ \A d \in Calls \ {c} : call'[d] = call[d]
    BY RecordAlone DEF Fail
<1>2. failures' = failures /\ opened' = opened /\ streak' = More(failures)
    BY <1>1 DEF Fail, Settled
<1>3. OneRecorder'
    BY <1>1 DEF OneRecorder
<1>4. \A d \in Calls : Pending(d)'
    BY <1>1, <1>2 DEF Pending, Settled, Agrees, Idle, Recording, More
<1>5. call'[c].pc \in Recording
    BY <1>1 DEF Idle, Recording
<1>6. QED
    BY <1>3, <1>4, <1>5 DEF Honest, Recording

LEMMA ClearStep ==
    ASSUME TypeOK, NEW c \in Calls, Clear(c), ~overlapped => Honest, ~overlapped'
    PROVE  Honest'
<1>1. /\ call'[c] = [Idle EXCEPT !.pc = "clearing"]
      /\ \A d \in Calls : call[d].pc \notin Recording
      /\ \A d \in Calls \ {c} : call'[d] = call[d]
    BY RecordAlone DEF Clear
<1>2. failures' = 0 /\ streak' = 0
    BY DEF Clear
<1>3. OneRecorder'
    BY <1>1 DEF OneRecorder
<1>4. \A d \in Calls : Pending(d)'
    BY <1>1, <1>2 DEF Pending, Idle, Recording
<1>5. call'[c].pc \in Recording
    BY <1>1 DEF Idle, Recording
<1>6. QED
    BY <1>3, <1>4, <1>5 DEF Honest, Recording

\* The only thread that records goes on, and the others stay out of it.
LEMMA RecorderAlone ==
    ASSUME Honest, NEW c \in Calls, call[c].pc \in Recording
    PROVE  \A d \in Calls \ {c} : call[d].pc \notin Recording
BY DEF Honest, OneRecorder

LEMMA CountStep ==
    ASSUME TypeOK, NEW c \in Calls, CountFailure(c), Honest
    PROVE  Honest'
<1>1. /\ call[c].pc = "counting" /\ call'[c] = [Idle EXCEPT !.pc = "opening"]
      /\ \A d \in Calls \ {c} : call'[d] = call[d]
    BY DEF CountFailure, Goto, TypeOK
<1>2. \A d \in Calls \ {c} : call[d].pc \notin Recording
    BY <1>1, RecorderAlone DEF Recording
<1>3. /\ failures' = More(failures) /\ streak' = More(failures)
      /\ opened' = opened /\ Agrees
    BY <1>1 DEF CountFailure, Counted, Honest, Pending
<1>4. opened # "never" => More(failures) >= Threshold
    BY <1>3 DEF Agrees, More, TypeOK, Counts
<1>5. OneRecorder'
    BY <1>1, <1>2 DEF OneRecorder
<1>6. \A d \in Calls : Pending(d)'
    BY <1>1, <1>2, <1>3, <1>4 DEF Pending, Idle, Recording
<1>7. call'[c].pc \in Recording
    BY <1>1 DEF Idle, Recording
<1>8. QED
    BY <1>5, <1>6, <1>7 DEF Honest, Recording

\* The last step of a record leaves no thread that records.
LEMMA LastStep ==
    ASSUME TypeOK, NEW c \in Calls, Honest, call[c].pc \in Recording,
           Goto(c, Idle), Settled'
    PROVE  Honest'
<1>1. \A d \in Calls : call'[d].pc \notin Recording
    BY RecorderAlone DEF Goto, TypeOK, Idle, Recording
<1>2. QED
    BY <1>1 DEF Honest, OneRecorder, Pending, Recording

\* The count is found below the threshold, or the time is still to be set.
LEMMA ReachStep ==
    ASSUME TypeOK, NEW c \in Calls, ReachThreshold(c), Honest
    PROVE  Honest'
<1>1. /\ call[c].pc = "opening" /\ failures = streak
      /\ opened # "never" => failures >= Threshold
    BY DEF ReachThreshold, Honest, Pending
<1>2. UNCHANGED <<failures, opened, streak>>
    BY DEF ReachThreshold
<1>3. CASE failures >= Threshold
  <2>1. /\ call'[c] = [Idle EXCEPT !.pc = "setting"]
        /\ \A d \in Calls \ {c} : call'[d] = call[d]
      BY <1>3 DEF ReachThreshold, Goto, TypeOK
  <2>2. \A d \in Calls \ {c} : call[d].pc \notin Recording
      BY <1>1, RecorderAlone DEF Recording
  <2>3. OneRecorder'
      BY <2>1, <2>2 DEF OneRecorder
  <2>4. \A d \in Calls : Pending(d)'
      BY <1>1, <1>2, <1>3, <2>1, <2>2 DEF Pending, Idle, Recording
  <2>5. call'[c].pc \in Recording
      BY <2>1 DEF Idle, Recording
  <2> QED
      BY <2>3, <2>4, <2>5 DEF Honest, Recording
<1>4. CASE ~(failures >= Threshold)
  <2>1. Goto(c, Idle)
      BY <1>4 DEF ReachThreshold
  <2>2. Settled'
      BY <1>1, <1>2, <1>4 DEF Settled, Agrees
  <2> QED
      BY <1>1, <2>1, <2>2, LastStep DEF Recording
<1> QED
    BY <1>3, <1>4

LEMMA OpenStep ==
    ASSUME TypeOK, NEW c \in Calls, OpenCircuit(c), Honest
    PROVE  Honest'
<1>1. failures = streak /\ failures >= Threshold
    BY DEF OpenCircuit, Honest, Pending
<1>2. Settled'
    BY <1>1 DEF OpenCircuit, Settled, Agrees
<1>3. QED
    BY <1>2, LastStep DEF OpenCircuit, Recording

LEMMA ForgetStep ==
    ASSUME TypeOK, NEW c \in Calls, ForgetOpening(c), Honest
    PROVE  Honest'
<1>1. failures = 0 /\ streak = 0
    BY DEF ForgetOpening, Honest, Pending
<1>2. Settled'
    BY <1>1 DEF ForgetOpening, Settled, Agrees
<1>3. QED
    BY <1>2, LastStep DEF ForgetOpening, Recording

LEMMA InitInv == Init => IInv
<1> SUFFICES ASSUME Init PROVE IInv
    OBVIOUS
<1>1. \A c \in Calls : call[c].pc = "idle"
    BY DEF Init, Idle
<1>2. Settled
    BY DEF Init, Settled, Agrees
<1>3. Honest
    BY <1>1, <1>2 DEF Honest, OneRecorder, Pending, Recording
<1>4. QED
    BY <1>3, TypeInit DEF IInv

LEMMA Inductive == IInv /\ [Next]_vars => IInv'
<1> SUFFICES ASSUME TypeOK, ~overlapped => Honest, [Next]_vars, ~overlapped'
             PROVE  Honest'
    BY TypeStep DEF IInv
<1>1. ASSUME NEW c \in Calls,
             \/ Call(c) \/ CheckCooldown(c)
             \/ TryNext(c) \/ RateLimited(c) \/ NotAnObject(c)
      PROVE  Honest'
    <2>1. call[c].pc \in Underway
        BY <1>1 DEF Call, CheckCooldown, TryNext, RateLimited, NotAnObject, Underway
    <2>2. call'[c].pc \in Underway
        <3>1. CASE Call(c)
            BY <3>1 DEF Call, Goto, TypeOK, Underway
        <3>2. CASE TryNext(c)
            BY <3>2 DEF TryNext, Goto, Idle, TypeOK, Underway
        <3>3. CASE RateLimited(c)
            BY <3>3 DEF RateLimited, Goto, TypeOK, Underway
        <3>4. CASE NotAnObject(c)
            BY <3>4 DEF NotAnObject, Goto, Idle, TypeOK, Underway
        <3>5. CASE CheckCooldown(c)
            BY <3>5 DEF CheckCooldown, Goto, Idle, TypeOK, Underway
        <3>6. QED
            BY <1>1, <3>1, <3>2, <3>3, <3>4, <3>5
    <2>3. \A d \in Calls \ {c} : call'[d] = call[d]
        BY <1>1 DEF Call, CheckCooldown, TryNext, RateLimited, NotAnObject, Goto, TypeOK
    <2>4. UNCHANGED <<failures, opened, streak, overlapped>>
        BY <1>1 DEF Call, CheckCooldown, TryNext, RateLimited, NotAnObject
    <2>5. QED
        BY <2>1, <2>2, <2>3, <2>4, StillStep DEF Still, Recording, Underway
<1>2. ASSUME NEW c \in Calls, Reset(c) \/ Succeed(c) PROVE Honest'
    BY <1>2, ClearStep DEF Reset, Succeed
<1>3. ASSUME NEW c \in Calls, Fail(c) PROVE Honest'
    BY <1>3, FailStep
<1>4. ASSUME NEW c \in Calls, CountFailure(c) PROVE Honest'
    BY <1>4, CountStep DEF CountFailure
<1>5. ASSUME NEW c \in Calls, OpenCircuit(c) PROVE Honest'
    BY <1>5, OpenStep DEF OpenCircuit
<1>10. ASSUME NEW c \in Calls, ReachThreshold(c) PROVE Honest'
    BY <1>10, ReachStep DEF ReachThreshold
<1>6. ASSUME NEW c \in Calls, ForgetOpening(c) PROVE Honest'
    BY <1>6, ForgetStep DEF ForgetOpening
<1>7. CASE Cool \/ (\E m \in Models : Wake(m)) \/ Recover \/ UNCHANGED vars
    <2>1. Outside
        BY <1>7 DEF Cool, Wake, Recover, vars, Outside
    <2>2. QED
        BY <2>1, OutsideStep
<1>8. CASE Restart
    <2>1. Settled' /\ \A c \in Calls : call'[c].pc = "idle"
        BY <1>8 DEF Restart, Settled, Agrees, Idle
    <2>2. QED
        BY <2>1 DEF Honest, OneRecorder, Pending, Recording
<1>9. QED
    BY <1>1, <1>2, <1>3, <1>4, <1>5, <1>6, <1>7, <1>8, <1>10 DEF Next

(***************************************************************************)
(* Theorems.                                                               *)
(***************************************************************************)

\* The count, the circuit and every call are of their kind; a call that asks has
\* a model to ask (gemini.py, _Circuit, classify).
THEOREM TypeCorrect == Spec => []TypeOK
BY TypeInit, TypeStep, PTL DEF Spec

\* For any number of calls, organisations' chains and any threshold, as long as
\* no two answers were recorded at once, the count is the number of failures
\* since the last success, and the circuit has opened exactly when it is at the
\* threshold (gemini.py, _ask, classify).
THEOREM HonestCount == Spec => []CountIsHonest
<1>1. Spec => []IInv
    BY InitInv, Inductive, PTL DEF Spec
<1>2. IInv => CountIsHonest
    BY DEF IInv, Honest, Settled, Agrees, CountIsHonest
<1>3. QED
    BY <1>1, <1>2, PTL

(***************************************************************************)
(*                                                                         *)
(*                           The pages of Xero                             *)
(*                                                                         *)
(***************************************************************************)

HIDE ThresholdAssumption
USE PageAssumption, LedgerAssumption

\* An entry put in at a place, or taken from one, moves those after it by one.
LEMMA Inserted ==
    ASSUME NEW S, NEW s \in Seq(S), NEW e \in S, NEW i \in 1..Len(s) + 1
    PROVE  /\ InsertAt(s, i, e) \in Seq(S) /\ Len(InsertAt(s, i, e)) = Len(s) + 1
           /\ InsertAt(s, i, e)[i] = e
           /\ \A j \in 1..i - 1 : InsertAt(s, i, e)[j] = s[j]
           /\ \A j \in i + 1..Len(s) + 1 : InsertAt(s, i, e)[j] = s[j - 1]
<1> DEFINE front == SubSeq(s, 1, i - 1)
           back == SubSeq(s, i, Len(s))
           mid == front \o <<e>>
<1>1. /\ front \in Seq(S) /\ Len(front) = i - 1
      /\ \A j \in 1..i - 1 : front[j] = s[j]
    BY SubSeqProperties
<1>2. /\ back \in Seq(S) /\ Len(back) = Len(s) - i + 1
      /\ \A j \in 1..Len(s) - i + 1 : back[j] = s[i + j - 1]
    BY SubSeqProperties
<1>3. InsertAt(s, i, e) = mid \o back
    BY DEF InsertAt
<1> HIDE DEF front, back
<1>4. /\ mid \in Seq(S) /\ Len(mid) = i /\ mid[i] = e
      /\ \A j \in 1..i - 1 : mid[j] = s[j]
    BY <1>1
<1> HIDE DEF mid
<1>5. /\ mid \o back \in Seq(S) /\ Len(mid \o back) = Len(s) + 1
      /\ \A j \in 1..i : (mid \o back)[j] = mid[j]
      /\ \A j \in i + 1..Len(s) + 1 : (mid \o back)[j] = back[j - i]
  <2>1. /\ mid \o back \in Seq(S) /\ Len(mid \o back) = Len(mid) + Len(back)
        /\ \A j \in 1..Len(mid) + Len(back) :
             (mid \o back)[j] = IF j <= Len(mid) THEN mid[j] ELSE back[j - Len(mid)]
      BY <1>2, <1>4, ConcatProperties
  <2> QED
      BY <1>2, <1>4, <2>1
<1>6. \A j \in i + 1..Len(s) + 1 : back[j - i] = s[j - 1]
    BY <1>2
<1> QED
    BY <1>3, <1>4, <1>5, <1>6

LEMMA Removed ==
    ASSUME NEW S, NEW s \in Seq(S), NEW i \in 1..Len(s)
    PROVE  /\ RemoveAt(s, i) \in Seq(S) /\ Len(RemoveAt(s, i)) = Len(s) - 1
           /\ \A j \in 1..i - 1 : RemoveAt(s, i)[j] = s[j]
           /\ \A j \in i..Len(s) - 1 : RemoveAt(s, i)[j] = s[j + 1]
<1> DEFINE front == SubSeq(s, 1, i - 1)
           back == SubSeq(s, i + 1, Len(s))
<1>1. /\ front \in Seq(S) /\ Len(front) = i - 1
      /\ \A j \in 1..i - 1 : front[j] = s[j]
    BY SubSeqProperties
<1>2. /\ back \in Seq(S) /\ Len(back) = Len(s) - i
      /\ \A j \in 1..Len(s) - i : back[j] = s[i + j]
  <2>1. /\ back \in Seq(S)
        /\ Len(back) = IF i + 1 <= Len(s) THEN Len(s) - (i + 1) + 1 ELSE 0
        /\ \A j \in 1..Len(s) - (i + 1) + 1 : back[j] = s[i + 1 + j - 1]
      BY SubSeqProperties
  <2> HIDE DEF back
  <2> QED
      BY <2>1
<1>3. RemoveAt(s, i) = front \o back
    BY DEF RemoveAt
<1> HIDE DEF front, back
<1>4. /\ front \o back \in Seq(S) /\ Len(front \o back) = Len(s) - 1
      /\ \A j \in 1..i - 1 : (front \o back)[j] = front[j]
      /\ \A j \in i..Len(s) - 1 : (front \o back)[j] = back[j - i + 1]
  <2>1. /\ front \o back \in Seq(S) /\ Len(front \o back) = Len(front) + Len(back)
        /\ \A j \in 1..Len(front) + Len(back) :
             (front \o back)[j] = IF j <= Len(front) THEN front[j]
                                  ELSE back[j - Len(front)]
      BY <1>1, <1>2, ConcatProperties
  <2>2. \A j \in 1..i - 1 : (front \o back)[j] = front[j]
      BY <1>1, <1>2, <2>1
  <2>3. ASSUME NEW j \in i..Len(s) - 1
        PROVE  (front \o back)[j] = back[j - i + 1]
    <3>1. j \in 1..Len(front) + Len(back) /\ ~(j <= Len(front))
          /\ j - Len(front) = j - i + 1
        BY <1>1, <1>2
    <3> QED
        BY <2>1, <3>1
  <2>4. Len(front \o back) = Len(s) - 1
      BY <1>1, <1>2, <2>1
  <2> QED
      BY <2>1, <2>2, <2>3, <2>4
<1>5. \A j \in i..Len(s) - 1 : back[j - i + 1] = s[j + 1]
    BY <1>2
<1> QED
    BY <1>1, <1>3, <1>4, <1>5

(***************************************************************************)
(* The inductive invariant.                                                *)
(***************************************************************************)

\* Before the pull, an entry's id is its place in the ledger.
StartInv ==
    pull = "waiting" =>
        /\ late = 0 /\ left = 0 /\ got = <<>> /\ page = 1 /\ Len(ledger) = before
        /\ \A i \in DOMAIN ledger : ledger[i].id = i

\* Where the page to ask for begins.
Offset == page * PageSize - PageSize

\* As long as nothing is entered, the ledger and what was read of it are in the
\* order of the ids, and what is yet to be read comes after what was: whoever
\* goes moves nothing back behind the page.
OnceInv ==
    late = 0 =>
        /\ \A i, j \in DOMAIN ledger : i < j => ledger[i].id < ledger[j].id
        /\ \A m, n \in DOMAIN got : m < n => got[m].id < got[n].id
        /\ pull = "reading" =>
             \A n \in DOMAIN got, i \in DOMAIN ledger :
                i > Offset => got[n].id < ledger[i].id

\* As long as nobody goes, what was there is read, or yet to be read: whoever
\* comes moves nothing to before the page.
AllInv ==
    left = 0 /\ pull \in {"reading", "done"} =>
        \A id \in 1..before :
            \/ \E n \in DOMAIN got : got[n].id = id
            \/ /\ pull = "reading"
               /\ \E i \in DOMAIN ledger : i > Offset /\ ledger[i].id = id

PullInv == PullTypeOK /\ StartInv /\ OnceInv /\ AllInv

LEMMA PullInvInit == PullInit => PullInv
BY DEF PullInit, PullInv, PullTypeOK, StartInv, OnceInv, AllInv, Offset, pullVars

LEMMA PullInvEnter ==
    ASSUME PullInv, NEW inv \in Invoices, EnterEarly(inv)
    PROVE  PullInv'
<1> DEFINE entry == [id |-> before + 1, of |-> inv]
<1>1. /\ pull = "waiting" /\ before < MaxLedger /\ before' = before + 1
      /\ ledger' = Append(ledger, entry)
      /\ UNCHANGED <<pull, got, page, attempt, late, left>>
    BY DEF EnterEarly
<1>2. /\ ledger \in Seq(Entry) /\ before \in 0..MaxLedger /\ Len(ledger) = before
      /\ late = 0 /\ left = 0 /\ got = <<>> /\ page = 1
      /\ \A i \in DOMAIN ledger : ledger[i].id = i
    BY <1>1 DEF PullInv, PullTypeOK, StartInv
<1>3. entry \in Entry /\ entry.id = before + 1
    BY <1>1, <1>2 DEF Entry
<1> HIDE DEF entry
<1>4. /\ ledger' \in Seq(Entry) /\ Len(ledger') = before'
      /\ \A i \in DOMAIN ledger' : ledger'[i].id = i
    BY <1>1, <1>2, <1>3
<1>5. PullTypeOK'
    BY <1>1, <1>2, <1>4 DEF PullInv, PullTypeOK
<1>6. DOMAIN ledger' = 1..before'
    BY <1>4
<1>7. StartInv' /\ AllInv'
    BY <1>1, <1>2, <1>4 DEF StartInv, AllInv
<1>8. OnceInv'
    BY <1>1, <1>2, <1>4, <1>6 DEF OnceInv
<1> QED
    BY <1>5, <1>7, <1>8 DEF PullInv

LEMMA PullInvStart ==
    ASSUME PullInv, Start
    PROVE  PullInv'
<1>1. /\ pull = "waiting" /\ pull' = "reading"
      /\ UNCHANGED <<ledger, got, page, attempt, before, late, left>>
    BY DEF Start
<1>2. /\ ledger \in Seq(Entry) /\ before \in Nat /\ Len(ledger) = before
      /\ got = <<>> /\ page = 1 /\ \A i \in DOMAIN ledger : ledger[i].id = i
    BY <1>1 DEF PullInv, PullTypeOK, StartInv
<1>3. PullTypeOK' /\ StartInv'
    BY <1>1 DEF PullInv, PullTypeOK, StartInv
<1>4. OnceInv'
    BY <1>1, <1>2 DEF PullInv, OnceInv, Offset
<1>5. Offset = 0
    BY <1>2 DEF Offset
<1>6. AllInv'
    BY <1>1, <1>2, <1>5 DEF AllInv, Offset
<1> QED
    BY <1>3, <1>4, <1>6 DEF PullInv

LEMMA PullInvEnterLate ==
    ASSUME PullInv, NEW inv \in Invoices, NEW i \in 1..Len(ledger) + 1,
           EnterLate(inv, i)
    PROVE  PullInv'
<1> DEFINE entry == [id |-> before + late + 1, of |-> inv]
<1>1. /\ pull = "reading" /\ late + left < MaxEdits /\ late' = late + 1
      /\ ledger' = InsertAt(ledger, i, entry)
      /\ UNCHANGED <<pull, got, page, attempt, before, left>>
    BY DEF EnterLate
<1>2. /\ ledger \in Seq(Entry) /\ before \in 0..MaxLedger
      /\ late \in Nat /\ left \in Nat /\ page \in Nat
    BY DEF PullInv, PullTypeOK
<1>3. entry \in Entry
    BY <1>1, <1>2 DEF Entry
<1> HIDE DEF entry
<1>4. /\ ledger' \in Seq(Entry) /\ Len(ledger') = Len(ledger) + 1
      /\ \A j \in 1..i - 1 : ledger'[j] = ledger[j]
      /\ \A j \in i + 1..Len(ledger) + 1 : ledger'[j] = ledger[j - 1]
  <2> DEFINE t == InsertAt(ledger, i, entry)
  <2>1. ledger \in Seq(Entry) /\ i \in 1..Len(ledger) + 1
      BY <1>2
  <2>2. /\ t \in Seq(Entry) /\ Len(t) = Len(ledger) + 1
        /\ \A j \in 1..i - 1 : t[j] = ledger[j]
        /\ \A j \in i + 1..Len(ledger) + 1 : t[j] = ledger[j - 1]
      BY ONLY <1>3, <2>1, Inserted
  <2>3. ledger' = t
      BY <1>1
  <2> QED
      BY ONLY <2>2, <2>3
<1>5. PullTypeOK'
    BY <1>1, <1>2, <1>4 DEF PullInv, PullTypeOK
<1>6. StartInv' /\ OnceInv'
    BY <1>1, <1>2 DEF StartInv, OnceInv
<1>7. ASSUME NEW j \in DOMAIN ledger
      PROVE  \E k \in DOMAIN ledger' : k >= j /\ ledger'[k] = ledger[j]
  <2>1. CASE j < i
    <3>1. j \in 1..i - 1 /\ j \in DOMAIN ledger'
        BY <1>2, <1>4, <2>1
    <3> QED
        BY <1>4, <3>1
  <2>2. CASE j >= i
    <3>1. j + 1 \in i + 1..Len(ledger) + 1 /\ j + 1 \in DOMAIN ledger'
        BY <1>2, <1>4, <2>2
    <3>2. ledger'[j + 1] = ledger[j]
        BY <1>2, <1>4, <3>1
    <3> QED
        BY <1>2, <3>1, <3>2
  <2> QED
      BY <1>2, <2>1, <2>2
<1>8. Offset' = Offset /\ Offset \in Int
    BY <1>1, <1>2 DEF Offset
<1>9. DOMAIN ledger \subseteq Int /\ DOMAIN ledger' \subseteq Int
    BY <1>2, <1>4
<1>10. AllInv'
    BY <1>1, <1>7, <1>8, <1>9 DEF PullInv, AllInv
<1> QED
    BY <1>5, <1>6, <1>10 DEF PullInv

LEMMA PullInvLeave ==
    ASSUME PullInv, NEW i \in DOMAIN ledger, Leave(i)
    PROVE  PullInv'
<1>1. /\ pull = "reading" /\ late + left < MaxEdits /\ left' = left + 1
      /\ ledger' = RemoveAt(ledger, i)
      /\ UNCHANGED <<pull, got, page, attempt, before, late>>
    BY DEF Leave
<1>2. /\ ledger \in Seq(Entry) /\ late \in Nat /\ left \in Nat /\ page \in Nat
      /\ i \in 1..Len(ledger)
    BY DEF PullInv, PullTypeOK
<1>3. /\ ledger' \in Seq(Entry) /\ Len(ledger') = Len(ledger) - 1
      /\ \A j \in 1..i - 1 : ledger'[j] = ledger[j]
      /\ \A j \in i..Len(ledger) - 1 : ledger'[j] = ledger[j + 1]
    BY <1>1, <1>2, Removed
<1>4. PullTypeOK'
    BY <1>1, <1>2, <1>3 DEF PullInv, PullTypeOK
<1>5. StartInv' /\ AllInv'
    BY <1>1, <1>2 DEF StartInv, AllInv
<1> DEFINE old(j) == IF j < i THEN j ELSE j + 1
<1>6. ASSUME NEW j \in DOMAIN ledger'
      PROVE  /\ old(j) \in DOMAIN ledger /\ ledger'[j] = ledger[old(j)]
             /\ old(j) >= j
  <2>1. j \in 1..Len(ledger) - 1 /\ Len(ledger) \in Nat
      BY <1>2, <1>3
  <2>2. CASE j < i
      BY <1>2, <1>3, <2>1, <2>2
  <2>3. CASE j >= i
    <3>1. j \in i..Len(ledger) - 1 /\ old(j) = j + 1
        BY <1>2, <2>1, <2>3
    <3>2. ledger'[j] = ledger[j + 1]
        BY <1>3, <3>1
    <3> QED
        BY <1>2, <2>1, <3>1, <3>2
  <2> QED
      BY <1>2, <2>1, <2>2, <2>3
<1>7. \A j, k \in DOMAIN ledger' : j < k => old(j) < old(k)
    BY <1>2, <1>3
<1>8. Offset' = Offset /\ Offset \in Int
    BY <1>1, <1>2 DEF Offset
<1>9. DOMAIN ledger \subseteq Int /\ DOMAIN ledger' \subseteq Int
    BY <1>2, <1>3
<1> HIDE DEF old
<1>10. ASSUME late = 0
       PROVE  \A j, k \in DOMAIN ledger' : j < k => ledger'[j].id < ledger'[k].id
    BY <1>6, <1>7, <1>10 DEF PullInv, OnceInv
<1>11. ASSUME late = 0
       PROVE  \A n \in DOMAIN got, j \in DOMAIN ledger' :
                 j > Offset => got[n].id < ledger'[j].id
    BY <1>1, <1>6, <1>8, <1>9, <1>11 DEF PullInv, OnceInv
<1>12. OnceInv'
    BY <1>1, <1>8, <1>10, <1>11 DEF PullInv, OnceInv
<1> QED
    BY <1>4, <1>5, <1>12 DEF PullInv


\* The page that is read goes on from where the last one ended to this place: a
\* page further, if there is to be another, and to the ledger's end, if not.
ReadsUpTo(stop) ==
    /\ pull = "reading" /\ attempt' = 1 /\ UNCHANGED <<ledger, before, late, left>>
    /\ IF pull' = "reading" THEN page' = page + 1 ELSE pull' = "done" /\ page' = page
    /\ Offset \in Nat /\ stop \in Nat /\ stop <= Len(ledger) /\ stop <= Offset + PageSize
    /\ pull' = "reading" => stop = Offset + PageSize /\ Offset' = stop
    /\ pull' # "reading" => stop = Len(ledger)
    /\ got' \in Seq(Entry)
    /\ Len(got') = Len(got) + (IF Offset < stop THEN stop - Offset ELSE 0)
    /\ \A n \in DOMAIN got : n \in DOMAIN got' /\ got'[n] = got[n]
    /\ \A n \in DOMAIN got' \ DOMAIN got :
          /\ n > Len(got) /\ Offset + n - Len(got) \in Offset + 1..stop
          /\ Offset + n - Len(got) \in DOMAIN ledger
          /\ got'[n] = ledger[Offset + n - Len(got)]
    /\ \A i \in DOMAIN ledger : i > Offset /\ i <= stop =>
          \E n \in DOMAIN got' : got'[n] = ledger[i]

LEMMA PageRead ==
    ASSUME PullInv, ReadPage
    PROVE  \E stop : ReadsUpTo(stop)
<1> DEFINE end == page * PageSize
           stop == IF end < Len(ledger) THEN end ELSE Len(ledger)
           batch == SubSeq(ledger, end - PageSize + 1, stop)
<1>1. /\ pull = "reading" /\ got' = got \o batch /\ attempt' = 1
      /\ IF Full(batch) THEN page' = page + 1 /\ pull' = pull
         ELSE pull' = "done" /\ page' = page
      /\ UNCHANGED <<ledger, before, late, left>>
    BY DEF ReadPage
<1>2. /\ ledger \in Seq(Entry) /\ got \in Seq(Entry) /\ page \in Nat \ {0}
      /\ Len(ledger) \in Nat /\ Len(got) \in Nat
    BY DEF PullInv, PullTypeOK
<1>3. /\ end \in Nat /\ Offset \in Nat /\ end = Offset + PageSize
      /\ PageSize \in Nat \ {0} /\ Full(batch) => Offset' = end
    BY <1>1, <1>2 DEF Offset
<1> HIDE DEF end
<1>4. stop \in Nat /\ stop <= Len(ledger) /\ stop <= end
      /\ (stop = end \/ stop = Len(ledger))
    BY <1>2, <1>3
<1> HIDE DEF stop
<1>5. /\ batch \in Seq(Entry)
      /\ Len(batch) = IF Offset + 1 <= stop THEN stop - Offset ELSE 0
      /\ \A j \in 1..stop - Offset : batch[j] = ledger[Offset + j]
  <2>1. \A j \in end - PageSize + 1..stop : ledger[j] \in Entry
      BY <1>2, <1>3, <1>4
  <2>2. end - PageSize + 1 \in Int /\ stop \in Int
      BY <1>3, <1>4
  <2>3. /\ batch \in Seq(Entry)
        /\ Len(batch) = IF end - PageSize + 1 <= stop
                        THEN stop - (end - PageSize + 1) + 1 ELSE 0
        /\ \A j \in 1..stop - (end - PageSize + 1) + 1 :
             batch[j] = ledger[end - PageSize + 1 + j - 1]
      BY ONLY <2>1, <2>2, SubSeqProperties
  <2> HIDE DEF batch
  <2> QED
      BY <1>3, <1>4, <2>3
<1> HIDE DEF batch
<1>6. /\ got' \in Seq(Entry) /\ Len(got') = Len(got) + Len(batch)
      /\ \A j \in 1..Len(got) + Len(batch) :
           got'[j] = IF j <= Len(got) THEN got[j] ELSE batch[j - Len(got)]
    BY <1>1, <1>2, <1>5, ConcatProperties
<1>7. ASSUME NEW n \in DOMAIN got'
      PROVE  \/ n \in DOMAIN got /\ got'[n] = got[n]
             \/ /\ n > Len(got) /\ Offset + n - Len(got) \in DOMAIN ledger
                /\ got'[n] = ledger[Offset + n - Len(got)]
                /\ Offset + n - Len(got) \in Offset + 1..stop
  <2>1. n \in 1..Len(got) + Len(batch) /\ Len(batch) \in Nat
      BY <1>5, <1>6
  <2>2. CASE n <= Len(got)
      BY <1>2, <1>6, <2>1, <2>2
  <2>3. CASE n > Len(got)
    <3>1. n - Len(got) \in 1..stop - Offset /\ got'[n] = batch[n - Len(got)]
      <4>1. n - Len(got) \in 1..Len(batch)
          BY <1>2, <2>1, <2>3
      <4>2. Len(batch) = stop - Offset
          BY <1>3, <1>4, <1>5, <4>1
      <4>3. got'[n] = batch[n - Len(got)]
          BY <1>2, <1>6, <2>1, <2>3
      <4> QED
          BY <4>1, <4>2, <4>3
    <3>2. batch[n - Len(got)] = ledger[Offset + (n - Len(got))]
        BY <1>5, <3>1
    <3>3. /\ Offset + (n - Len(got)) = Offset + n - Len(got)
          /\ Offset + n - Len(got) \in Offset + 1..stop
        BY <1>2, <1>3, <1>4, <2>1, <3>1
    <3> QED
        BY <1>2, <1>3, <1>4, <2>3, <3>1, <3>2, <3>3
  <2> QED
      BY <1>2, <2>1, <2>2, <2>3
<1>8. ASSUME NEW i \in DOMAIN ledger, i > Offset, i <= stop
      PROVE  \E n \in DOMAIN got' : got'[n] = ledger[i]
  <2> DEFINE n == Len(got) + (i - Offset)
  <2>1. i - Offset \in 1..Len(batch) /\ i \in Nat
      BY <1>2, <1>3, <1>4, <1>5, <1>8
  <2>2. n \in DOMAIN got' /\ n \in 1..Len(got) + Len(batch) /\ n > Len(got)
        /\ n - Len(got) = i - Offset
      BY <1>2, <1>5, <1>6, <2>1
  <2>3. batch[i - Offset] = ledger[Offset + (i - Offset)]
      BY <1>3, <1>4, <1>5, <1>8, <2>1
  <2>4. Offset + (i - Offset) = i
      BY <1>3, <2>1
  <2> HIDE DEF n
  <2> QED
      BY <1>6, <2>2, <2>3, <2>4
<1>9. ASSUME NEW n \in DOMAIN got
      PROVE  n \in DOMAIN got' /\ got'[n] = got[n]
  <2>1. n \in 1..Len(got) + Len(batch) /\ n <= Len(got)
      BY <1>2, <1>5
  <2> QED
      BY <1>6, <2>1
<1>10. ~Full(batch) => stop = Len(ledger)
    BY <1>2, <1>3, <1>4, <1>5 DEF Full
<1>11. Full(batch) => stop = end
    BY <1>2, <1>3, <1>4, <1>5 DEF Full
<1>12. Len(got') = Len(got) + (IF Offset < stop THEN stop - Offset ELSE 0)
    BY <1>2, <1>3, <1>4, <1>5, <1>6
<1>13. IF pull' = "reading" THEN Full(batch) /\ page' = page + 1
       ELSE ~Full(batch) /\ pull' = "done" /\ page' = page
    BY <1>1
<1>14. \A n \in DOMAIN got' \ DOMAIN got :
          /\ n > Len(got) /\ Offset + n - Len(got) \in Offset + 1..stop
          /\ Offset + n - Len(got) \in DOMAIN ledger
          /\ got'[n] = ledger[Offset + n - Len(got)]
    BY <1>7
<1>15. \A i \in DOMAIN ledger : i > Offset /\ i <= stop =>
          \E n \in DOMAIN got' : got'[n] = ledger[i]
    BY <1>8
<1>16. ReadsUpTo(stop)
    BY <1>1, <1>3, <1>4, <1>6, <1>9, <1>10, <1>11, <1>12, <1>13, <1>14, <1>15
       DEF ReadsUpTo
<1> QED
    BY <1>16

LEMMA PullInvReadPage ==
    ASSUME PullInv, ReadPage
    PROVE  PullInv'
<1>1. PICK stop : ReadsUpTo(stop)
    BY PageRead
<1>2. /\ ledger \in Seq(Entry) /\ got \in Seq(Entry) /\ page \in Nat \ {0}
      /\ Len(ledger) \in Nat /\ Len(got) \in Nat /\ PageSize \in Nat
    BY DEF PullInv, PullTypeOK
<1>3. /\ Offset \in Nat /\ stop \in Nat /\ stop <= Len(ledger)
      /\ got' \in Seq(Entry) /\ Len(got') \in Nat
    BY <1>1, <1>2 DEF ReadsUpTo
<1>4. \A n \in DOMAIN got : n \in DOMAIN got' /\ got'[n] = got[n]
    BY <1>1 DEF ReadsUpTo
<1>5. \A n \in DOMAIN got' \ DOMAIN got :
         /\ n > Len(got) /\ Offset + n - Len(got) \in Offset + 1..stop
         /\ Offset + n - Len(got) \in DOMAIN ledger
         /\ got'[n] = ledger[Offset + n - Len(got)]
    BY <1>1 DEF ReadsUpTo
<1>6. \A i \in DOMAIN ledger : i > Offset /\ i <= stop =>
         \E n \in DOMAIN got' : got'[n] = ledger[i]
    BY <1>1 DEF ReadsUpTo
<1>7. /\ pull = "reading" /\ UNCHANGED <<ledger, before, late, left>>
      /\ pull' = "reading" => Offset' = stop
      /\ pull' # "reading" => pull' = "done" /\ stop = Len(ledger)
    BY <1>1 DEF ReadsUpTo
<1>8. PullTypeOK'
    BY <1>1, <1>2, <1>3 DEF PullInv, PullTypeOK, ReadsUpTo
<1>9. StartInv'
    BY <1>7 DEF StartInv
<1>10. OnceInv'
  <2> SUFFICES ASSUME late = 0
               PROVE  OnceInv'
      BY <1>7 DEF OnceInv
  <2>1. /\ \A i, j \in DOMAIN ledger : i < j => ledger[i].id < ledger[j].id
        /\ \A m, n \in DOMAIN got : m < n => got[m].id < got[n].id
        /\ \A n \in DOMAIN got, i \in DOMAIN ledger :
              i > Offset => got[n].id < ledger[i].id
      BY <1>7 DEF PullInv, OnceInv
  <2>2. ASSUME NEW m \in DOMAIN got', NEW n \in DOMAIN got', m < n
        PROVE  got'[m].id < got'[n].id
    <3>1. m \in Nat /\ n \in Nat
        BY <1>3
    <3>2. n \in DOMAIN got => m \in DOMAIN got
        BY <1>2, <1>3, <2>2, <3>1
    <3>3. CASE n \in DOMAIN got
        BY <1>4, <2>1, <2>2, <3>2, <3>3
    <3>4. CASE n \notin DOMAIN got
      <4> DEFINE k == Offset + n - Len(got)
                 l == Offset + m - Len(got)
      <4>1. k \in DOMAIN ledger /\ k > Offset /\ got'[n] = ledger[k]
          BY <1>3, <1>5, <3>4
      <4>2. CASE m \in DOMAIN got
          BY <1>4, <2>1, <4>1, <4>2
      <4>3. CASE m \notin DOMAIN got
        <5>1. l \in DOMAIN ledger /\ got'[m] = ledger[l]
            BY <1>5, <4>3
        <5>2. l < k
            BY <1>2, <1>3, <2>2, <3>1
        <5> HIDE DEF k, l
        <5> QED
            BY <2>1, <4>1, <5>1, <5>2
      <4> QED
          BY <4>2, <4>3
    <3> QED
        BY <3>3, <3>4
  <2>3. ASSUME pull' = "reading", NEW n \in DOMAIN got', NEW i \in DOMAIN ledger,
               i > Offset'
        PROVE  got'[n].id < ledger[i].id
    <3>1. i > stop /\ i > Offset /\ i \in Nat
      <4>1. i \in Nat /\ i > stop
          BY <1>2, <1>7, <2>3
      <4>2. stop = Offset + PageSize
          BY <1>1, <2>3 DEF ReadsUpTo
      <4> QED
          BY <1>2, <1>3, <4>1, <4>2
    <3>2. CASE n \in DOMAIN got
        BY <1>4, <2>1, <3>1, <3>2
    <3>3. CASE n \notin DOMAIN got
      <4> DEFINE k == Offset + n - Len(got)
      <4>1. k \in DOMAIN ledger /\ got'[n] = ledger[k] /\ k <= stop /\ k \in Int
          BY <1>2, <1>3, <1>5, <3>3
      <4> HIDE DEF k
      <4>2. k < i
          BY <1>3, <3>1, <4>1
      <4> QED
          BY <2>1, <4>1, <4>2
    <3> QED
        BY <3>2, <3>3
  <2> QED
      BY <1>7, <2>1, <2>2, <2>3 DEF OnceInv
<1>11. AllInv'
  <2> SUFFICES ASSUME left = 0, NEW id \in 1..before,
                      \A n \in DOMAIN got' : got'[n].id # id
               PROVE  pull' = "reading" /\ \E i \in DOMAIN ledger :
                                              i > Offset' /\ ledger[i].id = id
      BY <1>7 DEF AllInv
  <2>1. \A n \in DOMAIN got : got[n].id # id
      BY <1>4
  <2>2. PICK i \in DOMAIN ledger : i > Offset /\ ledger[i].id = id
      BY <1>7, <2>1 DEF PullInv, AllInv
  <2>3. ~(i <= stop)
      BY <1>6, <2>2
  <2>4. i \in Nat /\ i <= Len(ledger)
      BY <1>2
  <2> QED
      BY <1>3, <1>7, <2>2, <2>3, <2>4
<1> QED
    BY <1>8, <1>9, <1>10, <1>11 DEF PullInv

LEMMA PullInvNext == PullInv /\ [PullNext(Invoices)]_pullVars => PullInv'
<1> SUFFICES ASSUME PullInv, [PullNext(Invoices)]_pullVars
             PROVE  PullInv'
    OBVIOUS
<1>1. ASSUME Retry \/ FailPull
      PROVE  PullInv'
  <2>1. /\ pull = "reading" /\ pull' \in {"reading", "failed"}
        /\ attempt' \in 1..MaxRetries
        /\ UNCHANGED <<ledger, got, page, before, late, left>>
    <3>1. attempt \in 1..MaxRetries
        BY DEF PullInv, PullTypeOK
    <3> QED
        BY <1>1, <3>1 DEF Retry, FailPull
  <2>2. PullTypeOK'
      BY <2>1 DEF PullInv, PullTypeOK
  <2>3. StartInv' /\ OnceInv' /\ AllInv'
      BY <2>1 DEF PullInv, StartInv, OnceInv, AllInv, Offset
  <2> QED
      BY <2>2, <2>3 DEF PullInv
<1>2. ASSUME UNCHANGED pullVars
      PROVE  PullInv'
    BY <1>2 DEF pullVars, PullInv, PullTypeOK, StartInv, OnceInv, AllInv, Offset
<1> QED
    BY <1>1, <1>2, PullInvEnter, PullInvStart, PullInvEnterLate, PullInvLeave,
       PullInvReadPage DEF PullNext

LEMMA PullInvGives == PullInv => EachIsReadOnce
<1> SUFFICES ASSUME PullInv PROVE EachIsReadOnce
    OBVIOUS
<1>1. got \in Seq(Entry) /\ before \in Nat
    BY DEF PullInv, PullTypeOK
<1>2. ASSUME late = 0, NEW m \in DOMAIN got, NEW n \in DOMAIN got,
             got[m].id = got[n].id
      PROVE  m = n
  <2>1. /\ m < n => got[m].id < got[n].id
        /\ n < m => got[n].id < got[m].id
      BY <1>2 DEF PullInv, OnceInv
  <2>2. m \in Nat /\ n \in Nat /\ got[m] \in Entry
      BY <1>1
  <2>3. got[m].id \in Int
      BY <2>2 DEF Entry
  <2> QED
      BY <1>2, <2>1, <2>2, <2>3
<1>3. ASSUME pull = "done", left = 0, NEW id \in 1..before
      PROVE  \E n \in DOMAIN got : got[n].id = id
    BY <1>3 DEF PullInv, AllInv
<1> QED
    BY <1>2, <1>3 DEF EachIsReadOnce


(***************************************************************************)
(* Theorems.                                                               *)
(***************************************************************************)

\* The pull's state is of its kind: a page to ask for, an attempt within its
\* limit, entries with ids (xero.py, get_bills, _get).
THEOREM PullTypeCorrect == PullSpec => []PullTypeOK
<1>1. PullInv => PullTypeOK
    BY DEF PullInv
<1> QED
    BY <1>1, PullInvInit, PullInvNext, PTL DEF PullSpec

\* For any page size, whoever enters or leaves in the middle of a pull, and
\* however often its pages are asked for again: nothing is read twice unless
\* something was entered meanwhile, nothing is missed unless something went
\* (xero.py, get_bills, get_receivables).
THEOREM ReadOnce == PullSpec => []EachIsReadOnce
BY PullInvInit, PullInvNext, PullInvGives, PTL DEF PullSpec

(***************************************************************************)
(*                                                                         *)
(*                            The workflows' run                           *)
(*                                                                         *)
(***************************************************************************)

(***************************************************************************)
(* The inductive invariant: what was read is the ledger, as long as nobody *)
(* touches it; the bank details are those of the last import; the rows are *)
(* what the workflow makes of the two, which nothing changes any more; and *)
(* the bank file is of these rows.                                         *)
(***************************************************************************)

\* As long as nobody touches the ledger, what was read is its beginning.
Faithful ==
    late = 0 /\ left = 0 /\ pull \in {"reading", "done"} =>
        /\ pull = "reading" => Len(got) = Offset
        /\ pull = "done" => Len(got) = Len(ledger)
        /\ Len(got) <= Len(ledger)
        /\ \A n \in 1..Len(got) : got[n] = ledger[n]

\* The ledger holds what the workflow asks for.
OfItsKind ==
    /\ \A n \in DOMAIN ledger : ledger[n].of \in Possible
    /\ \A n \in DOMAIN got : got[n].of \in Possible

LastImported ==
    /\ details = Details(imported)
    /\ imported = <<>> \/ imported \in Imports

\* What the rows are, once they are made.
Made ==
    rows # NotYet =>
        /\ pull = "done"
        /\ asked.workflow = "chase" =>
              rows = ChaseRows(Read, asked.minDays, asked.minAmount, asked.found)
        /\ asked.workflow = "pay" => rows = PayRows(Read, OnRecord, asked)

\* What the bank file is, once it is made.
Approved ==
    artifact # NotYet =>
        /\ rows # NotYet /\ asked.workflow = "pay"
        /\ DOMAIN artifact \subseteq DOMAIN rows
        /\ \A n \in DOMAIN artifact : artifact[n] = File[n]

RulesInv ==
    /\ PullInv /\ Faithful /\ OfItsKind /\ LastImported /\ Made /\ Approved
    /\ asked \in Parameters /\ imports \in 0..MaxImports

LEMMA PullNextIn ==
    ASSUME NEW S, S \subseteq Invoices, PullNext(S)
    PROVE  PullNext(Invoices) /\ pull \in {"waiting", "reading"}
BY DEF PullNext, EnterEarly, Start, EnterLate, Leave, ReadPage, Retry, FailPull

LEMMA PossibleIn == Possible \subseteq Invoices
BY PossibleAssumption DEF Possible

LEMMA FaithfulStep ==
    ASSUME PullInv, Faithful, [PullNext(Invoices)]_pullVars
    PROVE  Faithful'
<1>1. /\ ledger \in Seq(Entry) /\ got \in Seq(Entry) /\ late \in Nat /\ left \in Nat
      /\ Len(ledger) \in Nat /\ Len(got) \in Nat
    BY DEF PullInv, PullTypeOK
<1>2. ASSUME late' # 0 \/ left' # 0 \/ pull' \notin {"reading", "done"}
      PROVE  Faithful'
    BY <1>2 DEF Faithful
<1>3. CASE Start
  <2>1. got' = <<>> /\ page' = 1 /\ pull' = "reading" /\ ledger' = ledger
      BY <1>3 DEF Start, PullInv, StartInv
  <2>2. Offset' = 0 /\ Len(got') = 0 /\ 1..Len(got') = {}
      BY <2>1 DEF Offset
  <2> QED
      BY <1>1, <2>1, <2>2 DEF Faithful
<1>4. CASE ReadPage
  <2> SUFFICES ASSUME late = 0, left = 0
               PROVE  Faithful'
    <3>1. late' = late /\ left' = left
        BY <1>4 DEF ReadPage
    <3> QED
        BY <1>2, <3>1
  <2>1. PICK stop : ReadsUpTo(stop)
      BY <1>4, PageRead
  <2>2. /\ pull = "reading" /\ ledger' = ledger /\ pull' \in {"reading", "done"}
        /\ Offset \in Nat /\ stop \in Nat /\ stop <= Len(ledger)
        /\ pull' = "reading" => stop = Offset + PageSize /\ Offset' = stop
        /\ pull' # "reading" => stop = Len(ledger)
        /\ got' \in Seq(Entry)
        /\ Len(got') = Len(got) + (IF Offset < stop THEN stop - Offset ELSE 0)
      BY <2>1 DEF ReadsUpTo
  <2>3. /\ Len(got) = Offset /\ Len(got) <= Len(ledger)
        /\ \A n \in 1..Len(got) : got[n] = ledger[n]
      BY <2>2 DEF Faithful
  <2>4. Offset <= stop
      BY <1>1, <2>2, <2>3
  <2>5. Len(got') = stop
      BY <2>2, <2>3, <2>4
  <2>6. ASSUME NEW n \in 1..Len(got')
        PROVE  got'[n] = ledger[n]
    <3>1. n \in DOMAIN got' /\ n \in Int
        BY <2>2
    <3>2. CASE n \in DOMAIN got
      <4>1. got'[n] = got[n]
          BY <2>1, <3>2 DEF ReadsUpTo
      <4> QED
          BY <1>1, <2>3, <3>2, <4>1
    <3>3. CASE n \notin DOMAIN got
      <4>1. got'[n] = ledger[Offset + n - Len(got)]
          BY <2>1, <3>1, <3>3 DEF ReadsUpTo
      <4>2. Offset + n - Len(got) = n
          BY <2>2, <2>3, <3>1
      <4> QED
          BY <4>1, <4>2
    <3> QED
        BY <3>2, <3>3
  <2>7. /\ pull' = "reading" => Len(got') = Offset'
        /\ pull' = "done" => Len(got') = Len(ledger')
        /\ Len(got') <= Len(ledger')
      BY <2>2, <2>5
  <2>8. \A n \in 1..Len(got') : got'[n] = ledger'[n]
      BY <2>2, <2>6
  <2> QED
      BY <2>7, <2>8 DEF Faithful
<1>5. ASSUME Retry \/ FailPull \/ UNCHANGED pullVars
      PROVE  Faithful'
  <2>1. /\ UNCHANGED <<ledger, got, page, late, left>>
        /\ pull' = pull \/ pull' = "failed"
      BY <1>5 DEF Retry, FailPull, pullVars
  <2>2. Offset' = Offset
      BY <2>1 DEF Offset
  <2>3. CASE pull' = pull
      BY <2>1, <2>2, <2>3 DEF Faithful
  <2> QED
      BY <1>2, <2>1, <2>3
<1>6. ASSUME NEW inv \in Invoices, EnterEarly(inv)
      PROVE  Faithful'
    BY <1>2, <1>6 DEF EnterEarly
<1>7. ASSUME NEW inv \in Invoices, NEW i \in 1..Len(ledger) + 1, EnterLate(inv, i)
      PROVE  Faithful'
  <2>1. late' = late + 1
      BY <1>7 DEF EnterLate
  <2> QED
      BY <1>1, <1>2, <2>1
<1>8. ASSUME NEW i \in DOMAIN ledger, Leave(i)
      PROVE  Faithful'
  <2>1. left' = left + 1
      BY <1>8 DEF Leave
  <2> QED
      BY <1>1, <1>2, <2>1
<1> QED
    BY <1>3, <1>4, <1>5, <1>6, <1>7, <1>8 DEF PullNext

LEMMA KindStep ==
    ASSUME PullInv, OfItsKind, [PullNext(Possible)]_pullVars, asked' = asked
    PROVE  OfItsKind'
<1>1. ledger \in Seq(Entry) /\ got \in Seq(Entry) /\ late \in Nat /\ before \in 0..MaxLedger
    BY DEF PullInv, PullTypeOK
<1>2. Possible' = Possible /\ Possible \subseteq Invoices
    BY PossibleIn DEF Possible
<1>3. /\ \A n \in DOMAIN ledger : ledger[n].of \in Possible
      /\ \A n \in DOMAIN got : got[n].of \in Possible
    BY DEF OfItsKind
<1>4. ASSUME UNCHANGED <<ledger, got>>
      PROVE  OfItsKind'
    BY <1>2, <1>3, <1>4 DEF OfItsKind
<1>5. ASSUME NEW inv \in Possible, EnterEarly(inv)
      PROVE  OfItsKind'
  <2> DEFINE entry == [id |-> before + 1, of |-> inv]
  <2>1. ledger' = Append(ledger, entry) /\ got' = got /\ before < MaxLedger
      BY <1>5 DEF EnterEarly
  <2>2. entry.of \in Possible /\ entry \in Entry
      BY <1>1, <1>2, <2>1 DEF Entry
  <2> HIDE DEF entry
  <2>3. \A n \in DOMAIN ledger' : ledger'[n].of \in Possible
      BY <1>1, <1>3, <2>1, <2>2
  <2> QED
      BY <1>2, <1>3, <2>1, <2>3 DEF OfItsKind
<1>6. ASSUME NEW inv \in Possible, NEW i \in 1..Len(ledger) + 1, EnterLate(inv, i)
      PROVE  OfItsKind'
  <2> DEFINE entry == [id |-> before + late + 1, of |-> inv]
             t == InsertAt(ledger, i, entry)
  <2>1. ledger' = t /\ got' = got /\ late + left < MaxEdits
      BY <1>6 DEF EnterLate
  <2>2. entry.of \in Possible /\ entry \in Entry
    <3>1. left \in Nat
        BY DEF PullInv, PullTypeOK
    <3> QED
        BY <1>1, <1>2, <2>1, <3>1 DEF Entry
  <2> HIDE DEF entry
  <2>3. /\ t \in Seq(Entry) /\ Len(t) = Len(ledger) + 1 /\ t[i] = entry
        /\ \A j \in 1..i - 1 : t[j] = ledger[j]
        /\ \A j \in i + 1..Len(ledger) + 1 : t[j] = ledger[j - 1]
      BY <1>1, <2>2, Inserted
  <2> HIDE DEF t
  <2>4. ASSUME NEW n \in DOMAIN t
        PROVE  t[n].of \in Possible
    <3>1. n \in 1..Len(ledger) + 1 /\ Len(ledger) \in Nat
        BY <1>1, <2>3
    <3>2. CASE n < i
        BY <1>1, <1>3, <2>3, <3>1, <3>2
    <3>3. CASE n = i
        BY <2>2, <2>3, <3>3
    <3>4. CASE n > i
      <4>1. n - 1 \in DOMAIN ledger /\ t[n] = ledger[n - 1]
          BY <1>1, <2>3, <3>1, <3>4
      <4> QED
          BY <1>3, <4>1
    <3> QED
        BY <3>1, <3>2, <3>3, <3>4
  <2> QED
      BY <1>2, <1>3, <2>1, <2>4 DEF OfItsKind
<1>7. ASSUME NEW i \in DOMAIN ledger, Leave(i)
      PROVE  OfItsKind'
  <2> DEFINE t == RemoveAt(ledger, i)
  <2>1. ledger' = t /\ got' = got /\ i \in 1..Len(ledger)
      BY <1>1, <1>7 DEF Leave
  <2>2. /\ t \in Seq(Entry) /\ Len(t) = Len(ledger) - 1
        /\ \A j \in 1..i - 1 : t[j] = ledger[j]
        /\ \A j \in i..Len(ledger) - 1 : t[j] = ledger[j + 1]
      BY <1>1, <2>1, Removed
  <2> HIDE DEF t
  <2>3. ASSUME NEW n \in DOMAIN t
        PROVE  t[n].of \in Possible
    <3>1. n \in 1..Len(ledger) - 1 /\ Len(ledger) \in Nat
        BY <1>1, <2>2
    <3>2. t[n] = ledger[n] \/ t[n] = ledger[n + 1]
        BY <2>1, <2>2, <3>1
    <3>3. n \in DOMAIN ledger /\ n + 1 \in DOMAIN ledger
        BY <1>1, <3>1
    <3> QED
        BY <1>3, <3>2, <3>3
  <2> QED
      BY <1>2, <1>3, <2>1, <2>3 DEF OfItsKind
<1>8. CASE ReadPage
  <2>1. PICK stop : ReadsUpTo(stop)
      BY <1>8, PageRead
  <2>2. ASSUME NEW n \in DOMAIN got'
        PROVE  got'[n].of \in Possible
    <3>1. CASE n \in DOMAIN got
        BY <1>3, <2>1, <3>1 DEF ReadsUpTo
    <3>2. CASE n \notin DOMAIN got
      <4>1. PICK k \in DOMAIN ledger : got'[n] = ledger[k]
          BY <2>1, <3>2 DEF ReadsUpTo
      <4> QED
          BY <1>3, <4>1
    <3> QED
        BY <3>1, <3>2
  <2>3. ledger' = ledger
      BY <1>8 DEF ReadPage
  <2> QED
      BY <1>2, <1>3, <2>2, <2>3 DEF OfItsKind
<1> QED
    BY <1>4, <1>5, <1>6, <1>7, <1>8
       DEF PullNext, Start, Retry, FailPull, pullVars

LEMMA RulesInvInit == RulesInit => RulesInv
<1> SUFFICES ASSUME RulesInit PROVE RulesInv
    OBVIOUS
<1>1. /\ PullInit /\ asked \in Parameters /\ imported = <<>>
      /\ details = Details(imported) /\ imports = 0
      /\ rows = NotYet /\ artifact = NotYet
    BY DEF RulesInit
<1>2. PullInv
    BY <1>1, PullInvInit
<1>3. Faithful /\ OfItsKind
    BY <1>1 DEF PullInit, Faithful, OfItsKind
<1> QED
    BY <1>1, <1>2, <1>3, ImportsAssumption DEF RulesInv, LastImported, Made, Approved

\* Each step of the run is one of the pull's, or leaves the pull alone.
LEMMA RulesPull ==
    ASSUME [RulesNext]_rulesVars
    PROVE  /\ [PullNext(Possible)]_pullVars /\ [PullNext(Invoices)]_pullVars
           /\ asked' = asked
<1>1. [PullNext(Possible)]_pullVars /\ asked' = asked
    BY DEF RulesNext, Import, PrepareChase, PreparePay, Finalise, rulesVars, ruleVars
<1> QED
    BY <1>1, PullNextIn, PossibleIn

LEMMA RulesInvNext == RulesInv /\ [RulesNext]_rulesVars => RulesInv'
<1> SUFFICES ASSUME RulesInv, [RulesNext]_rulesVars
             PROVE  RulesInv'
    OBVIOUS
<1>1. PullInv' /\ Faithful' /\ OfItsKind' /\ asked' = asked /\ asked' \in Parameters
    BY RulesPull, PullInvNext, FaithfulStep, KindStep DEF RulesInv
<1>2. ASSUME PullNext(Possible), UNCHANGED ruleVars
      PROVE  RulesInv'
  <2>1. pull # "done"
      BY <1>2, PullNextIn, PossibleIn
  <2>2. rows' = NotYet /\ artifact' = NotYet
      BY <1>2, <2>1 DEF RulesInv, Made, Approved, ruleVars
  <2> QED
      BY <1>1, <1>2, <2>2 DEF RulesInv, LastImported, Made, Approved, ruleVars
<1>3. ASSUME NEW records \in Imports, Import(records)
      PROVE  RulesInv'
  <2>1. /\ UNCHANGED <<pullVars, asked, rows, shown, artifact>>
        /\ imports' = imports + 1 /\ imports < MaxImports
        /\ \/ details' = Details(records) /\ imported' = records
           \/ details' = details /\ imported' = imported
      BY <1>3 DEF Import, Replaced
  <2>2. imports' \in 0..MaxImports
      BY <2>1, ImportsAssumption DEF RulesInv
  <2>3. LastImported'
      BY <2>1 DEF RulesInv, LastImported
  <2>4. Made'
      BY <2>1 DEF RulesInv, Made, OnRecord, Read, pullVars
  <2>5. Approved'
      BY <2>1 DEF RulesInv, Approved, File
  <2> QED
      BY <1>1, <2>2, <2>3, <2>4, <2>5 DEF RulesInv
<1>4. ASSUME PrepareChase \/ PreparePay
      PROVE  RulesInv'
  <2>1. /\ pull' = "done" /\ rows = NotYet
        /\ UNCHANGED <<pullVars, asked, details, imported, imports, artifact>>
        /\ asked.workflow = "chase" =>
              rows' = ChaseRows(Read, asked.minDays, asked.minAmount, asked.found)
        /\ asked.workflow = "pay" =>
              rows' = PayRows(Read, details, asked) /\ shown' = imported
      BY <1>4 DEF PrepareChase, PreparePay, pullVars
  <2>2. Read' = Read /\ (asked.workflow = "pay" => OnRecord' = details)
      BY <2>1 DEF Read, OnRecord, pullVars, RulesInv, LastImported
  <2>3. Made'
      BY <2>1, <2>2 DEF Made
  <2>4. Approved'
      BY <2>1 DEF RulesInv, Approved
  <2> QED
      BY <1>1, <2>1, <2>3, <2>4 DEF RulesInv, LastImported
<1>5. ASSUME Finalise
      PROVE  RulesInv'
  <2>1. PICK chosen \in SUBSET DOMAIN rows :
           artifact' = BankFile(Restrict(rows, chosen), Columns)
      BY <1>5 DEF Finalise
  <2>2. /\ rows # NotYet /\ asked.workflow = "pay"
        /\ UNCHANGED <<pullVars, asked, details, imported, imports, rows, shown>>
      BY <1>5 DEF Finalise
  <2>3. DOMAIN artifact' = chosen /\ \A n \in chosen : artifact'[n] = File[n]
      BY <2>1 DEF BankFile, File, Restrict
  <2>4. Approved'
      BY <2>2, <2>3 DEF Approved, File
  <2>5. Made' /\ LastImported' /\ imports' \in 0..MaxImports
      BY <2>2 DEF RulesInv, Made, LastImported, OnRecord, Read, pullVars
  <2> QED
      BY <1>1, <2>4, <2>5 DEF RulesInv
<1>6. ASSUME UNCHANGED rulesVars
      PROVE  RulesInv'
    BY <1>1, <1>6 DEF rulesVars, pullVars, ruleVars, RulesInv, LastImported, Made,
                      Approved, OnRecord, File, Read
<1> QED
    BY <1>2, <1>3, <1>4, <1>5, <1>6 DEF RulesNext

(***************************************************************************)
(* What the invariant gives, once there are rows.                          *)
(***************************************************************************)

\* What a list is made of, which a run has read or the ledger holds.
LEMMA ReadIs ==
    ASSUME RulesInv
    PROVE  /\ DOMAIN Read \subseteq Nat /\ IsFiniteSet(DOMAIN Read)
           /\ \A n \in DOMAIN Read : Read[n] \in Possible
<1>1. got \in Seq(Entry) /\ Len(got) \in Nat
    BY DEF RulesInv, PullInv, PullTypeOK
<1>2. DOMAIN Read = 1..Len(got) /\ \A n \in 1..Len(got) : Read[n] = got[n].of
    BY <1>1 DEF Read
<1>3. IsFiniteSet(1..Len(got))
    BY <1>1, FS_Interval
<1>4. \A n \in 1..Len(got) : got[n].of \in Possible
    BY <1>1 DEF RulesInv, OfItsKind
<1> QED
    BY <1>1, <1>2, <1>3, <1>4

LEMMA QuietRead ==
    ASSUME RulesInv, Quiet
    PROVE  /\ DOMAIN Read = DOMAIN ledger
           /\ \A n \in DOMAIN ledger : Read[n] = ledger[n].of
<1>1. pull = "done" /\ late = 0 /\ left = 0
    BY DEF Quiet, RulesInv, Made
<1>2. got \in Seq(Entry) /\ ledger \in Seq(Entry)
    BY DEF RulesInv, PullInv, PullTypeOK
<1>3. Len(got) = Len(ledger) /\ \A n \in 1..Len(got) : got[n] = ledger[n]
    BY <1>1 DEF RulesInv, Faithful
<1>4. DOMAIN got = DOMAIN ledger /\ \A n \in DOMAIN ledger : got[n] = ledger[n]
    BY <1>2, <1>3
<1> QED
    BY <1>4 DEF Read

\* A vendor's details are those of one of the records.
LEMMA DetailsOf ==
    ASSUME NEW records, NEW v \in DOMAIN Details(records)
    PROVE  \E n \in DOMAIN records : /\ Norm[records[n].vendor] = v
                                     /\ Details(records)[v] = records[n].fields
<1> DEFINE n == CHOOSE n \in DOMAIN records : Norm[records[n].vendor] = v
<1>1. \E m \in DOMAIN records : Norm[records[m].vendor] = v
    BY DEF Details
<1>2. n \in DOMAIN records /\ Norm[records[n].vendor] = v
    BY <1>1
<1>3. Details(records)[v] = records[n].fields
    BY <1>1 DEF Details
<1> QED
    BY <1>2, <1>3

LEMMA RulesTyped == RulesInv => RulesTypeOK
<1> SUFFICES ASSUME RulesInv PROVE RulesTypeOK
    OBVIOUS
<1>1. ASSUME NEW v \in DOMAIN details
      PROVE  v \in {Norm[name] : name \in DOMAIN Norm}
  <2>1. PICK n \in DOMAIN imported : Norm[imported[n].vendor] = v
      BY DetailsOf DEF RulesInv, LastImported
  <2>2. imported \in Imports
      BY <2>1 DEF RulesInv, LastImported
  <2>3. imported[n].vendor \in DOMAIN Norm
      BY <2>2, NormAssumption
  <2> QED
      BY <2>1, <2>3
<1> QED
    BY <1>1 DEF RulesInv, RulesTypeOK, PullInv, Made, Approved

LEMMA RulesChase == RulesInv => EveryDebtIsChased
<1> SUFFICES ASSUME RulesInv, Quiet, asked.workflow = "chase"
             PROVE  EveryDebtIsChased
    BY DEF EveryDebtIsChased
<1> DEFINE list == Read
           minDays == asked.minDays
           minAmount == asked.minAmount
<1>1. rows = ChaseRows(list, minDays, minAmount, asked.found)
    BY DEF RulesInv, Made, Quiet
<1>2. minAmount \in Int
    BY ParametersAssumption DEF RulesInv
<1>3. IsList(list)
  <2>1. Possible = Receivables
      BY DEF Possible
  <2>2. \A n \in DOMAIN Read : Read[n].due \in Int /\ Read[n].days \in Int \cup {NoDate}
      BY <2>1, ReadIs, InvoiceAssumption
  <2> QED
      BY <2>2, ReadIs DEF IsList
<1>4. DOMAIN list = DOMAIN ledger /\ \A n \in DOMAIN ledger : list[n] = ledger[n].of
    BY QuietRead
<1>5. \A cid : Debts(list, minDays, cid) = DebtsOf(cid)
  <2> TAKE cid
  <2>1. \A n \in DOMAIN ledger : IsOverdue(list[n], minDays) <=> IsDebt(ledger[n].of)
      BY <1>4 DEF IsOverdue, IsDebt
  <2>2. \A n : n \in Debts(list, minDays, cid) <=>
                 n \in DOMAIN ledger /\ ledger[n].of.cid = cid /\ IsDebt(ledger[n].of)
    <3> HIDE DEF list, minDays
    <3> QED
        BY <1>4, <2>1 DEF Debts
  <2> QED
      BY <2>2 DEF DebtsOf
<1>6. \A cid : Total(list, minDays, cid) = Debt(cid)
  <2> TAKE cid
  <2> HIDE DEF list, minDays
  <2>1. \A n \in DebtsOf(cid) : list[n].due = ledger[n].of.due
      BY <1>4 DEF DebtsOf
  <2>2. [n \in Debts(list, minDays, cid) |-> list[n].due]
          = [n \in DebtsOf(cid) |-> ledger[n].of.due]
      BY <1>5, <2>1
  <2> QED
      BY <2>2 DEF Total, Debt
<1>7. \A cid, i : i \in DebtsOf(cid) => list[i] = ledger[i].of
    BY <1>4 DEF DebtsOf
<1> HIDE DEF list, minDays, minAmount
<1>8. /\ DOMAIN rows \subseteq Nat
      /\ \A n \in DOMAIN rows :
           LET owed == Debts(list, minDays, rows[n].id)
           IN  /\ owed # {} /\ rows[n].amount >= minAmount
               /\ rows[n].amount = Total(list, minDays, rows[n].id)
               /\ rows[n].tone = "final" <=> \E i \in owed : list[i].days >= 90
      /\ \A cid : Debts(list, minDays, cid) # {}
                  /\ Total(list, minDays, cid) >= minAmount =>
                      \E n \in DOMAIN rows : rows[n].id = cid
      /\ \A m, n \in DOMAIN rows : rows[m].id = rows[n].id => m = n
      /\ \A m, n \in DOMAIN rows : m < n =>
           /\ rows[m].oldest >= rows[n].oldest
           /\ rows[m].oldest = rows[n].oldest => rows[m].amount >= rows[n].amount
    BY ONLY <1>1, <1>2, <1>3, ChaseIs
<1>9. \A n \in DOMAIN rows :
        /\ DebtsOf(rows[n].id) # {} /\ Debt(rows[n].id) >= minAmount
        /\ rows[n].amount = Debt(rows[n].id)
        /\ rows[n].tone = "final" <=>
              \E i \in DebtsOf(rows[n].id) : ledger[i].of.days >= 90
    BY <1>5, <1>6, <1>7, <1>8
<1>10. ASSUME NEW cid
       PROVE  LET own == {n \in DOMAIN rows : rows[n].id = cid}
              IN /\ own # {} <=> DebtsOf(cid) # {} /\ Debt(cid) >= asked.minAmount
                 /\ Cardinality(own) <= 1
                 /\ \A n \in own :
                      /\ rows[n].amount = Debt(cid)
                      /\ rows[n].tone = "final" <=>
                           \E i \in DebtsOf(cid) : ledger[i].of.days >= 90
  <2> DEFINE own == {n \in DOMAIN rows : rows[n].id = cid}
  <2>1. own # {} <=> DebtsOf(cid) # {} /\ Debt(cid) >= asked.minAmount
    <3>1. ASSUME NEW n \in own
          PROVE  DebtsOf(cid) # {} /\ Debt(cid) >= asked.minAmount
        BY <1>9, <3>1 DEF minAmount
    <3>2. ASSUME DebtsOf(cid) # {}, Debt(cid) >= asked.minAmount
          PROVE  \E n \in DOMAIN rows : rows[n].id = cid
        BY <1>5, <1>6, <1>8, <3>2 DEF minAmount
    <3> QED
        BY <3>1, <3>2
  <2>2. Cardinality(own) <= 1
    <3>1. CASE own = {}
        BY <3>1, FS_EmptySet
    <3>2. CASE own # {}
      <4>1. PICK n \in own : TRUE
          BY <3>2
      <4>2. own = {n}
          BY <1>8, <4>1
      <4>3. Cardinality({n}) = 1
          BY FS_Singleton
      <4> QED
          BY <4>2, <4>3
    <3> QED
        BY <3>1, <3>2
  <2>3. \A n \in own :
          /\ rows[n].amount = Debt(cid)
          /\ rows[n].tone = "final" <=>
                \E i \in DebtsOf(cid) : ledger[i].of.days >= 90
      BY <1>9
  <2> QED
      BY <2>1, <2>2, <2>3
<1> QED
    BY <1>8, <1>10 DEF EveryDebtIsChased

\* The pay run's rows, with the details they were made of.
LEMMA RulesPay ==
    ASSUME RulesInv, rows # NotYet, asked.workflow = "pay", OwnNames
    PROVE  /\ IsPayments(rows, OnRecord)
           /\ \A v : Paid(rows, v) =
                 IF Matched(OnRecord, v) \/ asked.includeUnmatched
                 THEN Sum([n \in Owing(Read, v, asked.region, asked.cutoff)
                             |-> Read[n].due])
                 ELSE 0
<1> DEFINE bills == Read
           accounts == OnRecord
<1>1. rows = PayRows(bills, accounts, asked)
    BY DEF RulesInv, Made
<1>2. Possible = Bills
    BY DEF Possible
<1>3. /\ IsFiniteSet(DOMAIN bills) /\ DOMAIN bills \subseteq Nat
      /\ \A n \in DOMAIN bills : bills[n].due \in Int
    BY <1>2, ReadIs, InvoiceAssumption
<1>4. {"name", "reference", "amount", "matched"} \cap Keys(accounts) = {}
    BY DEF OwnNames
<1> HIDE DEF bills, accounts
<1>5. /\ IsPayments(rows, accounts)
      /\ \A v : Paid(rows, v) =
            IF Matched(accounts, v) \/ asked.includeUnmatched
            THEN Sum([n \in Owing(bills, v, asked.region, asked.cutoff)
                        |-> bills[n].due])
            ELSE 0
    BY ONLY <1>1, <1>3, <1>4, PayIs
<1> QED
    BY <1>5 DEF bills, accounts

\* What the bank file says of a row.
LEMMA FileIs ==
    /\ DOMAIN File = DOMAIN rows
    /\ \A n \in DOMAIN rows :
         /\ File[n]["name"] = rows[n].name /\ File[n]["amount"] = rows[n].amount
         /\ File[n]["accountnumber"] = Cell(rows[n], "accountnumber")
<1>1. DOMAIN File = DOMAIN rows
    BY DEF File, BankFile
<1>2. ASSUME NEW n \in DOMAIN rows, NEW k \in Columns
      PROVE  File[n][k] = Cell(rows[n], k)
    BY DEF File, BankFile
<1>3. /\ "name" \in Columns /\ "amount" \in Columns /\ "accountnumber" \in Columns
    BY ColumnsAssumption
<1> QED
    BY <1>1, <1>2, <1>3, CellIs

LEMMA RulesAccounts == RulesInv => NoStaleAccount
<1> SUFFICES ASSUME RulesInv, artifact # NotYet, OwnNames, NEW n \in DOMAIN artifact,
                    artifact[n]["accountnumber"] # Blank
             PROVE  AccountOf(artifact[n], shown)
    BY DEF NoStaleAccount
<1>1. /\ rows # NotYet /\ asked.workflow = "pay"
      /\ n \in DOMAIN rows /\ artifact[n] = File[n]
    BY DEF RulesInv, Approved
<1>2. /\ File[n]["name"] = rows[n].name
      /\ File[n]["accountnumber"] = Cell(rows[n], "accountnumber")
    BY <1>1, FileIs
<1> DEFINE v == Norm[rows[n].name]
<1>3. /\ v \in DOMAIN OnRecord
      /\ Cell(rows[n], "accountnumber") = OnRecord[v]["accountnumber"]
    BY <1>1, <1>2, RulesPay DEF IsPayments, IsPayment
<1>4. PICK m \in DOMAIN shown : /\ Norm[shown[m].vendor] = v
                                /\ Details(shown)[v] = shown[m].fields
    BY <1>3, DetailsOf DEF OnRecord
<1> QED
    BY <1>1, <1>2, <1>3, <1>4 DEF AccountOf, OnRecord

LEMMA RulesPayment == RulesInv => PaidWhatIsOwed
<1> SUFFICES ASSUME RulesInv, Quiet, asked.workflow = "pay", OwnNames, NEW v
             PROVE  Sum([n \in LinesOf(v) |-> File[n]["amount"]]) =
                    IF HasDetails(v) \/ asked.includeUnmatched
                    THEN Sum([n \in Payable(v) |-> ledger[n].of.due])
                    ELSE 0
    BY DEF PaidWhatIsOwed
<1>1. rows # NotYet
    BY DEF Quiet
<1>2. Sum([n \in LinesOf(v) |-> File[n]["amount"]]) = Paid(rows, v)
  <2>1. LinesOf(v) = Lines(rows, v)
      BY FileIs DEF LinesOf, Lines
  <2>2. \A n \in Lines(rows, v) : File[n]["amount"] = rows[n].amount
      BY FileIs DEF Lines
  <2>3. [n \in LinesOf(v) |-> File[n]["amount"]]
          = [n \in Lines(rows, v) |-> rows[n].amount]
      BY <2>1, <2>2
  <2> QED
      BY <2>3 DEF Paid
<1>3. HasDetails(v) <=> Matched(OnRecord, v)
    BY DEF HasDetails, Matched
<1>4. DOMAIN Read = DOMAIN ledger /\ \A n \in DOMAIN ledger : Read[n] = ledger[n].of
    BY QuietRead
<1>5. Owing(Read, v, asked.region, asked.cutoff) = Payable(v)
  <2>1. \A n \in DOMAIN ledger :
           IsSelected(ledger[n].of, asked.region, asked.cutoff) <=> IsPayable(ledger[n].of)
      BY DEF IsSelected, IsPayable
  <2> QED
      BY <1>4, <2>1 DEF Owing, Payable
<1>6. [n \in Owing(Read, v, asked.region, asked.cutoff) |-> Read[n].due]
        = [n \in Payable(v) |-> ledger[n].of.due]
  <2>1. \A n \in Payable(v) : Read[n].due = ledger[n].of.due
      BY <1>4 DEF Payable
  <2> QED
      BY <1>5, <2>1
<1> QED
    BY <1>1, <1>2, <1>3, <1>6, RulesPay

(***************************************************************************)
(* Theorems.                                                               *)
(***************************************************************************)

\* A run's reading of the ledger is a pull, whatever else the run does: the
\* imports and the preparing leave what was read alone (weekly_payrun.py and
\* overdue_chaseup.py, run; xero.py, get_bills, get_receivables).
THEOREM RunIsAPull == RulesSpec => PullSpec
<1>1. RulesInit => PullInit
    BY DEF RulesInit
<1>2. [RulesNext]_rulesVars => [PullNext(Invoices)]_pullVars
    BY RulesPull
<1> QED
    BY <1>1, <1>2, PTL DEF RulesSpec, PullSpec

\* So nothing is read twice by a run, or missed, but as it may be by a pull.
THEOREM RunReadsOnce == RulesSpec => []EachIsReadOnce
BY RunIsAPull, ReadOnce, PTL

\* The run's state is of its kind (runner.py, weekly_payrun.py, stores.py).
THEOREM RulesTypeCorrect == RulesSpec => []RulesTypeOK
BY RulesInvInit, RulesInvNext, RulesTyped, PTL DEF RulesSpec

\* For any ledger, page size and parameters: each customer who owes enough for
\* long enough is chased once, for all of it, in the tone that their oldest debt
\* calls for, and nobody else is (overdue_chaseup.py, run).
THEOREM DebtsChased == RulesSpec => []EveryDebtIsChased
BY RulesInvInit, RulesInvNext, RulesChase, PTL DEF RulesSpec

\* For any ledger, bank details and parameters: the file pays each vendor what is
\* owed, in one line or several, and nobody else (weekly_payrun.py, finalise).
THEOREM VendorsPaid == RulesSpec => []PaidWhatIsOwed
BY RulesInvInit, RulesInvNext, RulesPayment, PTL DEF RulesSpec

\* However often the bank details are imported, before the rows are made or
\* after, and whichever rows are approved: the bank file pays each line to the
\* account that the import on record when the rows were made gives its vendor,
\* and to no account of an earlier import or of another vendor (stores.py,
\* replace_region; weekly_payrun.py, run, finalise; server.py, approve).
THEOREM AccountsOnRecord == RulesSpec => []NoStaleAccount
BY RulesInvInit, RulesInvNext, RulesAccounts, PTL DEF RulesSpec
================================================================================
