--------------------------------- MODULE Places --------------------------------
(***************************************************************************)
(* What the workflows do with a list, by its places: a list of invoices is *)
(* narrowed to some of its places, rows are made for some of those, and    *)
(* the rows are put in an order.  A sum and an order are written here      *)
(* without an operator as parameter, so that they can be reasoned about;   *)
(* FoldSet and SortSeq cannot.                                             *)
(***************************************************************************)
EXTENDS Integers, FiniteSets

CONSTANT NoDate   \* a due date that does not parse

ASSUME NoDateAssumption == NoDate \notin Int

\* The sum of a function's values.
Sum(value) ==
    LET sum[S \in SUBSET DOMAIN value] ==
            IF S = {} THEN 0
            ELSE LET n == CHOOSE n \in S : TRUE IN value[n] + sum[S \ {n}]
    IN sum[DOMAIN value]

\* The place where each key comes first.
Firsts(key) ==
    {n \in DOMAIN key : \A m \in DOMAIN key : key[m] = key[n] => n <= m}

\* A set's elements in a strict total order, given by its pairs.
Listed(S, before) ==
    [k \in 1..Cardinality(S) |->
        CHOOSE n \in S : Cardinality({m \in S : <<m, n>> \in before}) = k - 1]

\* The values of a function as a list, in an order of its domain.
Arranged(rows, before) ==
    LET place == Listed(DOMAIN rows, before)
    IN [k \in 1..Cardinality(DOMAIN rows) |-> rows[place[k]]]
================================================================================
