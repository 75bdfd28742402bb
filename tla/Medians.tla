------------------------------ MODULE Medians ------------------------------
(* The median of prices.js and fundamentals.js, of a function's values. *)
EXTENDS Integers, FiniteSets

\* The k-th smallest of a non-empty function's values, k from 1.
Nth(q, k) ==
    CHOOSE x \in {q[s] : s \in DOMAIN q} :
        /\ Cardinality({s \in DOMAIN q : q[s] < x}) < k
        /\ Cardinality({s \in DOMAIN q : q[s] <= x}) >= k

\* Twice the median, so that the mean of two middle values stays an integer.
Median2(q) ==
    LET n == Cardinality(DOMAIN q) IN
    Nth(q, (n + 1) \div 2) + Nth(q, n \div 2 + 1)
=============================================================================
