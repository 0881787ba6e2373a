----------------------------- MODULE MCParallel -----------------------------
(* Small inputs: ranges that do not divide evenly, matches and exceptions  *)
(* in every block, matrices that do not fill their tiles, lists with equal *)
(* elements, pools without workers and pools that cannot start one.        *)
EXTENDS Parallel

\* Ranges of the numbers 1..n, some of which throw or are replaced by another.
Ranges(n, values) == UNION {[1..k -> values] : k \in 0..n}
Throwing_(n) == UNION {{[i \in 1..k |-> IF i \in s THEN Throws ELSE i] : s \in SUBSET (1..k)} : k \in 0..n}
Hardware == 0..3

MCInput == [
    accumulate |-> [a : Throwing_(5), hardware : Hardware, init : {7}, empty : {7},
                    version : {"unsafe", "packaged", "safe"}],
    async |-> [a : {[i \in 1..k |-> i * i] : k \in 0..9}, init : {7}],
    find |-> [a : Ranges(4, {0, 1, Throws}) \cup {<<0, 0, 0, 0, 0>>, <<1, 0, 0, 0, 1>>}, hardware : {0, 1, 3},
              match : {1}, empty : {last}],
    partial_sum |-> [a : Throwing_(4) \cup {<<1, 2, 3, 4, 5>>, <<1, 2, 3, 4, 5, 6>>}, hardware : Hardware, empty : {<<>>}],
    matmul |-> [Width : {3}, M : {[i \in 0..8 |-> i + 1]}, N : {[i \in 0..8 |-> 2 * i - 5]},
                by : {0, 1}, bx : {0, 1}],
    pool |-> [a : {<<>>, <<5, 5, 6>>}, hardware : {0, 1, 2}, waits : BOOLEAN, may_fail : BOOLEAN],
    pool_sort |-> [a : Ranges(3, {1, 2, 3}) \cup {<<3, 1, 4, 2>>, <<2, 4, 1, 2>>}, hardware : {0, 2}, may_fail : BOOLEAN, empty : {<<>>}],
    chunks |-> [a : Ranges(3, {1, 2, 3}), hardware : {1, 2}, may_fail : {FALSE}, empty : {<<>>}]
        \cup [a : {<<2, 1, 3>>, <<3, 2, 1>>}, hardware : {0, 3}, may_fail : {FALSE}, empty : {<<>>}]
        \cup [a : {<<3, 1, 4, 2>>}, hardware : {2}, may_fail : {FALSE}, empty : {<<>>}]]
=============================================================================
