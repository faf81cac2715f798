---------------------------- MODULE MCChartCache ----------------------------
(* Two small archives, one of them under two manifests, and one that fills *)
(* the cache.                                                               *)
EXTENDS ChartCache
CONSTANTS small, other, large, m1, m2, m3
MCArchiveOf == [m \in Manifest |-> IF m = m3 THEN large ELSE small]
MCSize == [a \in Archive |-> IF a = large THEN 2 ELSE 1]
=============================================================================
