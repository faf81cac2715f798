--------------------------- MODULE MCVerification ---------------------------
(* A small instance of Verification: two platforms, two requests, two names, *)
(* and what at most two pods with reports of at most four checks may leave.  *)
EXTENDS Verification

Text(format, passed, failing, checks) ==
    [v |-> format, passed |-> passed, failed |-> failing, warned |-> 0, skipped |-> 0, checks |-> checks]

\* Reports: read and not, counting more, fewer and other than they list, and
\* longer than status holds.
Texts ==
    {NoText, Text(2, 1, 0, <<"ok">>), Text(1, -1, 0, <<"ok">>), Text(1, 1, 0, <<"lost">>)}
    \union {Text(1, p, f, c) : p \in {0, 2, 7}, f \in {0, 1},
              c \in {<<>>, <<"ok", "ok">>, <<"ok", "fail">>}}
    \union {Text(1, 0, 0, <<a, b, c>>) : a, b, c \in CheckStatus}

Pods == [ended : 0 .. 2, exit : {0, 1}, report : Texts]

MCOutcome == {<<>>} \union {<<p>> : p \in Pods} \union
             {<<p, q>> : p, q \in [ended : 0 .. 2, exit : {0},
                                   report : {NoText, Text(1, 1, 0, <<"ok">>), Text(1, 0, 1, <<"fail">>)}]}
=============================================================================
