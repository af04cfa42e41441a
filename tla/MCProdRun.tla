----------------------------- MODULE MCProdRun -----------------------------
(* One question, q, at three deadlines (a, b, c), and two markets on another
   question, one of them (d) under the event of a. *)
EXTENDS ProdRun

CONSTANTS a, b, c, d, e

MCMarkets == {a, b, c, d, e}
MCLabels == [m \in MCMarkets |->
                CASE m = a -> {"q", "ea"} [] m = b -> {"q", "eb"}
                  [] m = c -> {"q", "ec"} [] m = d -> {"r", "ea"}
                  [] OTHER -> {"r", "ee"}]

Series(x, y) == [kind |-> "time_series", yes |-> x, no |-> y]
MCPairs == {Series(a, b), Series(a, c), Series(b, c),
            Series(d, e),
            [kind |-> "same_title", yes |-> e, no |-> d]}

World(m, n) == [pos |-> [x \in MCMarkets |-> IF x \in DOMAIN m THEN m[x] ELSE 0],
                cash |-> n]
MCAccounts == {World(<<>>, 2), World(<<>>, 0),
               World([x \in {a, b} |-> IF x = a THEN 2 ELSE -2], 1),
               World([x \in {b} |-> -2], 1),
               World([x \in {b, e} |-> IF x = b THEN -1 ELSE 1], 1),
               World([x \in {b, d} |-> IF x = b THEN -1 ELSE 1], 1)}
=============================================================================
