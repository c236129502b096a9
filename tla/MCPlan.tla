------------------------------- MODULE MCPlan ------------------------------
(* A small instance of MoonepPlan.  Every other token of the ranks is free: *)
(* those tokens take all distributions over the experts, dealt out to the   *)
(* ranks in turn.  The tokens in between are a background that loads one    *)
(* expert, or the four experts of two ranks.  The greedy rounds start from  *)
(* these token lists, so no routing is given to them directly.              *)
EXTENDS MoonepPlan

MCRoutings == {}

FreeTokens == NumRanks * (NumRows \div 2)

\* The non-decreasing lists of experts of length len whose last is at most m.
RECURSIVE Ascending(_, _)
Ascending(len, m) ==
    IF len = 0 THEN {[i \in {} |-> 0]}
    ELSE UNION { { [i \in 0 .. len - 1 |-> IF i = len - 1 THEN x ELSE c[i]] :
                     c \in Ascending(len - 1, x) } : x \in 0 .. m }

Backgrounds == { [r \in Ranks |-> [i \in Tokens |-> 0]],
                 [r \in Ranks |-> [i \in Tokens |->
                                     Epn * (r % 2) + ((i \div 2) % Epn)]] }

Mixed(free, back) ==
    [r \in Ranks |-> [i \in Tokens |->
        IF i % 2 = 0 THEN free[r + (i \div 2) * NumRanks] ELSE back[r][i]]]

MCInputs == {Mixed(f, b) : f \in Ascending(FreeTokens, NumRanks * Epn - 1),
                           b \in Backgrounds}
=============================================================================
