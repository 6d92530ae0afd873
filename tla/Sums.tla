--------------------------------- MODULE Sums ---------------------------------
(***************************************************************************)
(* What a table of amounts adds up to, as a count of its units: the amount *)
(* f[x] is the f[x] pairs <<x, 1>> .. <<x, f[x]>>.  A count needs no        *)
(* recursion, so facts about it follow from facts about finite sets; for a *)
(* finite domain and natural amounts it is the usual sum.                  *)
(***************************************************************************)
EXTENDS Integers, FiniteSets

Units(f) == UNION {{x} \X (1 .. f[x]) : x \in DOMAIN f}

Total(f) == Cardinality(Units(f))

\* Of what is owed, the part that is owed in token t.
OfToken(owed, asset, t) == [x \in DOMAIN owed |-> IF asset[x] = t THEN owed[x] ELSE 0]
===============================================================================
