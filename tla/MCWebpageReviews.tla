-------------------------- MODULE MCWebpageReviews --------------------------
(* Two people, two selections, two attempts of the step with the first     *)
(* gate of each graph (scope, screenshot) and one of the other steps.      *)
EXTENDS WebpageReviews, TLC

CONSTANTS c1, c2, x, y

Tries == [n \in Nodes |-> IF n \in {"discover", "screenshot"} THEN 2 ELSE 1]
Same == Permutations({c1, c2}) \union Permutations({x, y})
=============================================================================
