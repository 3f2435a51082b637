----------------------------- MODULE MCHyperVPool -----------------------------
(* Two machines, which one update makes three, while one is rebuilt alone or *)
(* all together, or the pool is deleted.                                     *)
EXTENDS HyperVPool
CONSTANTS g1, g2, b1, b2

Three == [g \in Growth |-> 3]
OneAndAll == [r \in Rebuilds |-> IF r = b1 THEN "one" ELSE "all"]

Some(asked, n) == [of |-> asked, mishaps |-> n]
SomeMixes ==
    {Some({g1, b1}, 2), Some({g1, b2}, 1), Some({b1, b2}, 2), Some({g1, g2}, 1),
     Some({g1, "removal"}, 1), Some({b1, "removal"}, 2), Some({b2, "removal"}, 1),
     Some({g1, b1, b2}, 0), Some({g1}, 2), Some({b2}, 2)}
=============================================================================
