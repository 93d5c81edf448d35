---------------------------- MODULE MCVectorCells -----------------------------
(* Positions on both sides of a border of two cells. *)
EXTENDS VectorCells, TLC

CONSTANTS c1, c2, g1, g2, s1

CellOps == {"broadcast", "close"}

Border == {Vector(0, 7, 0), Vector(1, 7, 1)}

TwoCells == s1 :> (Vector(0, 0, 0) :> g1 @@ Vector(1, 1, 0) :> g2)

Routes == c1 :> Border @@ c2 :> {Vector(1, 7, 1)}
===============================================================================
