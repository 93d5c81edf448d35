--------------------------------- MODULE Grid ---------------------------------
(***************************************************************************)
(* lib/tools/vector.js: the arithmetic between positions of the world,     *)
(* cells of the grid and indexes.  Coordinates are integers.               *)
(***************************************************************************)
EXTENDS Integers

CONSTANT HalfWord   \* "| 0" cuts to the integers from -HalfWord to HalfWord - 1

ASSUME WordAssumption == HalfWord \in Nat \ {0}

Vector(x, y, z) == [x |-> x, y |-> y, z |-> z]

(* The value of (a / b) | 0 and of (a % b) | 0 for a positive b: both round  *)
(* to zero, then n | 0 wraps.                                               *)
Wrap(n) == ((n + HalfWord) % (2 * HalfWord)) - HalfWord

Quotient(a, b) == IF a >= 0 THEN a \div b ELSE -((-a) \div b)

IntDiv(a, b) == Wrap(Quotient(a, b))

IntMod(a, b) == Wrap(a - (b * Quotient(a, b)))

-------------------------------------------------------------------------------
(* Cells are gridsize wide (an even number) and centred on the multiples of *)
(* gridsize; a Unity world has its second axis in z.                        *)

Second(p, isUnity3D) == IF isUnity3D THEN p.z ELSE p.y

WorldToGrid(p, gridsize, isUnity3D) ==
    LET half == gridsize \div 2 IN
    Vector((p.x + half) \div gridsize, (Second(p, isUnity3D) + half) \div gridsize, 0)

GridToWorld(v, gridsize, isUnity3D) ==
    IF isUnity3D THEN Vector(v.x * gridsize, 0, v.y * gridsize)
                 ELSE Vector(v.x * gridsize, v.y * gridsize, 0)

-------------------------------------------------------------------------------
(* A vector as an index, and back. *)

To1D(v, xMax, yMax) == (v.z * xMax * yMax) + (v.y * xMax) + v.x

To3D(idx, xMax, yMax) ==
    LET z == IntDiv(idx, xMax * yMax)
        rest == idx - Wrap(z * xMax * yMax) IN
    Vector(IntMod(rest, xMax), IntDiv(rest, xMax), z)
===============================================================================
