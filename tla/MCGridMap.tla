------------------------------ MODULE MCGridMap ------------------------------
(***************************************************************************)
(* An instance of GridMap for TLC: a grid of 4 by 4 cells of 16 units,     *)
(* obstacles inflated by half a cell, the robot in the middle.             *)
(***************************************************************************)
EXTENDS GridMap, TLC

(* A place in half cells.                                                  *)
Half(x, y) == <<8 * x, 8 * y>>

Line(p, q) == [type |-> "LINE", position |-> p, vertices |-> <<p, q>>]
Rectangle(c, w, h, turned) ==
  [type |-> "RECTANGLE", position |-> c, vertices |-> <<>>, width |-> w, height |-> h, turned |-> turned]

(* Overlapping geometries, some of them partly outside the grid.  The      *)
(* first is as large as its block of cells allows and as far to the upper  *)
(* right: free paths cut its corner.                                       *)
MCShapes ==
  {Rectangle(<<15, 15>>, 47, 47, FALSE), Rectangle(Half(4, 4), 16, 32, TRUE),
   [type |-> "CIRCLE", position |-> Half(9, 4), vertices |-> <<>>, radius |-> 32],
   [type |-> "POLYGON", position |-> Half(0, 0), vertices |-> <<Half(2, 5), Half(7, 5), Half(7, 8)>>],
   Line(Half(-3, 3), Half(5, 3))}

Scanned(type, vs, robot) ==
  [type |-> type, position |-> vs[1], radius |-> 8, robot |-> robot,
   vertices |-> IF type = "CIRCLE" THEN <<>> ELSE vs]

(* Scans: a segment half on an obstacle; another robot and a point far     *)
(* off; a triangle and a circle.                                           *)
MCMessages ==
  { << Scanned("LINE", <<Half(3, 3), Half(6, 3)>>, FALSE) >>,
    << Scanned("LINE", <<Half(1, 1), Half(5, 1)>>, TRUE), Scanned("POINT", <<Half(7, 7)>>, FALSE) >>,
    << Scanned("POLYGON", <<Half(5, 3), Half(7, 3), Half(5, 6)>>, FALSE) >>,
    << Scanned("CIRCLE", <<Half(6, 1)>>, FALSE) >> }
MCRim == << <<1, 0>>, <<-1, 0>> >>

Symmetry == Permutations(Ids)
MCRobot == Half(4, 3)

(* Ends in the corners of the cells, and outside the grid.                 *)
MCCorners == {16 * g + o : g \in 0..3, o \in {0, 15}}
MCSegments == {<<p, q>> : p, q \in (MCCorners \X MCCorners) \cup {Half(-2, 3), Half(9, 4)}}
=============================================================================
