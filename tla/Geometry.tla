------------------------------ MODULE Geometry ------------------------------
(***************************************************************************)
(* The boards of a machine and their links (coordinates.py, links.py).     *)
(*                                                                         *)
(* A machine is a torus of Width x Height triads <<x, y>>, each of three   *)
(* boards <<x, y, z>>, each of six links.  A direction of wrapping around  *)
(* is "x" or "y": a WrapAround is a set of them.                           *)
(***************************************************************************)
EXTENDS Integers

CONSTANTS Width, Height

ASSUME SizeAssumption == Width \in Nat \ {0} /\ Height \in Nat \ {0}

Triad == (0 .. Width - 1) \X (0 .. Height - 1)
Board == {<<xy[1], xy[2], z>> : xy \in Triad, z \in 0 .. 2}

\* Anticlockwise from east.
Link == 0 .. 5

opposite(l) == (l + 3) % 6

\* How far it is from board z of a triad down its links east, north east and
\* north.
Forward ==
  [z \in 0 .. 2 |-> CASE z = 0 -> << <<0, -1, 2>>, <<0, 0, 1>>, <<0, 0, 2>> >>
                      [] z = 1 -> << <<1, 0, -1>>, <<1, 0, 1>>, <<1, 1, -1>> >>
                      [] z = 2 -> << <<0, 0, -1>>, <<1, 1, -2>>, <<0, 1, -1>> >>]

\* The other links lead back.
link_to_vector ==
  [zl \in (0 .. 2) \X Link |->
     LET l == zl[2]
         f == CHOOSE z \in 0 .. 2 : z + Forward[z][opposite(l) + 1][3] = zl[1]
         v == Forward[f][opposite(l) + 1]
     IN  IF l < 3 THEN Forward[zl[1]][l + 1] ELSE <<-v[1], -v[2], -v[3]>>]

\* The board at the other end of link bl[2] of board bl[1], ...
board_down_link ==
  [bl \in Board \X Link |->
     LET v == link_to_vector[<<bl[1][3], bl[2]>>]
     IN  <<(bl[1][1] + v[1]) % Width, (bl[1][2] + v[2]) % Height, bl[1][3] + v[3]>>]

\* ... and how it wraps around.
WrapAround ==
  [bl \in Board \X Link |->
     LET v == link_to_vector[<<bl[1][3], bl[2]>>]
     IN  {d \in {"x"} : bl[1][1] + v[1] \notin 0 .. Width - 1}
           \cup {d \in {"y"} : bl[1][2] + v[2] \notin 0 .. Height - 1}]
=============================================================================
