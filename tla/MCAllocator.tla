---------------------------- MODULE MCAllocator ----------------------------
(***************************************************************************)
(* A machine of 2 x 2 triads in which a board of the first triad dies and  *)
(* is repaired, together with a link of another.                           *)
(***************************************************************************)
EXTENDS Allocator, TLC

CONSTANTS i1, i2

\* No limit is reached.
Most == 36

Block(w, h) == [kind |-> "triads", w |-> w, h |-> h, max_dead_boards |-> Most,
                max_dead_links |-> Most, require_torus |-> FALSE]

\* Two triads without a dead board, the whole as a torus without a dead link,
\* five boards, a single board, a certain board; and what is no machine.
Pair == [Block(2, 1) EXCEPT !.max_dead_boards = 0]
Torus == [Block(2, 2) EXCEPT !.require_torus = TRUE, !.max_dead_links = 0]
Five == [kind |-> "boards", n |-> 5, min_ratio |-> <<1, 3>>, max_dead_boards |-> 0,
         max_dead_links |-> Most, require_torus |-> FALSE]
One == [kind |-> "board"]
This == [kind |-> "this", board |-> <<0, 0, 1>>]

Nothing == Block(0, 1)

MCRequest == {Pair, Torus, Five, One, This, Nothing}

Sound == [boards |-> {}, links |-> {}]
Broken == [boards |-> {<<0, 0, 1>>},
           links |-> {<< <<1, 0, 0>>, 2 >>, << <<1, 0, 2>>, 5 >>}]

MCFault == {Sound, Broken}

\* The names of allocations mean nothing.
AnyId == Permutations(Id)

\* The tables are functions of the right sets; links lead back.
ASSUME TablesAssumption ==
  /\ link_to_vector \in [(0 .. 2) \X Link -> (-1 .. 1) \X (-1 .. 1) \X (-2 .. 2)]
  /\ board_down_link \in [Board \X Link -> Board]
  /\ WrapAround \in [Board \X Link -> SUBSET {"x", "y"}]
  /\ \A b \in Board, l \in Link :
       LET back == <<board_down_link[b, l], opposite(l)>>
       IN  board_down_link[back] = b /\ WrapAround[back] = WrapAround[b, l]
  /\ Candidate \in [Fault \X AllRects -> [boards : SUBSET Board,
                   links : [wraps : BOOLEAN, dead : Nat, deadWraps : Nat]]]

Quotients == {<<0, 1>>, <<1, 3>>, <<1, 2>>, <<3, 4>>, <<1, 1>>, <<3, 1>>}

\* Whatever the area, bounds and ratio, area_to_rect finds a rectangle that is
\* large enough and fits, if there is any of that shape.
ASSUME ShapesAssumption ==
  \A area \in 1 .. 12, bw, bh \in 1 .. 5, ratio \in Quotients :
    LET s == area_to_rect(area, bw, bh, ratio)
        Large == {wh \in (1 .. bw) \X (1 .. bh) : wh[1] * wh[2] >= area}
    IN  IF s = None
        THEN \A wh \in Large : ~Square(wh[1], wh[2], Landscape(ratio))
        ELSE s \in Large
=============================================================================
