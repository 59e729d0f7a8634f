---------------------------- MODULE MCController ----------------------------
(***************************************************************************)
(* Small instances of the controller: machine m1 with a board in each of   *)
(* two frames, and in some configurations m2 with a frame of its own.      *)
(***************************************************************************)
EXTENDS Controller, TLC

CONSTANTS m1, m2, b1, b2, f1, f2

MCFrameOf == b1 :> f1 @@ b2 :> f2
MCOneFrame == b1 :> f1

AnyMachine(places) == [machine |-> NoMachine, tags |-> {}, places |-> places]

TheBoard == AnyMachine({{b1}})
TwoBoards == AnyMachine({{b1, b2}})

MCRequest == {TheBoard, TwoBoards}
MCTheBoard == {TheBoard}

Desc(boards, dead) == [tags |-> {}, boards |-> boards, dead |-> dead]

OnlyM1 == [order |-> <<m1>>, desc |-> m1 :> Desc({b1, b2}, {})]

\* m1 goes by another name, and one of its boards has died.
Renamed == [order |-> <<m2>>, desc |-> m2 :> Desc({b1, b2}, {b2})]

\* One board for everybody.
Single == [order |-> <<m1>>, desc |-> m1 :> Desc({b1}, {})]
MCSingle == {Single}
MCOnlyM1 == {OnlyM1}
MCRenames == {OnlyM1, Renamed}
=============================================================================
