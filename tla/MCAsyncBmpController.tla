------------------------ MODULE MCAsyncBmpController ------------------------
(***************************************************************************)
(* A frame with two boards, b2 with an old BMP, and two requests: both     *)
(* boards on, with one of the links of b1 disabled and the other enabled,  *)
(* and b1 off.                                                             *)
(***************************************************************************)
EXTENDS AsyncBmpController, TLC

CONSTANTS b1, b2, east, west, old, on, off

MCLinkBoard == east :> b1 @@ west :> b1 @@ old :> b2
MCOn == [r \in Request |-> IF r = on THEN {b1, b2} ELSE {}]
MCOff == [r \in Request |-> IF r = off THEN {b1} ELSE {}]
MCLinks == [r \in Request |->
  IF r = on THEN << [link |-> east, enable |-> FALSE],
                    [link |-> old, enable |-> FALSE],
                    [link |-> west, enable |-> TRUE] >>
            ELSE <<>>]
=============================================================================
