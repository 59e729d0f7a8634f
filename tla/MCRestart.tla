------------------------------ MODULE MCRestart ------------------------------
(***************************************************************************)
(* A machine with one board, or one with a board in each of two frames.    *)
(***************************************************************************)
EXTENDS Restart, MCController
=============================================================================
