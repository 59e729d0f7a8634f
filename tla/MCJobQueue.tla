----------------------------- MODULE MCJobQueue -----------------------------
(***************************************************************************)
(* Small instances of the scheduler.  Two machines: m1 with two boards, m2 *)
(* with two.                                                               *)
(***************************************************************************)
EXTENDS JobQueue, TLC

CONSTANTS m1, m2, b1, b2, b3, b4, common, big

OneOf(S) == {{b} : b \in S}

AnyBoard == {b1, b2, b3, b4}

\* One board anywhere; both boards of a machine with the tag "big"; one board
\* of m1, by name.
OneBoard  == [machine |-> NoMachine, tags |-> {common}, places |-> OneOf(AnyBoard)]
TwoBoards == [machine |-> NoMachine, tags |-> {big},
              places |-> {{b1, b2}, {b3, b4}}]
OnM1      == [machine |-> m1, tags |-> {}, places |-> OneOf(AnyBoard)]

MCRequest == {OneBoard, TwoBoards}
MCRequestAll == {OneBoard, TwoBoards, OnM1}

Desc(tags, boards, dead) == [tags |-> tags, boards |-> boards, dead |-> dead]

\* A minor change: the machines swap places, m1 loses a board, gains a tag.
Edited == [order |-> <<m2, m1>>,
           desc |-> (m1 :> Desc({common, big}, {b1, b2}, {b1}) @@
                     m2 :> Desc({common, big}, {b3, b4}, {}))]

\* m2 is taken away, and with it the only machine for TwoBoards.
OnlyM1 == [order |-> <<m1>>, desc |-> (m1 :> Desc({common}, {b1, b2}, {}))]

\* Major changes: both machines are recreated with one board less.
Resized == [order |-> <<m1, m2>>,
            desc |-> (m1 :> Desc({common, big}, {b1}, {}) @@
                      m2 :> Desc({common}, {b3}, {}))]

\* m1 is kept for those who ask for it by name.
Reserved == [order |-> <<m1, m2>>,
             desc |-> (m1 :> Desc({}, {b1, b2}, {}) @@
                       m2 :> Desc({common, big}, {b3, b4}, {}))]

MCConfigs == {Reserved, Edited, OnlyM1, Resized}
=============================================================================
