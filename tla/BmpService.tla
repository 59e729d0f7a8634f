----------------------------- MODULE BmpService -----------------------------
(***************************************************************************)
(* What an AsyncBMPController promises to the Controller, and all the      *)
(* Controller relies on: requests are carried out one at a time in the     *)
(* order they were added, none before the controllers it takes over from   *)
(* have ended; each is carried out wholly or reported as failed; each is   *)
(* reported on once; and a controller told to stop ends when it has        *)
(* nothing left to do.  A report that raises an exception breaks this: the *)
(* request may be carried out and reported on again, and the service ends  *)
(* for good when the report of a failure raises.                           *)
(* AsyncBmpController is shown to implement it.                            *)
(***************************************************************************)
EXTENDS Naturals, Sequences

CONSTANTS
  Request,  \* the atomic requests
  Board,    \* the boards of the frame
  OnOf,     \* the boards each request switches on ...
  OffOf     \* ... and off

VARIABLES
  queue,    \* the requests added and not reported on yet
  result,   \* what became of the first of them: "none", "ok" or "failed"
  powered,  \* the boards that are on
  stopped,  \* stop was called
  phase     \* "waiting" for a predecessor, "serving", "ended" or "broken"

svars == <<queue, result, powered, stopped, phase>>

Init ==
  /\ queue = <<>>
  /\ result = "none"
  /\ powered \in SUBSET Board
  /\ stopped = FALSE
  /\ phase = "waiting"

Add(r) ==
  /\ ~stopped
  /\ queue' = Append(queue, r)
  /\ UNCHANGED <<result, powered, stopped, phase>>

Stop ==
  /\ stopped' = TRUE
  /\ UNCHANGED <<queue, result, powered, phase>>

Begin ==
  /\ phase = "waiting"
  /\ phase' = "serving"
  /\ UNCHANGED <<queue, result, powered, stopped>>

AtWork == phase = "serving" /\ queue # <<>> /\ result = "none"

\* Part of the request has been carried out.
Switch ==
  /\ AtWork
  /\ \E on \in SUBSET OnOf[Head(queue)], off \in SUBSET OffOf[Head(queue)] :
       powered' = (powered \cup on) \ off
  /\ UNCHANGED <<queue, result, stopped, phase>>

Succeed ==
  /\ AtWork
  /\ powered' = (powered \cup OnOf[Head(queue)]) \ OffOf[Head(queue)]
  /\ result' = "ok"
  /\ UNCHANGED <<queue, stopped, phase>>

Fail ==
  /\ AtWork
  /\ result' = "failed"
  /\ UNCHANGED <<queue, powered, stopped, phase>>

Report ==
  /\ result # "none"
  /\ queue' = Tail(queue)
  /\ result' = "none"
  /\ UNCHANGED <<powered, stopped, phase>>

\* The callback raises an exception.
ReportRaises ==
  /\ result # "none"
  /\ result' = "none"
  /\ phase' = IF result = "failed" THEN "broken" ELSE phase
  /\ UNCHANGED <<queue, powered, stopped>>

\* The callback that waits for a predecessor raises an exception.
BeginRaises ==
  /\ phase = "waiting"
  /\ phase' = "broken"
  /\ UNCHANGED <<queue, result, powered, stopped>>

End ==
  /\ phase = "serving"
  /\ stopped
  /\ queue = <<>>
  /\ phase' = "ended"
  /\ UNCHANGED <<queue, result, powered, stopped>>

Next ==
  \/ \E r \in Request : Add(r)
  \/ Stop \/ Begin \/ BeginRaises \/ Switch \/ Succeed \/ Fail
  \/ Report \/ ReportRaises \/ End

Spec == Init /\ [][Next]_svars

\* The thread gets there: it does not switch boards for ever.
Fairness ==
  /\ WF_svars(Begin \/ BeginRaises)
  /\ WF_svars(Succeed \/ Fail)
  /\ WF_svars(Report \/ ReportRaises)
  /\ WF_svars(End)

FairSpec == Spec /\ Fairness

=============================================================================
