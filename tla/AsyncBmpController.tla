------------------------- MODULE AsyncBmpController -------------------------
(***************************************************************************)
(* The thread that talks to the BMP of one frame (async_bmp_controller.py) *)
(* and the methods other threads call on its object.  A step is what one   *)
(* thread does between two points where another may come in: the lock      *)
(* protects add_requests and stop from each other and from the thread's    *)
(* decision to sleep or end, but the thread looks at the queue and waits   *)
(* for the event without it.                                               *)
(*                                                                         *)
(* The hardware is external: a command may raise an exception having done  *)
(* any part of what it was asked, a board that is switched on may come up  *)
(* with wrong FPGA IDs, and its link registers then hold anything.         *)
(***************************************************************************)
EXTENDS Naturals, Sequences, FiniteSets

CONSTANTS
  Caller,        \* the threads that use the object
  Nobody,        \* the lock is free
  Request,       \* the requests, each a new AtomicRequests object
  NoRequest,
  Board,         \* the boards of the frame
  OldBoard,      \* those whose BMP cannot access the FPGAs
  Link,          \* the links of the boards
  LinkBoard,     \* the board of each link
  OnOf, OffOf,   \* power_on_boards and power_off_boards of each request
  LinksOf,       \* link_requests of each request
  FpgaRetries,   \* _N_FPGA_RETRIES
  RequestTries   \* _N_REQUEST_TRIES

LinkRequest == [link : Link, enable : BOOLEAN]

\* _set_job_power_and_links switches all boards on, setting each link once,
\* or all of them off.
ASSUME WorkAssumption ==
  /\ OldBoard \subseteq Board
  /\ LinkBoard \in [Link -> Board]
  /\ OnOf \in [Request -> SUBSET Board]
  /\ OffOf \in [Request -> SUBSET Board]
  /\ LinksOf \in [Request -> Seq(LinkRequest)]
  /\ \A r \in Request :
       /\ OnOf[r] \cap OffOf[r] = {}
       /\ \A i \in 1 .. Len(LinksOf[r]) : LinkBoard[LinksOf[r][i].link] \in OnOf[r]
       /\ \A i, k \in 1 .. Len(LinksOf[r]) :
            LinksOf[r][i].link = LinksOf[r][k].link => i = k

ASSUME TryAssumption ==
  /\ FpgaRetries \in Nat \ {0}
  /\ RequestTries \in Nat \ {0}

ASSUME NullAssumption == NoRequest \notin Request /\ Nobody \notin Caller

VARIABLES
  requests,  \* _requests
  pending,   \* _requests_pending is set
  stop,      \* _stop
  lock,      \* who holds _lock
  calling,   \* the method each caller is in the middle of
  pc,        \* where the thread is
  current,   \* the request it works on
  tries,     \* its tries of this request
  rounds,    \* the rounds of _power_on_and_check
  toPower,   \* boards_to_power
  linkAt,    \* the link request it is at
  powered,   \* the boards that are on
  good,      \* the boards whose FPGA IDs are right
  enabled,   \* the links that are enabled
  accepted,  \* history: the requests added
  reports    \* history: the calls of on_done

state == <<requests, pending, stop, lock, calling>>
thread == <<current, tries, rounds, toPower, linkAt>>
hardware == <<powered, good, enabled>>
history == <<accepted, reports>>
vars == <<state, pc, thread, hardware, history>>

-----------------------------------------------------------------------------
(* add_requests and stop.                                                  *)

\* add_requests: the assertion passes and the request is queued ...
AddAppend(c, r) ==
  /\ calling[c] = "none"
  /\ lock = Nobody
  /\ ~stop
  /\ \A i \in 1 .. Len(accepted) : accepted[i] # r  \* requests are new objects
  /\ lock' = c
  /\ requests' = Append(requests, r)
  /\ accepted' = Append(accepted, r)
  /\ calling' = [calling EXCEPT ![c] = "add"]
  /\ UNCHANGED <<pending, stop, pc, thread, hardware, reports>>

StopFlag(c) ==
  /\ calling[c] = "none"
  /\ lock = Nobody
  /\ lock' = c
  /\ stop' = TRUE
  /\ calling' = [calling EXCEPT ![c] = "stop"]
  /\ UNCHANGED <<requests, pending, pc, thread, hardware, history>>

\* ... and both end by setting the event and giving up the lock.
SetEvent(c) ==
  /\ calling[c] # "none"
  /\ pending' = TRUE
  /\ lock' = Nobody
  /\ calling' = [calling EXCEPT ![c] = "none"]
  /\ UNCHANGED <<requests, stop, pc, thread, hardware, history>>

-----------------------------------------------------------------------------
(* _run: waiting for work.                                                 *)

Goto(from, to) == pc = from /\ pc' = to

\* on_thread_start returns: the controllers this one replaces have ended.
Start ==
  /\ Goto("start", "wait")
  /\ UNCHANGED <<state, thread, hardware, history>>

StartRaises ==
  /\ Goto("start", "crash")
  /\ UNCHANGED <<state, thread, hardware, history>>

WakeUp ==
  /\ pending
  /\ Goto("wait", "look")
  /\ UNCHANGED <<state, thread, hardware, history>>

\* Mutant: the newest request is taken first.
Pop_Newest ==
  /\ Goto("look", "try")
  /\ requests # <<>>
  /\ current' = requests[Len(requests)]
  /\ requests' = SubSeq(requests, 1, Len(requests) - 1)
  /\ tries' = 1
  /\ UNCHANGED <<pending, stop, lock, calling, rounds, toPower, linkAt,
                 hardware, history>>

Pop ==
  /\ Goto("look", "try")
  /\ requests # <<>>
  /\ current' = Head(requests)
  /\ requests' = Tail(requests)
  /\ tries' = 1
  /\ UNCHANGED <<pending, stop, lock, calling, rounds, toPower, linkAt,
                 hardware, history>>

NothingThere ==
  /\ Goto("look", "check")
  /\ requests = <<>>
  /\ UNCHANGED <<state, thread, hardware, history>>

\* Mutant: the event is cleared whatever came in meanwhile.
Recheck_Clears ==
  /\ pc = "check"
  /\ lock = Nobody
  /\ pending' = FALSE
  /\ pc' = IF requests = <<>> /\ stop THEN "ended" ELSE "wait"
  /\ UNCHANGED <<requests, stop, lock, calling, thread, hardware, history>>

\* Mutant: an order to stop is obeyed before the queue is empty.
Recheck_StopsAtOnce ==
  /\ pc = "check"
  /\ lock = Nobody
  /\ pending' = (pending /\ requests # <<>>)
  /\ pc' = IF stop THEN "ended" ELSE "wait"
  /\ UNCHANGED <<requests, stop, lock, calling, thread, hardware, history>>

\* With the lock: back to sleep, or to the end if that was asked for.
Recheck ==
  /\ pc = "check"
  /\ lock = Nobody
  /\ pending' = (pending /\ requests # <<>>)
  /\ pc' = IF requests = <<>> /\ stop THEN "ended" ELSE "wait"
  /\ UNCHANGED <<requests, stop, lock, calling, thread, hardware, history>>

\* An exception has escaped from the loop.
Crash ==
  /\ Goto("crash", "crashed")
  /\ lock = Nobody
  /\ stop' = TRUE
  /\ UNCHANGED <<requests, pending, lock, calling, thread, hardware, history>>

-----------------------------------------------------------------------------
(* _run: one try of a request.                                             *)

\* Mutant: a new try sets only the links the last one did not come to.
BeginTry_KeepsLinks ==
  /\ pc = "try"
  /\ pc' = IF OnOf[current] # {} THEN "on" ELSE "links"
  /\ toPower' = OnOf[current]
  /\ rounds' = 1
  /\ linkAt' = IF tries = 1 THEN 1 ELSE linkAt
  /\ UNCHANGED <<state, current, tries, hardware, history>>

BeginTry ==
  /\ pc = "try"
  /\ pc' = IF OnOf[current] # {} THEN "on" ELSE "links"
  /\ toPower' = OnOf[current]
  /\ rounds' = 1
  /\ linkAt' = 1
  /\ UNCHANGED <<state, current, tries, hardware, history>>

\* The transceiver switches boards B on; they come up as they like.
SwitchedOn(B) ==
  /\ powered' = powered \cup B
  /\ \E G \in SUBSET B : good' = (good \ B) \cup G
  /\ \E E \in SUBSET {l \in Link : LinkBoard[l] \in B} :
       enabled' = {l \in enabled : LinkBoard[l] \notin B} \cup E

PowerOn ==
  /\ Goto("on", "fpga")
  /\ SwitchedOn(toPower)
  /\ UNCHANGED <<state, thread, history>>

PowerOnRaises ==
  /\ Goto("on", "caught")
  /\ \E B \in SUBSET toPower : SwitchedOn(B)
  /\ UNCHANGED <<state, thread, history>>

WrongBoards == (toPower \ OldBoard) \ good

FpgasRight ==
  /\ Goto("fpga", "links")
  /\ WrongBoards = {}
  /\ UNCHANGED <<state, thread, hardware, history>>

\* Try again with the incorrect boards only.
FpgasWrong ==
  /\ Goto("fpga", "on")
  /\ WrongBoards # {}
  /\ rounds < FpgaRetries
  /\ toPower' = WrongBoards
  /\ rounds' = rounds + 1
  /\ UNCHANGED <<state, current, tries, linkAt, hardware, history>>

\* Too many rounds; or reading a version or a register has failed.
FpgaRaises ==
  /\ Goto("fpga", "caught")
  /\ UNCHANGED <<state, thread, hardware, history>>

SetLink ==
  /\ pc = "links"
  /\ linkAt <= Len(LinksOf[current])
  /\ LET r == LinksOf[current][linkAt]
     IN  enabled' = IF LinkBoard[r.link] \in OldBoard THEN enabled
                    ELSE IF r.enable THEN enabled \cup {r.link}
                    ELSE enabled \ {r.link}
  /\ linkAt' = linkAt + 1
  /\ UNCHANGED <<state, pc, current, tries, rounds, toPower, powered, good, history>>

SetLinkRaises ==
  /\ Goto("links", "caught")
  /\ linkAt <= Len(LinksOf[current])
  /\ UNCHANGED <<state, thread, hardware, history>>

LinksDone ==
  /\ Goto("links", "off")
  /\ linkAt > Len(LinksOf[current])
  /\ UNCHANGED <<state, thread, hardware, history>>

PowerOff ==
  /\ Goto("off", "report")
  /\ powered' = powered \ OffOf[current]
  /\ UNCHANGED <<state, thread, good, enabled, history>>

PowerOffRaises ==
  /\ Goto("off", "caught")
  /\ OffOf[current] # {}
  /\ \E B \in SUBSET OffOf[current] : powered' = powered \ B
  /\ UNCHANGED <<state, thread, good, enabled, history>>

Called(ok) == reports' = Append(reports, [request |-> current, ok |-> ok])

\* on_done(True), inside the try: what it raises counts as a failed try.
ReportDone ==
  /\ Goto("report", "check")
  /\ Called(TRUE)
  /\ current' = NoRequest
  /\ UNCHANGED <<state, tries, rounds, toPower, linkAt, hardware, accepted>>

ReportRaises ==
  /\ Goto("report", "caught")
  /\ Called(TRUE)
  /\ UNCHANGED <<state, thread, hardware, accepted>>

\* Mutant: one try too many.
Retry_OffByOne ==
  /\ Goto("caught", "try")
  /\ tries <= RequestTries
  /\ tries' = tries + 1
  /\ UNCHANGED <<state, current, rounds, toPower, linkAt, hardware, history>>

Retry ==
  /\ Goto("caught", "try")
  /\ tries < RequestTries
  /\ tries' = tries + 1
  /\ UNCHANGED <<state, current, rounds, toPower, linkAt, hardware, history>>

GiveUp ==
  /\ Goto("caught", "failed")
  /\ tries = RequestTries
  /\ UNCHANGED <<state, thread, hardware, history>>

\* Mutant: a request that failed is queued again.
ReportFailed_Requeues ==
  /\ Goto("failed", "check")
  /\ Called(FALSE)
  /\ requests' = Append(requests, current)
  /\ pending' = TRUE
  /\ current' = NoRequest
  /\ UNCHANGED <<stop, lock, calling, tries, rounds, toPower, linkAt, hardware,
                 accepted>>

ReportFailed ==
  /\ Goto("failed", "check")
  /\ Called(FALSE)
  /\ current' = NoRequest
  /\ UNCHANGED <<state, tries, rounds, toPower, linkAt, hardware, accepted>>

FailedRaises ==
  /\ Goto("failed", "crash")
  /\ Called(FALSE)
  /\ UNCHANGED <<state, thread, hardware, accepted>>

-----------------------------------------------------------------------------

Init ==
  /\ requests = <<>>
  /\ pending = FALSE
  /\ stop = FALSE
  /\ lock = Nobody
  /\ calling = [c \in Caller |-> "none"]
  /\ pc = "start"
  /\ current = NoRequest
  /\ tries = 0
  /\ rounds = 0
  /\ toPower = {}
  /\ linkAt = 1
  /\ powered \in SUBSET Board
  /\ good = {}
  /\ enabled = {}
  /\ accepted = <<>>
  /\ reports = <<>>

Try ==
  \/ BeginTry \/ PowerOn \/ PowerOnRaises
  \/ FpgasRight \/ FpgasWrong \/ FpgaRaises
  \/ SetLink \/ SetLinkRaises \/ LinksDone
  \/ PowerOff \/ PowerOffRaises
  \/ ReportDone \/ ReportRaises
  \/ Retry \/ GiveUp \/ ReportFailed \/ FailedRaises

Thread ==
  \/ Start \/ StartRaises
  \/ WakeUp \/ Pop \/ NothingThere \/ Recheck \/ Crash
  \/ Try

Calls ==
  \E c \in Caller :
    (\E r \in Request : AddAppend(c, r)) \/ StopFlag(c) \/ SetEvent(c)

Next == Thread \/ Calls

Spec == Init /\ [][Next]_vars

\* Threads run; the lock is only ever held for a moment, by a caller that then
\* gives it up for good, so waiting for it comes to an end.
Fairness ==
  /\ SF_vars(Thread)
  /\ \A c \in Caller : WF_vars(SetEvent(c))

FairSpec == Spec /\ Fairness

-----------------------------------------------------------------------------
(* Properties.                                                             *)

Ids(s) == {s[i] : i \in 1 .. Len(s)}

\* Every variable holds what its comment says.
TypeOK ==
  /\ requests \in Seq(Request)
  /\ pending \in BOOLEAN
  /\ stop \in BOOLEAN
  /\ lock \in Caller \cup {Nobody}
  /\ calling \in [Caller -> {"none", "add", "stop"}]
  /\ pc \in {"start", "wait", "look", "try", "on", "fpga", "links", "off",
             "report", "caught", "failed", "check", "ended", "crash", "crashed"}
  /\ current \in Request \cup {NoRequest}
  /\ tries \in 0 .. RequestTries
  /\ rounds \in 0 .. FpgaRetries
  /\ toPower \subseteq Board
  /\ linkAt \in Nat \ {0}
  /\ powered \subseteq Board
  /\ good \subseteq Board
  /\ enabled \subseteq Link
  /\ accepted \in Seq(Request)
  /\ reports \in Seq([request : Request, ok : BOOLEAN])

\* The thread is never put to sleep with work to do: when no call is under
\* way, a waiting thread with a request or an order to stop has its event set.
NoLostWakeup ==
  pc = "wait" /\ lock = Nobody /\ (requests # <<>> \/ stop) => pending

\* "Stop the background thread, as soon as possible after completing all queued
\* actions": when the thread has ended, on_done was called for every request.
EndedAfterAll ==
  pc = "ended" => Ids(accepted) = {reports[i].request : i \in 1 .. Len(reports)}

\* A request is reported done only if, after all the retries, every board it
\* switches on is on with the right FPGA IDs and its links as asked, and every
\* board it switches off is off.
DoneMeansDone ==
  pc = "report" =>
    /\ OnOf[current] \subseteq powered
    /\ OffOf[current] \cap powered = {}
    /\ OnOf[current] \ OldBoard \subseteq good
    /\ \A i \in 1 .. Len(LinksOf[current]) :
         LinkBoard[LinksOf[current][i].link] \notin OldBoard =>
           (LinksOf[current][i].link \in enabled <=> LinksOf[current][i].enable)

\* on_done is called once for a request and, if it raises an exception, once for
\* each of its tries at most and for the failure; never with success after failure.
ReportsBounded ==
  \A r \in Request :
    LET mine == {i \in 1 .. Len(reports) : reports[i].request = r}
    IN  /\ Cardinality(mine) <= RequestTries + 1
        /\ \A i \in mine : ~reports[i].ok => \A k \in mine : k <= i

\* What this object offers to the Controller.
Service == INSTANCE BmpService WITH
  queue   <- (IF current = NoRequest THEN <<>> ELSE <<current>>) \o requests,
  result  <- CASE pc = "report" -> "ok" [] pc = "failed" -> "failed"
               [] OTHER -> "none",
  stopped <- stop,
  phase   <- CASE pc = "start" -> "waiting" [] pc = "ended" -> "ended"
               [] pc \in {"crash", "crashed"} -> "broken"
               [] OTHER -> "serving"

\* An AsyncBMPController is a BmpService: every request is reported on in order
\* and an order to stop is obeyed, until a callback raises an exception.
ImplementsService == Service!FairSpec

=============================================================================
