--------------------- MODULE AsyncBmpController_proofs ---------------------
(***************************************************************************)
(* Proofs about the BMP thread and its callers, for any number of callers, *)
(* requests, boards and links, and any numbers of retries.                 *)
(***************************************************************************)
EXTENDS AsyncBmpController, SequenceTheorems, FiniteSetTheorems, TLAPS

-----------------------------------------------------------------------------
(* The inductive invariant.                                                *)

Working == {"try", "on", "fpga", "links", "off", "report", "caught", "failed"}
Over == {"ended", "crash", "crashed"}

\* The lock is held by the caller in the middle of a method.
LockHeld == \A c \in Caller : calling[c] # "none" <=> lock = c

\* The event is set, but for a moment in which a caller holds the lock, as long
\* as there is something to do for the thread.
EventSet ==
  pc \notin Over /\ lock = Nobody /\ (requests # <<>> \/ stop) => pending

\* Where the thread is, it has a request, and has had tries of it.
InHand ==
  /\ pc \in Working => current \in Request
  /\ pc \notin Working \cup {"crash", "crashed"} => current = NoRequest
  /\ pc = "ended" => stop /\ requests = <<>>

Reported == {reports[i].request : i \in 1 .. Len(reports)}

\* No request gets lost between its callers, the queue, the thread's hands and
\* the reports.
Accounted ==
  \A r \in Request :
    r \in Ids(accepted) <=> r \in Reported \/ r = current \/ r \in Ids(requests)

LinkRight(i) ==
  LET l == LinksOf[current][i]
  IN  LinkBoard[l.link] \notin OldBoard => (l.link \in enabled <=> l.enable)

\* What has been done of the request at hand.
Progress ==
  /\ pc \in {"on", "fpga"} => linkAt = 1 /\ toPower \subseteq OnOf[current]
  /\ pc = "on" => OnOf[current] \ toPower \subseteq powered
  /\ pc \in {"on", "fpga"} => OnOf[current] \ (toPower \cup OldBoard) \subseteq good
  /\ pc \in {"fpga", "links", "off", "report"} => OnOf[current] \subseteq powered
  /\ pc \in {"links", "off", "report"} => OnOf[current] \ OldBoard \subseteq good
  /\ pc = "links" => \A i \in 1 .. Len(LinksOf[current]) : i < linkAt => LinkRight(i)
  /\ pc \in {"off", "report"} => \A i \in 1 .. Len(LinksOf[current]) : LinkRight(i)
  /\ pc = "report" => OffOf[current] \cap powered = {}

IInv == TypeOK /\ LockHeld /\ EventSet /\ InHand /\ Accounted /\ Progress

-----------------------------------------------------------------------------
(* Facts about sequences.                                                  *)

LEMMA IdsOfAppend ==
  ASSUME NEW S, NEW s \in Seq(S), NEW x \in S
  PROVE  Ids(Append(s, x)) = Ids(s) \cup {x}
<1>1. Len(s) \in Nat
  BY LenProperties
<1> QED BY <1>1 DEF Ids

LEMMA IdsOfTail ==
  ASSUME NEW S, NEW s \in Seq(S), s # <<>>
  PROVE  Ids(s) = Ids(Tail(s)) \cup {Head(s)}
<1>1. Len(s) \in Nat \ {0} /\ Len(Tail(s)) = Len(s) - 1 /\ Head(s) = s[1]
  BY EmptySeq, HeadTailProperties, LenProperties
<1>2. \A i \in 1 .. Len(Tail(s)) : Tail(s)[i] = s[i + 1]
  BY HeadTailProperties
<1>3. ASSUME NEW i \in 1 .. Len(s)
      PROVE  s[i] \in Ids(Tail(s)) \cup {Head(s)}
  <2>1. CASE i = 1
    BY <1>1, <2>1
  <2>2. CASE i # 1
    <3>1. i - 1 \in 1 .. Len(Tail(s)) /\ Tail(s)[i - 1] = s[i]
      BY <1>1, <1>2, <2>2
    <3> QED BY <3>1 DEF Ids
  <2> QED BY <2>1, <2>2
<1>4. \A i \in 1 .. Len(Tail(s)) : i + 1 \in 1 .. Len(s)
  BY <1>1
<1> QED BY <1>1, <1>2, <1>3, <1>4 DEF Ids

\* A call of on_done adds its request to those reported.
LEMMA CalledReports ==
  ASSUME TypeOK, NEW ok \in BOOLEAN, Called(ok), current \in Request
  PROVE  /\ reports' \in Seq([request : Request, ok : BOOLEAN])
         /\ Reported' = Reported \cup {current}
<1>1. /\ reports \in Seq([request : Request, ok : BOOLEAN])
      /\ [request |-> current, ok |-> ok] \in [request : Request, ok : BOOLEAN]
  BY DEF TypeOK
<1>2. Len(reports) \in Nat
  BY <1>1, LenProperties
<1> QED BY <1>1, <1>2 DEF Called, Reported

-----------------------------------------------------------------------------
(* Types.                                                                  *)

LEMMA InitInv == Init => IInv
<1> SUFFICES ASSUME Init
             PROVE  IInv
  OBVIOUS
<1>1. TypeOK
  <2>1. calling \in [Caller -> {"none", "add", "stop"}] /\ 1 \in Nat \ {0}
    BY DEF Init
  <2>2. 0 \in 0 .. RequestTries /\ 0 \in 0 .. FpgaRetries
    BY TryAssumption
  <2>3. /\ requests \in Seq(Request) /\ accepted \in Seq(Request)
        /\ reports \in Seq([request : Request, ok : BOOLEAN])
    BY EmptySeq DEF Init
  <2> QED BY <2>1, <2>2, <2>3 DEF Init, TypeOK
<1>2. LockHeld
  BY NullAssumption DEF Init, LockHeld
<1>3. EventSet /\ InHand /\ Progress
  BY DEF Init, EventSet, InHand, Progress, Working, Over
<1>4. Accounted
  BY NullAssumption DEF Init, Accounted, Reported, Ids
<1> QED BY <1>1, <1>2, <1>3, <1>4 DEF IInv

LEMMA CallsKeepType ==
  ASSUME TypeOK, Calls
  PROVE  TypeOK'
<1>1. ASSUME NEW c \in Caller, NEW r \in Request, AddAppend(c, r)
      PROVE  TypeOK'
  BY <1>1 DEF AddAppend, TypeOK, thread, hardware
<1>2. ASSUME NEW c \in Caller, StopFlag(c)
      PROVE  TypeOK'
  BY <1>2 DEF StopFlag, TypeOK, thread, hardware, history
<1>3. ASSUME NEW c \in Caller, SetEvent(c)
      PROVE  TypeOK'
  BY <1>3 DEF SetEvent, TypeOK, thread, hardware, history
<1> QED BY <1>1, <1>2, <1>3 DEF Calls

LEMMA LoopKeepsType ==
  ASSUME TypeOK, Start \/ StartRaises \/ WakeUp \/ NothingThere \/ Pop \/ Recheck \/ Crash
  PROVE  TypeOK'
<1>1. ASSUME Start \/ StartRaises \/ WakeUp \/ NothingThere
      PROVE  TypeOK'
  BY <1>1 DEF Start, StartRaises, WakeUp, NothingThere, Goto, TypeOK, state, thread,
     hardware, history
<1>2. ASSUME Pop
      PROVE  TypeOK'
  <2>1. Head(requests) \in Request /\ Tail(requests) \in Seq(Request)
    BY <1>2, HeadTailProperties DEF Pop, TypeOK
  <2>2. 1 \in 0 .. RequestTries
    BY TryAssumption
  <2> QED BY <1>2, <2>1, <2>2 DEF Pop, Goto, TypeOK, hardware, history
<1>3. ASSUME Recheck
      PROVE  TypeOK'
  BY <1>3 DEF Recheck, TypeOK, thread, hardware, history
<1>4. ASSUME Crash
      PROVE  TypeOK'
  BY <1>4 DEF Crash, Goto, TypeOK, thread, hardware, history
<1> QED BY <1>1, <1>2, <1>3, <1>4

\* Boards that come up are boards of the frame, and so are their links.
LEMMA SwitchingKeepsType ==
  ASSUME TypeOK, NEW B \in SUBSET Board, SwitchedOn(B)
  PROVE  powered' \subseteq Board /\ good' \subseteq Board /\ enabled' \subseteq Link
  BY DEF SwitchedOn, TypeOK

LEMMA TryKeepsType ==
  ASSUME TypeOK, InHand, Try
  PROVE  TypeOK'
<1>0. pc \in Working => current \in Request
  BY DEF InHand
<1>1. ASSUME BeginTry
      PROVE  TypeOK'
  <2>1. OnOf[current] \subseteq Board /\ 1 \in 0 .. FpgaRetries
    BY <1>0, <1>1, WorkAssumption, TryAssumption DEF BeginTry, Working
  <2> QED BY <1>1, <2>1 DEF BeginTry, TypeOK, state, hardware, history
<1>2. ASSUME PowerOn
      PROVE  TypeOK'
  <2>1. powered' \subseteq Board /\ good' \subseteq Board /\ enabled' \subseteq Link
    BY <1>2, SwitchingKeepsType DEF PowerOn, TypeOK
  <2> QED BY <1>2, <2>1 DEF PowerOn, Goto, TypeOK, state, thread, history
<1>3. ASSUME PowerOnRaises
      PROVE  TypeOK'
  <2>1. powered' \subseteq Board /\ good' \subseteq Board /\ enabled' \subseteq Link
    BY <1>3, SwitchingKeepsType DEF PowerOnRaises, TypeOK
  <2> QED BY <1>3, <2>1 DEF PowerOnRaises, Goto, TypeOK, state, thread, history
<1>4. ASSUME FpgasRight \/ FpgaRaises \/ SetLinkRaises \/ LinksDone \/ GiveUp
      PROVE  TypeOK'
  BY <1>4 DEF FpgasRight, FpgaRaises, SetLinkRaises, LinksDone, GiveUp, Goto, TypeOK,
     state, thread, hardware, history
<1>5. ASSUME FpgasWrong
      PROVE  TypeOK'
  <2>1. rounds + 1 \in 0 .. FpgaRetries /\ WrongBoards \subseteq Board
    BY <1>5, TryAssumption DEF FpgasWrong, TypeOK, WrongBoards
  <2> QED BY <1>5, <2>1 DEF FpgasWrong, Goto, TypeOK, state, hardware, history
<1>6. ASSUME SetLink
      PROVE  TypeOK'
  <2>1. LinksOf[current] \in Seq(LinkRequest)
    BY <1>0, <1>6, WorkAssumption DEF SetLink, Working
  <2>2. Len(LinksOf[current]) \in Nat /\ linkAt \in 1 .. Len(LinksOf[current])
    BY <1>6, <2>1, LenProperties DEF SetLink, TypeOK
  <2>3. LinksOf[current][linkAt] \in LinkRequest
    BY <2>1, <2>2, ElementOfSeq
  <2>4. enabled' \subseteq Link
    BY <1>6, <2>3 DEF SetLink, LinkRequest, TypeOK
  <2> QED BY <1>6, <2>4 DEF SetLink, TypeOK, state, history
<1>7. ASSUME PowerOff \/ PowerOffRaises
      PROVE  TypeOK'
  BY <1>7 DEF PowerOff, PowerOffRaises, Goto, TypeOK, state, thread, history
<1>8. ASSUME ReportDone \/ ReportRaises
      PROVE  TypeOK'
  <2>1. Called(TRUE) /\ current \in Request
    BY <1>0, <1>8 DEF ReportDone, ReportRaises, Goto, Working
  <2>2. reports' \in Seq([request : Request, ok : BOOLEAN])
    BY <2>1, CalledReports
  <2> QED BY <1>8, <2>2 DEF ReportDone, ReportRaises, Goto, TypeOK, state, thread, hardware
<1>9. ASSUME ReportFailed \/ FailedRaises
      PROVE  TypeOK'
  <2>1. Called(FALSE) /\ current \in Request
    BY <1>0, <1>9 DEF ReportFailed, FailedRaises, Goto, Working
  <2>2. reports' \in Seq([request : Request, ok : BOOLEAN])
    BY <2>1, CalledReports
  <2> QED BY <1>9, <2>2 DEF ReportFailed, FailedRaises, Goto, TypeOK, state, thread, hardware
<1>10. ASSUME Retry
       PROVE  TypeOK'
  <2>1. tries + 1 \in 0 .. RequestTries
    BY <1>10, TryAssumption DEF Retry, TypeOK
  <2> QED BY <1>10, <2>1 DEF Retry, Goto, TypeOK, state, hardware, history
<1> QED BY <1>1, <1>2, <1>3, <1>4, <1>5, <1>6, <1>7, <1>8, <1>9, <1>10 DEF Try

-----------------------------------------------------------------------------
(* What every step of a try does.                                          *)

LEMMA TryLeavesState ==
  ASSUME Try
  PROVE  /\ UNCHANGED <<state, accepted>>
         /\ pc \in Working
         /\ \/ pc' \in Working \cup {"crash"} /\ current' = current
            \/ pc' = "check" /\ current' = NoRequest
<1>1. ASSUME BeginTry \/ PowerOn \/ PowerOnRaises \/ FpgasRight \/ FpgasWrong \/ FpgaRaises
      PROVE  /\ UNCHANGED <<state, accepted>>
             /\ pc \in Working /\ pc' \in Working /\ current' = current
  BY <1>1 DEF BeginTry, PowerOn, PowerOnRaises, FpgasRight, FpgasWrong, FpgaRaises, Goto,
     thread, history, Working
<1>2. ASSUME SetLink \/ SetLinkRaises \/ LinksDone \/ PowerOff \/ PowerOffRaises \/ Retry \/ GiveUp
      PROVE  /\ UNCHANGED <<state, accepted>>
             /\ pc \in Working /\ pc' \in Working /\ current' = current
  BY <1>2 DEF SetLink, SetLinkRaises, LinksDone, PowerOff, PowerOffRaises, Retry, GiveUp, Goto,
     thread, history, Working
<1>3. ASSUME ReportDone \/ ReportRaises \/ ReportFailed \/ FailedRaises
      PROVE  /\ UNCHANGED <<state, accepted>>
             /\ pc \in Working
             /\ \/ pc' \in Working \cup {"crash"} /\ current' = current
                \/ pc' = "check" /\ current' = NoRequest
  BY <1>3 DEF ReportDone, ReportRaises, ReportFailed, FailedRaises, Goto, thread, Working
<1> QED BY <1>1, <1>2, <1>3 DEF Try

\* A step of a try calls on_done or leaves the reports and the request alone.
LEMMA TryReports ==
  ASSUME Try
  PROVE  (\E ok \in BOOLEAN : Called(ok)) \/ UNCHANGED <<history, current>>
<1>1. ASSUME BeginTry \/ PowerOn \/ PowerOnRaises \/ FpgasRight \/ FpgasWrong \/ FpgaRaises
      PROVE  UNCHANGED <<history, current>>
  BY <1>1 DEF BeginTry, PowerOn, PowerOnRaises, FpgasRight, FpgasWrong, FpgaRaises, thread,
     history
<1>2. ASSUME SetLink \/ SetLinkRaises \/ LinksDone \/ PowerOff \/ PowerOffRaises \/ Retry \/ GiveUp
      PROVE  UNCHANGED <<history, current>>
  BY <1>2 DEF SetLink, SetLinkRaises, LinksDone, PowerOff, PowerOffRaises, Retry, GiveUp,
     thread, history
<1>3. ASSUME ReportDone \/ ReportRaises \/ ReportFailed \/ FailedRaises
      PROVE  \E ok \in BOOLEAN : Called(ok)
  BY <1>3 DEF ReportDone, ReportRaises, ReportFailed, FailedRaises
<1> QED BY <1>1, <1>2, <1>3 DEF Try

-----------------------------------------------------------------------------
(* The callers, the lock and the event.                                    *)

LEMMA ThreadTakesNoLock ==
  ASSUME Thread
  PROVE  UNCHANGED <<lock, calling>>
<1>1. ASSUME Start \/ StartRaises \/ WakeUp \/ Pop \/ NothingThere \/ Recheck \/ Crash
      PROVE  UNCHANGED <<lock, calling>>
  BY <1>1 DEF Start, StartRaises, WakeUp, Pop, NothingThere, Recheck, Crash, state
<1>2. ASSUME Try
      PROVE  UNCHANGED <<lock, calling>>
  BY <1>2, TryLeavesState DEF state
<1> QED BY <1>1, <1>2 DEF Thread

LEMMA KeepsLockHeld ==
  ASSUME TypeOK, LockHeld, Next
  PROVE  LockHeld'
<1>1. ASSUME Thread
      PROVE  LockHeld'
  BY <1>1, ThreadTakesNoLock DEF LockHeld
<1>2. ASSUME NEW c \in Caller, NEW r \in Request, AddAppend(c, r)
      PROVE  LockHeld'
  BY <1>2, NullAssumption DEF AddAppend, LockHeld, TypeOK
<1>3. ASSUME NEW c \in Caller, StopFlag(c)
      PROVE  LockHeld'
  BY <1>3, NullAssumption DEF StopFlag, LockHeld, TypeOK
<1>4. ASSUME NEW c \in Caller, SetEvent(c)
      PROVE  LockHeld'
  BY <1>4, NullAssumption DEF SetEvent, LockHeld, TypeOK
<1> QED BY <1>1, <1>2, <1>3, <1>4 DEF Next, Calls

LEMMA KeepsEventSet ==
  ASSUME TypeOK, EventSet, Next
  PROVE  EventSet'
<1>1. ASSUME Start \/ StartRaises \/ WakeUp \/ NothingThere \/ Crash
      PROVE  EventSet'
  BY <1>1 DEF Start, StartRaises, WakeUp, NothingThere, Crash, Goto, state, EventSet, Over
<1>2. ASSUME Pop
      PROVE  EventSet'
  BY <1>2 DEF Pop, Goto, EventSet, Over
<1>3. ASSUME Recheck
      PROVE  EventSet'
  BY <1>3 DEF Recheck, EventSet, Over
<1>4. ASSUME Try
      PROVE  EventSet'
  <2>1. pc \in Working /\ UNCHANGED state
    BY <1>4, TryLeavesState
  <2> QED BY <2>1 DEF state, EventSet, Working, Over
<1>5. ASSUME NEW c \in Caller, NEW r \in Request, AddAppend(c, r)
      PROVE  EventSet'
  BY <1>5, NullAssumption DEF AddAppend, EventSet
<1>6. ASSUME NEW c \in Caller, StopFlag(c)
      PROVE  EventSet'
  BY <1>6, NullAssumption DEF StopFlag, EventSet
<1>7. ASSUME NEW c \in Caller, SetEvent(c)
      PROVE  EventSet'
  BY <1>7 DEF SetEvent, EventSet
<1> QED BY <1>1, <1>2, <1>3, <1>4, <1>5, <1>6, <1>7 DEF Next, Thread, Calls

-----------------------------------------------------------------------------
(* The request in hand.                                                    *)

LEMMA KeepsInHand ==
  ASSUME TypeOK, InHand, Next
  PROVE  InHand'
<1>1. ASSUME Start \/ StartRaises \/ WakeUp \/ NothingThere \/ Crash
      PROVE  InHand'
  BY <1>1 DEF Start, StartRaises, WakeUp, NothingThere, Crash, Goto, state, thread, InHand,
     Working
<1>2. ASSUME Pop
      PROVE  InHand'
  <2>1. Head(requests) \in Request
    BY <1>2, HeadTailProperties DEF Pop, TypeOK
  <2> QED BY <1>2, <2>1 DEF Pop, Goto, InHand, Working
<1>3. ASSUME Recheck
      PROVE  InHand'
  BY <1>3 DEF Recheck, thread, InHand, Working
<1>4. ASSUME Try
      PROVE  InHand'
  <2>1. /\ pc \in Working
        /\ \/ pc' \in Working \cup {"crash"} /\ current' = current
           \/ pc' = "check" /\ current' = NoRequest
    BY <1>4, TryLeavesState
  <2> QED BY <2>1 DEF InHand, Working
<1>5. ASSUME NEW c \in Caller, NEW r \in Request, AddAppend(c, r)
      PROVE  InHand'
  BY <1>5 DEF AddAppend, thread, InHand
<1>6. ASSUME NEW c \in Caller, StopFlag(c) \/ SetEvent(c)
      PROVE  InHand'
  BY <1>6 DEF StopFlag, SetEvent, thread, InHand
<1> QED BY <1>1, <1>2, <1>3, <1>4, <1>5, <1>6 DEF Next, Thread, Calls

-----------------------------------------------------------------------------
(* The requests, from being accepted to being reported.                    *)

LEMMA KeepsAccounted ==
  ASSUME TypeOK, InHand, Accounted, Next
  PROVE  Accounted'
<1>1. ASSUME UNCHANGED <<accepted, reports, requests, current>>
      PROVE  Accounted'
  BY <1>1 DEF Accounted, Reported, Ids
<1>2. ASSUME Start \/ StartRaises \/ WakeUp \/ NothingThere \/ Recheck \/ Crash
      PROVE  Accounted'
  BY <1>1, <1>2 DEF Start, StartRaises, WakeUp, NothingThere, Recheck, Crash, state, thread,
     history
<1>3. ASSUME Pop
      PROVE  Accounted'
  <2>1. Ids(requests) = Ids(Tail(requests)) \cup {Head(requests)}
    BY <1>3, IdsOfTail DEF Pop, TypeOK
  <2>2. current = NoRequest /\ current' = Head(requests) /\ requests' = Tail(requests)
    BY <1>3 DEF Pop, Goto, InHand, Working
  <2>3. Ids(accepted') = Ids(accepted) /\ Reported' = Reported
    BY <1>3 DEF Pop, history, Reported
  <2> QED BY <2>1, <2>2, <2>3, NullAssumption DEF Accounted, Ids
<1>4. ASSUME Try
      PROVE  Accounted'
  <2>1. CASE UNCHANGED <<history, current>>
    BY <1>1, <1>4, <2>1, TryLeavesState DEF state, history
  <2>2. CASE \E ok \in BOOLEAN : Called(ok)
    <3>1. current \in Request /\ current' \in {current, NoRequest}
      BY <1>4, TryLeavesState DEF InHand
    <3>2. Reported' = Reported \cup {current}
      BY <2>2, <3>1, CalledReports
    <3>3. UNCHANGED <<requests, accepted>>
      BY <1>4, TryLeavesState DEF state
    <3> QED BY <3>1, <3>2, <3>3, NullAssumption DEF Accounted, Ids
  <2> QED BY <1>4, <2>1, <2>2, TryReports
<1>5. ASSUME NEW c \in Caller, NEW r \in Request, AddAppend(c, r)
      PROVE  Accounted'
  <2>1. /\ Ids(accepted') = Ids(accepted) \cup {r}
        /\ Ids(requests') = Ids(requests) \cup {r}
    BY <1>5, IdsOfAppend DEF AddAppend, TypeOK
  <2>2. UNCHANGED <<reports, current>>
    BY <1>5 DEF AddAppend, thread
  <2> QED BY <2>1, <2>2 DEF Accounted, Reported, Ids
<1>6. ASSUME NEW c \in Caller, StopFlag(c) \/ SetEvent(c)
      PROVE  Accounted'
  BY <1>1, <1>6 DEF StopFlag, SetEvent, thread, history
<1> QED BY <1>2, <1>3, <1>4, <1>5, <1>6 DEF Next, Thread, Calls

-----------------------------------------------------------------------------
(* What has been done of the request in hand.                              *)

\* Links differ, so setting one leaves those set before as they are.
LEMMA SetLinkKeepsProgress ==
  ASSUME TypeOK, InHand, Progress, SetLink
  PROVE  Progress'
<1> DEFINE L == LinksOf[current]
<1>1. /\ pc = "links" /\ pc' = "links" /\ current' = current
      /\ powered' = powered /\ good' = good /\ linkAt' = linkAt + 1
      /\ linkAt \in Nat \ {0} /\ linkAt <= Len(L)
      /\ current \in Request
  BY DEF SetLink, TypeOK, InHand, Working
<1>2. L \in Seq(LinkRequest) /\ Len(L) \in Nat
  BY <1>1, WorkAssumption, LenProperties
<1>3. linkAt \in 1 .. Len(L) /\ \A i \in 1 .. Len(L) : L[i] \in LinkRequest
  <2> HIDE DEF L
  <2> QED BY <1>1, <1>2, ElementOfSeq
<1>4. ASSUME NEW i \in 1 .. Len(L), i = linkAt
      PROVE  LinkRight(i)'
  <2>1. L[i].enable \in BOOLEAN
    BY <1>3 DEF LinkRequest
  <2>2. enabled' = IF LinkBoard[L[i].link] \in OldBoard THEN enabled
                   ELSE IF L[i].enable THEN enabled \cup {L[i].link}
                   ELSE enabled \ {L[i].link}
    BY <1>4 DEF SetLink
  <2>3. L' = L
    BY <1>1
  <2> QED BY <2>1, <2>2, <2>3 DEF LinkRight
<1>5. ASSUME NEW i \in 1 .. Len(L), i < linkAt
      PROVE  LinkRight(i)'
  <2>1. LinkRight(i)
    BY <1>1, <1>5 DEF Progress
  <2>2. L[i].link # L[linkAt].link
    BY <1>1, <1>2, <1>3, <1>5, WorkAssumption
  <2> QED BY <1>1, <2>1, <2>2 DEF SetLink, LinkRight
<1>6. \A i \in 1 .. Len(L) : i < linkAt + 1 => i < linkAt \/ i = linkAt
  BY <1>1, <1>2
<1> QED BY <1>1, <1>4, <1>5, <1>6 DEF Progress

LEMMA TryKeepsProgress ==
  ASSUME TypeOK, InHand, Progress, Try
  PROVE  Progress'
<1>0. current \in Request /\ OnOf[current] \in SUBSET Board
  BY TryLeavesState, WorkAssumption DEF InHand
<1>1. ASSUME BeginTry
      PROVE  Progress'
  <2>1. \A i \in 1 .. Len(LinksOf[current]) : ~(i < 1)
    OBVIOUS
  <2> QED BY <1>1, <2>1 DEF BeginTry, Progress, hardware
<1>2. ASSUME PowerOn
      PROVE  Progress'
  <2>1. /\ pc = "on" /\ pc' = "fpga" /\ powered' = powered \cup toPower
        /\ good \ toPower \subseteq good'
        /\ UNCHANGED <<current, toPower, linkAt>>
    BY <1>2 DEF PowerOn, Goto, SwitchedOn, thread
  <2> QED BY <2>1 DEF Progress
<1>3. ASSUME PowerOnRaises \/ FpgaRaises \/ SetLinkRaises \/ PowerOffRaises \/ ReportRaises
             \/ Retry \/ GiveUp \/ ReportDone \/ ReportFailed \/ FailedRaises
      PROVE  Progress'
  <2>1. pc' \in {"caught", "try", "failed", "check", "crash"}
    BY <1>3 DEF PowerOnRaises, FpgaRaises, SetLinkRaises, PowerOffRaises, ReportRaises,
       Retry, GiveUp, ReportDone, ReportFailed, FailedRaises, Goto
  <2> QED BY <2>1 DEF Progress
<1>4. ASSUME FpgasRight
      PROVE  Progress'
  <2>1. \A i \in 1 .. Len(LinksOf[current]) : ~(i < 1)
    OBVIOUS
  <2>2. pc = "fpga" /\ pc' = "links" /\ UNCHANGED <<current, toPower, linkAt, powered, good>>
    BY <1>4 DEF FpgasRight, Goto, thread, hardware
  <2>3. toPower \ OldBoard \subseteq good
    BY <1>4 DEF FpgasRight, WrongBoards
  <2> QED BY <2>1, <2>2, <2>3 DEF Progress
<1>5. ASSUME FpgasWrong
      PROVE  Progress'
  BY <1>5 DEF FpgasWrong, Goto, WrongBoards, Progress, hardware
<1>6. ASSUME LinksDone
      PROVE  Progress'
  <2>1. Len(LinksOf[current]) \in Nat /\ linkAt \in Nat
    BY <1>0, WorkAssumption, LenProperties DEF TypeOK
  <2>2. \A i \in 1 .. Len(LinksOf[current]) : i < linkAt
    BY <1>6, <2>1 DEF LinksDone
  <2>3. pc = "links" /\ pc' = "off" /\ UNCHANGED <<current, powered, good, enabled>>
    BY <1>6 DEF LinksDone, Goto, thread, hardware
  <2> QED BY <2>2, <2>3 DEF Progress, LinkRight
<1>7. ASSUME PowerOff
      PROVE  Progress'
  <2>1. OnOf[current] \cap OffOf[current] = {}
    BY <1>0, WorkAssumption
  <2>2. /\ pc = "off" /\ pc' = "report" /\ powered' = powered \ OffOf[current]
        /\ UNCHANGED <<current, good, enabled>>
    BY <1>7 DEF PowerOff, Goto, thread
  <2> QED BY <2>1, <2>2 DEF Progress, LinkRight
<1> QED BY <1>1, <1>2, <1>3, <1>4, <1>5, <1>6, <1>7, SetLinkKeepsProgress DEF Try

LEMMA KeepsProgress ==
  ASSUME TypeOK, InHand, Progress, Next
  PROVE  Progress'
<1>1. ASSUME Start \/ StartRaises \/ WakeUp \/ Pop \/ NothingThere \/ Recheck \/ Crash
      PROVE  Progress'
  <2>1. pc' \notin {"on", "fpga", "links", "off", "report"}
    BY <1>1 DEF Start, StartRaises, WakeUp, Pop, NothingThere, Recheck, Crash, Goto
  <2> QED BY <2>1 DEF Progress
<1>2. ASSUME Calls
      PROVE  Progress'
  <2>1. UNCHANGED <<pc, current, toPower, linkAt, powered, good, enabled>>
    BY <1>2 DEF Calls, AddAppend, StopFlag, SetEvent, thread, hardware
  <2> QED BY <2>1 DEF Progress, LinkRight
<1> QED BY <1>1, <1>2, TryKeepsProgress DEF Next, Thread

-----------------------------------------------------------------------------
(* The theorems.                                                           *)

LEMMA NextKeepsInv ==
  ASSUME IInv, [Next]_vars
  PROVE  IInv'
<1>1. CASE Next
  <2>1. TypeOK'
    BY <1>1, CallsKeepType, LoopKeepsType, TryKeepsType DEF Next, Thread, IInv
  <2> QED BY <1>1, <2>1, KeepsLockHeld, KeepsEventSet, KeepsInHand, KeepsAccounted,
          KeepsProgress DEF IInv
<1>2. CASE UNCHANGED vars
  <2>1. /\ UNCHANGED <<requests, pending, stop, lock, calling, pc, current, tries, rounds>>
        /\ UNCHANGED <<toPower, linkAt, powered, good, enabled, accepted, reports>>
    BY <1>2 DEF vars, state, thread, hardware, history
  <2>2. TypeOK' /\ LockHeld' /\ EventSet' /\ InHand'
    BY <2>1 DEF IInv, TypeOK, LockHeld, EventSet, InHand
  <2>3. Accounted' /\ Progress'
    BY <2>1 DEF IInv, Accounted, Reported, Ids, Progress, LinkRight
  <2> QED BY <2>2, <2>3 DEF IInv
<1> QED BY <1>1, <1>2

\* The invariant holds in every state of the BMP thread and its callers.
THEOREM InvHolds == Spec => []IInv
<1>1. Init => IInv
  BY InitInv
<1>2. IInv /\ [Next]_vars => IInv'
  BY NextKeepsInv
<1> QED BY <1>1, <1>2, PTL DEF Spec

\* Every variable holds what its comment says.
THEOREM TypeCorrect == Spec => []TypeOK
<1>1. IInv => TypeOK
  BY DEF IInv
<1> QED BY <1>1, InvHolds, PTL

\* No call of add_requests or stop leaves the thread asleep with work to do:
\* clearing the event in _run and setting it in the calls cannot race.
THEOREM WakeupsKept == Spec => []NoLostWakeup
<1>1. IInv => NoLostWakeup
  BY DEF IInv, EventSet, NoLostWakeup, Over
<1> QED BY <1>1, InvHolds, PTL

\* _run ends only when on_done was called for all add_requests has accepted.
THEOREM AllReportedAtEnd == Spec => []EndedAfterAll
<1>1. ASSUME IInv
      PROVE  EndedAfterAll
  <2>1. SUFFICES ASSUME pc = "ended"
                 PROVE  Ids(accepted) = Reported
    BY DEF EndedAfterAll, Reported
  <2>2. current = NoRequest /\ requests = <<>>
    BY <1>1, <2>1 DEF IInv, InHand, Working
  <2>3. Ids(requests) = {}
    BY <2>2 DEF Ids
  <2>4. Ids(accepted) \subseteq Request /\ Reported \subseteq Request
    <3>1. accepted \in Seq(Request) /\ reports \in Seq([request : Request, ok : BOOLEAN])
      BY <1>1 DEF IInv, TypeOK
    <3>2. \A i \in 1 .. Len(accepted) : accepted[i] \in Request
      BY <3>1, ElementOfSeq
    <3>3. \A i \in 1 .. Len(reports) : reports[i] \in [request : Request, ok : BOOLEAN]
      BY <3>1, ElementOfSeq
    <3> QED BY <3>2, <3>3 DEF Ids, Reported
  <2> QED BY <1>1, <2>2, <2>3, <2>4, NullAssumption DEF IInv, Accounted
<1> QED BY <1>1, InvHolds, PTL

\* on_done(True) is called only when boards and links are as the request asks,
\* whatever failed in its earlier tries.
THEOREM SuccessIsTrue == Spec => []DoneMeansDone
<1>1. IInv => DoneMeansDone
  BY DEF IInv, Progress, LinkRight, DoneMeansDone
<1> QED BY <1>1, InvHolds, PTL

-----------------------------------------------------------------------------
(* The service this implements.                                            *)

InHandThen(c, s) == (IF c = NoRequest THEN <<>> ELSE <<c>>) \o s

Queue == InHandThen(current, requests)
Result == CASE pc = "report" -> "ok" [] pc = "failed" -> "failed" [] OTHER -> "none"
Phase == CASE pc = "start" -> "waiting" [] pc = "ended" -> "ended"
           [] pc \in {"crash", "crashed"} -> "broken" [] OTHER -> "serving"

\* Taking the first request in hand, and giving it up, as the service sees it.
LEMMA QueueFacts ==
  ASSUME NEW s \in Seq(Request)
  PROVE  /\ InHandThen(NoRequest, s) = s
         /\ s # <<>> => InHandThen(Head(s), Tail(s)) = s
         /\ \A c \in Request : /\ InHandThen(c, s) # <<>>
                               /\ Head(InHandThen(c, s)) = c
                               /\ Tail(InHandThen(c, s)) = s
         /\ \A c \in Request \cup {NoRequest}, r \in Request :
              InHandThen(c, Append(s, r)) = Append(InHandThen(c, s), r)
<1>1. InHandThen(NoRequest, s) = s
  BY ConcatEmptySeq DEF InHandThen
<1>2. \A c \in Request : InHandThen(c, s) = <<c>> \o s
  BY NullAssumption DEF InHandThen
<1>3. ASSUME NEW c \in Request
      PROVE  /\ <<c>> \o s # <<>>
             /\ Head(<<c>> \o s) = c
             /\ Tail(<<c>> \o s) = s
  BY <1>3
<1>4. ASSUME s # <<>>
      PROVE  InHandThen(Head(s), Tail(s)) = s
  <2>1. Head(s) \in Request /\ Tail(s) \in Seq(Request)
    BY <1>4, HeadTailProperties
  <2>2. InHandThen(Head(s), Tail(s)) = <<Head(s)>> \o Tail(s)
    BY <2>1, NullAssumption DEF InHandThen
  <2>3. <<Head(s)>> \o Tail(s) = s
    BY <1>4, <2>1
  <2> QED BY <2>2, <2>3
<1>5. ASSUME NEW c \in Request \cup {NoRequest}, NEW r \in Request
      PROVE  InHandThen(c, Append(s, r)) = Append(InHandThen(c, s), r)
  <2>1. (IF c = NoRequest THEN <<>> ELSE <<c>>) \in Seq(Request)
    BY <1>5
  <2> DEFINE h == IF c = NoRequest THEN <<>> ELSE <<c>>
  <2> HIDE DEF h
  <2>2. h \in Seq(Request)
    BY <2>1 DEF h
  <2>3. h \o Append(s, r) = Append(h \o s, r)
    BY <2>2
  <2> QED BY <2>3 DEF InHandThen, h
<1> QED BY <1>1, <1>2, <1>3, <1>4, <1>5

\* What the thread does without the service taking a step.
LEMMA ServiceUnchanged ==
  ASSUME Queue' = Queue, Result' = Result, powered' = powered, stop' = stop, Phase' = Phase
  PROVE  UNCHANGED Service!svars
  BY DEF Service!svars, Queue, InHandThen, Result, Phase

LEMMA CallsImplement ==
  ASSUME TypeOK, Calls
  PROVE  [Service!Next]_(Service!svars)
<1>1. requests \in Seq(Request) /\ current \in Request \cup {NoRequest}
  BY DEF TypeOK
<1>2. ASSUME NEW c \in Caller, NEW r \in Request, AddAppend(c, r)
      PROVE  Service!Add(r)
  <2>1. /\ ~stop /\ requests' = Append(requests, r)
        /\ UNCHANGED <<pc, current, powered, stop>>
    BY <1>2 DEF AddAppend, thread, hardware
  <2>2. Queue' = Append(Queue, r)
    BY <1>1, <2>1, QueueFacts DEF Queue
  <2> QED BY <2>1, <2>2 DEF Service!Add, Queue, InHandThen
<1>3. ASSUME NEW c \in Caller, StopFlag(c)
      PROVE  Service!Stop
  BY <1>3 DEF StopFlag, thread, hardware, Service!Stop
<1>4. ASSUME NEW c \in Caller, SetEvent(c)
      PROVE  UNCHANGED Service!svars
  BY <1>4, ServiceUnchanged DEF SetEvent, thread, hardware, Queue, InHandThen, Result, Phase
<1> QED BY <1>2, <1>3, <1>4 DEF Calls, Service!Next

LEMMA LoopImplements ==
  ASSUME TypeOK, InHand, 
         Start \/ StartRaises \/ WakeUp \/ NothingThere \/ Pop \/ Recheck \/ Crash
  PROVE  [Service!Next]_(Service!svars)
<1>1. ASSUME Start
      PROVE  Service!Begin
  BY <1>1 DEF Start, Goto, state, thread, hardware, Service!Begin
<1>2. ASSUME StartRaises
      PROVE  Service!BeginRaises
  BY <1>2 DEF StartRaises, Goto, state, thread, hardware, Service!BeginRaises
<1>3. ASSUME WakeUp \/ NothingThere
      PROVE  UNCHANGED Service!svars
  <2>1. /\ UNCHANGED <<requests, stop, current, powered>>
        /\ pc \in {"wait", "look"} /\ pc' \in {"look", "check"}
    BY <1>3 DEF WakeUp, NothingThere, Goto, state, thread, hardware
  <2> QED BY <2>1, ServiceUnchanged DEF Queue, InHandThen, Result, Phase
<1>4. ASSUME Pop
      PROVE  UNCHANGED Service!svars
  <2>1. /\ current = NoRequest /\ requests # <<>>
        /\ current' = Head(requests) /\ requests' = Tail(requests)
        /\ pc = "look" /\ pc' = "try"
        /\ UNCHANGED <<stop, powered>>
    BY <1>4 DEF Pop, Goto, InHand, Working, hardware
  <2>2. Queue' = Queue
    BY <2>1, QueueFacts DEF Queue, TypeOK
  <2> QED BY <2>1, <2>2, ServiceUnchanged DEF Result, Phase
<1>5. ASSUME Recheck
      PROVE  Service!End \/ UNCHANGED Service!svars
  <2>1. /\ pc = "check" /\ UNCHANGED <<requests, stop, current, powered>>
        /\ pc' = IF requests = <<>> /\ stop THEN "ended" ELSE "wait"
    BY <1>5 DEF Recheck, thread, hardware
  <2>2. CASE pc' = "wait"
    BY <2>1, <2>2, ServiceUnchanged DEF Queue, InHandThen, Result, Phase
  <2>3. CASE requests = <<>> /\ stop
    <3>1. current = NoRequest
      BY <2>1 DEF InHand, Working
    <3>2. Queue = <<>>
      BY <2>3, <3>1, QueueFacts DEF Queue, TypeOK
    <3> QED BY <2>1, <2>3, <3>2 DEF Service!End, Queue, InHandThen
  <2> QED BY <2>1, <2>2, <2>3
<1>6. ASSUME Crash
      PROVE  Service!Stop
  BY <1>6 DEF Crash, Goto, thread, hardware, Service!Stop
<1> QED BY <1>1, <1>2, <1>3, <1>4, <1>5, <1>6 DEF Service!Next

LEMMA TryImplements ==
  ASSUME TypeOK, InHand, Progress, Try
  PROVE  [Service!Next]_(Service!svars)
<1>1. /\ UNCHANGED <<requests, stop>>
      /\ pc \in Working /\ current \in Request
      /\ Queue # <<>> /\ Head(Queue) = current /\ Tail(Queue) = requests
      /\ InHandThen(NoRequest, requests) = requests
  <2>1. UNCHANGED <<requests, stop>> /\ pc \in Working
    BY TryLeavesState DEF state
  <2> QED BY <2>1, QueueFacts DEF Queue, TypeOK, InHand
<1>2. ASSUME BeginTry \/ FpgasRight \/ FpgasWrong \/ FpgaRaises \/ SetLink \/ SetLinkRaises
             \/ LinksDone \/ Retry
      PROVE  UNCHANGED Service!svars
  <2>1. /\ UNCHANGED <<current, powered>>
        /\ pc \in {"try", "fpga", "links", "caught"}
        /\ pc' \in {"try", "on", "links", "off", "caught"}
    BY <1>2 DEF BeginTry, FpgasRight, FpgasWrong, FpgaRaises, SetLink, SetLinkRaises,
       LinksDone, Retry, Goto, thread, hardware
  <2> QED BY <1>1, <2>1, ServiceUnchanged DEF Queue, InHandThen, Result, Phase
<1>3. ASSUME PowerOn \/ PowerOnRaises
      PROVE  Service!Switch
  <2>1. PICK B \in SUBSET toPower : powered' = powered \cup B
    BY <1>3 DEF PowerOn, PowerOnRaises, SwitchedOn
  <2>2. B \subseteq OnOf[current] /\ pc = "on" /\ pc' \in {"fpga", "caught"}
    BY <1>3, <2>1 DEF PowerOn, PowerOnRaises, Goto, Progress
  <2>3. current' = current
    BY <1>3 DEF PowerOn, PowerOnRaises, thread
  <2>4. powered' = (powered \cup B) \ {}
    BY <2>1
  <2> QED BY <1>1, <2>2, <2>3, <2>4 DEF Service!Switch, Service!AtWork, Queue, InHandThen
<1>4. ASSUME PowerOffRaises
      PROVE  Service!Switch
  <2>1. PICK B \in SUBSET OffOf[current] : powered' = powered \ B
    BY <1>4 DEF PowerOffRaises
  <2>2. pc = "off" /\ pc' = "caught" /\ current' = current
    BY <1>4 DEF PowerOffRaises, Goto, thread
  <2>3. powered' = (powered \cup {}) \ B
    BY <2>1
  <2> QED BY <1>1, <2>1, <2>2, <2>3 DEF Service!Switch, Service!AtWork, Queue, InHandThen
<1>5. ASSUME PowerOff
      PROVE  Service!Succeed
  <2>1. pc = "off" /\ pc' = "report" /\ current' = current
    BY <1>5 DEF PowerOff, Goto, thread
  <2>2. OnOf[current] \subseteq powered /\ powered' = powered \ OffOf[current]
    BY <1>5, <2>1 DEF PowerOff, Progress
  <2>3. powered' = (powered \cup OnOf[current]) \ OffOf[current]
    BY <2>2
  <2> QED BY <1>1, <2>1, <2>3 DEF Service!Succeed, Service!AtWork, Queue, InHandThen
<1>6. ASSUME GiveUp
      PROVE  Service!Fail
  BY <1>1, <1>6 DEF GiveUp, Goto, thread, hardware, Service!Fail, Service!AtWork, Queue,
     InHandThen
<1>7. ASSUME ReportDone \/ ReportFailed
      PROVE  Service!Report
  <2>1. /\ pc \in {"report", "failed"} /\ pc' = "check" /\ current' = NoRequest
        /\ powered' = powered
    BY <1>7 DEF ReportDone, ReportFailed, Goto, hardware
  <2>2. Queue' = Tail(Queue)
    BY <1>1, <2>1 DEF Queue
  <2> QED BY <1>1, <2>1, <2>2 DEF Service!Report, Queue, InHandThen
<1>8. ASSUME ReportRaises \/ FailedRaises
      PROVE  Service!ReportRaises
  <2>1. /\ \/ pc = "report" /\ pc' = "caught"
           \/ pc = "failed" /\ pc' = "crash"
        /\ UNCHANGED <<current, powered>>
    BY <1>8 DEF ReportRaises, FailedRaises, Goto, thread, hardware
  <2> QED BY <1>1, <2>1 DEF Service!ReportRaises
<1> QED BY <1>2, <1>3, <1>4, <1>5, <1>6, <1>7, <1>8 DEF Try, Service!Next

\* Step by step the BMP thread does what the service allows: what the Controller
\* is checked with is what async_bmp_controller.py gives it.
THEOREM ImplementsSteps == Spec => Service!Spec
<1>1. Init => Service!Init
  <2> SUFFICES ASSUME Init
               PROVE  Service!Init
    OBVIOUS
  <2>1. Queue = <<>>
    BY QueueFacts, EmptySeq DEF Init, Queue
  <2> QED BY <2>1 DEF Init, Service!Init, Queue, InHandThen
<1>2. IInv /\ [Next]_vars => [Service!Next]_(Service!svars)
  <2> SUFFICES ASSUME IInv, [Next]_vars
               PROVE  [Service!Next]_(Service!svars)
    OBVIOUS
  <2>1. CASE Next
    BY <2>1, CallsImplement, LoopImplements, TryImplements DEF Next, Thread, IInv
  <2>2. CASE UNCHANGED vars
    <3>1. UNCHANGED <<requests, stop, current, powered, pc>>
      BY <2>2 DEF vars, state, thread, hardware
    <3> QED BY <3>1, ServiceUnchanged DEF Queue, InHandThen, Result, Phase
  <2> QED BY <2>1, <2>2
<1> QED BY <1>1, <1>2, InvHolds, PTL DEF Spec, Service!Spec

-----------------------------------------------------------------------------
(* How often on_done is called.                                            *)

Mine(r) == {i \in 1 .. Len(reports) : reports[i].request = r}

\* A request in the queue is there once, and nothing was reported of it.
QueueFresh ==
  /\ \A i \in 1 .. Len(requests) : requests[i] \notin Reported /\ requests[i] # current
  /\ \A i, k \in 1 .. Len(requests) : requests[i] = requests[k] => i = k

\* A request in hand was reported done in earlier tries at most, in each of which
\* on_done raised an exception; in this try too, if it has been caught.
TriesReported ==
  pc \in Working =>
    /\ tries \in Nat \ {0}
    /\ Cardinality(Mine(current)) <= tries
    /\ pc \notin {"caught", "failed"} => Cardinality(Mine(current)) < tries
    /\ \A i \in Mine(current) : reports[i].ok

\* The inductive invariant from which ReportsBounded follows, given IInv.
CallsInv == QueueFresh /\ TriesReported /\ ReportsBounded

LEMMA MineFinite ==
  ASSUME TypeOK, NEW r
  PROVE  IsFiniteSet(Mine(r)) /\ Cardinality(Mine(r)) \in Nat
<1>1. IsFiniteSet(1 .. Len(reports))
  <2>1. Len(reports) \in Nat
    BY LenProperties DEF TypeOK
  <2> QED BY <2>1, FS_Interval
<1>2. Mine(r) \subseteq 1 .. Len(reports)
  BY DEF Mine
<1> QED BY <1>1, <1>2, FS_Subset, FS_CardinalityType

LEMMA CalledMine ==
  ASSUME TypeOK, NEW c \in Request, NEW ok \in BOOLEAN,
         reports' = Append(reports, [request |-> c, ok |-> ok])
  PROVE  /\ \A r : r # c => Mine(r)' = Mine(r)
         /\ Mine(c)' = Mine(c) \cup {Len(reports) + 1}
         /\ Cardinality(Mine(c)') = Cardinality(Mine(c)) + 1
         /\ \A i \in 1 .. Len(reports) : reports'[i] = reports[i]
         /\ reports'[Len(reports) + 1].ok = ok
<1>1. PICK n \in Nat : n = Len(reports)
  BY LenProperties DEF TypeOK
<1>2. PICK e \in [request : Request, ok : BOOLEAN] : e = [request |-> c, ok |-> ok]
  OBVIOUS
<1>3. /\ Len(reports') = n + 1 /\ reports'[n + 1] = e
      /\ \A i \in 1 .. n : reports'[i] = reports[i]
  BY <1>1, <1>2, AppendProperties DEF TypeOK
<1>4. 1 .. n + 1 = (1 .. n) \cup {n + 1} /\ n + 1 \notin 1 .. n
  BY <1>1
<1>5. e.request = c /\ e.ok = ok
  BY <1>2
<1>6. \A r : r # c => Mine(r)' = Mine(r)
  BY <1>1, <1>3, <1>4, <1>5 DEF Mine
<1>7. Mine(c)' = Mine(c) \cup {n + 1} /\ n + 1 \notin Mine(c)
  BY <1>1, <1>3, <1>4, <1>5 DEF Mine
<1>8. Cardinality(Mine(c)') = Cardinality(Mine(c)) + 1
  BY <1>7, MineFinite, FS_AddElement
<1> QED BY <1>1, <1>3, <1>5, <1>6, <1>7, <1>8

Bounded(r) ==
  /\ Cardinality(Mine(r)) <= RequestTries + 1
  /\ \A i \in Mine(r) : ~reports[i].ok => \A k \in Mine(r) : k <= i

\* Calling on_done for the request in hand respects the bounds.
LEMMA CalledKeepsBounds ==
  ASSUME TypeOK, TriesReported, ReportsBounded, pc \in {"report", "failed"},
         NEW c \in Request, c = current,
         NEW ok \in BOOLEAN, ok <=> pc = "report",
         reports' = Append(reports, [request |-> c, ok |-> ok])
  PROVE  /\ ReportsBounded'
         /\ pc = "report" => /\ Cardinality(Mine(c)') <= tries
                             /\ \A i \in Mine(c)' : reports'[i].ok
<1>1. /\ \A r : r # c => Mine(r)' = Mine(r)
      /\ Mine(c)' = Mine(c) \cup {Len(reports) + 1}
      /\ Cardinality(Mine(c)') = Cardinality(Mine(c)) + 1
      /\ \A i \in 1 .. Len(reports) : reports'[i] = reports[i]
      /\ reports'[Len(reports) + 1].ok = ok
  BY CalledMine
<1>2. Len(reports) \in Nat /\ RequestTries \in Nat /\ tries \in Nat /\ tries <= RequestTries
  BY LenProperties, TryAssumption DEF TypeOK
<1>3. \A r : Mine(r) \subseteq 1 .. Len(reports)
  BY DEF Mine
<1>4. Cardinality(Mine(c)) \in Nat
  BY MineFinite
<1>5. /\ Cardinality(Mine(c)) <= tries
      /\ pc = "report" => Cardinality(Mine(c)) < tries
      /\ \A i \in Mine(c) : reports[i].ok
  BY DEF TriesReported, Working
<1>6. \A r \in Request : Bounded(r)
  BY DEF ReportsBounded, Bounded, Mine
<1>7. ASSUME NEW r \in Request, r # c
      PROVE  Bounded(r)'
  BY <1>1, <1>3, <1>6, <1>7 DEF Bounded
<1>8. Bounded(c)'
  <2>1. Cardinality(Mine(c)') <= RequestTries + 1
    BY <1>1, <1>2, <1>4, <1>5
  <2>2. ASSUME NEW i \in Mine(c)', ~reports'[i].ok, NEW k \in Mine(c)'
        PROVE  k <= i
    <3>1. i = Len(reports) + 1
      BY <1>1, <1>3, <1>5, <2>2
    <3> QED BY <1>1, <1>2, <1>3, <2>2, <3>1
  <2> QED BY <2>1, <2>2 DEF Bounded
<1>9. ReportsBounded'
  <2>1. ASSUME NEW r \in Request
        PROVE  Bounded(r)'
    BY <1>7, <1>8
  <2> QED BY <2>1 DEF ReportsBounded, Bounded, Mine
<1>10. ASSUME pc = "report"
       PROVE  /\ Cardinality(Mine(c)') <= tries
              /\ \A i \in Mine(c)' : reports'[i].ok
  BY <1>1, <1>2, <1>3, <1>4, <1>5, <1>10
<1> QED BY <1>9, <1>10

LEMMA KeepsFresh ==
  ASSUME IInv, QueueFresh, Next
  PROVE  QueueFresh'
<1>0. TypeOK /\ InHand /\ Accounted
  BY DEF IInv
<1>1. ASSUME UNCHANGED <<reports, requests, current>>
      PROVE  QueueFresh'
  BY <1>1 DEF QueueFresh, Reported
<1>2. ASSUME Start \/ StartRaises \/ WakeUp \/ NothingThere \/ Recheck \/ Crash
      PROVE  QueueFresh'
  BY <1>1, <1>2 DEF Start, StartRaises, WakeUp, NothingThere, Recheck, Crash, state, thread,
     history
<1>3. ASSUME Pop
      PROVE  QueueFresh'
  <2>1. /\ requests # <<>> /\ requests \in Seq(Request)
        /\ current' = Head(requests) /\ requests' = Tail(requests) /\ reports' = reports
    BY <1>0, <1>3 DEF Pop, history, TypeOK
  <2>2. PICK n \in Nat \ {0} : n = Len(requests)
    BY <2>1, EmptySeq, LenProperties
  <2>3. /\ Len(requests') = n - 1 /\ current' = requests[1]
        /\ \A i \in 1 .. n - 1 : requests'[i] = requests[i + 1]
    BY <2>1, <2>2, HeadTailProperties
  <2>4. \A i \in 1 .. n - 1 : i + 1 \in 1 .. n /\ i + 1 # 1
    BY <2>2
  <2>5. Reported' = Reported /\ 1 \in 1 .. n
    BY <2>1, <2>2 DEF Reported
  <2>6. \A i \in 1 .. Len(requests') : requests'[i] \notin Reported' /\ requests'[i] # current'
    BY <2>2, <2>3, <2>4, <2>5 DEF QueueFresh
  <2>7. ASSUME NEW i \in 1 .. n - 1, NEW k \in 1 .. n - 1, requests'[i] = requests'[k]
        PROVE  i = k
    <3>1. i + 1 = k + 1
      BY <2>2, <2>3, <2>4, <2>7 DEF QueueFresh
    <3> QED BY <2>2, <3>1
  <2> QED BY <2>3, <2>6, <2>7 DEF QueueFresh
<1>4. ASSUME Try
      PROVE  QueueFresh'
  <2>1. requests' = requests /\ current' \in {current, NoRequest}
        /\ \A i \in 1 .. Len(requests) : requests[i] # NoRequest
    <3>1. \A i \in 1 .. Len(requests) : requests[i] \in Request
      BY <1>0, ElementOfSeq DEF TypeOK
    <3>2. requests' = requests /\ current' \in {current, NoRequest}
      BY <1>4, TryLeavesState DEF state
    <3> QED BY <3>1, <3>2, NullAssumption
  <2>2. CASE UNCHANGED <<history, current>>
    BY <1>1, <2>1, <2>2 DEF history
  <2>3. CASE \E ok \in BOOLEAN : Called(ok)
    <3>1. current \in Request
      BY <1>0, <1>4, TryLeavesState DEF InHand
    <3>2. Reported' = Reported \cup {current}
      BY <1>0, <2>3, <3>1, CalledReports
    <3> QED BY <2>1, <3>2 DEF QueueFresh
  <2> QED BY <1>4, <2>2, <2>3, TryReports
<1>5. ASSUME NEW c \in Caller, NEW r \in Request, AddAppend(c, r)
      PROVE  QueueFresh'
  <2>1. /\ requests \in Seq(Request) /\ requests' = Append(requests, r)
        /\ UNCHANGED <<reports, current>>
    BY <1>0, <1>5 DEF AddAppend, thread, TypeOK
  <2>2. PICK n \in Nat : n = Len(requests)
    BY <2>1, LenProperties
  <2>3. /\ Len(requests') = n + 1 /\ requests'[n + 1] = r
        /\ \A i \in 1 .. n : requests'[i] = requests[i]
    BY <2>1, <2>2, AppendProperties
  <2>4. r \notin Ids(accepted)
    BY <1>5 DEF AddAppend, Ids
  <2>5. r \notin Reported /\ r # current /\ \A i \in 1 .. n : requests[i] # r
    BY <1>0, <2>2, <2>4 DEF Accounted, Ids
  <2>6. \A i \in 1 .. n + 1 : i \in 1 .. n \/ i = n + 1
    BY <2>2
  <2>7. Reported' = Reported
    BY <2>1 DEF Reported
  <2> QED BY <2>1, <2>2, <2>3, <2>5, <2>6, <2>7 DEF QueueFresh
<1>6. ASSUME NEW c \in Caller, StopFlag(c) \/ SetEvent(c)
      PROVE  QueueFresh'
  BY <1>1, <1>6 DEF StopFlag, SetEvent, thread, history
<1> QED BY <1>2, <1>3, <1>4, <1>5, <1>6 DEF Next, Thread, Calls

LEMMA KeepsCalls ==
  ASSUME IInv, CallsInv, Next
  PROVE  TriesReported' /\ ReportsBounded'
<1>0. /\ TypeOK /\ InHand /\ QueueFresh /\ TriesReported /\ ReportsBounded
      /\ tries \in Nat /\ tries <= RequestTries /\ RequestTries \in Nat \ {0}
  BY TryAssumption DEF IInv, CallsInv, TypeOK
<1>1. ASSUME UNCHANGED reports
      PROVE  ReportsBounded' /\ \A r : Mine(r)' = Mine(r)
  BY <1>0, <1>1 DEF ReportsBounded, Mine
\* Steps that call nothing and neither begin nor end a try, ...
<1>2. ASSUME UNCHANGED <<reports, current, tries>>,
             pc' \notin Working \/ pc' = pc
               \/ (pc \in Working /\ pc' \in {"caught", "failed"})
               \/ (pc \in Working \ {"caught", "failed"})
      PROVE  TriesReported' /\ ReportsBounded'
  <2>1. ReportsBounded' /\ \A r : Mine(r)' = Mine(r)
    BY <1>1, <1>2
  <2>2. TriesReported'
    BY <1>0, <1>2, <2>1, MineFinite DEF TriesReported
  <2> QED BY <2>1, <2>2
<1>3. ASSUME Start \/ StartRaises \/ WakeUp \/ NothingThere \/ Recheck \/ Crash
      PROVE  TriesReported' /\ ReportsBounded'
  <2>1. UNCHANGED <<reports, current, tries>> /\ pc' \notin Working
    BY <1>3 DEF Start, StartRaises, WakeUp, NothingThere, Recheck, Crash, Goto, state, thread,
       history, Working
  <2> QED BY <1>2, <2>1
<1>4. ASSUME NEW c \in Caller, \/ \E r \in Request : AddAppend(c, r)
                               \/ StopFlag(c) \/ SetEvent(c)
      PROVE  TriesReported' /\ ReportsBounded'
  <2>1. UNCHANGED <<reports, current, tries>> /\ pc' = pc
    BY <1>4 DEF AddAppend, StopFlag, SetEvent, thread, history
  <2> QED BY <1>2, <2>1
<1>5. ASSUME BeginTry \/ PowerOn \/ PowerOnRaises \/ FpgasRight \/ FpgasWrong \/ FpgaRaises
      PROVE  TriesReported' /\ ReportsBounded'
  <2>1. UNCHANGED <<reports, current, tries>> /\ pc \in Working \ {"caught", "failed"}
    BY <1>5 DEF BeginTry, PowerOn, PowerOnRaises, FpgasRight, FpgasWrong, FpgaRaises, Goto,
       thread, history, Working
  <2> QED BY <1>2, <2>1
<1>6. ASSUME SetLink \/ SetLinkRaises \/ LinksDone \/ PowerOff \/ PowerOffRaises
      PROVE  TriesReported' /\ ReportsBounded'
  <2>1. UNCHANGED <<reports, current, tries>> /\ pc \in Working \ {"caught", "failed"}
    BY <1>6 DEF SetLink, SetLinkRaises, LinksDone, PowerOff, PowerOffRaises, Goto,
       thread, history, Working
  <2> QED BY <1>2, <2>1
<1>7. ASSUME GiveUp
      PROVE  TriesReported' /\ ReportsBounded'
  <2>1. UNCHANGED <<reports, current, tries>> /\ pc \in Working /\ pc' = "failed"
    BY <1>7 DEF GiveUp, Goto, thread, history, Working
  <2> QED BY <1>2, <2>1
\* ... a request taken from the queue, of which nothing was reported, ...
<1>8. ASSUME Pop
      PROVE  TriesReported' /\ ReportsBounded'
  <2>1. /\ requests # <<>> /\ requests \in Seq(Request) /\ reports' = reports
        /\ current' = Head(requests) /\ tries' = 1
    BY <1>0, <1>8 DEF Pop, history, TypeOK
  <2>2. PICK r : r = Head(requests)
    OBVIOUS
  <2>3. 1 \in 1 .. Len(requests) /\ r = requests[1]
    BY <2>1, <2>2, EmptySeq, LenProperties, HeadTailProperties
  <2>4. Mine(r) = {}
    BY <1>0, <2>3 DEF QueueFresh, Reported, Mine
  <2>5. Mine(r)' = {} /\ Cardinality({}) = 0
    BY <1>1, <2>1, <2>4, FS_EmptySet
  <2> QED BY <1>1, <2>1, <2>2, <2>5 DEF TriesReported
\* ... a new try, ...
<1>9. ASSUME Retry
      PROVE  TriesReported' /\ ReportsBounded'
  <2>1. pc = "caught" /\ tries' = tries + 1 /\ UNCHANGED <<reports, current>>
    BY <1>9 DEF Retry, Goto, history
  <2>2. PICK r : r = current
    OBVIOUS
  <2>3. /\ Cardinality(Mine(r)) <= tries /\ Cardinality(Mine(r)) \in Nat
        /\ \A i \in Mine(r) : reports[i].ok
    BY <1>0, <2>1, <2>2, MineFinite DEF TriesReported, Working
  <2>4. Cardinality(Mine(r)') < tries + 1 /\ Mine(r)' = Mine(r)
    BY <1>0, <1>1, <2>1, <2>3
  <2>5. TriesReported'
    BY <1>0, <2>1, <2>2, <2>3, <2>4 DEF TriesReported
  <2> QED BY <1>1, <2>1, <2>5
\* ... and the calls.
<1>10. ASSUME ReportDone \/ ReportRaises
       PROVE  TriesReported' /\ ReportsBounded'
  <2>1. pc = "report" /\ reports' = Append(reports, [request |-> current, ok |-> TRUE])
        /\ tries' = tries
    BY <1>10 DEF ReportDone, ReportRaises, Goto, Called, thread
  <2>2. PICK c \in Request : c = current
    BY <1>0, <2>1 DEF InHand, Working
  <2>3. /\ ReportsBounded' /\ Cardinality(Mine(c)') <= tries
        /\ \A i \in Mine(c)' : reports'[i].ok
    BY <1>0, <2>1, <2>2, CalledKeepsBounds
  <2>4. CASE pc' = "check"
    BY <2>3, <2>4 DEF TriesReported, Working
  <2>5. CASE pc' = "caught" /\ current' = current
    BY <1>0, <2>1, <2>2, <2>3, <2>5 DEF TriesReported, Working
  <2> QED BY <1>10, <2>3, <2>4, <2>5 DEF ReportDone, ReportRaises, Goto, thread
<1>11. ASSUME ReportFailed \/ FailedRaises
       PROVE  TriesReported' /\ ReportsBounded'
  <2>1. pc = "failed" /\ reports' = Append(reports, [request |-> current, ok |-> FALSE])
        /\ pc' \in {"check", "crash"}
    BY <1>11 DEF ReportFailed, FailedRaises, Goto, Called
  <2>2. PICK c \in Request : c = current
    BY <1>0, <2>1 DEF InHand, Working
  <2>3. ReportsBounded'
    BY <1>0, <2>1, <2>2, CalledKeepsBounds
  <2> QED BY <2>1, <2>3 DEF TriesReported, Working
<1> QED BY <1>3, <1>4, <1>5, <1>6, <1>7, <1>8, <1>9, <1>10, <1>11 DEF Next, Thread, Try, Calls

\* on_done is called once for a request, unless it raises an exception: then once
\* for each try at most and for the failure, after which it is not called again.
THEOREM CallsBounded == Spec => []ReportsBounded
<1>1. Init => CallsInv
  <2> SUFFICES ASSUME Init
               PROVE  CallsInv
    OBVIOUS
  <2>1. reports = <<>> /\ requests = <<>> /\ pc \notin Working
    BY DEF Init, Working
  <2>2. \A r : Mine(r) = {}
    BY <2>1 DEF Mine
  <2>3. QueueFresh /\ TriesReported
    BY <2>1 DEF QueueFresh, TriesReported
  <2>4. Cardinality({}) = 0 /\ 0 <= RequestTries + 1
    BY FS_EmptySet, TryAssumption
  <2>5. \A r \in Request : Bounded(r)
    BY <2>2, <2>4 DEF Bounded
  <2>6. ReportsBounded
    BY <2>5 DEF ReportsBounded, Bounded, Mine
  <2> QED BY <2>3, <2>6 DEF CallsInv
<1>2. IInv /\ CallsInv /\ [Next]_vars => CallsInv'
  <2> SUFFICES ASSUME IInv, CallsInv, [Next]_vars
               PROVE  CallsInv'
    OBVIOUS
  <2>1. CASE Next
    BY <2>1, KeepsFresh, KeepsCalls DEF CallsInv
  <2>2. CASE UNCHANGED vars
    <3>1. UNCHANGED <<requests, pc, current, tries, reports>>
      BY <2>2 DEF vars, state, thread, history
    <3> QED BY <3>1 DEF CallsInv, QueueFresh, TriesReported, ReportsBounded, Reported, Mine
  <2> QED BY <2>1, <2>2
<1>3. CallsInv => ReportsBounded
  BY DEF CallsInv
<1> QED BY <1>1, <1>2, <1>3, InvHolds, PTL DEF Spec

=============================================================================
