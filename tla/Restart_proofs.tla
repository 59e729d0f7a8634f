--------------------------- MODULE Restart_proofs ---------------------------
(***************************************************************************)
(* What stopping and starting the server again does not break.             *)
(*                                                                         *)
(* Whatever exceptions that brings, the invariant of the scheduler holds:  *)
(* most steps are steps of JobQueue, so its own proofs cover them.  Two    *)
(* are not: those in which the controller is interrupted half-way, with    *)
(* the job released but nothing scheduled, or started but still queued.    *)
(*                                                                         *)
(* As long as no thread is lost to one, the ledger of requests stays       *)
(* straight as well.  A step is then one the controller could have made    *)
(* had it not been stopping, or tells a thread to stop, or starts the      *)
(* server again: with new threads and empty queues, when every thread of   *)
(* a machine in service had emptied its own.                               *)
(***************************************************************************)
EXTENDS Restart, Power_proofs

\* Interrupted while it destroys a job: the job keeps its boards.
LEMMA HalfDestroyedKeepsInv ==
  ASSUME QInv, NEW c \in BmpId, ReportFailureRaises(c)
  PROVE  QInv'
<1> DEFINE j == JobOf(c)
<1>1. QTypeOK /\ QSafe
  BY DEF QInv, QSafe
<1>2. /\ j \in DOMAIN jobs /\ jobs[j].state = "running"
      /\ jobs' = [jobs EXCEPT ![j].state = "released"]
      /\ UNCHANGED <<order, machines, nextId, scan, regen, leaving, target, fault>>
  BY DEF ReportFailureRaises
<1>3. QTypeOK'
  <2>1. jobs[j] \in JobType
    BY <1>1, <1>2 DEF QTypeOK
  <2>2. [jobs[j] EXCEPT !.state = "released"] \in JobType
    BY <2>1 DEF JobType
  <2>3. jobs' \in [DOMAIN jobs -> JobType]
    BY <1>1, <1>2, <2>2 DEF QTypeOK
  <2> QED BY <1>1, <1>2, <2>3 DEF QTypeOK
<1>4. QSafe'
  <2>1. SameHardware
    BY <1>1, <1>2, NothingMoved
  <2>2. jobs[j] \in JobType
    BY <1>1, <1>2 DEF QTypeOK
  <2>3. \A k \in DOMAIN jobs' :
          \/ k \in DOMAIN jobs /\ jobs'[k] = jobs[k]
          \/ /\ k \in DOMAIN jobs
             /\ jobs[k].state = "running" /\ jobs'[k].state = "released"
             /\ jobs'[k].machine = jobs[k].machine /\ jobs'[k].boards = jobs[k].boards
    BY <1>2, <2>2 DEF JobType
  <2> QED BY <1>1, <1>2, <2>1, <2>3, JobWithoutBoards
<1> QED BY <1>3, <1>4 DEF QInv, QSafe

\* Interrupted while it starts a job: the job has its boards, and its request is
\* still at the head of the queue.
LEMMA HalfStartedKeepsInv ==
  ASSUME QInv, NEW m \in Machine, NEW j \in JobId, NEW p \in SUBSET Board,
         AllocateRaises(m, j, p)
  PROVE  QInv'
<1>1. QTypeOK /\ QSafe
  BY DEF QInv, QSafe
<1>2. /\ TakeBoards(m, j, p, 0) /\ scan' = Idle
      /\ UNCHANGED <<order, nextId, regen, leaving, target, fault>>
  BY DEF AllocateRaises
<1>3. QTypeOK'
  <2>1. /\ machines' \in [DOMAIN machines -> MachineType]
        /\ DOMAIN machines' = DOMAIN machines
        /\ jobs' \in [DOMAIN jobs -> JobType]
        /\ DOMAIN jobs' = DOMAIN jobs
    BY <1>1, <1>2, TakingKeepsType
  <2>2. Idle \in [at : Nat, again : BOOLEAN]
    BY DEF Idle
  <2> QED BY <1>1, <1>2, <2>1, <2>2 DEF QTypeOK
<1>4. QSafe'
  BY <1>1, <1>2, TakingKeepsSafe
<1> QED BY <1>3, <1>4 DEF QInv, QSafe

\* The threads and the scheduler, while the server stops.
LEMMA FlushKeepsInv ==
  ASSUME QInv, FlushSchedule \/ \E c \in BmpId : FlushThread(c)
  PROVE  QInv'
<1>0. QTypeOK
  BY DEF QInv
<1>1. ASSUME NEW c \in BmpId, FlushThread(c)
      PROVE  QInv'
  <2>1. CASE BmpThread(c)
    BY <1>0, <2>1, BmpRefines, QNextInv
  <2>2. CASE ReportFailureRaises(c)
    BY <2>2, HalfDestroyedKeepsInv
  <2>3. CASE Ends(c)
    BY <2>3, QNextInv DEF Ends, vars
  <2> QED BY <1>1, <2>1, <2>2, <2>3 DEF FlushThread, BmpThread
<1>2. ASSUME FlushSchedule
      PROVE  QInv'
  <2>1. CASE Schedule
    BY <2>1, SchedulerRefines, QNextInv
  <2>2. CASE \E m \in Machine, j \in JobId : \E p \in SUBSET Board : AllocateRaises(m, j, p)
    BY <2>2, HalfStartedKeepsInv
  <2>3. CASE EndPass
    BY <2>3, QNextInv DEF QNext, ProcessQueue
  <2> QED BY <1>2, <2>1, <2>2, <2>3 DEF FlushSchedule, Schedule
<1> QED BY <1>1, <1>2

LEMMA RNextKeepsInv == QInv /\ [RNext]_<<vars, rvars>> => QInv'
<1> SUFFICES ASSUME QInv, [RNext]_<<vars, rvars>>
             PROVE  QInv'
  OBVIOUS
<1>0. QTypeOK
  BY DEF QInv
<1>1. CASE Running(Next)
  BY <1>0, <1>1, NextRefines, QNextInv DEF Running
<1>2. CASE StopServer \/ SaveState \/ WarmStart \/ UNCHANGED <<vars, rvars>>
  BY <1>2, QNextInv DEF StopServer, SaveState, WarmStart, vars
<1>3. ASSUME NEW c \in BmpId, StopBmp(c) \/ ThreadDies(c)
      PROVE  QInv'
  BY <1>3, QNextInv DEF StopBmp, ThreadDies
<1>4. CASE FlushSchedule \/ \E c \in BmpId : FlushThread(c)
  BY <1>4, FlushKeepsInv
<1>5. CASE Delay
  BY <1>5, LoopRefines, QNextInv
<1> QED BY <1>1, <1>2, <1>3, <1>4, <1>5 DEF RNext, Stopping

\* No board ever belongs to two jobs, through any number of stops and warm starts,
\* and whatever requests are refused and threads lost while the server stops.
THEOREM RestartKeepsBoardsExclusive == RSpec => []BoardExclusive
<1>1. RInit => QInv
  BY QInitInv DEF RInit, Init
<1>2. QInv => BoardExclusive
  BY DEF QInv
<1> QED BY <1>1, <1>2, RNextKeepsInv, PTL DEF RSpec

-----------------------------------------------------------------------------
(* A flush in which no thread is lost.                                     *)

\* The threads of machines in service that have ended had nothing left to do.
Ended ==
  \A c \in over : c \in DOMAIN bmps /\ InService(c) /\ Refuses(c) /\ bmps[c].queue = <<>>

\* How far the stopping has come.
Flushing ==
  /\ dying = {}
  /\ phase \in {"up", "stopping", "down"}
  /\ phase = "up" => Unstopped /\ over = {}
  /\ phase # "up" => target = NoConfig
  /\ phase = "down" => \A c \in DOMAIN bmps : InService(c) => c \in over
  /\ Ended

\* A step of the controller that ends no thread of a machine in service.
Ordinary == [Next]_vars /\ \A c \in BmpId : ThreadEnds(c) => ~InService(c)

\* A step of the threads or the scheduler in a flush, and what it spares.
Orderly ==
  /\ Ordinary
  /\ UNCHANGED <<target, phase, dying>>
  /\ Ended'

LEMMA SameVarsOrdinary ==
  ASSUME UNCHANGED vars
  PROVE  Ordinary
<1>1. bmps' = bmps
  BY DEF vars, cvars
<1> QED BY <1>1 DEF Ordinary, ThreadEnds

\* The threads are those there were, and those that have ended are as they were.
SparesEnded ==
  /\ over' = over
  /\ \A c \in over : /\ c \in DOMAIN bmps' /\ bmps'[c].queue = bmps[c].queue
                     /\ bmps'[c].machine = bmps[c].machine /\ bmps'[c].stop = bmps[c].stop

LEMMA SparedEnded ==
  ASSUME Ended, SparesEnded
  PROVE  Ended'
  BY DEF Ended, SparesEnded, InService, Refuses

LEMMA SameDomainOrdinary ==
  ASSUME Next, DOMAIN bmps' = DOMAIN bmps
  PROVE  Ordinary
  BY DEF Ordinary, ThreadEnds

\* Requests are added to the queues of threads that do not refuse them.
LEMMA AcceptedSpares ==
  ASSUME Ended, NEW m, NEW j, NEW B, NEW on, NEW b, b = Requested(m, j, B, on),
         NoneRefuses(BmpsOf(m, B))
  PROVE  DOMAIN b = DOMAIN bmps /\ \A c \in over : c \in DOMAIN b /\ b[c] = bmps[c]
<1>1. DOMAIN b = DOMAIN bmps
  BY DEF Requested
<1>2. ASSUME NEW c \in over
      PROVE  c \in DOMAIN b /\ b[c] = bmps[c]
  <2>1. c \in DOMAIN bmps /\ Refuses(c)
    BY DEF Ended
  <2>2. c \notin BmpsOf(m, B)
    BY <2>1 DEF NoneRefuses
  <2> QED BY <1>1, <2>1, <2>2 DEF Requested
<1> QED BY <1>1, <1>2

LEMMA ThreadIsOrderly ==
  ASSUME AInv, Ended, NEW d \in BmpId, FlushThread(d), ~lost'
  PROVE  Orderly
<1>0. d \in DOMAIN bmps \ over
  BY DEF FlushThread
<1>1. ASSUME BmpThread(d)
      PROVE  Next /\ target' = target
  BY <1>1, NotUpdating DEF Next
<1>2. ASSUME Switch(d) \/ Succeed(d) \/ Fail(d) \/ ReportProgress(d) \/ ReportReady(d)
             \/ ReportForgotten(d) \/ ReportFreed(d), UNCHANGED <<phase, over, dying>>
      PROVE  Orderly
  <2>1. /\ DOMAIN bmps' = DOMAIN bmps
        /\ \A c \in DOMAIN bmps : c # d => bmps'[c] = bmps[c]
    BY <1>2 DEF Switch, Succeed, Fail, ReportProgress, ReportReady, ReportForgotten,
       ReportFreed, Finished
  <2>2. SparesEnded
    BY <1>0, <1>2, <2>1 DEF SparesEnded, Ended
  <2>3. BmpThread(d)
    BY <1>2 DEF BmpThread
  <2> QED BY <1>1, <1>2, <2>1, <2>2, <2>3, SparedEnded, SameDomainOrdinary DEF Orderly
<1>3. ASSUME ~InService(d), ThreadEnds(d), UNCHANGED rvars
      PROVE  Orderly
  <2>1. /\ DOMAIN bmps' = DOMAIN bmps \ {d}
        /\ \A c \in DOMAIN bmps \ {d} : bmps'[c] = [bmps[c] EXCEPT !.after = @ \ {d}]
    BY <1>3 DEF ThreadEnds
  <2>2. \A c \in DOMAIN bmps : bmps[c] \in BmpType
    BY BmpRecord DEF AInv
  <2>3. SparesEnded
    BY <1>0, <1>3, <2>1, <2>2 DEF SparesEnded, Ended, BmpType, rvars
  <2>4. ASSUME NEW c \in BmpId, ThreadEnds(c)
        PROVE  c = d
    BY <2>1, <2>4 DEF ThreadEnds
  <2>5. Next /\ target' = target
    BY <1>1, <1>3 DEF BmpThread
  <2> QED BY <1>3, <2>3, <2>4, <2>5, SparedEnded DEF Orderly, Ordinary, rvars
<1>4. ASSUME ReportFailure(d), Calls(d, JobOf(d)),
             NoneRefuses(BmpsOf(cjobs[JobOf(d)].machine, cjobs[JobOf(d)].boards))
      PROVE  Orderly
  <2>0. PICK off \in BOOLEAN : off = FALSE
    OBVIOUS
  <2>1. PICK j, down : /\ j = JobOf(d)
                       /\ down = Requested(cjobs[j].machine, j, cjobs[j].boards, off)
    OBVIOUS
  <2>2. bmps' = [down EXCEPT ![d].queue = Tail(@), ![d].result = "none"]
    BY <1>4, <2>0, <2>1 DEF ReportFailure
  <2>3. NoneRefuses(BmpsOf(cjobs[j].machine, cjobs[j].boards))
    BY <1>4, <2>1
  <2>4. DOMAIN down = DOMAIN bmps /\ \A c \in over : c \in DOMAIN down /\ down[c] = bmps[c]
    BY <2>1, <2>3, AcceptedSpares
  <2>5. /\ DOMAIN bmps' = DOMAIN bmps
        /\ \A c \in over : c \in DOMAIN bmps' /\ bmps'[c] = bmps[c]
    BY <1>0, <2>2, <2>4
  <2>6. SparesEnded
    BY <1>4, <2>5 DEF SparesEnded, Calls
  <2>7. BmpThread(d)
    BY <1>4 DEF BmpThread
  <2> QED BY <1>1, <1>4, <2>5, <2>6, <2>7, SparedEnded, SameDomainOrdinary DEF Orderly, Calls
<1>5. ASSUME Ends(d)
      PROVE  Orderly
  <2>1. Ordinary
    BY <1>5, SameVarsOrdinary DEF Ends
  <2>2. Ended'
    BY <1>0, <1>5 DEF Ended, Ends, vars, cvars, InService, Refuses
  <2> QED BY <1>5, <2>1, <2>2 DEF Orderly, Ends, vars, qvars
<1>6. ~ReportFailureRaises(d)
  BY DEF ReportFailureRaises, Raises
<1> QED BY <1>2, <1>3, <1>4, <1>5, <1>6 DEF FlushThread, Calls, rvars

LEMMA ScheduleIsOrderly ==
  ASSUME Ended, FlushSchedule, ~lost'
  PROVE  Orderly
<1>1. ASSUME Schedule, DOMAIN bmps' = DOMAIN bmps, SparesEnded, UNCHANGED <<phase, dying>>
      PROVE  Orderly
  <2>1. Next /\ target' = target
    BY <1>1, NotUpdating DEF Next
  <2> QED BY <1>1, <2>1, SparedEnded, SameDomainOrdinary DEF Orderly
<1>2. ASSUME NEW m \in Machine, SkipMachine(m) \/ FindEmpty(m) \/ FindBlocked(m),
             UNCHANGED <<cvars, rvars>>
      PROVE  Orderly
  <2>1. Schedule /\ bmps' = bmps /\ UNCHANGED <<phase, over, dying>>
    BY <1>2 DEF Schedule, cvars, rvars
  <2> QED BY <1>1, <2>1 DEF SparesEnded, Ended
<1>3. ASSUME NEW m \in Machine, NEW j \in JobId, NEW p \in SUBSET Board,
             Allocate(m, j, p), NoneRefuses(BmpsOf(m, p)), UNCHANGED rvars
      PROVE  Orderly
  <2>1. Schedule
    BY <1>3 DEF Schedule
  <2>2. bmps' = Requested(m, j, p, TRUE)
    BY <1>3 DEF Allocate
  <2>3. DOMAIN bmps' = DOMAIN bmps /\ \A c \in over : c \in DOMAIN bmps' /\ bmps'[c] = bmps[c]
    <3>1. PICK b : b = Requested(m, j, p, TRUE)
      OBVIOUS
    <3> QED BY <1>3, <2>2, <3>1, AcceptedSpares
  <2>4. UNCHANGED <<phase, over, dying>>
    BY <1>3 DEF rvars
  <2>5. SparesEnded
    BY <2>3, <2>4 DEF SparesEnded
  <2> QED BY <1>1, <2>1, <2>3, <2>4, <2>5
<1>4. ASSUME EndPass, UNCHANGED <<cvars, phase, over, dying, lost>>
      PROVE  Orderly
  <2>1. Schedule /\ bmps' = bmps
    BY <1>4 DEF Schedule, cvars
  <2> QED BY <1>1, <1>4, <2>1 DEF SparesEnded, Ended
<1>5. ~\E m \in Machine, j \in JobId : \E p \in SUBSET Board : AllocateRaises(m, j, p)
  BY DEF AllocateRaises, Raises
<1> QED BY <1>2, <1>3, <1>4, <1>5 DEF FlushSchedule

-----------------------------------------------------------------------------
(* What is true of the requests, step by step.                             *)

Books == Ledger /\ Listed /\ Few /\ Promise

LEMMA OrdinaryKeepsBooks ==
  ASSUME Books, Ordinary
  PROVE  Books'
<1>1. Ledger'
  BY NextLedger DEF Books, Ordinary, InService
<1>2. Listed'
  BY NextLists DEF Books, Ledger, Ordinary
<1>3. Few' /\ Promise'
  BY <1>1, <1>2, NextOwes, PromiseKept DEF Books, Ledger, Ordinary
<1> QED BY <1>1, <1>2, <1>3 DEF Books

\* Nothing changes but the threads, which serve no job they did not serve.
LEMMA OnlyThreadsChange ==
  ASSUME Books, UNCHANGED <<qvars, cjobs, retired, sweep, changedJobs, changedMachines,
                            affected, powered>>,
         overdue' \subseteq overdue, woken' \in BOOLEAN,
         BmpTable(bmps'), Served(bmps') \subseteq Served(bmps),
         DOMAIN bmps' \subseteq DOMAIN bmps \/ target = NoConfig
  PROVE  AInv' /\ BoardsNonEmpty' /\ OfConfig' /\ Listed' /\ Few'
<1>0. /\ AInv /\ BoardsNonEmpty /\ OfConfig /\ Listed /\ Few
      /\ UNCHANGED <<machines, jobs, nextId, target>>
  BY DEF Books, Ledger, qvars
<1>1. QInv'
  BY <1>0, QNextInv DEF AInv
<1>2. Agreeing'
  BY <1>0, NothingToAgree DEF AInv, Agreeing
<1>3. RoomForNew'
  BY <1>0, RoomKept DEF RoomForNew, AInv
<1>4. ServedStarted' /\ IdsUsed'
  BY <1>0 DEF AInv, ServedStarted, IdsUsed, Pending
<1>5. AInv'
  BY <1>1, <1>2, <1>3, <1>4 DEF AInv, Agreeing
<1>6. BoardsNonEmpty' /\ OfConfig'
  BY <1>0 DEF BoardsNonEmpty, HoldsBoards, OfConfig
<1>7. Listed' /\ Few'
  BY <1>0 DEF Listed, Few
<1> QED BY <1>5, <1>6, <1>7

LEMMA StopKeepsBooks ==
  ASSUME Books, NEW c \in BmpId, StopBmp(c)
  PROVE  Books' /\ \A d \in DOMAIN bmps : d # c => bmps'[d] = bmps[d]
<1>0. AInv /\ Counted /\ ThreadsPlaced /\ FramesServed /\ RequestsPlaced /\ OwnerHasLastWord
      /\ ReadyCounted /\ Promise
  BY DEF Books, Ledger
<1>1. /\ DOMAIN bmps' = DOMAIN bmps /\ c \in DOMAIN bmps
      /\ UNCHANGED <<qvars, cjobs, count, retired, overdue, sweep, changedJobs,
                     changedMachines, affected, powered, woken>>
      /\ bmps' = [bmps EXCEPT ![c].stop = "told"]
  BY DEF StopBmp
<1>2. \A d \in DOMAIN bmps : bmps[d] \in BmpType
  BY <1>0, BmpRecord DEF AInv
<1>3. \A d \in DOMAIN bmps :
        /\ bmps'[d] \in BmpType
        /\ bmps'[d].machine = bmps[d].machine /\ bmps'[d].queue = bmps[d].queue
        /\ bmps'[d].result = bmps[d].result /\ bmps'[d].after = bmps[d].after
        /\ d # c => bmps'[d] = bmps[d]
  BY <1>1, <1>2 DEF BmpType
<1>4. BmpTable(bmps') /\ Served(bmps') \subseteq Served(bmps)
  <2>1. bmps' = [d \in DOMAIN bmps' |-> bmps'[d]] /\ DOMAIN bmps' \subseteq BmpId
    BY <1>0, <1>1 DEF AInv, BmpTable
  <2>2. \A d \in DOMAIN bmps' : bmps'[d].result # "none" => bmps'[d].queue # <<>>
    BY <1>0, <1>1, <1>3 DEF AInv, BmpTable
  <2>3. \A d \in DOMAIN bmps' :
          /\ bmps'[d] \in BmpType
          /\ bmps'[d].result # "none" => bmps'[d].queue # <<>>
          /\ bmps'[d].queue = <<>> \/ (d \in DOMAIN bmps /\ bmps'[d].queue = bmps[d].queue)
    BY <1>1, <1>3, <2>2
  <2>4. BmpTable(bmps)
    BY <1>0 DEF AInv
  <2> QED BY <2>1, <2>3, <2>4, RelabelledTable
<1>5. AInv' /\ BoardsNonEmpty' /\ OfConfig' /\ Listed' /\ Few'
  <2>1. woken' \in BOOLEAN
    BY <1>1 DEF Books, Listed
  <2> QED BY <1>1, <1>4, <2>1, OnlyThreadsChange
<1>6. Counted'
  BY <1>0, <1>1, <1>3, RelabelledCount DEF Counted
<1>7. ThreadsPlaced' /\ FramesServed'
  <2>1. machines' = machines
    BY <1>1 DEF qvars
  <2>2. /\ DOMAIN bmps' = DOMAIN bmps
        /\ \A d \in DOMAIN bmps :
              /\ bmps'[d].machine = bmps[d].machine /\ bmps'[d].queue = bmps[d].queue
              /\ bmps'[d].result = bmps[d].result /\ bmps'[d].after = bmps[d].after
    BY <1>1, <1>3
  <2>3. Serving(bmps)'
    BY <1>0, <2>1, <2>2 DEF ThreadsPlaced, Serving
  <2>4. FramesServed'
    BY <1>0, <2>1, <2>2 DEF FramesServed
  <2>5. InFrame(bmps)' /\ WorksAlone'
    BY <1>0, <2>2 DEF ThreadsPlaced, InFrame, WorksAlone
  <2> QED BY <2>3, <2>4, <2>5 DEF ThreadsPlaced
<1>8. RequestsPlaced' /\ OwnerHasLastWord' /\ ReadyCounted'
  BY <1>0, <1>1, <1>3 DEF RequestsPlaced, OwnerHasLastWord, ReadyCounted, qvars
<1>9. Promise'
  BY <1>0, <1>1 DEF Promise, ReleasedWillBeFreed, IsRetired, qvars
<1> QED BY <1>3, <1>5, <1>6, <1>7, <1>8, <1>9 DEF Books, Ledger

\* A server that starts has new threads; those it saved had done all that was asked
\* for any job there still is.
LEMMA NothingLeft ==
  ASSUME Books, Flushing, phase = "down", NEW j \in DOMAIN jobs, j \in JobId
  PROVE  count[j] = 0
<1>0. AInv /\ Counted /\ RequestsPlaced
  BY DEF Books, Ledger
<1>1. ASSUME NEW x \in OutstandingIn(bmps, j)
      PROVE  FALSE
  <2>1. PICK c \in DOMAIN bmps : \E i \in 1 .. Len(bmps[c].queue) : bmps[c].queue[i].job = j
    BY OutstandingMeans
  <2>2. j \in Served(bmps)
    BY <2>1, ServedMeans
  <2>3. HoldsBoards(j)
    BY <1>0, <2>2 DEF AInv, ServedStarted, Pending, HoldsBoards
  <2>4. jobs[j].machine \in DOMAIN machines
    BY <1>0, <2>3 DEF AInv, QInv, JobsPlaced
  <2>5. jobs[j].machine # NoMachine
    BY <1>0, <2>4, MachineAssumption DEF AInv, QInv, QTypeOK
  <2>6. InService(c)
    BY <1>0, <2>1, <2>5 DEF RequestsPlaced, InService
  <2>7. bmps[c].queue = <<>>
    BY <2>6 DEF Flushing, Ended
  <2> QED BY <2>1, <2>7
<1>2. OutstandingIn(bmps, j) = {}
  BY <1>1
<1> QED BY <1>0, <1>2, FS_EmptySet DEF Counted, HasRequests

LEMMA WarmStartKeepsBooks ==
  ASSUME Books, Flushing, WarmStart
  PROVE  Books' /\ Unstopped' /\ FreshIn(bmps')
<1>0. /\ AInv /\ Counted /\ OfConfig /\ ReadyCounted /\ Promise
      /\ CJobsTyped /\ JobsAgree /\ QTypeOK
  BY DEF Books, Ledger, AInv, QInv
<1>1. /\ phase = "down" /\ target = NoConfig
      /\ bmps' = NewThreads /\ overdue' = {} /\ woken' = FALSE
      /\ count' = [j \in JobId |-> IF j \in DOMAIN cjobs THEN count[j] ELSE 0]
      /\ UNCHANGED <<qvars, cjobs, retired, sweep, changedJobs, changedMachines,
                     affected, powered>>
  BY DEF WarmStart, Flushing
<1>2. BmpTable(bmps') /\ \A c \in DOMAIN bmps' : bmps'[c].queue = <<>>
  BY <1>0, <1>1, NewThreadsTable
<1>3. FreshIn(bmps')
  BY <1>0, <1>1, NewThreadsFresh
<1>4. AInv' /\ BoardsNonEmpty' /\ OfConfig' /\ Listed' /\ Few'
  <2>1. Served(bmps') = {}
    BY <1>2, IdleServesNobody
  <2> QED BY <1>1, <1>2, <2>1, OnlyThreadsChange
<1>5. \A j \in DOMAIN jobs : j \in JobId /\ count[j] = 0
  BY <1>0, <1>1, NothingLeft DEF QTypeOK
<1>6. Counted' /\ \A j \in JobId : count'[j] = 0
  <2>1. \A j \in DOMAIN cjobs : j \in DOMAIN jobs
    BY <1>0 DEF JobsAgree
  <2>2. count' = [j \in JobId |-> 0]
    BY <1>1, <1>5, <2>1
  <2>3. \A j \in JobId : HasRequests(bmps', j, 0)
    BY <1>2, IdleHasNoRequests
  <2> QED BY <2>2, <2>3 DEF Counted
<1>7. \A c \in DOMAIN bmps' :
        /\ bmps'[c].result = "none" /\ bmps'[c].after = {}
        /\ bmps'[c].stop = "no" /\ bmps'[c].machine \in DOMAIN machines'
        /\ c[1] \in FramesOf(machines'[bmps'[c].machine].boards)
  BY <1>1, <1>3 DEF FreshIn, NewBmp, qvars
<1>8. ThreadsPlaced' /\ Unstopped' /\ FramesServed'
  BY <1>1, <1>2, <1>3, <1>7
     DEF ThreadsPlaced, Serving, InFrame, WorksAlone, Unstopped, FreshIn, FramesServed, qvars
<1>9. RequestsPlaced' /\ OwnerHasLastWord'
  BY <1>2 DEF RequestsPlaced, OwnerHasLastWord
<1>10. ReadyCounted'
  BY <1>0, <1>1, <1>6 DEF ReadyCounted, CJobsTyped
<1>11. Promise'
  BY <1>0, <1>1, <1>5 DEF Promise, ReleasedWillBeFreed, qvars
<1> QED BY <1>3, <1>4, <1>6, <1>8, <1>9, <1>10, <1>11 DEF Books, Ledger

\* A thread that is lost stays lost.
LEMMA LostForGood ==
  ASSUME [RNext]_<<vars, rvars>>, ~lost'
  PROVE  ~lost
<1>1. CASE UNCHANGED rvars \/ StopServer \/ SaveState \/ WarmStart
  BY <1>1 DEF rvars, StopServer, SaveState, WarmStart
<1>2. ASSUME NEW c \in BmpId, StopBmp(c) \/ ThreadDies(c)
      PROVE  ~lost
  BY <1>2 DEF StopBmp, ThreadDies, rvars
<1>3. ASSUME NEW c \in BmpId, FlushThread(c)
      PROVE  ~lost
  <2>1. ~ReportFailureRaises(c)
    BY DEF ReportFailureRaises, Raises
  <2> QED BY <1>3, <2>1 DEF FlushThread, rvars, Calls, Ends
<1>4. ASSUME FlushSchedule
      PROVE  ~lost
  <2>1. ~\E m \in Machine, j \in JobId : \E p \in SUBSET Board : AllocateRaises(m, j, p)
    BY DEF AllocateRaises, Raises
  <2> QED BY <1>4, <2>1 DEF FlushSchedule, rvars
<1> QED BY <1>1, <1>2, <1>3, <1>4 DEF RNext, Running, Stopping, rvars

\* No thread is lost, no step is half done.
LEMMA FlushSteps ==
  ASSUME AInv, Flushing, [RNext]_<<vars, rvars>>, ~lost'
  PROVE  \/ Running(Next)
         \/ Orderly /\ phase # "up"
         \/ UNCHANGED <<vars, rvars>>
         \/ StopServer
         \/ \E c \in BmpId : StopBmp(c)
         \/ SaveState
         \/ WarmStart
<1>0. Ended /\ dying = {}
  BY DEF Flushing
<1>1. ASSUME NEW c \in BmpId, FlushThread(c)
      PROVE  Orderly /\ phase # "up"
  BY <1>0, <1>1, ThreadIsOrderly DEF FlushThread
<1>2. ASSUME FlushSchedule
      PROVE  Orderly /\ phase # "up"
  BY <1>0, <1>2, ScheduleIsOrderly DEF FlushSchedule
<1>3. ASSUME Delay, UNCHANGED rvars
      PROVE  Orderly
  <2>1. bmps' = bmps /\ Next /\ target' = target
    BY <1>3, NotUpdating DEF Delay, cvars, Next
  <2>2. SparesEnded
    BY <1>0, <1>3, <2>1 DEF SparesEnded, Ended, rvars
  <2> QED BY <1>0, <1>3, <2>1, <2>2, SparedEnded, SameDomainOrdinary DEF Orderly, rvars
<1>4. ASSUME NEW c \in BmpId
      PROVE  ~ThreadDies(c)
  BY <1>0 DEF ThreadDies
<1> QED BY <1>1, <1>2, <1>3, <1>4 DEF RNext, Stopping

LEMMA KeepsFlushing ==
  ASSUME Books, Books', Flushing, [RNext]_<<vars, rvars>>, ~lost'
  PROVE  Flushing'
<1>0. AInv /\ AInv' /\ BoardsNonEmpty /\ Ended
  BY DEF Books, Ledger, Flushing
<1>1. CASE Running(Next)
  <2>1. phase = "up" /\ Next /\ UNCHANGED rvars /\ Unstopped /\ over = {} /\ dying = {}
    BY <1>1 DEF Running, Flushing
  <2>2. Unstopped'
    BY <1>0, <2>1, StepCases, StaysUnstopped
  <2> QED BY <2>1, <2>2 DEF rvars, Flushing, Ended
<1>2. CASE Orderly /\ phase # "up"
  <2>1. CASE phase = "down"
    <3>1. bmps' = bmps /\ over' = over
      BY <1>2, <2>1
         DEF RNext, Running, Stopping, StopServer, StopBmp, FlushThread, ThreadDies, FlushSchedule,
             Delay, SaveState, WarmStart, Orderly, cvars, rvars, vars
    <3> QED BY <1>2, <2>1, <3>1 DEF Orderly, Flushing, Ended, InService, Refuses
  <2> QED BY <1>2, <2>1 DEF Orderly, Flushing
<1>3. CASE UNCHANGED <<vars, rvars>>
  BY <1>3 DEF vars, qvars, cvars, rvars, Flushing, Ended, InService, Refuses, Unstopped
<1>4. CASE StopServer
  BY <1>4 DEF StopServer, Unlocked, LockFree, vars, qvars, cvars, Flushing, Ended, InService,
              Refuses
<1>5. ASSUME NEW c \in BmpId, StopBmp(c)
      PROVE  Flushing'
  <2>1. c \notin over
    BY <1>0, <1>5 DEF Ended, Refuses, StopBmp
  <2>2. Ended'
    BY <1>0, <1>5, <2>1, StopKeepsBooks DEF Ended, InService, Refuses, StopBmp, rvars
  <2> QED BY <1>5, <2>2 DEF StopBmp, rvars, qvars, Flushing
<1>6. CASE SaveState
  BY <1>6 DEF SaveState, vars, qvars, cvars, Flushing, Ended, InService, Refuses
<1>7. CASE WarmStart
  BY <1>7, WarmStartKeepsBooks DEF WarmStart, Flushing, Ended
<1> QED BY <1>0, <1>1, <1>2, <1>3, <1>4, <1>5, <1>6, <1>7, FlushSteps

LEMMA KeepsBooks ==
  ASSUME Books, Flushing, [RNext]_<<vars, rvars>>, ~lost'
  PROVE  Books'
<1>0. AInv
  BY DEF Books, Ledger
<1>1. CASE Running(Next)
  <2>1. Next /\ Unstopped
    BY <1>1 DEF Running, Flushing
  <2>2. Ordinary
    BY <2>1 DEF Ordinary, ThreadEnds, Unstopped, InService
  <2> QED BY <2>2, OrdinaryKeepsBooks
<1>2. CASE Orderly
  BY <1>2, OrdinaryKeepsBooks DEF Orderly
<1>3. CASE UNCHANGED <<vars, rvars>> \/ StopServer \/ SaveState
  BY <1>3, SameVarsOrdinary, OrdinaryKeepsBooks DEF StopServer, SaveState
<1>4. CASE \E c \in BmpId : StopBmp(c)
  BY <1>4, StopKeepsBooks
<1>5. CASE WarmStart
  BY <1>5, WarmStartKeepsBooks
<1> QED BY <1>0, <1>1, <1>2, <1>3, <1>4, <1>5, FlushSteps

\* The inductive invariant: as long as no thread is lost, the books are straight.
FInv == lost \/ (Books /\ Flushing)

LEMMA InitFInv == RInit => FInv
<1> SUFFICES ASSUME RInit
             PROVE  Books /\ Flushing
  BY DEF FInv
<1>1. Ledger /\ Unstopped /\ Listed /\ Few /\ Promise
  BY InitCInv, InitListed, InitPromise DEF RInit, CInv
<1> QED BY <1>1 DEF RInit, Books, Flushing, Ended

LEMMA NextFInv == FInv /\ [RNext]_<<vars, rvars>> => FInv'
<1> SUFFICES ASSUME FInv, [RNext]_<<vars, rvars>>, ~lost'
             PROVE  Books' /\ Flushing'
  BY DEF FInv
<1>1. ~lost
  BY LostForGood
<1>2. Books /\ Flushing
  BY <1>1 DEF FInv
<1> QED BY <1>2, KeepsBooks, KeepsFlushing

LEMMA FInvHolds == RSpec => []FInv
<1> QED BY InitFInv, NextFInv, PTL DEF RSpec

\* "Completing any outstanding board power-management commands and saving its state
\* to disk": unless an exception ends a thread on the way, all of them are done, and
\* the server that starts again has nothing to wait for.  That a destroyed job is
\* still known to be retired needs, as in a server that never stops, that there have
\* not been more jobs than _retired_jobs remembers.
THEOREM NothingIsLost == RSpec => [](nextId <= MaxRetired + 1 => FlushLosesNothing)
<1>1. ASSUME NEW j
      PROVE  Outstanding(j) = OutstandingIn(bmps, j)
  BY DEF Outstanding, OutstandingIn
<1>2. FInv => (nextId <= MaxRetired + 1 => FlushLosesNothing)
  <2> SUFFICES ASSUME FInv, nextId <= MaxRetired + 1, ~lost
               PROVE  /\ JobsAgree /\ CountsRequests /\ ReleasedWillBeFreed
                      /\ phase = "down" => \A c \in over : bmps[c].queue = <<>>
    BY DEF FlushLosesNothing
  <2>1. Books /\ Flushing
    BY DEF FInv
  <2>2. JobsAgree /\ ReleasedWillBeFreed
    BY <2>1 DEF Books, Ledger, AInv, Promise
  <2>3. CountsRequests
    BY <1>1, <2>1 DEF Books, Ledger, Counted, HasRequests, CountsRequests
  <2> QED BY <2>1, <2>2, <2>3 DEF Flushing, Ended
<1> QED BY <1>2, FInvHolds, PTL

\* Nor, as long as no thread is lost, does a server that was started again overlook
\* what an earlier owner of a board has left in its BMP's queue, or the flush itself.
THEOREM RestartKeepsLastWord == RSpec => [](~lost => OwnerHasLastWord)
<1>1. FInv => (~lost => OwnerHasLastWord)
  BY DEF FInv, Books, Ledger
<1> QED BY <1>1, FInvHolds, PTL

-----------------------------------------------------------------------------
(* Powered as asked, through any number of flushes in which no thread is   *)
(* lost.                                                                   *)

\* A thread is due to be stopped only in an update of the machines.
NoneDue ==
  target = NoConfig => leaving = <<>> /\ \A c \in DOMAIN bmps : bmps[c].stop # "due"

LEMMA NextNoneDue ==
  ASSUME AInv, AInv', BoardsNonEmpty, NoneDue, [Next]_vars
  PROVE  NoneDue'
<1>1. ASSUME SameThreads(bmps, bmps'), target' = target, leaving' = leaving
      PROVE  NoneDue'
  BY <1>1 DEF NoneDue, SameThreads
<1>2. CASE UNCHANGED vars
  BY <1>2 DEF NoneDue, vars, qvars, cvars
<1>3. ASSUME NEW c \in Config, BeginUpdate(c)
      PROVE  NoneDue'
  BY <1>3, ConfigAssumption DEF BeginUpdate, StartUpdate, NoneDue
<1>4. ASSUME NEW j \in JobId, UpdateRemovesJob(j)
      PROVE  NoneDue'
  <2>1. bmps' = Requested(cjobs[j].machine, j, cjobs[j].boards, FALSE)
        /\ target' = target /\ leaving' = leaving
    BY <1>4 DEF UpdateRemovesJob, PowerDown, RemoveJob
  <2>2. \A c \in DOMAIN bmps : bmps[c] \in BmpType
    BY BmpRecord DEF AInv
  <2>3. SameThreads(bmps, bmps')
    BY <2>1, <2>2 DEF SameThreads, Requested, BmpType
  <2> QED BY <1>1, <2>1, <2>3
<1>5. ASSUME NEW j \in JobId, UpdateFails(j)
      PROVE  NoneDue'
  BY <1>5, UpdateFailsLoosens DEF UpdateFails, RemoveReleasedJob, NoneDue
<1>6. ASSUME NEW m \in Machine, UpdateRemovesMachine(m)
      PROVE  NoneDue'
  BY <1>6 DEF UpdateRemovesMachine, RemoveMachine, NoneDue
<1>7. CASE UpdateEnds
  <2>1. leaving' = <<>>
    BY <1>7 DEF UpdateEnds, FinishUpdate
  <2>2. \A c \in DOMAIN bmps' : bmps'[c].stop # "due"
    BY <1>7, UpdateEndsBmps DEF OldBmps, NewBmps, NewBmp
  <2> QED BY <2>1, <2>2 DEF NoneDue
<1>8. CASE Users \/ Power \/ ServerLoop \/ Delay \/ Schedule \/ Regenerate
           \/ \E c \in BmpId : BmpThread(c)
  <2>1. target' = target /\ leaving' = leaving
    BY <1>8, NotUpdating
  <2>2. CASE CalmStep
    BY <1>1, <2>1, <2>2, CalmThreads
  <2>3. CASE \E c \in BmpId : ThreadEnds(c)
    BY <2>1, <2>3, ThreadEndsLoosens DEF NoneDue, Loosened
  <2> QED BY <1>5, <1>6, <1>7, <2>2, <2>3, StepCases DEF ThreadsChange, Next
<1> QED BY <1>2, <1>3, <1>4, <1>5, <1>6, <1>7, <1>8 DEF Next, Update

Orders == OInv /\ PInv /\ NoneDue

\* What keeps the order of the threads when the controller goes about its business.
LEMMA OrdinaryKeepsOrders ==
  ASSUME AllFramesUsed, Books, Books', Orders, Ordinary, fault' # "KeyError",
         Unstopped \/ target = NoConfig
  PROVE  Orders'
<1>0. /\ AInv /\ AInv' /\ BoardsNonEmpty /\ ThreadsPlaced /\ FramesServed' /\ Ledger
      /\ OInv /\ PInv /\ NoneDue /\ [Next]_vars
  BY DEF Books, Ledger, Orders, Ordinary
<1>1. CalmStep \/ ThreadsChange
  BY <1>0, StepCases
<1>2. ~\E j \in JobId : UpdateFails(j)
  BY DEF UpdateFails, RemoveReleasedJob
<1>3. \A c \in BmpId : ThreadEnds(c) => bmps[c].machine = NoMachine
  BY DEF Ordinary, InService
<1>4. OInv'
  <2>1. target = NoConfig => ~\E m \in Machine : UpdateRemovesMachine(m)
    BY <1>0 DEF NoneDue, UpdateRemovesMachine, RemoveMachine
  <2> QED BY <1>0, <1>1, <1>2, <1>3, <2>1, CalmOInv, ThreadEndsOInv, RemovesOInv,
             UpdateEndsOInv DEF ThreadsChange
<1>5. OneMasterPerFrame
  BY <1>0, RanksKeepOrder
<1>6. AsAskedIn(bmps', cjobs', powered') /\ DoneIn(bmps', powered')
  BY <1>0, <1>1, <1>5, CalmPower, ThreadsPower
<1>7. PInv'
  BY <1>6 DEF PInv, ResultDone, PowerAsAsked, AsAskedIn, DoneIn
<1> QED BY <1>0, <1>4, <1>7, NextNoneDue DEF Orders

LEMMA StopKeepsOrders ==
  ASSUME Books, Orders, NEW c \in BmpId, StopBmp(c)
  PROVE  Orders'
<1>1. /\ DOMAIN bmps' = DOMAIN bmps /\ c \in DOMAIN bmps /\ InService(c)
      /\ bmps' = [bmps EXCEPT ![c].stop = "told"]
      /\ UNCHANGED <<qvars, cjobs, powered>>
  BY DEF StopBmp
<1>2. \A d \in DOMAIN bmps : bmps[d] \in BmpType
  BY BmpRecord DEF Books, Ledger, AInv
<1>3. \A d \in DOMAIN bmps :
        /\ bmps'[d].machine = bmps[d].machine /\ bmps'[d].queue = bmps[d].queue
        /\ bmps'[d].result = bmps[d].result /\ bmps'[d].after = bmps[d].after
        /\ bmps'[d].stop = IF d = c THEN "told" ELSE bmps[d].stop
  BY <1>1, <1>2 DEF BmpType
<1>4. Covered'
  BY <1>1, <1>3 DEF Orders, OInv, Covered, InService
<1>5. Chain'
  <2>1. PICK n \in Nat : \E r \in [BmpId -> 0 .. n] : RankedIn(bmps, r)
    BY DEF Orders, OInv, Chain
  <2>2. PICK r \in [BmpId -> 0 .. n] : RankedIn(bmps, r)
    BY <2>1
  <2>3. RankedIn(bmps', r)
    BY <1>1, <1>3, <2>2 DEF RankedIn
  <2> QED BY <2>3 DEF Chain
<1>6. PInv'
  BY <1>1, <1>3 DEF Orders, PInv, ResultDone, DoneIn, PowerAsAsked, AsAskedIn
<1>7. NoneDue'
  BY <1>1, <1>3 DEF Orders, NoneDue, qvars
<1> QED BY <1>4, <1>5, <1>6, <1>7 DEF Orders, OInv

LEMMA WarmStartKeepsOrders ==
  ASSUME AllFramesUsed, Books, Flushing, Orders, WarmStart
  PROVE  Orders'
<1>0. /\ AInv /\ AInv' /\ QTypeOK /\ ThreadsPlaced /\ FramesServed /\ JobsPlaced /\ JobsAgree
      /\ OInv /\ PInv /\ NoneDue /\ FreshIn(bmps')
      /\ \A m \in DOMAIN machines : m # NoMachine
  BY WarmStartKeepsBooks, MachineAssumption DEF Books, Ledger, AInv, QInv, QTypeOK, Orders
<1>1. /\ phase = "down" /\ target = NoConfig
      /\ UNCHANGED <<machines, target, leaving, cjobs, powered>>
  BY DEF WarmStart, Flushing, qvars
<1>2. \A c \in DOMAIN bmps' :
        /\ bmps'[c].result = "none" /\ bmps'[c].after = {} /\ bmps'[c].stop = "no"
        /\ bmps'[c].machine \in DOMAIN machines
        /\ \A d \in DOMAIN bmps' : c[1] = d[1] => c = d
  BY <1>0, <1>1 DEF FreshIn, NewBmp
<1>3. Covered'
  <2>1. ASSUME NEW f \in Frame
        PROVE  \E d \in DOMAIN bmps' : d[1] = f /\ bmps'[d].machine # NoMachine
    <3>1. PICK c \in DOMAIN bmps : c[1] = f /\ bmps[c].machine # NoMachine
      BY <1>0, <1>1 DEF OInv, Covered, NoneDue
    <3>2. bmps[c].machine \in DOMAIN machines /\ f \in FramesOf(machines[bmps[c].machine].boards)
      BY <1>0, <3>1 DEF ThreadsPlaced, Serving
    <3>3. PICK d \in DOMAIN bmps' : d[1] = f /\ bmps'[d].machine = bmps[c].machine
      BY <1>0, <1>1, <3>2 DEF FreshIn
    <3> QED BY <3>1, <3>3
  <2> QED BY <2>1 DEF Covered
<1>4. Chain'
  <2>1. PICK r \in [BmpId -> 0 .. 0] : r = [c \in BmpId |-> 0]
    <3>1. 0 \in 0 .. 0
      OBVIOUS
    <3> QED BY <3>1
  <2>2. DOMAIN bmps' \subseteq BmpId
    BY <1>0 DEF AInv, BmpTable
  <2>3. \A c, d \in DOMAIN bmps' : c[1] = d[1] => c = d /\ r[c] = 0 /\ r[d] = 0
    BY <1>2, <2>1, <2>2
  <2>4. RankedIn(bmps', r)
    BY <2>3 DEF RankedIn
  <2> QED BY <2>4 DEF Chain
<1>5. AsAskedIn(bmps', cjobs', powered')
  <2> SUFFICES ASSUME NEW j \in DOMAIN cjobs, NEW c \in DOMAIN bmps',
                      cjobs[j].state # "queued", bmps'[c].machine = cjobs[j].machine,
                      NEW x \in cjobs[j].boards, FrameOf[x] = c[1]
               PROVE  bmps'[c].after = {} /\ (x \in powered <=> cjobs[j].power = "on")
    BY <1>1 DEF AsAskedIn
  <2>1. /\ cjobs[j].machine \in DOMAIN machines
        /\ x \in machines[cjobs[j].machine].boards
    BY <1>0 DEF JobsAgree, JobsPlaced, HoldsBoards
  <2>2. PICK d \in DOMAIN bmps : d[1] = FrameOf[x] /\ bmps[d].machine = cjobs[j].machine
    BY <1>0, <2>1 DEF FramesServed, FramesOf
  <2>3. bmps[d].queue = <<>>
    BY <1>0, <1>1, <2>1, <2>2 DEF Flushing, Ended, InService
  <2>4. \A i \in 1 .. Len(bmps[d].queue) : x \notin bmps[d].queue[i].boards
    BY <2>3
  <2>5. x \in powered <=> cjobs[j].power = "on"
    BY <1>0, <2>2, <2>4 DEF PInv, PowerAsAsked, AsAskedIn
  <2> QED BY <1>2, <2>5
<1>6. PInv'
  BY <1>2, <1>5 DEF PInv, PowerAsAsked, AsAskedIn, ResultDone, DoneIn
<1>7. NoneDue'
  BY <1>0, <1>1, <1>2 DEF NoneDue
<1> QED BY <1>3, <1>4, <1>6, <1>7 DEF Orders, OInv

LEMMA KeepsOrders ==
  ASSUME AllFramesUsed, Books, Books', Flushing, Orders, [RNext]_<<vars, rvars>>, ~lost',
         fault' # "KeyError"
  PROVE  Orders'
<1>0. AInv
  BY DEF Books, Ledger
<1>1. CASE Running(Next)
  <2>1. Next /\ Unstopped
    BY <1>1 DEF Running, Flushing
  <2>2. Ordinary
    BY <2>1 DEF Ordinary, ThreadEnds, Unstopped, InService
  <2> QED BY <2>1, <2>2, OrdinaryKeepsOrders
<1>2. CASE Orderly /\ phase # "up"
  BY <1>2, OrdinaryKeepsOrders DEF Orderly, Flushing
<1>3. CASE UNCHANGED <<vars, rvars>> \/ StopServer \/ SaveState
  <2>1. UNCHANGED vars
    BY <1>3 DEF StopServer, SaveState
  <2>2. Unstopped \/ target = NoConfig
    BY DEF Flushing
  <2> QED BY <2>1, <2>2, SameVarsOrdinary, OrdinaryKeepsOrders
<1>4. CASE \E c \in BmpId : StopBmp(c)
  BY <1>4, StopKeepsOrders
<1>5. CASE WarmStart
  BY <1>5, WarmStartKeepsOrders
<1> QED BY <1>0, <1>1, <1>2, <1>3, <1>4, <1>5, FlushSteps

LEMMA InitOrders ==
  ASSUME AllFramesUsed, RInit
  PROVE  Orders
<1>1. DOMAIN cjobs = {} /\ FreshIn(bmps) /\ leaving = <<>>
  BY InitFresh DEF RInit, Init, QInit
<1>2. PInv /\ NoneDue
  BY <1>1 DEF PInv, ResultDone, DoneIn, PowerAsAsked, AsAskedIn, NoneDue, FreshIn, NewBmp
<1> QED BY <1>2, InitOInv DEF RInit, Orders

\* As long as no thread is lost, a server may be stopped and started again at any
\* time, and calls no job ready whose boards are not as asked; if every configuration
\* has a machine in every frame and no update is abandoned.
THEOREM RestartedIsSafe ==
  ASSUME AllFramesUsed
  PROVE  RSpec /\ [](fault # "KeyError") => [](~lost => RestartIsSafe)
<1>1. RInit => (lost \/ Orders)
  BY InitOrders
<1>2. /\ FInv /\ FInv' /\ (fault # "KeyError")' /\ [RNext]_<<vars, rvars>>
      /\ lost \/ Orders
      => (lost \/ Orders)'
  <2> SUFFICES ASSUME FInv, FInv', (fault # "KeyError")', [RNext]_<<vars, rvars>>,
                      lost \/ Orders, ~lost'
               PROVE  Orders'
    OBVIOUS
  <2>1. ~lost
    BY LostForGood
  <2> QED BY <2>1, KeepsOrders DEF FInv
<1>3. FInv /\ (lost \/ Orders) => (~lost => RestartIsSafe)
  <2> SUFFICES ASSUME Books, Orders
               PROVE  RestartIsSafe
    BY DEF FInv
  <2> QED BY AllDoneAsAsked DEF Books, Orders, Ledger, AInv, QInv, RestartIsSafe
<1> QED BY <1>1, <1>2, <1>3, FInvHolds, PTL DEF RSpec

=============================================================================
