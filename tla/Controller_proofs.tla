------------------------- MODULE Controller_proofs --------------------------
(***************************************************************************)
(* The controller and its JobQueue.  The controller only ever changes its  *)
(* JobQueue by the operations of the JobQueue: every step of Controller is *)
(* a step of JobQueue, or leaves it alone.  So what is proved of the       *)
(* scheduler holds of the whole server.  And the two, which keep a record  *)
(* of the jobs each, changed by calls one way and callbacks the other,     *)
(* always mean the same jobs, with the same state, machine and boards.     *)
(***************************************************************************)
EXTENDS Controller, JobQueue_proofs

-----------------------------------------------------------------------------
(* Every step of the controller is one of its JobQueue.                    *)

LEMMA UsersRefine == Users \/ Power => [QNext]_qvars
<1>1. ASSUME NEW r \in Request, Create(r) \/ CreateRejected(r)
      PROVE  QNext
  BY <1>1 DEF Create, CreateRejected, QNext
<1>2. ASSUME NEW j \in JobId, Destroy(j)
      PROVE  QNext
  BY <1>2 DEF Destroy, DestroyQueued, DestroyRunning, QNext
<1>3. ASSUME NEW j \in JobId, Keepalive(j) \/ Lapse(j)
      PROVE  UNCHANGED qvars
  BY <1>3 DEF Keepalive, Lapse
<1>4. ASSUME NEW j \in JobId, NEW on \in BOOLEAN, SetPower(j, on)
      PROVE  UNCHANGED qvars
  BY <1>4 DEF SetPower
<1> QED BY <1>1, <1>2, <1>3, <1>4 DEF Users, Power

LEMMA LoopRefines == ServerLoop \/ Delay => [QNext]_qvars
<1>1. ASSUME StartSweep \/ EndSweep \/ ReadChanges
      PROVE  UNCHANGED qvars
  BY <1>1 DEF StartSweep, EndSweep, ReadChanges
<1>2. ASSUME NEW j \in JobId, SweepJob(j)
      PROVE  QNext
  BY <1>2 DEF SweepJob, DestroyQueued, DestroyRunning, QNext
<1>3. ASSUME CollectFreed \/ Delay
      PROVE  QNext
  BY <1>3 DEF CollectFreed, Delay, QNext
<1> QED BY <1>1, <1>2, <1>3 DEF ServerLoop

LEMMA SchedulerRefines == Schedule \/ Regenerate => [QNext]_qvars
<1>1. ASSUME Schedule
      PROVE  ProcessQueue
  BY <1>1 DEF Schedule, Allocate, ProcessQueue
<1>2. ASSUME Regenerate
      PROVE  RegenerateQueues
  BY <1>2 DEF Regenerate, CancelUnsuitable, EndUpdate, RegenerateQueues
<1> QED BY <1>1, <1>2 DEF QNext

LEMMA UpdateRefines == Update => [QNext]_qvars
<1>1. ASSUME Update
      PROVE  UpdateMachines
  BY <1>1 DEF Update, BeginUpdate, UpdateRemovesJob, UpdateFails,
     UpdateRemovesMachine, UpdateEnds, UpdateMachines
<1> QED BY <1>1 DEF QNext

\* Of the reports of the BMP threads, those of a failure and of the last request
\* of a destroyed job reach the scheduler.
LEMMA BmpRefines ==
  ASSUME QTypeOK, NEW c \in BmpId, BmpThread(c)
  PROVE  [QNext]_qvars
<1>1. ASSUME Switch(c) \/ Succeed(c) \/ Fail(c) \/ ThreadEnds(c)
      PROVE  UNCHANGED qvars
  BY <1>1 DEF Switch, Succeed, Fail, ThreadEnds
<1>2. ASSUME ReportProgress(c) \/ ReportReady(c) \/ ReportForgotten(c)
      PROVE  UNCHANGED qvars
  BY <1>2 DEF ReportProgress, ReportReady, ReportForgotten
<1>3. ASSUME ReportFailure(c)
      PROVE  QNext
  <2>1. ReleaseJob(JobOf(c))
    BY <1>3 DEF ReportFailure
  <2>2. JobOf(c) \in JobId
    BY <2>1 DEF ReleaseJob, QTypeOK
  <2> QED BY <2>1, <2>2 DEF QNext
<1>4. ASSUME ReportFreed(c)
      PROVE  QNext
  <2>1. Free(JobOf(c))
    BY <1>4 DEF ReportFreed
  <2>2. JobOf(c) \in JobId
    BY <2>1 DEF Free, QTypeOK
  <2> QED BY <2>1, <2>2 DEF QNext
<1> QED BY <1>1, <1>2, <1>3, <1>4 DEF BmpThread

LEMMA NextRefines == QTypeOK /\ [Next]_vars => [QNext]_qvars
<1> SUFFICES ASSUME QTypeOK, [Next]_vars
             PROVE  [QNext]_qvars
  OBVIOUS
<1>1. CASE Next
  BY <1>1, UsersRefine, LoopRefines, SchedulerRefines, UpdateRefines, BmpRefines DEF Next
<1>2. CASE UNCHANGED vars
  BY <1>2 DEF vars
<1> QED BY <1>1, <1>2

\* The callbacks, the BMP threads and the keepalive timeouts of the controller do
\* to the JobQueue only what its methods do, each with the lock held.
THEOREM ControllerUsesJobQueue == Spec => QSpec
<1>1. Init => QInit
  BY DEF Init
<1>2. QTypeOK /\ [Next]_vars => QTypeOK'
  BY NextRefines, QNextTypeOK
<1> QED BY <1>1, <1>2, QInitTypeOK, NextRefines, PTL DEF Spec, QSpec

\* In the whole server, with users, BMPs that fail, timeouts and updates of the
\* machines, no board ever belongs to two jobs.
THEOREM ServerKeepsBoardsExclusive == Spec => []BoardExclusive
<1>1. QED BY ControllerUsesJobQueue, BoardsExclusive, PTL

-----------------------------------------------------------------------------
(* The inductive invariant.                                                *)

CJobsTyped ==
  /\ DOMAIN cjobs \subseteq JobId
  /\ cjobs \in [DOMAIN cjobs -> CJobType]

\* What is put into the controller's table of BMPs, here and below called b: a
\* result is the result of a request.
BmpTable(b) ==
  /\ DOMAIN b \subseteq BmpId
  /\ b \in [DOMAIN b -> BmpType]
  /\ \A c \in DOMAIN b : b[c].result # "none" => b[c].queue # <<>>

\* The jobs on whose behalf the BMPs of b have something to do.
Served(b) ==
  UNION {{b[c].queue[i].job : i \in 1 .. Len(b[c].queue)} : c \in DOMAIN b}

\* Nothing is asked of a BMP for a job that waits for its boards.
ServedStarted ==
  \A j \in Served(bmps) : j < nextId /\ (j \in DOMAIN jobs => ~Pending(j))

\* There is room in the table for the BMPs of the machines being added.
RoomForNew == target # NoConfig => \A f \in Frame : Unused(f) # {}

AInv ==
  /\ QInv
  /\ CJobsTyped
  /\ BmpTable(bmps)
  /\ IdsUsed
  /\ JobsAgree
  /\ ServedStarted
  /\ RoomForNew

-----------------------------------------------------------------------------
(* What is done to the table of BMPs.                                      *)

LEMMA BmpRecord ==
  ASSUME NEW b, BmpTable(b), NEW c \in DOMAIN b
  PROVE  /\ b[c] \in BmpType
         /\ b[c].queue \in Seq(RequestsType) /\ Len(b[c].queue) \in Nat
<1>1. b[c] \in BmpType
  BY DEF BmpTable
<1>2. b[c].queue \in Seq(RequestsType)
  BY <1>1 DEF BmpType
<1> QED BY <1>1, <1>2, LenProperties

LEMMA ServedMeans ==
  ASSUME NEW b, NEW j
  PROVE  j \in Served(b) <=>
           \E c \in DOMAIN b : \E i \in 1 .. Len(b[c].queue) : j = b[c].queue[i].job
  BY DEF Served

LEMMA RequestedTable ==
  ASSUME BmpTable(bmps), NEW j \in JobId, NEW B \in SUBSET Board, NEW on,
         on \in BOOLEAN, NEW m, NEW b, b = Requested(m, j, B, on)
  PROVE  /\ BmpTable(b)
         /\ DOMAIN b = DOMAIN bmps
         /\ Served(b) \subseteq Served(bmps) \cup {j}
<1> DEFINE R(c) == [job |-> j, on |-> on, boards |-> {x \in B : FrameOf[x] = c[1]}]
<1>1. DOMAIN b = DOMAIN bmps
  BY DEF Requested
<1>2. ASSUME NEW c \in DOMAIN bmps
      PROVE  /\ b[c] \in BmpType
             /\ b[c].result = bmps[c].result
             /\ b[c].queue = bmps[c].queue \/ b[c].queue = Append(bmps[c].queue, R(c))
             /\ bmps[c].queue # <<>> => b[c].queue # <<>>
  <2>1. bmps[c] \in BmpType /\ bmps[c].queue \in Seq(RequestsType) /\ R(c) \in RequestsType
    BY BmpRecord DEF RequestsType
  <2>2. Append(bmps[c].queue, R(c)) \in Seq(RequestsType)
        /\ Append(bmps[c].queue, R(c)) # <<>>
    BY <2>1, AppendProperties
  <2>3. b[c] = IF c \in BmpsOf(m, B)
               THEN [bmps[c] EXCEPT !.queue = Append(bmps[c].queue, R(c))] ELSE bmps[c]
    BY DEF Requested
  <2>4. [bmps[c] EXCEPT !.queue = Append(bmps[c].queue, R(c))] \in BmpType
    BY <2>1, <2>2 DEF BmpType
  <2>5. CASE c \in BmpsOf(m, B)
    <3>1. b[c].queue = Append(bmps[c].queue, R(c)) /\ b[c].result = bmps[c].result
      BY <2>1, <2>3, <2>5 DEF BmpType
    <3> QED BY <2>2, <2>3, <2>4, <2>5, <3>1
  <2>6. CASE c \notin BmpsOf(m, B)
    BY <2>1, <2>3, <2>6
  <2> QED BY <2>5, <2>6
<1>3. ASSUME NEW c \in DOMAIN bmps, NEW i \in 1 .. Len(b[c].queue)
      PROVE  b[c].queue[i].job \in Served(bmps) \cup {j}
  <2>1. bmps[c].queue \in Seq(RequestsType) /\ R(c).job = j
    BY BmpRecord
  <2>2. \/ i \in 1 .. Len(bmps[c].queue) /\ b[c].queue[i] = bmps[c].queue[i]
        \/ b[c].queue[i] = R(c)
    <3> HIDE DEF R
    <3>1. R(c) \in RequestsType
      BY DEF RequestsType, R
    <3> QED BY <1>2, <2>1, <3>1, AppendProperties
  <2> QED BY <2>1, <2>2 DEF Served
<1>4. BmpTable(b)
  <2>1. b = [c \in DOMAIN b |-> b[c]]
    BY DEF Requested
  <2> QED BY <1>1, <1>2, <2>1 DEF BmpTable
<1>5. Served(b) \subseteq Served(bmps) \cup {j}
  BY <1>1, <1>3 DEF Served
<1> QED BY <1>1, <1>2, <1>4, <1>5

\* A request is taken off the queue when it has been reported on.
Shortened(b, c) == [b EXCEPT ![c].queue = Tail(@), ![c].result = "none"]

LEMMA ShortenedTable ==
  ASSUME NEW b, BmpTable(b), NEW c \in DOMAIN b, b[c].queue # <<>>
  PROVE  /\ BmpTable(Shortened(b, c))
         /\ DOMAIN Shortened(b, c) = DOMAIN b
         /\ Served(Shortened(b, c)) \subseteq Served(b)
<1> DEFINE s == Shortened(b, c)
<1>1. DOMAIN s = DOMAIN b /\ \A d \in DOMAIN b \ {c} : s[d] = b[d]
  BY DEF Shortened
<1>2. /\ s[c] \in BmpType
      /\ s[c].result = "none"
      /\ s[c].queue = Tail(b[c].queue)
  <2>1. b[c] \in BmpType /\ Tail(b[c].queue) \in Seq(RequestsType)
    BY BmpRecord, HeadTailProperties
  <2>2. s[c] = [b[c] EXCEPT !.queue = Tail(b[c].queue), !.result = "none"]
    BY <2>1 DEF Shortened, BmpType
  <2> QED BY <2>1, <2>2 DEF BmpType
<1>3. ASSUME NEW i \in 1 .. Len(s[c].queue)
      PROVE  s[c].queue[i].job \in Served(b)
  <2>1. i + 1 \in 1 .. Len(b[c].queue) /\ s[c].queue[i] = b[c].queue[i + 1]
    <3> HIDE DEF s
    <3> QED BY <1>2, BmpRecord, HeadTailProperties
  <2> HIDE DEF s
  <2> QED BY <2>1 DEF Served
<1>4. \A d \in DOMAIN b : s[d] \in BmpType /\ (s[d].result # "none" => s[d].queue # <<>>)
  <2> HIDE DEF s
  <2> QED BY <1>1, <1>2 DEF BmpTable
<1>5. s = [d \in DOMAIN s |-> s[d]]
  BY DEF Shortened
<1>6. BmpTable(s)
  <2> HIDE DEF s
  <2> QED BY <1>1, <1>4, <1>5 DEF BmpTable
<1>7. Served(s) \subseteq Served(b)
  <2> HIDE DEF s
  <2>1. ASSUME NEW d \in DOMAIN b, NEW i \in 1 .. Len(s[d].queue)
        PROVE  s[d].queue[i].job \in Served(b)
    <3>1. CASE d = c
      BY <1>3, <3>1
    <3>2. CASE d # c
      <4>1. s[d] = b[d]
        BY <1>1, <3>2
      <4> QED BY <4>1 DEF Served
    <3> QED BY <3>1, <3>2
  <2>2. DOMAIN s = DOMAIN b
    BY <1>1
  <2> QED BY <2>1, <2>2, ServedMeans
<1> QED BY <1>1, <1>6, <1>7

\* What changes in a table when no queue gets longer.
LEMMA RelabelledTable ==
  ASSUME NEW b, BmpTable(b), NEW s, DOMAIN s \subseteq BmpId, s = [c \in DOMAIN s |-> s[c]],
         \A c \in DOMAIN s :
           /\ s[c] \in BmpType
           /\ s[c].result # "none" => s[c].queue # <<>>
           /\ s[c].queue = <<>> \/ (c \in DOMAIN b /\ s[c].queue = b[c].queue)
  PROVE  BmpTable(s) /\ Served(s) \subseteq Served(b)
<1>1. BmpTable(s)
  BY DEF BmpTable
<1>2. ASSUME NEW c \in DOMAIN s, NEW i \in 1 .. Len(s[c].queue)
      PROVE  s[c].queue[i].job \in Served(b)
  <2>1. s[c].queue # <<>>
    OBVIOUS
  <2> QED BY <2>1 DEF Served
<1> QED BY <1>1, <1>2 DEF Served

-----------------------------------------------------------------------------
(* What each kind of step does to the jobs the two have in common.         *)

\* The parts of the invariant that an action is looked at for.
Agreeing == CJobsTyped /\ JobsAgree

LEMMA NothingToAgree ==
  ASSUME Agreeing, UNCHANGED <<jobs, cjobs>>
  PROVE  Agreeing'
  BY DEF Agreeing, CJobsTyped, JobsAgree

\* Both forget a job.
LEMMA BothForget ==
  ASSUME Agreeing, NEW j, jobs' = Without(jobs, j), cjobs' = Without(cjobs, j)
  PROVE  Agreeing'
  BY DEF Agreeing, CJobsTyped, JobsAgree, Without

\* The controller forgets a job it has destroyed, the JobQueue keeps its boards ...
LEMMA ControllerForgets ==
  ASSUME Agreeing, QTypeOK, NEW j \in DOMAIN jobs,
         jobs' = [jobs EXCEPT ![j].state = "released"], cjobs' = Without(cjobs, j)
  PROVE  Agreeing'
<1>1. /\ DOMAIN jobs' = DOMAIN jobs
      /\ jobs'[j].state = "released"
      /\ \A k \in DOMAIN jobs \ {j} : jobs'[k] = jobs[k]
  BY DEF QTypeOK, JobType
<1> QED BY <1>1 DEF Agreeing, CJobsTyped, JobsAgree, Without

\* ... until they are freed.
LEMMA QueueForgets ==
  ASSUME Agreeing, NEW j \in DOMAIN jobs, jobs[j].state = "released",
         jobs' = Without(jobs, j), cjobs' = cjobs
  PROVE  Agreeing'
<1>1. j \notin DOMAIN cjobs
  BY DEF Agreeing, JobsAgree
<1> QED BY <1>1 DEF Agreeing, CJobsTyped, JobsAgree, Without

LEMMA BothLearn ==
  ASSUME Agreeing, NEW j \in JobId, j \notin DOMAIN jobs, NEW r,
         jobs' = With(jobs, j, [state |-> "pending", req |-> r,
                                machine |-> NoMachine, boards |-> {}]),
         cjobs' = With(cjobs, j, NewJob)
  PROVE  Agreeing'
<1>1. NewJob \in CJobType /\ NewJob.state = "queued" /\ NewJob.machine = NoMachine
      /\ NewJob.boards = {}
  BY DEF NewJob, CJobType, NoDescription, Description
<1>2. j \notin DOMAIN cjobs
  BY DEF Agreeing, JobsAgree
<1>3. /\ DOMAIN cjobs' = DOMAIN cjobs \cup {j} /\ DOMAIN jobs' = DOMAIN jobs \cup {j}
      /\ cjobs'[j] = NewJob /\ \A k \in DOMAIN cjobs : cjobs'[k] = cjobs[k]
      /\ \A k \in DOMAIN jobs : jobs'[k] = jobs[k]
      /\ jobs'[j] = [state |-> "pending", req |-> r, machine |-> NoMachine, boards |-> {}]
  BY <1>2 DEF With
<1>4. CJobsTyped'
  <2>1. cjobs' = [k \in DOMAIN cjobs' |-> cjobs'[k]]
    BY DEF With
  <2>2. DOMAIN cjobs \subseteq JobId /\ \A k \in DOMAIN cjobs : cjobs[k] \in CJobType
    BY DEF Agreeing, CJobsTyped
  <2>3. \A k \in DOMAIN cjobs' : cjobs'[k] \in CJobType
    BY <1>1, <1>3, <2>2
  <2>4. cjobs' \in [DOMAIN cjobs' -> CJobType]
    BY <2>1, <2>3, Zenon
  <2>5. DOMAIN cjobs' \subseteq JobId
    BY <1>3, <2>2
  <2> QED BY <2>4, <2>5 DEF CJobsTyped
<1>5. JobsAgree'
  <2>1. jobs'[j].state = "pending" /\ jobs'[j].machine = NoMachine /\ jobs'[j].boards = {}
    BY <1>3
  <2>2. DOMAIN cjobs' = {k \in DOMAIN jobs' : jobs'[k].state # "released"}
    <3>1. DOMAIN cjobs = {k \in DOMAIN jobs : jobs[k].state # "released"}
      BY DEF Agreeing, JobsAgree
    <3>2. \A k \in DOMAIN jobs : k # j /\ jobs'[k].state = jobs[k].state
      BY <1>3
    <3>3. DOMAIN cjobs' = DOMAIN cjobs \cup {j} /\ DOMAIN jobs' = DOMAIN jobs \cup {j}
      BY <1>3
    <3>4. jobs'[j].state # "released"
      BY <2>1
    <3> QED BY <3>1, <3>2, <3>3, <3>4
  <2>3. ASSUME NEW k \in DOMAIN cjobs'
        PROVE  /\ cjobs'[k].machine = jobs'[k].machine
               /\ cjobs'[k].boards = jobs'[k].boards
               /\ cjobs'[k].state = "queued" <=> jobs'[k].state = "pending"
    <3>1. CASE k = j
      BY <1>1, <1>3, <2>1, <3>1
    <3>2. CASE k \in DOMAIN cjobs
      <4>1. k \in DOMAIN jobs /\ cjobs'[k] = cjobs[k] /\ jobs'[k] = jobs[k]
        BY <1>3, <3>2 DEF Agreeing, JobsAgree
      <4> QED BY <3>2, <4>1 DEF Agreeing, JobsAgree
    <3> QED BY <1>3, <3>1, <3>2
  <2> QED BY <2>2, <2>3 DEF JobsAgree
<1> QED BY <1>4, <1>5 DEF Agreeing

\* A job gets its boards.
LEMMA BothStart ==
  ASSUME Agreeing, QTypeOK, NEW j \in DOMAIN jobs, Pending(j), NEW m \in DOMAIN machines,
         NEW p \in SUBSET Board,
         jobs' = [jobs EXCEPT ![j] = [state |-> "running", req |-> jobs[j].req,
                                      machine |-> m, boards |-> p]],
         cjobs' = [cjobs EXCEPT ![j] = [state |-> "power", power |-> "on", machine |-> m,
                                        desc |-> Described(m), boards |-> p]]
  PROVE  Agreeing'
<1>1. m \in Machine /\ Described(m) \in Description
  BY DEF QTypeOK, Described, Description, MachineType
<1>2. j \in DOMAIN cjobs
  BY DEF Agreeing, JobsAgree, Pending
<1>3. CJobsTyped'
  <2>1. [state |-> "power", power |-> "on", machine |-> m, desc |-> Described(m), boards |-> p]
          \in CJobType
    BY <1>1 DEF CJobType
  <2> QED BY <1>2, <2>1 DEF Agreeing, CJobsTyped
<1>4. /\ DOMAIN cjobs' = DOMAIN cjobs /\ DOMAIN jobs' = DOMAIN jobs
      /\ cjobs'[j].machine = m /\ cjobs'[j].boards = p /\ cjobs'[j].state = "power"
      /\ jobs'[j].machine = m /\ jobs'[j].boards = p /\ jobs'[j].state = "running"
      /\ \A k \in DOMAIN jobs \ {j} : jobs'[k] = jobs[k]
      /\ \A k \in DOMAIN cjobs \ {j} : cjobs'[k] = cjobs[k]
  BY <1>2
<1>5. JobsAgree'
  BY <1>2, <1>4 DEF Agreeing, JobsAgree
<1> QED BY <1>3, <1>5 DEF Agreeing

\* The controller learns of the boards of a job that is not queued.
LEMMA ControllerNotes ==
  ASSUME Agreeing, NEW j \in DOMAIN cjobs, ~Pending(j), UNCHANGED jobs,
         NEW st \in {"power", "ready"}, NEW pw \in {"none", "on", "off"},
         \/ cjobs' = [cjobs EXCEPT ![j].state = st]
         \/ cjobs' = [cjobs EXCEPT ![j].state = st, ![j].power = pw]
  PROVE  Agreeing'
<1>1. cjobs[j] \in CJobType
  BY DEF Agreeing, CJobsTyped
<1>2. /\ DOMAIN cjobs' = DOMAIN cjobs
      /\ cjobs' \in [DOMAIN cjobs -> CJobType]
      /\ cjobs'[j].machine = cjobs[j].machine /\ cjobs'[j].boards = cjobs[j].boards
      /\ cjobs'[j].state = st
      /\ \A k \in DOMAIN cjobs \ {j} : cjobs'[k] = cjobs[k]
  BY <1>1 DEF CJobType, Agreeing, CJobsTyped
<1>3. jobs[j].state # "pending"
  BY DEF Agreeing, JobsAgree, Pending
<1> QED BY <1>2, <1>3 DEF Agreeing, CJobsTyped, JobsAgree

-----------------------------------------------------------------------------
(* The steps.                                                              *)

\* New requests are for jobs that have, or had, boards.
NewServed ==
  \A j \in Served(bmps') :
    \/ j \in Served(bmps)
    \/ j \in DOMAIN jobs /\ (j \in DOMAIN jobs' => ~Pending(j)')

\* What is left to show of an action, given that it is one of the JobQueue.
StepKept == Agreeing' /\ BmpTable(bmps') /\ RoomForNew' /\ NewServed

LEMMA RoomKept ==
  ASSUME RoomForNew, target' = target \/ target' = NoConfig, DOMAIN bmps' \subseteq DOMAIN bmps
  PROVE  RoomForNew'
  BY DEF RoomForNew, Unused

\* Steps that do not concern jobs or BMPs.
LEMMA QuietStep ==
  ASSUME AInv, UNCHANGED <<jobs, cjobs, bmps>>, target' = target \/ target' = NoConfig
  PROVE  StepKept
<1>1. Agreeing' /\ RoomForNew'
  BY NothingToAgree, RoomKept DEF AInv, Agreeing
<1> QED BY <1>1 DEF StepKept, NewServed, AInv

LEMMA DestroyQueuedStep ==
  ASSUME AInv, NEW j \in JobId, DestroyQueued(j)
  PROVE  StepKept
<1>1. /\ jobs' = Without(jobs, j) /\ cjobs' = Without(cjobs, j)
      /\ UNCHANGED <<bmps, target>>
  BY DEF DestroyQueued, CancelJob, OnCancel
<1>2. Agreeing' /\ RoomForNew'
  BY <1>1, BothForget, RoomKept DEF AInv, Agreeing
<1> QED BY <1>1, <1>2 DEF StepKept, NewServed, AInv

\* What is asked of the BMPs of a job that has boards.
LEMMA AskedStep ==
  ASSUME AInv, NEW j \in DOMAIN cjobs, NEW on \in BOOLEAN, NEW B \in SUBSET Board, NEW m,
         bmps' = Requested(m, j, B, on), j \in DOMAIN jobs' => ~Pending(j)',
         target' = target
  PROVE  BmpTable(bmps') /\ RoomForNew' /\ NewServed
<1>1. j \in JobId /\ j \in DOMAIN jobs
  BY DEF AInv, CJobsTyped, JobsAgree
<1>2. BmpTable(bmps') /\ DOMAIN bmps' = DOMAIN bmps /\ Served(bmps') \subseteq Served(bmps) \cup {j}
  <2>1. BmpTable(bmps)
    BY DEF AInv
  <2>2. BmpTable(bmps') /\ Served(bmps') \subseteq Served(bmps) \cup {j}
    BY <1>1, <2>1, RequestedTable, Zenon
  <2>3. DOMAIN bmps' = DOMAIN bmps
    BY DEF Requested
  <2> QED BY <2>2, <2>3
<1> QED BY <1>1, <1>2, RoomKept DEF AInv, NewServed

LEMMA DestroyRunningStep ==
  ASSUME AInv, NEW j \in DOMAIN cjobs, DestroyRunning(j)
  PROVE  StepKept
<1>1. /\ j \in DOMAIN jobs
      /\ jobs' = [jobs EXCEPT ![j].state = "released"] /\ cjobs' = Without(cjobs, j)
      /\ bmps' = Requested(cjobs[j].machine, j, cjobs[j].boards, FALSE)
      /\ target' = target
  BY DEF DestroyRunning, ReleaseJob, OnFree, OnCancel, PowerDown
<1>2. Agreeing'
  BY <1>1, ControllerForgets DEF AInv, QInv, Agreeing
<1>3. ~Pending(j)'
  BY <1>1 DEF Pending, AInv, QInv, QTypeOK, JobType
<1>4. cjobs[j].boards \in SUBSET Board
  BY DEF AInv, CJobsTyped, CJobType
<1> QED BY <1>1, <1>2, <1>3, <1>4, AskedStep DEF StepKept

\* Only a job the controller knows is pending or running.
LEMMA KnownJob ==
  ASSUME AInv, NEW j \in DOMAIN jobs, jobs[j].state # "released"
  PROVE  j \in DOMAIN cjobs
  BY DEF AInv, JobsAgree

LEMMA UsersStep ==
  ASSUME AInv, Users \/ Power
  PROVE  StepKept
<1>1. ASSUME NEW r \in Request, Create(r)
      PROVE  StepKept
  <2>1. /\ nextId \in JobId
        /\ jobs' = With(jobs, nextId, [state |-> "pending", req |-> r,
                                       machine |-> NoMachine, boards |-> {}])
        /\ cjobs' = With(cjobs, nextId, NewJob)
        /\ UNCHANGED <<bmps, target>>
    BY <1>1 DEF Create, CreateJob, CanCreate
  <2>2. nextId \notin DOMAIN jobs
    BY <2>1 DEF AInv, IdsUsed, JobId
  <2>3. Agreeing' /\ RoomForNew'
    BY <2>1, <2>2, BothLearn, RoomKept DEF AInv, Agreeing
  <2> QED BY <2>1, <2>3 DEF StepKept, NewServed, AInv
<1>2. ASSUME NEW r \in Request, CreateRejected(r)
      PROVE  StepKept
  BY <1>2, QuietStep DEF CreateRejected, RejectJob
<1>3. ASSUME NEW j \in JobId, Destroy(j)
      PROVE  StepKept
  BY <1>3, DestroyQueuedStep, DestroyRunningStep DEF Destroy
<1>4. ASSUME NEW j \in JobId, Keepalive(j) \/ Lapse(j)
      PROVE  StepKept
  BY <1>4, QuietStep DEF Keepalive, Lapse, qvars
<1>5. ASSUME NEW j \in JobId, NEW on \in BOOLEAN, SetPower(j, on)
      PROVE  StepKept
  <2>1. /\ j \in DOMAIN cjobs /\ cjobs[j].boards # {}
        /\ bmps' = Requested(cjobs[j].machine, j, cjobs[j].boards, on)
        /\ cjobs' = [cjobs EXCEPT ![j].state = "power",
                                  ![j].power = IF on THEN "on" ELSE "off"]
        /\ UNCHANGED <<jobs, target>>
    BY <1>5 DEF SetPower, qvars
  <2>2. ~Pending(j)
    BY <2>1 DEF AInv, QInv, JobsPlaced, HoldsBoards, JobsAgree, Pending
  <2>3. Agreeing'
    BY <2>1, <2>2, ControllerNotes DEF AInv, Agreeing
  <2>4. cjobs[j].boards \in SUBSET Board /\ ~Pending(j)'
    BY <2>1, <2>2 DEF AInv, CJobsTyped, CJobType, Pending
  <2> QED BY <2>1, <2>3, <2>4, AskedStep DEF StepKept
<1> QED BY <1>1, <1>2, <1>3, <1>4, <1>5 DEF Users, Power

LEMMA LoopStep ==
  ASSUME AInv, ServerLoop \/ Delay
  PROVE  StepKept
<1>1. ASSUME StartSweep \/ EndSweep \/ ReadChanges
      PROVE  StepKept
  BY <1>1, QuietStep DEF StartSweep, EndSweep, ReadChanges, qvars
<1>2. ASSUME NEW j \in JobId, SweepJob(j)
      PROVE  StepKept
  <2>1. CASE DestroyRunning(j)
    <3>1. j \in DOMAIN jobs /\ jobs[j].state = "running"
      BY <2>1 DEF DestroyRunning, ReleaseJob
    <3> QED BY <2>1, <3>1, KnownJob, DestroyRunningStep
  <2> QED BY <1>2, <2>1, DestroyQueuedStep DEF SweepJob
<1>3. ASSUME CollectFreed \/ Delay
      PROVE  StepKept
  BY <1>3, QuietStep DEF CollectFreed, Delay, CheckFree, TimePasses, cvars
<1> QED BY <1>1, <1>2, <1>3 DEF ServerLoop

LEMMA SchedulerStep ==
  ASSUME AInv, Schedule \/ Regenerate
  PROVE  StepKept
<1>1. ASSUME NEW m \in Machine, SkipMachine(m) \/ FindEmpty(m) \/ FindBlocked(m),
             UNCHANGED cvars
      PROVE  StepKept
  BY <1>1, QuietStep DEF SkipMachine, FindEmpty, FindBlocked, cvars
<1>2. ASSUME NEW m \in Machine, NEW j \in JobId, NEW p \in SUBSET Board, Allocate(m, j, p)
      PROVE  StepKept
  <2>1. /\ m \in DOMAIN machines /\ Pending(j) /\ j \in DOMAIN jobs
        /\ jobs' = [jobs EXCEPT ![j] = [state |-> "running", req |-> jobs[j].req,
                                        machine |-> m, boards |-> p]]
    BY <1>2 DEF Allocate, StartJob, TakeBoards, FirstPending, Pending
  <2>2. /\ cjobs' = [cjobs EXCEPT ![j] = [state |-> "power", power |-> "on", machine |-> m,
                                          desc |-> Described(m), boards |-> p]]
        /\ bmps' = Requested(m, j, p, TRUE)
        /\ target' = target
    BY <1>2 DEF Allocate, StartJob
  <2>3. Agreeing'
    BY <2>1, <2>2, BothStart DEF AInv, QInv, Agreeing
  <2>4. ~Pending(j)' /\ j \in DOMAIN cjobs
    BY <2>1, KnownJob DEF Pending
  <2> QED BY <2>2, <2>3, <2>4, AskedStep DEF StepKept
<1>3. ASSUME EndPass, UNCHANGED cvars
      PROVE  StepKept
  BY <1>3, QuietStep DEF EndPass, cvars
<1>4. ASSUME NEW j \in JobId, VisitStarted(j) \/ VisitPending(j), UNCHANGED cvars
      PROVE  StepKept
  BY <1>4, QuietStep DEF VisitStarted, VisitPending, cvars
<1>5. ASSUME NEW j \in JobId, CancelUnsuitable(j)
      PROVE  StepKept
  <2>1. /\ jobs' = Without(jobs, j) /\ cjobs' = Without(cjobs, j)
        /\ UNCHANGED <<bmps, target>>
    BY <1>5 DEF CancelUnsuitable, VisitUnsuitable, OnCancel
  <2>2. Agreeing' /\ RoomForNew'
    BY <2>1, BothForget, RoomKept DEF AInv, Agreeing
  <2> QED BY <2>1, <2>2 DEF StepKept, NewServed, AInv
<1>6. ASSUME EndUpdate
      PROVE  StepKept
  BY <1>6, QuietStep DEF EndUpdate, EndRegen
<1> QED BY <1>1, <1>2, <1>3, <1>4, <1>5, <1>6 DEF Schedule, Regenerate

\* A thread has reported, and takes up its next request.
LEMMA FinishedStep ==
  ASSUME AInv, NEW c, Reports(c), bmps' = Finished(c), target' = target
  PROVE  BmpTable(bmps') /\ RoomForNew' /\ Served(bmps') \subseteq Served(bmps)
<1>1. BmpTable(bmps) /\ c \in DOMAIN bmps /\ bmps[c].queue # <<>>
  BY DEF Reports, AInv, BmpTable
<1>2. bmps' = Shortened(bmps, c)
  BY DEF Finished, Shortened
<1>3. /\ BmpTable(Shortened(bmps, c))
      /\ DOMAIN Shortened(bmps, c) = DOMAIN bmps
      /\ Served(Shortened(bmps, c)) \subseteq Served(bmps)
  BY <1>1, ShortenedTable
<1> QED BY <1>2, <1>3, RoomKept DEF AInv

\* A request under way is of a job that was started.
LEMMA JobOfServed ==
  ASSUME AInv, NEW c, Reports(c)
  PROVE  JobOf(c) \in Served(bmps)
<1>1. c \in DOMAIN bmps /\ bmps[c].queue # <<>> /\ bmps[c].queue \in Seq(RequestsType)
  BY BmpRecord DEF Reports, AInv, BmpTable
<1>2. 1 \in 1 .. Len(bmps[c].queue) /\ Head(bmps[c].queue) = bmps[c].queue[1]
  BY <1>1, EmptySeq, HeadTailProperties, LenProperties
<1> QED BY <1>1, <1>2, ServedMeans DEF JobOf

\* Steps that leave the queues of the BMPs alone, or empty.
LEMMA RelabelledStep ==
  ASSUME AInv, UNCHANGED <<jobs, cjobs>>, RoomForNew',
         DOMAIN bmps' \subseteq BmpId, bmps' = [c \in DOMAIN bmps' |-> bmps'[c]],
         \A c \in DOMAIN bmps' :
           /\ bmps'[c] \in BmpType
           /\ bmps'[c].result # "none" => bmps'[c].queue # <<>>
           /\ bmps'[c].queue = <<>> \/ (c \in DOMAIN bmps /\ bmps'[c].queue = bmps[c].queue)
  PROVE  StepKept
<1>1. BmpTable(bmps)
  BY DEF AInv
<1>2. BmpTable(bmps')
  BY DEF BmpTable
<1>3. Served(bmps') \subseteq Served(bmps)
  <2> SUFFICES ASSUME NEW j \in Served(bmps')
               PROVE  j \in Served(bmps)
    OBVIOUS
  <2>1. PICK c \in DOMAIN bmps' :
          \E i \in 1 .. Len(bmps'[c].queue) : j = bmps'[c].queue[i].job
    BY ServedMeans
  <2>2. bmps'[c].queue # <<>>
    BY <2>1
  <2>3. c \in DOMAIN bmps /\ bmps'[c].queue = bmps[c].queue
    BY <2>2
  <2> QED BY <2>1, <2>3, ServedMeans
<1>4. Agreeing'
  BY NothingToAgree DEF AInv, Agreeing
<1> QED BY <1>2, <1>3, <1>4 DEF StepKept, NewServed

HasWork(b, c) == c \in DOMAIN b /\ b[c].queue # <<>>

\* The report of a failure queues the requests that switch off the job's boards
\* behind the one reported on.
LEMMA RequestedBehind ==
  ASSUME BmpTable(bmps), NEW j \in JobId, NEW B \in SUBSET Board, NEW on \in BOOLEAN,
         NEW m, NEW b, b = Requested(m, j, B, on),
         NEW c, HasWork(bmps, c)
  PROVE  HasWork(b, c)
<1> DEFINE r == [job |-> j, on |-> on, boards |-> {x \in B : FrameOf[x] = c[1]}]
<1>0. c \in DOMAIN bmps
  BY DEF HasWork
<1>1. bmps[c].queue \in Seq(RequestsType) /\ bmps[c] \in BmpType /\ r \in RequestsType
  BY <1>0, BmpRecord DEF RequestsType
<1>2. Append(bmps[c].queue, r) # <<>>
  BY <1>1, AppendProperties
<1>3. /\ c \in DOMAIN b
      /\ b[c] = IF c \in BmpsOf(m, B)
                THEN [bmps[c] EXCEPT !.queue = Append(bmps[c].queue, r)] ELSE bmps[c]
  BY <1>0 DEF Requested
<1> HIDE DEF r
<1>4. c \in BmpsOf(m, B) => b[c].queue = Append(bmps[c].queue, r)
  BY <1>1, <1>3 DEF BmpType
<1> QED BY <1>2, <1>3, <1>4 DEF HasWork

LEMMA FailureTable ==
  ASSUME BmpTable(bmps), NEW j \in JobId, NEW B \in SUBSET Board, NEW on \in BOOLEAN,
         NEW m, NEW c, HasWork(bmps, c)
  PROVE  BmpTable(Shortened(Requested(m, j, B, on), c))
<1>1. PICK b : b = Requested(m, j, B, on)
  OBVIOUS
<1>2. BmpTable(b)
  BY <1>1, RequestedTable, Zenon
<1>3. HasWork(b, c)
  BY <1>1, RequestedBehind, Zenon
<1> QED BY <1>1, <1>2, <1>3, ShortenedTable DEF HasWork

LEMMA FailureServed ==
  ASSUME BmpTable(bmps), NEW j \in JobId, NEW B \in SUBSET Board, NEW on \in BOOLEAN,
         NEW m, NEW c, HasWork(bmps, c)
  PROVE  Served(Shortened(Requested(m, j, B, on), c)) \subseteq Served(bmps) \cup {j}
<1>1. PICK b : b = Requested(m, j, B, on)
  OBVIOUS
<1>2. BmpTable(b)
  BY <1>1, RequestedTable, Zenon
<1>3. HasWork(b, c)
  BY <1>1, RequestedBehind, Zenon
<1>4. Served(b) \subseteq Served(bmps) \cup {j}
  BY <1>1, RequestedTable, Zenon
<1>5. Served(Shortened(b, c)) \subseteq Served(b)
  BY <1>2, <1>3, ShortenedTable DEF HasWork
<1> QED BY <1>1, <1>4, <1>5

LEMMA BmpStep ==
  ASSUME AInv, NEW c \in BmpId, BmpThread(c)
  PROVE  StepKept
<1>0. BmpTable(bmps)
  BY DEF AInv
<1>1. ASSUME Switch(c)
      PROVE  StepKept
  BY <1>1, QuietStep DEF Switch, qvars
<1>2. ASSUME Succeed(c) \/ Fail(c)
      PROVE  StepKept
  <2>1. PICK res \in {"ok", "failed"} : bmps' = [bmps EXCEPT ![c].result = res]
    BY <1>2 DEF Succeed, Fail
  <2>2. c \in DOMAIN bmps /\ bmps[c].queue # <<>> /\ UNCHANGED <<jobs, cjobs, target>>
    BY <1>2 DEF Succeed, Fail, AtWork, qvars
  <2>3. DOMAIN bmps' = DOMAIN bmps /\ \A d \in DOMAIN bmps \ {c} : bmps'[d] = bmps[d]
    BY <2>1
  <2>4. bmps'[c] \in BmpType /\ bmps'[c].queue = bmps[c].queue
    BY <1>0, <2>1, <2>2 DEF BmpTable, BmpType
  <2>5. bmps' = [d \in DOMAIN bmps' |-> bmps'[d]]
    BY <2>1
  <2>6. \A d \in DOMAIN bmps' :
          /\ bmps'[d] \in BmpType
          /\ bmps'[d].result # "none" => bmps'[d].queue # <<>>
          /\ d \in DOMAIN bmps /\ bmps'[d].queue = bmps[d].queue
    BY <1>0, <2>2, <2>3, <2>4 DEF BmpTable
  <2>7. RoomForNew' /\ DOMAIN bmps' \subseteq BmpId
    BY <1>0, <2>2, <2>3, RoomKept DEF BmpTable, AInv
  <2>8. UNCHANGED <<jobs, cjobs>>
    BY <2>2
  <2> QED BY <2>5, <2>6, <2>7, <2>8, RelabelledStep
<1>3. ASSUME ReportFailure(c)
      PROVE  StepKept
  <2>1. PICK j : j = JobOf(c)
    OBVIOUS
  <2>0. PICK off \in BOOLEAN : off = FALSE
    OBVIOUS
  <2>2. /\ Reports(c) /\ j \in DOMAIN cjobs /\ j \in DOMAIN jobs
        /\ jobs' = [jobs EXCEPT ![j].state = "released"] /\ cjobs' = Without(cjobs, j)
        /\ bmps' = Shortened(Requested(cjobs[j].machine, j, cjobs[j].boards, off), c)
        /\ target' = target
    BY <1>3, <2>0, <2>1 DEF ReportFailure, ReleaseJob, OnFree, OnCancel, Shortened
  <2>3. Agreeing'
    BY <2>2, ControllerForgets DEF AInv, QInv, Agreeing
  <2>4. ~Pending(j)'
    BY <2>2 DEF Pending, AInv, QInv, QTypeOK, JobType
  <2>5. j \in JobId /\ cjobs[j].boards \in SUBSET Board
    BY <2>2 DEF AInv, CJobsTyped, CJobType
  <2>6. HasWork(bmps, c)
    BY <1>0, <2>2 DEF Reports, BmpTable, HasWork
  <2>7. BmpTable(bmps')
    <3>1. BmpTable(Shortened(Requested(cjobs[j].machine, j, cjobs[j].boards, off), c))
      BY <1>0, <2>5, <2>6, FailureTable
    <3> QED BY <2>2, <3>1
  <2>8. Served(bmps') \subseteq Served(bmps) \cup {j}
    <3>1. Served(Shortened(Requested(cjobs[j].machine, j, cjobs[j].boards, off), c))
            \subseteq Served(bmps) \cup {j}
      BY <1>0, <2>5, <2>6, FailureServed
    <3> QED BY <2>2, <3>1
  <2>9. DOMAIN bmps' = DOMAIN bmps
    BY <2>2 DEF Shortened, Requested
  <2> QED BY <2>2, <2>3, <2>4, <2>7, <2>8, <2>9, RoomKept DEF StepKept, NewServed, AInv
<1>4. ASSUME ReportProgress(c) \/ ReportForgotten(c)
      PROVE  StepKept
  <2>1. Reports(c) /\ bmps' = Finished(c) /\ UNCHANGED <<jobs, cjobs, target>>
    BY <1>4 DEF ReportProgress, ReportForgotten, qvars
  <2>2. Agreeing'
    BY <2>1, NothingToAgree DEF AInv, Agreeing
  <2> QED BY <2>1, <2>2, FinishedStep DEF StepKept, NewServed
<1>5. ASSUME ReportReady(c)
      PROVE  StepKept
  <2>1. /\ Reports(c) /\ bmps' = Finished(c) /\ UNCHANGED <<jobs, target>>
        /\ JobOf(c) \in DOMAIN cjobs
        /\ cjobs' = [cjobs EXCEPT ![JobOf(c)].state = "ready"]
    BY <1>5 DEF ReportReady, qvars
  <2>2. ~Pending(JobOf(c))
    BY <2>1, JobOfServed DEF AInv, ServedStarted, Pending
  <2>3. Agreeing'
    BY <2>1, <2>2, ControllerNotes DEF AInv, Agreeing
  <2> QED BY <2>1, <2>3, FinishedStep DEF StepKept, NewServed
<1>6. ASSUME ReportFreed(c)
      PROVE  StepKept
  <2>1. /\ Reports(c) /\ bmps' = Finished(c) /\ UNCHANGED <<cjobs, target>>
        /\ JobOf(c) \in DOMAIN jobs /\ jobs[JobOf(c)].state = "released"
        /\ jobs' = Without(jobs, JobOf(c))
    BY <1>6 DEF ReportFreed, Free
  <2>2. Agreeing'
    BY <2>1, QueueForgets DEF AInv, Agreeing
  <2> QED BY <2>1, <2>2, FinishedStep DEF StepKept, NewServed
<1>7. ASSUME ThreadEnds(c)
      PROVE  StepKept
  <2>1. /\ bmps' = [d \in DOMAIN bmps \ {c} |-> [bmps[d] EXCEPT !.after = @ \ {c}]]
        /\ UNCHANGED <<jobs, cjobs, target>>
    BY <1>7 DEF ThreadEnds, qvars
  <2>2. DOMAIN bmps' = DOMAIN bmps \ {c}
    BY <2>1
  <2>3. ASSUME NEW d \in DOMAIN bmps'
        PROVE  /\ bmps'[d] \in BmpType
               /\ bmps'[d].result = bmps[d].result /\ bmps'[d].queue = bmps[d].queue
    <3>1. bmps[d] \in BmpType /\ bmps'[d] = [bmps[d] EXCEPT !.after = bmps[d].after \ {c}]
      BY <1>0, <2>1, <2>2 DEF BmpTable, BmpType
    <3> QED BY <3>1 DEF BmpType
  <2>4. bmps' = [d \in DOMAIN bmps' |-> bmps'[d]]
    BY <2>1
  <2>5. \A d \in DOMAIN bmps' :
          /\ bmps'[d] \in BmpType
          /\ bmps'[d].result # "none" => bmps'[d].queue # <<>>
          /\ d \in DOMAIN bmps /\ bmps'[d].queue = bmps[d].queue
    BY <1>0, <2>2, <2>3 DEF BmpTable
  <2>6. RoomForNew' /\ DOMAIN bmps' \subseteq BmpId
    BY <1>0, <2>1, <2>2, RoomKept DEF BmpTable, AInv
  <2>7. UNCHANGED <<jobs, cjobs>>
    BY <2>1
  <2> QED BY <2>4, <2>5, <2>6, <2>7, RelabelledStep
<1> QED BY <1>1, <1>2, <1>3, <1>4, <1>5, <1>6, <1>7 DEF BmpThread

\* The BMPs of new machines.
LEMMA NewBmpType ==
  ASSUME NEW m \in Machine, NEW waits \in SUBSET BmpId
  PROVE  NewBmp(m, waits) \in BmpType /\ NewBmp(m, waits).queue = <<>>
         /\ NewBmp(m, waits).result = "none"
  BY EmptySeq DEF NewBmp, BmpType

LEMMA UpdateEndsStep ==
  ASSUME AInv, UpdateEnds
  PROVE  StepKept
<1>0. BmpTable(bmps)
  BY DEF AInv
<1>1. target \in Config /\ target # NoConfig /\ target' = NoConfig /\ UNCHANGED <<jobs, cjobs>>
  BY DEF UpdateEnds, FinishUpdate, AInv, QInv, QTypeOK
<1> DEFINE old == {c \in DOMAIN bmps : bmps[c].stop = "due"}
           new == {m \in Names(target) : m \notin DOMAIN machines}
           Fresh(f) == <<f, CHOOSE g \in Generation : g \in Unused(f)>>
           Started(m) == {Fresh(f) : f \in FramesOf(target.desc[m].boards)}
           Owner(c) == CHOOSE m \in new : c \in Started(m)
           all == DOMAIN bmps \cup (UNION {Started(m) : m \in new})
<1>2. bmps' = [c \in all |->
                 CASE c \notin DOMAIN bmps -> NewBmp(Owner(c), old)
                   [] c \in old -> [bmps[c] EXCEPT !.stop = "told"]
                   [] OTHER -> bmps[c]]
  BY DEF UpdateEnds
<1>3. new \subseteq Machine /\ \A m \in new : FramesOf(target.desc[m].boards) \subseteq Frame
  <2>1. target.order \in Seq(Machine) /\ target.desc \in [Names(target) -> Description]
    BY <1>1, ConfigAssumption
  <2>2. Names(target) \subseteq Machine
    BY <2>1, ElementOfSeq DEF Names
  <2>3. \A m \in Names(target) : target.desc[m].boards \subseteq Board
    BY <2>1 DEF Description
  <2> QED BY <2>2, <2>3, FrameAssumption DEF FramesOf
<1>4. \A f \in Frame : Fresh(f) \in BmpId
  <2> SUFFICES ASSUME NEW f \in Frame
               PROVE  (CHOOSE g \in Generation : g \in Unused(f)) \in Generation
    BY DEF BmpId
  <2>1. \E g \in Generation : g \in Unused(f)
    BY <1>1 DEF AInv, RoomForNew, Unused
  <2> QED BY <2>1
<1>5. \A m \in new : Started(m) \subseteq BmpId
  BY <1>3, <1>4
<1>6. all \subseteq BmpId /\ old \subseteq BmpId
  BY <1>0, <1>5 DEF BmpTable
<1>7. ASSUME NEW c \in all
      PROVE  /\ bmps'[c] \in BmpType
             /\ bmps'[c].result # "none" => bmps'[c].queue # <<>>
             /\ bmps'[c].queue = <<>> \/ (c \in DOMAIN bmps /\ bmps'[c].queue = bmps[c].queue)
  <2>1. CASE c \notin DOMAIN bmps
    <3>1. Owner(c) \in new
      <4> HIDE DEF old, new, Started
      <4>1. PICK m \in new : c \in Started(m)
        BY <2>1, Zenon
      <4> QED BY <4>1, Zenon
    <3>3. c \notin old
      BY <2>1
    <3> HIDE DEF old, new, Started, Owner
    <3>2. bmps'[c] = NewBmp(Owner(c), old)
      BY <1>2, <2>1, <3>3
    <3> QED BY <1>3, <1>6, <3>1, <3>2, NewBmpType
  <2>2. CASE c \in old
    <3>1. c \in DOMAIN bmps /\ bmps[c] \in BmpType /\ bmps'[c] = [bmps[c] EXCEPT !.stop = "told"]
      BY <1>0, <1>2, <2>2 DEF BmpTable
    <3>2. /\ bmps'[c] \in BmpType /\ bmps'[c].queue = bmps[c].queue
          /\ bmps'[c].result = bmps[c].result
      BY <3>1 DEF BmpType
    <3> QED BY <1>0, <3>1, <3>2 DEF BmpTable
  <2>3. CASE c \in DOMAIN bmps /\ c \notin old
    <3> HIDE DEF old
    <3>1. bmps'[c] = bmps[c]
      BY <1>2, <2>3
    <3> QED BY <1>0, <2>3, <3>1 DEF BmpTable
  <2> QED BY <2>1, <2>2, <2>3
<1>8. DOMAIN bmps' = all /\ bmps' = [c \in DOMAIN bmps' |-> bmps'[c]]
  <2> HIDE DEF all, Owner, old
  <2> QED BY <1>2
<1>9. RoomForNew'
  BY <1>1 DEF RoomForNew
<1> HIDE DEF all
<1> QED BY <1>1, <1>6, <1>7, <1>8, <1>9, RelabelledStep

LEMMA UpdateStep ==
  ASSUME AInv, Update
  PROVE  StepKept
<1>0. BmpTable(bmps)
  BY DEF AInv
<1>1. ASSUME NEW c \in Config, BeginUpdate(c)
      PROVE  StepKept
  <2>1. UNCHANGED <<jobs, cjobs, bmps>> /\ \A f \in Frame : Unused(f) # {}
    BY <1>1 DEF BeginUpdate, StartUpdate
  <2>2. RoomForNew'
    BY <2>1 DEF RoomForNew, Unused
  <2>3. Agreeing'
    BY <2>1, NothingToAgree DEF AInv, Agreeing
  <2> QED BY <1>0, <2>1, <2>2, <2>3 DEF StepKept, NewServed
<1>2. ASSUME NEW j \in JobId, UpdateRemovesJob(j)
      PROVE  StepKept
  <2>1. /\ j \in DOMAIN jobs /\ jobs[j].state = "running"
        /\ jobs' = Without(jobs, j) /\ cjobs' = Without(cjobs, j)
        /\ bmps' = Requested(cjobs[j].machine, j, cjobs[j].boards, FALSE)
        /\ target' = target
    BY <1>2 DEF UpdateRemovesJob, RemoveJob, Removing, JobsOn, OnFree, OnCancel, PowerDown
  <2>2. j \in DOMAIN cjobs
    BY <2>1, KnownJob
  <2>3. j \notin DOMAIN jobs' /\ cjobs[j].boards \in SUBSET Board
    BY <2>1, <2>2 DEF Without, AInv, CJobsTyped, CJobType
  <2>4. Agreeing'
    BY <2>1, BothForget DEF AInv, Agreeing
  <2> QED BY <2>1, <2>2, <2>3, <2>4, AskedStep DEF StepKept
<1>3. ASSUME NEW j \in JobId, UpdateFails(j)
      PROVE  StepKept
  <2>1. /\ UNCHANGED <<jobs, cjobs>> /\ target' = NoConfig
        /\ bmps' = [c \in DOMAIN bmps |->
             IF bmps[c].stop = "due" THEN [bmps[c] EXCEPT !.stop = "no"] ELSE bmps[c]]
    BY <1>3 DEF UpdateFails, RemoveReleasedJob
  <2>2. ASSUME NEW c \in DOMAIN bmps
        PROVE  /\ bmps'[c] \in BmpType /\ bmps'[c].queue = bmps[c].queue
               /\ bmps'[c].result = bmps[c].result
    <3>1. bmps[c] \in BmpType
      BY <1>0 DEF BmpTable
    <3> QED BY <2>1, <3>1 DEF BmpType
  <2>3. DOMAIN bmps' = DOMAIN bmps /\ bmps' = [c \in DOMAIN bmps' |-> bmps'[c]]
    BY <2>1
  <2>4. RoomForNew'
    BY <2>1 DEF RoomForNew
  <2>5. ASSUME NEW c \in DOMAIN bmps'
        PROVE  /\ bmps'[c] \in BmpType
               /\ bmps'[c].result # "none" => bmps'[c].queue # <<>>
               /\ c \in DOMAIN bmps /\ bmps'[c].queue = bmps[c].queue
    BY <1>0, <2>2, <2>3 DEF BmpTable
  <2>6. DOMAIN bmps' \subseteq BmpId
    BY <1>0, <2>3 DEF BmpTable
  <2>7. UNCHANGED <<jobs, cjobs>>
    BY <2>1
  <2> QED BY <2>3, <2>4, <2>5, <2>6, <2>7, RelabelledStep
<1>4. ASSUME NEW m \in Machine, UpdateRemovesMachine(m)
      PROVE  StepKept
  <2>1. /\ UNCHANGED <<jobs, cjobs, target>>
        /\ bmps' = [c \in DOMAIN bmps |->
             IF bmps[c].machine = m
             THEN [bmps[c] EXCEPT !.machine = NoMachine, !.stop = "due"]
             ELSE bmps[c]]
    BY <1>4 DEF UpdateRemovesMachine, RemoveMachine
  <2>2. ASSUME NEW c \in DOMAIN bmps
        PROVE  /\ bmps'[c] \in BmpType /\ bmps'[c].queue = bmps[c].queue
               /\ bmps'[c].result = bmps[c].result
    <3>1. bmps[c] \in BmpType
      BY <1>0 DEF BmpTable
    <3> QED BY <2>1, <3>1 DEF BmpType
  <2>3. DOMAIN bmps' = DOMAIN bmps /\ bmps' = [c \in DOMAIN bmps' |-> bmps'[c]]
    BY <2>1
  <2>4. RoomForNew'
    BY <2>1, <2>3, RoomKept DEF AInv
  <2>5. ASSUME NEW c \in DOMAIN bmps'
        PROVE  /\ bmps'[c] \in BmpType
               /\ bmps'[c].result # "none" => bmps'[c].queue # <<>>
               /\ c \in DOMAIN bmps /\ bmps'[c].queue = bmps[c].queue
    BY <1>0, <2>2, <2>3 DEF BmpTable
  <2>6. DOMAIN bmps' \subseteq BmpId
    BY <1>0, <2>3 DEF BmpTable
  <2>7. UNCHANGED <<jobs, cjobs>>
    BY <2>1
  <2> QED BY <2>3, <2>4, <2>5, <2>6, <2>7, RelabelledStep
<1> QED BY <1>1, <1>2, <1>3, <1>4, UpdateEndsStep DEF Update

-----------------------------------------------------------------------------
(* The theorem.                                                            *)

\* The threads the server starts with have nothing to do.
LEMMA NewThreadsTable ==
  ASSUME QTypeOK
  PROVE  BmpTable(NewThreads) /\ \A c \in DOMAIN NewThreads : NewThreads[c].queue = <<>>
<1> DEFINE gen == CHOOSE g \in Generation : TRUE
           Owner(f) == CHOOSE m \in DOMAIN machines : f \in FramesOf(machines[m].boards)
           used == UNION {FramesOf(machines[m].boards) : m \in DOMAIN machines}
<1>1. PICK b : b = NewThreads
  OBVIOUS
<1>2. b = [c \in used \X {gen} |-> NewBmp(Owner(c[1]), {})]
  BY <1>1 DEF NewThreads
<1>3. gen \in Generation
  BY LimitAssumption
<1>4. used \subseteq Frame
  BY FrameAssumption DEF QTypeOK, MachineType, FramesOf
<1>5. ASSUME NEW f \in used
      PROVE  Owner(f) \in Machine
  <2>1. \E m \in DOMAIN machines : f \in FramesOf(machines[m].boards)
    OBVIOUS
  <2> QED BY <2>1 DEF QTypeOK
<1> HIDE DEF gen, Owner, used
<1>6. DOMAIN b = used \X {gen} /\ b = [c \in DOMAIN b |-> b[c]]
  BY <1>2
<1>7. ASSUME NEW c \in DOMAIN b
      PROVE  b[c] \in BmpType /\ b[c].queue = <<>> /\ b[c].result = "none"
  <2>1. Owner(c[1]) \in Machine /\ b[c] = NewBmp(Owner(c[1]), {})
    BY <1>2, <1>5, <1>6
  <2> QED BY <2>1, NewBmpType
<1>8. BmpTable(b)
  BY <1>3, <1>4, <1>6, <1>7 DEF BmpTable, BmpId
<1> QED BY <1>1, <1>7, <1>8

LEMMA IdleServesNobody ==
  ASSUME NEW b, \A c \in DOMAIN b : b[c].queue = <<>>
  PROVE  Served(b) = {}
<1>1. \A c \in DOMAIN b : 1 .. Len(b[c].queue) = {}
  OBVIOUS
<1> QED BY <1>1, ServedMeans

LEMMA InitAInv == Init => AInv
<1> SUFFICES ASSUME Init
             PROVE  AInv
  OBVIOUS
<1>1. QInv
  BY QInitInv DEF Init
<1>2. DOMAIN jobs = {} /\ DOMAIN cjobs = {} /\ cjobs = [j \in {} |-> NewJob] /\ target = NoConfig
  BY DEF Init, QInit
<1>3. CJobsTyped /\ IdsUsed /\ JobsAgree /\ RoomForNew
  BY <1>2 DEF CJobsTyped, IdsUsed, JobsAgree, RoomForNew
<1>4. BmpTable(bmps) /\ \A c \in DOMAIN bmps : bmps[c].queue = <<>>
  BY <1>1, NewThreadsTable DEF Init, QInv
<1>5. ServedStarted
  BY <1>4, IdleServesNobody DEF ServedStarted
<1> QED BY <1>1, <1>3, <1>4, <1>5 DEF AInv

LEMMA NextAInv == AInv /\ [Next]_vars => AInv'
<1> SUFFICES ASSUME AInv, [Next]_vars
             PROVE  AInv'
  OBVIOUS
<1>1. [QNext]_qvars
  BY NextRefines DEF AInv, QInv
<1>2. QInv'
  BY <1>1, QNextInv DEF AInv
<1>3. /\ nextId \in Nat /\ nextId' \in Nat /\ nextId <= nextId'
      /\ IdsUsed'
      /\ \A j \in DOMAIN jobs' : Pending(j)' => j >= nextId \/ Pending(j)
  BY <1>1, JobsComeAndGo DEF AInv, QInv
<1>4. StepKept
  <2>1. CASE Next
    BY <2>1, UsersStep, LoopStep, SchedulerStep, UpdateStep, BmpStep DEF Next
  <2>2. CASE UNCHANGED vars
    BY <2>2, QuietStep DEF vars, cvars, qvars
  <2> QED BY <2>1, <2>2
<1>5. ServedStarted'
  <2>1. BmpTable(bmps)
    BY DEF AInv
  <2> SUFFICES ASSUME NEW j \in Served(bmps')
               PROVE  j < nextId' /\ (j \in DOMAIN jobs' => ~Pending(j)')
    BY DEF ServedStarted
  <2>2. CASE j \in Served(bmps)
    <3>1. j < nextId /\ (j \in DOMAIN jobs => ~Pending(j))
      BY <2>2 DEF AInv, ServedStarted
    <3>2. j \in JobId
      <4>1. PICK c \in DOMAIN bmps :
              \E i \in 1 .. Len(bmps[c].queue) : j = bmps[c].queue[i].job
        BY <2>2, ServedMeans
      <4>2. PICK i \in 1 .. Len(bmps[c].queue) : j = bmps[c].queue[i].job
        BY <4>1
      <4>3. bmps[c].queue \in Seq(RequestsType)
        BY <2>1, BmpRecord
      <4>4. bmps[c].queue[i] \in RequestsType
        BY <4>2, <4>3, ElementOfSeq
      <4> QED BY <4>2, <4>4 DEF RequestsType
    <3>3. j \in Nat
      BY <3>2, BoundAssumption DEF JobId
    <3>4. j \in DOMAIN jobs' => ~Pending(j)'
      BY <1>3, <3>1, <3>3 DEF Pending
    <3> QED BY <1>3, <3>1, <3>3, <3>4
  <2>3. CASE j \in DOMAIN jobs /\ (j \in DOMAIN jobs' => ~Pending(j)')
    <3>1. j < nextId /\ j \in Nat
      BY <2>3, BoundAssumption DEF AInv, IdsUsed, QInv, QTypeOK, JobId
    <3> QED BY <1>3, <2>3, <3>1
  <2> QED BY <1>4, <2>2, <2>3 DEF StepKept, NewServed
<1> QED BY <1>2, <1>3, <1>4, <1>5 DEF AInv, StepKept, Agreeing

LEMMA AInvHolds == Spec => []AInv
<1> QED BY InitAInv, NextAInv, PTL DEF Spec

\* However users, timeouts, BMP failures and updates of the machines interleave,
\* the controller and its JobQueue mean the same jobs with the same boards: no
\* callback between them (on_allocate, on_free, on_cancel) is lost or made twice.
THEOREM SameJobs == Spec => []JobsAgree
<1>1. AInv => JobsAgree
  BY DEF AInv
<1> QED BY <1>1, AInvHolds, PTL

=============================================================================
