----------------------------- MODULE Controller -----------------------------
(***************************************************************************)
(* The controller of spalloc_server (controller.py): it owns the jobs,     *)
(* drives the JobQueue under its lock, answers its callbacks by switching  *)
(* boards on and off, and learns from the BMP threads what became of the   *)
(* requests.                                                               *)
(*                                                                         *)
(* Every step of the scheduler is conjoined with the callback it makes, so *)
(* a step of this module is a step of JobQueue or leaves its state alone.  *)
(* An AsyncBMPController is seen here as the service it offers: a queue of *)
(* requests carried out one by one, each either wholly or not, with its    *)
(* outcome reported by a callback that needs the lock.                     *)
(***************************************************************************)
EXTENDS JobQueue

CONSTANTS
  Frame,       \* the frames of boards; each has a BMP of its own
  FrameOf,     \* the frame a board is in
  Generation,  \* tells apart the AsyncBMPControllers of one frame
  MaxRetired,  \* Controller.max_retired_jobs
  MaxPending   \* bound: users queue at most this many requests on a BMP

FramesOf(B) == {FrameOf[b] : b \in B}

\* Configuration.__new__ rejects two machines with a BMP in common.
ASSUME FrameAssumption ==
  /\ IsFiniteSet(Frame)
  /\ FrameOf \in [Board -> Frame]
  /\ \A c \in Config : \A m, n \in Names(c) :
       m # n => FramesOf(c.desc[m].boards) \cap FramesOf(c.desc[n].boards) = {}

ASSUME LimitAssumption ==
  /\ MaxRetired \in Nat /\ MaxPending \in Nat
  /\ Generation # {} /\ IsFiniteSet(Generation)

VARIABLES
  cjobs,            \* Controller._jobs: the queued and running jobs
  count,            \* bmp_requests_until_ready of each job
  retired,          \* _retired_jobs, the oldest first
  overdue,          \* the jobs whose keepalive_until has passed
  sweep,            \* the least job id destroy_timed_out_jobs may destroy, or 0
  changedJobs,      \* _changed_jobs
  changedMachines,  \* _changed_machines
  affected,         \* what the update under way will add to changedMachines
  bmps,             \* every AsyncBMPController whose thread still runs
  powered,          \* the boards that are switched on
  woken             \* on_background_state_change called, server not yet awake

cvars == <<cjobs, count, retired, overdue, sweep, changedJobs, changedMachines,
           affected, bmps, powered, woken>>

vars == <<qvars, cvars>>

NoDescription == [tags |-> {}, boards |-> {}, dead |-> {}]

\* An AsyncBMPController is known by its frame and a generation.
BmpId == Frame \X Generation

CJobType == [state : {"queued", "power", "ready"},
             power : {"none", "on", "off"},
             machine : Machine \cup {NoMachine},
             desc : Description,
             boards : SUBSET Board]

RequestsType == [job : JobId, on : BOOLEAN, boards : SUBSET Board]

\* "machine" is NoMachine once the controller has let go of it; "result" is
\* what became of the request at the head of the queue, if it was carried out;
\* "stop" is "due" when it is one of the shut_down_controllers of the update
\* under way, and "told" when its stop method was called.
BmpType == [machine : Machine \cup {NoMachine},
            queue   : Seq(RequestsType),
            result  : {"none", "ok", "failed"},
            stop    : {"no", "due", "told"},
            after   : SUBSET BmpId]

\* No thread holds the controller's lock.
Unlocked == LockFree /\ sweep = 0

-----------------------------------------------------------------------------
(* Helpers of the controller.                                              *)

\* Mutant: the thread of a new controller does not wait for the old ones.
NewBmp_NoWait(m, waits) == [machine |-> m, queue |-> <<>>, result |-> "none",
                            stop |-> "no", after |-> {}]

NewBmp(m, waits) == [machine |-> m, queue |-> <<>>, result |-> "none",
                     stop |-> "no", after |-> waits]

\* The BMPs of machine m that boards B are behind.
BmpsOf(m, B) ==
  {c \in DOMAIN bmps : bmps[c].machine = m /\ c[1] \in FramesOf(B)}

\* Mutant: a new request is put in front of those that wait.
Requested_InFront(m, j, B, on) ==
  [c \in DOMAIN bmps |->
     IF c \in BmpsOf(m, B)
     THEN [bmps[c] EXCEPT !.queue =
             <<[job |-> j, on |-> on, boards |-> {b \in B : FrameOf[b] = c[1]}]>> \o @]
     ELSE bmps[c]]

\* _set_job_power_and_links: one atomic request for each BMP concerned.
Requested(m, j, B, on) ==
  [c \in DOMAIN bmps |->
     IF c \in BmpsOf(m, B)
     THEN [bmps[c] EXCEPT !.queue =
             Append(@, [job |-> j, on |-> on,
                        boards |-> {b \in B : FrameOf[b] = c[1]}])]
     ELSE bmps[c]]

\* Mutant: one retired job less is remembered.
Retire_OffByOne(j) ==
  LET longer == Append(retired, j)
  IN  IF Len(longer) >= MaxRetired THEN Tail(longer) ELSE longer

\* _teardown_job retires the job, and forgets the one retired first when
\* there are too many.
Retire(j) ==
  LET longer == Append(retired, j)
  IN  IF Len(longer) > MaxRetired THEN Tail(longer) ELSE longer

IsRetired(j) == \E i \in 1 .. Len(retired) : retired[i] = j

\* Mutant: the job is retired and kept.
OnCancel_NotPopped(j) ==
  /\ cjobs' = cjobs
  /\ retired' = Retire(j)
  /\ changedJobs' = changedJobs \cup {j}
  /\ overdue' = overdue \ {j}

\* Mutant: a destroyed job may time out.
OnCancel_StillTimed(j) ==
  /\ cjobs' = Without(cjobs, j)
  /\ retired' = Retire(j)
  /\ changedJobs' = changedJobs \cup {j}
  /\ overdue' = overdue

\* _job_queue_on_cancel: job j never had boards.
OnCancel(j) ==
  /\ cjobs' = Without(cjobs, j)
  /\ retired' = Retire(j)
  /\ changedJobs' = changedJobs \cup {j}
  /\ overdue' = overdue \ {j}

\* Mutant: the machine is not among those that changed.
OnFree_Silent(j) == OnCancel(j) /\ UNCHANGED changedMachines

\* _job_queue_on_free, without the power requests.
OnFree(j) ==
  /\ OnCancel(j)
  /\ changedMachines' = changedMachines \cup {cjobs[j].machine}

\* Mutant: the requests still on their way are no longer counted.
PowerDown_Overwrites(j) ==
  /\ bmps' = Requested(cjobs[j].machine, j, cjobs[j].boards, FALSE)
  /\ count' = [count EXCEPT
       ![j] = Cardinality(BmpsOf(cjobs[j].machine, cjobs[j].boards))]

\* _teardown_job of a job with boards: they are switched off.
PowerDown(j) ==
  /\ bmps' = Requested(cjobs[j].machine, j, cjobs[j].boards, FALSE)
  /\ count' = [count EXCEPT
       ![j] = @ + Cardinality(BmpsOf(cjobs[j].machine, cjobs[j].boards))]

Described(m) == [tags |-> machines[m].tags, boards |-> machines[m].boards,
                 dead |-> machines[m].dead]

-----------------------------------------------------------------------------
(* What clients and the server's loop ask for.                             *)

NewJob == [state |-> "queued", power |-> "none", machine |-> NoMachine,
           desc |-> NoDescription, boards |-> {}]

\* create_job.
Create(r) ==
  /\ Unlocked
  /\ CreateJob(r)
  /\ cjobs' = With(cjobs, nextId, NewJob)
  /\ changedJobs' = changedJobs \cup {nextId}
  /\ UNCHANGED <<count, retired, overdue, sweep, changedMachines, affected,
                 bmps, powered, woken>>

\* create_job of a job that is cancelled before create_job returns its id.
CreateRejected(r) ==
  /\ Unlocked
  /\ RejectJob(r)
  /\ retired' = Retire(nextId)
  /\ changedJobs' = changedJobs \cup {nextId}
  /\ UNCHANGED <<cjobs, count, overdue, sweep, changedMachines, affected,
                 bmps, powered, woken>>

\* What destroy_job does, whoever calls it and why.
DestroyQueued(j) ==
  /\ CancelJob(j)
  /\ OnCancel(j)
  /\ UNCHANGED <<count, changedMachines, affected, bmps, powered, woken>>

DestroyRunning(j) ==
  /\ ReleaseJob(j)
  /\ OnFree(j)
  /\ PowerDown(j)
  /\ UNCHANGED <<affected, powered, woken>>

Destroy(j) ==
  /\ Unlocked
  /\ j \in DOMAIN cjobs
  /\ DestroyQueued(j) \/ DestroyRunning(j)
  /\ UNCHANGED sweep

\* power_on_job_boards and power_off_job_boards of a job with boards.
SetPower(j, on) ==
  /\ Unlocked
  /\ j \in DOMAIN cjobs
  /\ cjobs[j].boards # {}
  /\ LET mine == BmpsOf(cjobs[j].machine, cjobs[j].boards)
     IN  /\ \A c \in mine : Len(bmps[c].queue) < MaxPending  \* bound
         /\ count' = [count EXCEPT ![j] = @ + Cardinality(mine)]
  /\ bmps' = Requested(cjobs[j].machine, j, cjobs[j].boards, on)
  /\ cjobs' = [cjobs EXCEPT ![j].state = "power",
                            ![j].power = IF on THEN "on" ELSE "off"]
  /\ changedJobs' = changedJobs \cup {j}
  /\ overdue' = overdue \ {j}
  /\ UNCHANGED <<qvars, retired, sweep, changedMachines, affected, powered, woken>>

\* job_keepalive, which every other command about a job calls too.
Keepalive(j) ==
  /\ Unlocked
  /\ j \in overdue
  /\ overdue' = overdue \ {j}
  /\ UNCHANGED <<qvars, cjobs, count, retired, sweep, changedJobs,
                 changedMachines, affected, bmps, powered, woken>>

\* The keepalive of job j runs out.  destroy_timed_out_jobs compares with the
\* time at which it began.
Lapse(j) ==
  /\ sweep = 0
  /\ j \in DOMAIN cjobs \ overdue
  /\ overdue' = overdue \cup {j}
  /\ UNCHANGED <<qvars, cjobs, count, retired, sweep, changedJobs,
                 changedMachines, affected, bmps, powered, woken>>

\* destroy_timed_out_jobs: look at every job in turn.  Destroying one may
\* start another, whose keepalive is reset by that before its turn comes.
StartSweep ==
  /\ Unlocked
  /\ overdue # {}
  /\ sweep' = 1
  /\ UNCHANGED <<qvars, cjobs, count, retired, overdue, changedJobs,
                 changedMachines, affected, bmps, powered, woken>>

SweepJob(j) ==
  /\ sweep \in 1 .. j
  /\ j \in overdue
  /\ \A k \in overdue : k < j => k < sweep
  /\ DestroyQueued(j) \/ DestroyRunning(j)
  /\ sweep' = j + 1

EndSweep ==
  /\ LockFree
  /\ sweep > 0
  /\ \A j \in overdue : j < sweep
  /\ sweep' = 0
  /\ UNCHANGED <<qvars, cjobs, count, retired, overdue, changedJobs,
                 changedMachines, affected, bmps, powered, woken>>

\* check_free.
CollectFreed == Unlocked /\ CheckFree /\ UNCHANGED cvars

\* The server, woken up, reads changed_jobs and changed_machines, which
\* clears them, to notify its clients.
ReadChanges ==
  /\ Unlocked
  /\ changedJobs \cup changedMachines # {} \/ woken
  /\ changedJobs' = {}
  /\ changedMachines' = {}
  /\ woken' = FALSE
  /\ UNCHANGED <<qvars, cjobs, count, retired, overdue, sweep, affected, bmps, powered>>

-----------------------------------------------------------------------------
(* The scheduler's loops, with the callbacks they make.                    *)

\* _job_queue_on_allocate: the job gets its boards and they are switched on,
\* which counts as a sign of life of its owner.
Allocate(m, j, p) ==
  /\ StartJob(m, j, p)
  /\ cjobs' = [cjobs EXCEPT ![j] =
       [state |-> "power", power |-> "on", machine |-> m,
        desc |-> Described(m), boards |-> p]]
  /\ bmps' = Requested(m, j, p, TRUE)
  /\ count' = [count EXCEPT ![j] = @ + Cardinality(BmpsOf(m, p))]
  /\ changedJobs' = changedJobs \cup {j}
  /\ changedMachines' = changedMachines \cup {m}
  /\ overdue' = overdue \ {j}
  /\ UNCHANGED <<retired, sweep, affected, powered, woken>>

Schedule ==
  \/ /\ \E m \in Machine : SkipMachine(m) \/ FindEmpty(m) \/ FindBlocked(m)
     /\ UNCHANGED cvars
  \/ \E m \in Machine, j \in JobId : \E p \in SUBSET Board : Allocate(m, j, p)
  \/ EndPass /\ UNCHANGED cvars

\* A queued job that no machine suits any more is cancelled.  If that ends the
\* update with an exception, changed_machines does not hear of the update.
CancelUnsuitable(j) ==
  /\ VisitUnsuitable(j)
  /\ OnCancel(j)
  /\ affected' = IF regen' = 0 THEN {} ELSE affected
  /\ UNCHANGED <<count, sweep, changedMachines, bmps, powered, woken>>

\* The machines setter returns.
EndUpdate ==
  /\ EndRegen
  /\ changedMachines' = changedMachines \cup affected
  /\ affected' = {}
  /\ UNCHANGED <<cjobs, count, retired, overdue, sweep, changedJobs, bmps,
                 powered, woken>>

Regenerate ==
  \/ /\ \E j \in JobId : VisitStarted(j) \/ VisitPending(j)
     /\ UNCHANGED cvars
  \/ \E j \in JobId : CancelUnsuitable(j)
  \/ EndUpdate

-----------------------------------------------------------------------------
(* The BMP threads.                                                        *)

\* Thread c, once the BMPs it took over from are gone, works on the request at
\* the head of its queue.
AtWork(c) ==
  /\ c \in DOMAIN bmps
  /\ bmps[c].after = {}
  /\ bmps[c].queue # <<>>
  /\ bmps[c].result = "none"

Switched(c, B) ==
  LET r == Head(bmps[c].queue)
  IN  IF r.on THEN powered \cup (B \cap r.boards) ELSE powered \ (B \cap r.boards)

\* It has switched some of the boards in one of its tries.
Switch(c) ==
  /\ AtWork(c)
  /\ \E B \in SUBSET Head(bmps[c].queue).boards : powered' = Switched(c, B)
  /\ UNCHANGED <<qvars, cjobs, count, retired, overdue, sweep, changedJobs,
                 changedMachines, affected, bmps, woken>>

\* It has carried the request out ...
Succeed(c) ==
  /\ AtWork(c)
  /\ bmps' = [bmps EXCEPT ![c].result = "ok"]
  /\ powered' = Switched(c, Board)
  /\ UNCHANGED <<qvars, cjobs, count, retired, overdue, sweep, changedJobs,
                 changedMachines, affected, woken>>

\* ... or given up after its last try.
Fail(c) ==
  /\ AtWork(c)
  /\ bmps' = [bmps EXCEPT ![c].result = "failed"]
  /\ UNCHANGED <<qvars, cjobs, count, retired, overdue, sweep, changedJobs,
                 changedMachines, affected, powered, woken>>

\* Thread c calls _bmp_on_request_complete, which waits for the lock.
Reports(c) ==
  /\ Unlocked
  /\ c \in DOMAIN bmps
  /\ bmps[c].result # "none"

JobOf(c) == Head(bmps[c].queue).job

Finished(c) ==
  [bmps EXCEPT ![c].queue = Tail(@), ![c].result = "none"]

CountDown(c) == [count EXCEPT ![JobOf(c)] = @ - 1]

\* Mutant: every report counts as the last one of its job.
LastReport_Early(c) == count[JobOf(c)] >= 1

\* After this report the count of the job is zero.
LastReport(c) == count[JobOf(c)] = 1

\* A request failed: the job it was for is destroyed, which queues further
\* requests, so its count does not reach zero here.
ReportFailure(c) ==
  /\ Reports(c)
  /\ bmps[c].result = "failed"
  /\ JobOf(c) \in DOMAIN cjobs
  /\ LET j == JobOf(c)
         mine == BmpsOf(cjobs[j].machine, cjobs[j].boards)
         down == Requested(cjobs[j].machine, j, cjobs[j].boards, FALSE)
     IN  /\ ReleaseJob(j)
         /\ OnFree(j)
         /\ bmps' = [down EXCEPT ![c].queue = Tail(@), ![c].result = "none"]
         /\ count' = [count EXCEPT ![j] = @ + Cardinality(mine) - 1]
  /\ UNCHANGED <<sweep, affected, powered, woken>>

\* Otherwise (a failure for a job already destroyed changes nothing else) the
\* count goes down, and it is not the last request of the job...
ReportProgress(c) ==
  /\ Reports(c)
  /\ bmps[c].result = "ok" \/ JobOf(c) \notin DOMAIN cjobs
  /\ ~LastReport(c)
  /\ bmps' = Finished(c)
  /\ count' = CountDown(c)
  /\ UNCHANGED <<qvars, cjobs, retired, overdue, sweep, changedJobs,
                 changedMachines, affected, powered, woken>>

\* ... or it is the last one, and the job is ready ...
ReportReady(c) ==
  /\ Reports(c)
  /\ bmps[c].result = "ok"
  /\ JobOf(c) \in DOMAIN cjobs
  /\ LastReport(c)
  /\ bmps' = Finished(c)
  /\ count' = CountDown(c)
  /\ cjobs' = [cjobs EXCEPT ![JobOf(c)].state = "ready"]
  /\ changedJobs' = changedJobs \cup {JobOf(c)}
  /\ woken' = TRUE
  /\ UNCHANGED <<qvars, retired, overdue, sweep, changedMachines, affected, powered>>

\* ... or it was destroyed, and its boards can be given back ...
ReportFreed(c) ==
  /\ Reports(c)
  /\ LastReport(c)
  /\ IsRetired(JobOf(c))
  /\ Free(JobOf(c))
  /\ bmps' = Finished(c)
  /\ count' = CountDown(c)
  /\ UNCHANGED <<cjobs, retired, overdue, sweep, changedJobs, changedMachines,
                 affected, powered, woken>>

\* ... unless they were when its machine was removed, or it has been retired
\* so long that the controller has forgotten it.
ReportForgotten(c) ==
  /\ Reports(c)
  /\ JobOf(c) \notin DOMAIN cjobs
  /\ LastReport(c)
  /\ ~IsRetired(JobOf(c)) \/ JobOf(c) \notin DOMAIN jobs
  /\ bmps' = Finished(c)
  /\ count' = CountDown(c)
  /\ UNCHANGED <<qvars, cjobs, retired, overdue, sweep, changedJobs,
                 changedMachines, affected, powered, woken>>

\* A thread told to stop ends when it has nothing left to do.
ThreadEnds(c) ==
  /\ c \in DOMAIN bmps
  /\ bmps[c].stop = "told"
  /\ bmps[c].after = {}
  /\ bmps[c].queue = <<>>
  /\ bmps' = [d \in DOMAIN bmps \ {c} |-> [bmps[d] EXCEPT !.after = @ \ {c}]]
  /\ UNCHANGED <<qvars, cjobs, count, retired, overdue, sweep, changedJobs,
                 changedMachines, affected, powered, woken>>

BmpThread(c) ==
  \/ Switch(c) \/ Succeed(c) \/ Fail(c)
  \/ ReportFailure(c) \/ ReportProgress(c) \/ ReportReady(c)
  \/ ReportFreed(c) \/ ReportForgotten(c)
  \/ ThreadEnds(c)

-----------------------------------------------------------------------------
(* The machines setter.                                                    *)

Unused(f) == {g \in Generation : <<f, g>> \notin DOMAIN bmps}

BeginUpdate(c) ==
  /\ Unlocked
  /\ \A f \in Frame : Unused(f) # {}  \* bound
  /\ StartUpdate(c)
  /\ affected' = Removed(c) \cup {m \in Names(c) :
                    m \notin DOMAIN machines \/ c.desc[m] # Described(m)}
  /\ UNCHANGED <<cjobs, count, retired, overdue, sweep, changedJobs,
                 changedMachines, bmps, powered, woken>>

UpdateRemovesJob(j) ==
  /\ RemoveJob(j)
  /\ OnFree(j)
  /\ PowerDown(j)
  /\ UNCHANGED <<sweep, affected, powered, woken>>

\* The setter is left with an exception: the shut_down_controllers it had
\* collected are not stopped, nor will they ever be.
UpdateFails(j) ==
  /\ RemoveReleasedJob(j)
  /\ affected' = {}
  /\ bmps' = [c \in DOMAIN bmps |->
       IF bmps[c].stop = "due" THEN [bmps[c] EXCEPT !.stop = "no"] ELSE bmps[c]]
  /\ UNCHANGED <<cjobs, count, retired, overdue, sweep, changedJobs,
                 changedMachines, powered, woken>>

\* The machine is popped from _machines and _bmp_controllers.
UpdateRemovesMachine(m) ==
  /\ RemoveMachine(m)
  /\ bmps' = [c \in DOMAIN bmps |->
       IF bmps[c].machine = m
       THEN [bmps[c] EXCEPT !.machine = NoMachine, !.stop = "due"]
       ELSE bmps[c]]
  /\ UNCHANGED <<cjobs, count, retired, overdue, sweep, changedJobs,
                 changedMachines, affected, powered, woken>>

\* The controllers let go of are stopped, and those of the new machines start
\* by waiting for them.
UpdateEnds ==
  /\ FinishUpdate
  /\ LET old == {c \in DOMAIN bmps : bmps[c].stop = "due"}
         new == {m \in Names(target) : m \notin DOMAIN machines}
         Fresh(f) == <<f, CHOOSE g \in Generation : g \in Unused(f)>>
         Started(m) == {Fresh(f) : f \in FramesOf(target.desc[m].boards)}
         Owner(c) == CHOOSE m \in new : c \in Started(m)
     IN  bmps' = [c \in DOMAIN bmps \cup (UNION {Started(m) : m \in new}) |->
           CASE c \notin DOMAIN bmps -> NewBmp(Owner(c), old)
             [] c \in old -> [bmps[c] EXCEPT !.stop = "told"]
             [] OTHER -> bmps[c]]
  /\ UNCHANGED <<cjobs, count, retired, overdue, sweep, changedJobs,
                 changedMachines, affected, powered, woken>>

Update ==
  \/ \E c \in Config : BeginUpdate(c)
  \/ \E j \in JobId : UpdateRemovesJob(j) \/ UpdateFails(j)
  \/ \E m \in Machine : UpdateRemovesMachine(m)
  \/ UpdateEnds

-----------------------------------------------------------------------------

\* _create_machine_bmp_controllers, for each machine in service.
NewThreads ==
  LET g == CHOOSE g \in Generation : TRUE
      Owner(f) == CHOOSE m \in DOMAIN machines : f \in FramesOf(machines[m].boards)
      used == UNION {FramesOf(machines[m].boards) : m \in DOMAIN machines}
  IN  [c \in used \X {g} |-> NewBmp(Owner(c[1]), {})]

\* A server started with one of the configurations and no saved state.
Init ==
  /\ QInit
  /\ cjobs = [j \in {} |-> NewJob]
  /\ count = [j \in JobId |-> 0]
  /\ retired = <<>>
  /\ overdue = {}
  /\ sweep = 0
  /\ changedJobs = {}
  /\ changedMachines = DOMAIN machines
  /\ affected = {}
  /\ bmps = NewThreads
  /\ powered = {}
  /\ woken = FALSE

Users ==
  \/ \E r \in Request : Create(r) \/ CreateRejected(r)
  \/ \E j \in JobId : Destroy(j) \/ Keepalive(j) \/ Lapse(j)

Power == \E j \in JobId : \E on \in BOOLEAN : SetPower(j, on)

ServerLoop ==
  \/ StartSweep \/ (\E j \in JobId : SweepJob(j)) \/ EndSweep
  \/ CollectFreed
  \/ ReadChanges

Delay == (\E m \in Machine : TimePasses(m)) /\ UNCHANGED cvars

Next ==
  \/ Users \/ Power
  \/ ServerLoop
  \/ Delay
  \/ Schedule
  \/ Regenerate
  \/ Update
  \/ \E c \in BmpId : BmpThread(c)

Spec == Init /\ [][Next]_vars

-----------------------------------------------------------------------------
(* Properties.                                                             *)

\* Every variable of the controller holds what its comment says.
TypeOK ==
  /\ DOMAIN cjobs \subseteq JobId
  /\ cjobs \in [DOMAIN cjobs -> CJobType]
  /\ count \in [JobId -> Nat]
  /\ retired \in Seq(JobId)
  /\ Len(retired) <= MaxRetired
  /\ overdue \subseteq DOMAIN cjobs
  /\ sweep \in Nat
  /\ changedJobs \subseteq JobId
  /\ changedMachines \subseteq Machine
  /\ affected \subseteq Machine
  /\ DOMAIN bmps \subseteq BmpId
  /\ bmps \in [DOMAIN bmps -> BmpType]
  /\ powered \subseteq Board
  /\ woken \in BOOLEAN

\* The controller and its JobQueue always mean the same jobs: a job the
\* controller knows is queued, or running with the same boards, in the other;
\* whatever else the JobQueue keeps is waiting for its boards to be freed.
JobsAgree ==
  /\ DOMAIN cjobs = {j \in DOMAIN jobs : jobs[j].state # "released"}
  /\ \A j \in DOMAIN cjobs :
       /\ cjobs[j].machine = jobs[j].machine
       /\ cjobs[j].boards = jobs[j].boards
       /\ cjobs[j].state = "queued" <=> jobs[j].state = "pending"

Outstanding(j) ==
  {ci \in UNION {{c} \X (1 .. Len(bmps[c].queue)) : c \in DOMAIN bmps} :
     bmps[ci[1]].queue[ci[2]].job = j}

\* bmp_requests_until_ready counts exactly the requests of a job that BMPs
\* have yet to report on, through power cycles, failures, destruction and the
\* removal of its machine.
CountsRequests ==
  \A j \in JobId : count[j] = Cardinality(Outstanding(j))

\* A job that is ready has its boards in the state that was last asked for:
\* no request of an earlier user, or of an earlier moment, overtook that one.
ReadyMeansPowered ==
  \A j \in DOMAIN cjobs : cjobs[j].state = "ready" =>
    \A b \in cjobs[j].boards : b \in powered <=> cjobs[j].power = "on"

\* Of all that a BMP of a machine in service has still to do to a board of a job,
\* the last is what that job asked for: whatever an earlier user's destruction,
\* or an earlier power command, has left in the queue is undone before the job is
\* told that it is ready.
OwnerHasLastWord ==
  \A j \in DOMAIN cjobs, c \in DOMAIN bmps :
    cjobs[j].state # "queued" /\ bmps[c].machine = cjobs[j].machine =>
      \A b \in cjobs[j].boards : \A i \in 1 .. Len(bmps[c].queue) :
        b \in bmps[c].queue[i].boards =>
          \E k \in i .. Len(bmps[c].queue) :
            /\ bmps[c].queue[k].job = j
            /\ b \in bmps[c].queue[k].boards
            /\ bmps[c].queue[k].on = (cjobs[j].power = "on")
            /\ \A n \in k + 1 .. Len(bmps[c].queue) :
                 b \notin bmps[c].queue[n].boards

\* "All new BMPControllers must wait for all the old controllers to shut-down
\* first": no two threads are ever free to command the same frame.
OneMasterPerFrame ==
  \A c, d \in DOMAIN bmps :
    c[1] = d[1] /\ bmps[c].after = {} /\ bmps[d].after = {} => c = d

\* The setter "blocks while any removed machine's BMP controllers are shut down.
\* This helps prevent collisions e.g. when renaming a machine": a thread of a
\* machine in service does nothing while one of a removed machine, in the same
\* frame, still has something to do.
RemovedShutDownFirst ==
  \A c, d \in DOMAIN bmps :
    c[1] = d[1] /\ bmps[c].machine = NoMachine /\ bmps[d].machine # NoMachine
      => bmps[d].after # {}

\* A destroyed job that has not been freed is still known to be retired and
\* has a request on its way, the report of which will free its boards.
ReleasedWillBeFreed ==
  \A j \in DOMAIN jobs : jobs[j].state = "released" => IsRetired(j) /\ count[j] > 0

\* What a client can see of a job.
View(j) ==
  IF j \in DOMAIN cjobs
  THEN [state |-> cjobs[j].state, power |-> cjobs[j].power, boards |-> cjobs[j].boards]
  ELSE [state |-> "none", power |-> "none", boards |-> {}]

\* Whatever changes in a job, and whatever thread changes it, the job is in
\* changed_jobs when the lock is released; and the machine, when a job got
\* boards on it or lost them.
ChangesReported ==
  [][\A j \in JobId : View(j)' # View(j) =>
       /\ j \in changedJobs'
       /\ View(j)'.boards # View(j).boards =>
            (IF j \in DOMAIN cjobs' THEN cjobs'[j].machine ELSE cjobs[j].machine)
              \in changedMachines']_vars

\* "When a job is destroyed this releases any resources consumed by the job":
\* its boards are given back, however its BMP requests turn out.
DestroyedIsFreed ==
  \A j \in JobId :
    (j \in DOMAIN jobs /\ jobs[j].state = "released") ~> (j \notin DOMAIN jobs)

\* A job whose boards are being switched becomes ready or is destroyed, unless
\* its user switches them again and again.
PowerSettles ==
  <>[][~Power]_vars =>
    \A j \in JobId :
      (j \in DOMAIN cjobs /\ cjobs[j].state = "power") ~>
        (j \notin DOMAIN cjobs \/ cjobs[j].state # "power")
=============================================================================
