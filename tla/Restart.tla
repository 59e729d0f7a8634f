------------------------------ MODULE Restart ------------------------------
(***************************************************************************)
(* The controller stopped with its server and started again.  When the     *)
(* server's thread has ended, each BMP thread is told to stop once it has  *)
(* nothing left to do; when they have ended, the controller is pickled,    *)
(* and a later server unpickles it and gives it new BMP threads.           *)
(*                                                                         *)
(* The threads keep reporting to the controller meanwhile, and a report    *)
(* may ask for further requests.  An AsyncBMPController told to stop       *)
(* refuses them with an AssertionError, in the middle of what the          *)
(* controller was doing, which in the end ends the thread that reported.   *)
(***************************************************************************)
EXTENDS Controller

VARIABLES
  phase,   \* the server is up, stopping, or down with its state saved
  over,    \* the threads of machines in service that have ended
  dying,   \* those in which an exception is on its way
  caller,  \* the thread in a callback that holds the lock, and its failed job
  lost     \* some thread has ended with an exception

rvars == <<phase, over, dying, caller, lost>>

InService(c) == bmps[c].machine # NoMachine

Refuses(c) == bmps[c].stop = "told"

NoneRefuses(C) == \A c \in C : ~Refuses(c)

-----------------------------------------------------------------------------
(* Going down.                                                             *)

\* stop_and_join: the server's thread has ended.
StopServer ==
  /\ phase = "up"
  /\ Unlocked
  /\ phase' = "stopping"
  /\ UNCHANGED <<vars, over, dying, caller, lost>>

\* Mutant: only the threads that have something to do are told.
StopBmp_BusyOnly(c) ==
  /\ phase = "stopping"
  /\ c \in DOMAIN bmps
  /\ InService(c)
  /\ bmps[c].stop = "no" /\ bmps[c].queue # <<>>
  /\ bmps' = [bmps EXCEPT ![c].stop = "told"]
  /\ UNCHANGED <<qvars, cjobs, count, retired, overdue, sweep, changedJobs,
                 changedMachines, affected, powered, woken, rvars>>

\* Controller.stop takes no lock: it may be half done when a thread reports.
StopBmp(c) ==
  /\ phase = "stopping"
  /\ c \in DOMAIN bmps
  /\ InService(c)
  /\ bmps[c].stop = "no"
  /\ bmps' = [bmps EXCEPT ![c].stop = "told"]
  /\ UNCHANGED <<qvars, cjobs, count, retired, overdue, sweep, changedJobs,
                 changedMachines, affected, powered, woken, rvars>>

\* Mutant: a thread told to stop leaves what is in its queue.
Ends_AtOnce(c) ==
  /\ InService(c)
  /\ Refuses(c)
  /\ bmps[c].after = {}
  /\ over' = over \cup {c}
  /\ UNCHANGED <<vars, phase, dying, caller, lost>>

\* A thread in service that was told to stop has nothing left to do.
Ends(c) ==
  /\ InService(c)
  /\ Refuses(c)
  /\ bmps[c].after = {}
  /\ bmps[c].queue = <<>>
  /\ over' = over \cup {c}
  /\ UNCHANGED <<vars, phase, dying, caller, lost>>

\* Mutant: the threads are not waited for.
SaveState_NoJoin ==
  /\ phase = "stopping"
  /\ Unlocked
  /\ \A c \in DOMAIN bmps : InService(c) => Refuses(c)
  /\ phase' = "down"
  /\ UNCHANGED <<vars, over, dying, caller, lost>>

\* Controller.join has returned, and the controller is pickled.
SaveState ==
  /\ phase = "stopping"
  /\ Unlocked
  /\ \A c \in DOMAIN bmps : InService(c) => c \in over
  /\ phase' = "down"
  /\ UNCHANGED <<vars, over, dying, caller, lost>>

-----------------------------------------------------------------------------
(* Reports, while going down, for which requests would have to be added.   *)

\* Requests for boards B of job j on machine m are added up to the first that
\* is refused; their number was added to the count before.
PartlyRequested(m, j, B, on) ==
  {[c \in DOMAIN bmps |-> IF c \in S THEN Requested(m, j, B, on)[c] ELSE bmps[c]] :
     S \in SUBSET {c \in BmpsOf(m, B) : ~Refuses(c)}}

Raises(c) ==
  /\ dying' = dying \cup {c}
  /\ caller' = <<>>
  /\ lost' = TRUE
  /\ UNCHANGED <<phase, over>>

\* The exception ends the thread, which marks it as stopped; what is left in its
\* queue is never done.  Threads that wait for it to end need wait no longer.
ThreadDies(c) ==
  /\ c \in dying
  /\ dying' = dying \ {c}
  /\ over' = IF InService(c) THEN over \cup {c} ELSE over
  /\ LET left == IF InService(c) THEN [bmps EXCEPT ![c].stop = "told"]
                                 ELSE Without(bmps, c)
     IN  bmps' = [d \in DOMAIN left |-> [left[d] EXCEPT !.after = @ \ {c}]]
  /\ UNCHANGED <<qvars, cjobs, count, retired, overdue, sweep, changedJobs,
                 changedMachines, affected, powered, woken, phase, caller, lost>>

\* A request failed, and the boards of the job it was for cannot all be switched
\* off: destroy_job ends half done, before the count goes down.
ReportFailureRaises(c) ==
  /\ Reports(c)
  /\ bmps[c].result = "failed"
  /\ JobOf(c) \in DOMAIN cjobs
  /\ LET j == JobOf(c)
         mine == BmpsOf(cjobs[j].machine, cjobs[j].boards)
     IN  /\ j \in DOMAIN jobs
         /\ jobs[j].state = "running"
         /\ ~NoneRefuses(mine)
         /\ jobs' = [jobs EXCEPT ![j].state = "released"]
         /\ OnFree(j)
         /\ count' = [count EXCEPT ![j] = @ + Cardinality(mine)]
         /\ \E partly \in PartlyRequested(cjobs[j].machine, j, cjobs[j].boards, FALSE) :
              bmps' = [partly EXCEPT ![c].queue = Tail(@), ![c].result = "none"]
  /\ Raises(c)
  /\ UNCHANGED <<order, machines, nextId, scan, regen, leaving, target, fault,
                 sweep, affected, powered, woken>>

\* Freeing or destroying a job has made room for job j, but its boards cannot all
\* be switched on: _process_queue ends half done.  A thread that reported a
\* success tries the request again and reports again, to find that the count
\* would become negative; after a failure the count has not gone down yet.
AllocateRaises(m, j, p) ==
  LET mine == BmpsOf(m, p)
      More(k) == (IF k = j THEN Cardinality(mine) ELSE 0)
                   + (IF k = caller[1].failed THEN 1 ELSE 0)
  IN  /\ Scanning(m)
      /\ ~NoneRefuses(mine)
      /\ TakeBoards(m, j, p, 0)
      /\ scan' = Idle
      /\ cjobs' = [cjobs EXCEPT ![j].machine = m, ![j].desc = Described(m),
                                ![j].boards = p]
      /\ count' = [k \in JobId |-> count[k] + More(k)]
      /\ bmps' \in PartlyRequested(m, j, p, TRUE)
      /\ changedJobs' = changedJobs \cup {j}
      /\ changedMachines' = changedMachines \cup {m}
      /\ overdue' = overdue \ {j}
      /\ Raises(caller[1].bmp)
      /\ UNCHANGED <<order, nextId, regen, leaving, target, fault, retired, sweep,
                     affected, powered, woken>>

-----------------------------------------------------------------------------
(* The threads and the scheduler while going down.                         *)

\* Thread c is in a callback, and may have started _process_queue; "failed" is
\* the job whose failed request it reports, or 0.
Calls(c, failed) ==
  /\ caller' = <<[bmp |-> c, failed |-> failed]>>
  /\ UNCHANGED <<phase, over, dying, lost>>

FlushThread(c) ==
  /\ phase = "stopping"
  /\ c \in DOMAIN bmps \ (over \cup dying)
  /\ \/ /\ \/ Switch(c) \/ Succeed(c) \/ Fail(c)
           \/ ReportProgress(c) \/ ReportReady(c) \/ ReportForgotten(c)
           \/ ~InService(c) /\ ThreadEnds(c)
        /\ UNCHANGED rvars
     \/ ReportFreed(c) /\ Calls(c, 0)
     \/ /\ ReportFailure(c)
        /\ NoneRefuses(BmpsOf(cjobs[JobOf(c)].machine, cjobs[JobOf(c)].boards))
        /\ Calls(c, JobOf(c))
     \/ ReportFailureRaises(c)
     \/ Ends(c)

FlushSchedule ==
  /\ phase = "stopping"
  /\ \/ /\ \E m \in Machine : SkipMachine(m) \/ FindEmpty(m) \/ FindBlocked(m)
        /\ UNCHANGED <<cvars, rvars>>
     \/ \E m \in Machine, j \in JobId : \E p \in SUBSET Board :
          \/ Allocate(m, j, p) /\ NoneRefuses(BmpsOf(m, p)) /\ UNCHANGED rvars
          \/ AllocateRaises(m, j, p)
     \/ /\ EndPass
        /\ caller' = IF scan' = Idle THEN <<>> ELSE caller
        /\ UNCHANGED <<cvars, phase, over, dying, lost>>

-----------------------------------------------------------------------------
(* Coming up again.                                                        *)

\* Mutant: whatever was under way is taken to have been done.
WarmStart_AllReady ==
  /\ phase = "down"
  /\ \A c \in DOMAIN bmps \ over : ~Refuses(c)
  /\ phase' = "up"
  /\ bmps' = NewThreads
  /\ over' = {} /\ dying' = {}
  /\ count' = [j \in JobId |-> 0]
  /\ cjobs' = [j \in DOMAIN cjobs |->
       IF cjobs[j].boards # {} THEN [cjobs[j] EXCEPT !.state = "ready"] ELSE cjobs[j]]
  /\ overdue' = {}
  /\ woken' = FALSE
  /\ UNCHANGED <<qvars, retired, sweep, changedJobs, changedMachines,
                 affected, powered, caller, lost>>

\* __setstate__, in another process: every thread of the old one is gone, those
\* never told to stop included.  A job the controller has forgotten is no longer
\* counted for; all others start a new keepalive period.
WarmStart ==
  /\ phase = "down"
  /\ \A c \in DOMAIN bmps \ over : ~Refuses(c)
  /\ phase' = "up"
  /\ bmps' = NewThreads
  /\ over' = {} /\ dying' = {}
  /\ count' = [j \in JobId |-> IF j \in DOMAIN cjobs THEN count[j] ELSE 0]
  /\ overdue' = {}
  /\ woken' = FALSE
  /\ UNCHANGED <<qvars, cjobs, retired, sweep, changedJobs, changedMachines,
                 affected, powered, caller, lost>>

RInit ==
  /\ Init
  /\ phase = "up"
  /\ over = {} /\ dying = {}
  /\ caller = <<>>
  /\ lost = FALSE

Running(A) == phase = "up" /\ A /\ UNCHANGED rvars

Stopping ==
  \/ StopServer
  \/ \E c \in BmpId : StopBmp(c) \/ FlushThread(c) \/ ThreadDies(c)
  \/ FlushSchedule
  \/ phase # "up" /\ Delay /\ UNCHANGED rvars
  \/ SaveState

RNext == Running(Next) \/ Stopping \/ WarmStart

RSpec == RInit /\ [][RNext]_<<vars, rvars>>

\* The thread that holds the lock runs on; the BMP threads run, whatever becomes
\* of their requests; the server's loop turns and time passes; what has begun to
\* stop goes on.  Nothing is expected of users, and nobody need ever stop the
\* server or start it again.
RFairness ==
  LET v == <<vars, rvars>>
  IN  /\ WF_v(Running(Schedule)) /\ WF_v(FlushSchedule)
      /\ WF_v(Running(Regenerate))
      /\ WF_v(Running(EndSweep))
      /\ \A j \in JobId : WF_v(Running(SweepJob(j)))
      /\ \A j \in JobId : WF_v(Running(UpdateRemovesJob(j) \/ UpdateFails(j)))
      /\ \A m \in Machine : WF_v(Running(UpdateRemovesMachine(m)))
      /\ WF_v(Running(UpdateEnds))
      /\ \A c \in BmpId : /\ SF_v(Running(BmpThread(c)))
                          /\ SF_v(FlushThread(c))
                          /\ WF_v(StopBmp(c)) /\ WF_v(ThreadDies(c))
      /\ SF_v(Running(CollectFreed))
      /\ SF_v(Running(StartSweep))
      /\ WF_v(Delay /\ UNCHANGED rvars)
      /\ WF_v(SaveState)

RFairSpec == RSpec /\ RFairness

-----------------------------------------------------------------------------
(* Properties.                                                             *)

\* "Completing any outstanding board power-management commands and saving its
\* state to disk": unless an exception ends a thread on the way, every request
\* is done and counted for, and none of it is forgotten by the server that comes
\* after (Controller.stop, join, __setstate__).
FlushLosesNothing ==
  ~lost => /\ JobsAgree /\ CountsRequests /\ ReleasedWillBeFreed
           /\ phase = "down" => \A c \in over : bmps[c].queue = <<>>

\* However the flush went, and whatever was lost in it, the server that comes
\* after gives no board to two jobs, and calls no job ready whose boards are not
\* as asked.
RestartIsSafe == BoardExclusive /\ ReadyMeansPowered

\* "Operation may continue as if the server had never been shut-down": the
\* boards of a destroyed job will be given back.
OperationContinues == phase = "up" => ReleasedWillBeFreed

\* The server stops when it is told to, whatever the BMPs do.
StopEnds == (phase = "stopping") ~> (phase = "down")

\* Unless a thread was lost, the boards of a destroyed job are given back ...
ServiceFrees == [](~lost) => DestroyedIsFreed

\* ... and a job whose boards are being switched comes to be ready, though the
\* server may be stopped and started again at any time.
ServicePowers == [](~lost) => PowerSettles
=============================================================================
