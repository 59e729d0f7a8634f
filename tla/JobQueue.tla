------------------------------ MODULE JobQueue ------------------------------
(***************************************************************************)
(* The scheduler of spalloc_server (job_queue.py): jobs wait in the queues *)
(* of the machines that could run them, and the first machine to find room *)
(* for the job at the head of its queue runs it.                           *)
(*                                                                         *)
(* A JobQueue is only ever used with the lock of the Controller held, so a *)
(* method is atomic for every other thread.  The loops of _process_queue   *)
(* and _regenerate_queues and the machines setter that drives              *)
(* remove_machine run here one iteration per step, all under that lock:    *)
(* while one is under way (LockFree is false) nothing but its next         *)
(* iteration, or the passing of time, can happen.                          *)
(*                                                                         *)
(* The Allocator of a machine is abstracted to what the scheduler sees of  *)
(* it: a request lists the sets of boards that would satisfy it, alloc     *)
(* picks any of them whose boards are all working and unused, and a freed  *)
(* set of boards waits in "freeing" until seconds_before_free have passed  *)
(* (it is then ripe) and some call collects it.                            *)
(***************************************************************************)
EXTENDS Naturals, Sequences, FiniteSets

CONSTANTS
  Machine,    \* the names a machine may have
  NoMachine,  \* "no machine" (None)
  Board,      \* every board of every machine
  Tag,        \* the tags of machines and jobs
  Request,    \* what a job may ask for, see RequestType
  Config,     \* the lists of machines a configuration file may give
  NoConfig,   \* no update of the machines is under way
  MaxJob      \* bound: at most this many jobs are ever created

RequestType == [machine : Machine \cup {NoMachine},
                tags    : SUBSET Tag,
                places  : SUBSET (SUBSET Board)]

Description == [tags   : SUBSET Tag,
                boards : SUBSET Board,
                dead   : SUBSET Board]

\* The names of the machines of a configuration.
Names(c) == {c.order[i] : i \in 1 .. Len(c.order)}

ASSUME RequestAssumption ==
  /\ Request \subseteq RequestType
  /\ \A r \in Request : {} \notin r.places

\* Configuration.__new__ rejects two machines with one name and two
\* machines that share a BMP, hence a board.
ASSUME ConfigAssumption ==
  /\ NoConfig \notin Config
  /\ \A c \in Config :
       /\ c.order \in Seq(Machine)
       /\ c.desc \in [Names(c) -> Description]
       /\ \A i, k \in 1 .. Len(c.order) : c.order[i] = c.order[k] => i = k
       /\ \A m, n \in Names(c) :
            m # n => c.desc[m].boards \cap c.desc[n].boards = {}

ASSUME BoundAssumption == MaxJob \in Nat

ASSUME MachineAssumption == IsFiniteSet(Machine) /\ NoMachine \notin Machine

VARIABLES
  order,     \* the order of _machines
  machines,  \* JobQueue._machines: name -> _Machine and its allocator
  jobs,      \* JobQueue._jobs: id -> _Job
  nextId,    \* the id the caller gives to the next job
  scan,      \* the iteration _process_queue has reached
  regen,     \* the least job id _regenerate_queues has not visited, or 0
  leaving,   \* the machines the setter has still to remove
  target,    \* the configuration being installed, or NoConfig
  fault      \* the exception that ended the last update of the machines

qvars == <<order, machines, jobs, nextId, scan, regen, leaving, target, fault>>

JobId == 1 .. MaxJob

\* "running" is a job with boards; "released" one whose on_free callback has
\* been called and whose boards have not been given back yet.
JobType == [state   : {"pending", "running", "released"},
            req     : Request,
            machine : Machine \cup {NoMachine},
            boards  : SUBSET Board]

MachineType == [tags    : SUBSET Tag,
                boards  : SUBSET Board,
                dead    : SUBSET Board,
                freeing : Seq(SUBSET Board),
                ripe    : Nat,
                queue   : Seq(JobId)]

Idle == [at |-> 0, again |-> FALSE]
FirstPass == [at |-> 1, again |-> FALSE]

LockFree == scan = Idle /\ regen = 0 /\ target = NoConfig

-----------------------------------------------------------------------------
(* What the scheduler asks of machines and jobs.                           *)

Pending(j) == j \in DOMAIN jobs /\ jobs[j].state = "pending"

JobsOn(m) == {j \in DOMAIN jobs : jobs[j].machine = m}

\* The boards a delayed free holds back in machine m, from position i on.
HeldFrom(m, i) ==
  UNION {machines[m].freeing[k] : k \in i .. Len(machines[m].freeing)}

\* Mutant: the boards of a destroyed job are taken for free at once.
Unavailable_RunningOnly(m, i) ==
  HeldFrom(m, i) \cup
    (UNION {jobs[j].boards : j \in {k \in JobsOn(m) : jobs[k].state = "running"}})

\* The boards of m that jobs have or had too recently, i being the first
\* entry of the delayed frees that still counts.
Unavailable(m, i) ==
  HeldFrom(m, i) \cup (UNION {jobs[j].boards : j \in JobsOn(m)})

Working(m) == machines[m].boards \ machines[m].dead

\* Mutant: boards are given out again without waiting for seconds_before_free.
Placements_NoDelay(m, r) ==
  {p \in r.places :
     p \subseteq Working(m) \ Unavailable(m, Len(machines[m].freeing) + 1)}

\* Allocator.alloc: what it may return, having collected what is ripe.
Placements(m, r) ==
  {p \in r.places :
     p \subseteq Working(m) \ Unavailable(m, machines[m].ripe + 1)}

\* Allocator.alloc_possible: could an unused machine satisfy the request?
AllocPossible(m, r) == \E p \in r.places : p \subseteq Working(m)

\* The machines _enqueue_job adds a job to the queues of.
Suitable(r) ==
  {m \in DOMAIN machines :
     /\ IF r.machine # NoMachine THEN m = r.machine
                                 ELSE r.tags \subseteq machines[m].tags
     /\ AllocPossible(m, r)}

\* Mutant: any waiting job of a queue may be tried.
FirstPending_Any(q, k) == k \in 1 .. Len(q) /\ Pending(q[k])

\* The job at position k is the first of queue q that is still pending; the
\* ones before it were started on another machine or cancelled.
FirstPending(q, k) ==
  /\ k \in 1 .. Len(q)
  /\ Pending(q[k])
  /\ \A i \in 1 .. k - 1 : ~Pending(q[i])

\* A machine whose allocator has collected the boards that are ripe.
Collected(mach) ==
  [mach EXCEPT !.freeing = SubSeq(@, mach.ripe + 1, Len(@)), !.ripe = 0]

Without(f, x) == [y \in DOMAIN f \ {x} |-> f[y]]

With(f, x, v) == [y \in DOMAIN f \cup {x} |-> IF y = x THEN v ELSE f[y]]

\* Mutant: a job is queued on the first machine only.
Enqueued_First(j, r) ==
  [m \in DOMAIN machines |->
     IF m \in Suitable(r) /\ m = order[1]
     THEN [machines[m] EXCEPT !.queue = Append(@, j)]
     ELSE machines[m]]

\* Mutant: a job goes to the wrong end of the queues.
Enqueued_InFront(j, r) ==
  [m \in DOMAIN machines |->
     IF m \in Suitable(r)
     THEN [machines[m] EXCEPT !.queue = <<j>> \o @]
     ELSE machines[m]]

\* The machines with job j added to the queues of those that suit it.
Enqueued(j, r) ==
  [m \in DOMAIN machines |->
     IF m \in Suitable(r)
     THEN [machines[m] EXCEPT !.queue = Append(@, j)]
     ELSE machines[m]]

\* Mutant: what is to be freed is noted by the job's id.
Freed_ById(j) ==
  [machines EXCEPT ![jobs[j].machine].freeing = Append(@, {j})]

\* The machines once the boards of job j are on their way to being free.
Freed(j) ==
  [machines EXCEPT ![jobs[j].machine].freeing = Append(@, jobs[j].boards)]

Cleared == [m \in DOMAIN machines |-> [machines[m] EXCEPT !.queue = <<>>]]

-----------------------------------------------------------------------------
(* The callers' operations, each started with the lock free.               *)

CanCreate == LockFree /\ nextId \in JobId

\* create_job of a job some machine could run: queue it, then process.
CreateJob(r) ==
  /\ CanCreate
  /\ Suitable(r) # {}
  /\ jobs' = With(jobs, nextId, [state |-> "pending", req |-> r,
                                machine |-> NoMachine, boards |-> {}])
  /\ machines' = Enqueued(nextId, r)
  /\ nextId' = nextId + 1
  /\ scan' = FirstPass
  /\ UNCHANGED <<order, regen, leaving, target, fault>>

\* create_job of a job no machine could ever run: it is cancelled at once.
RejectJob(r) ==
  /\ CanCreate
  /\ Suitable(r) = {}
  /\ nextId' = nextId + 1
  /\ scan' = FirstPass
  /\ UNCHANGED <<order, machines, jobs, regen, leaving, target, fault>>

\* destroy_job of a queued job.  The queues still hold its id: it is skipped
\* when it reaches the head of one.
CancelJob(j) ==
  /\ LockFree
  /\ Pending(j)
  /\ jobs' = Without(jobs, j)
  /\ scan' = FirstPass
  /\ UNCHANGED <<order, machines, nextId, regen, leaving, target, fault>>

\* destroy_job of a running job: on_free is called, the boards stay taken.
ReleaseJob(j) ==
  /\ LockFree
  /\ j \in DOMAIN jobs
  /\ jobs[j].state = "running"
  /\ jobs' = [jobs EXCEPT ![j].state = "released"]
  /\ scan' = FirstPass
  /\ UNCHANGED <<order, machines, nextId, regen, leaving, target, fault>>

\* free: the boards of a released job go to the delayed frees.  Nothing
\* happens if remove_machine has freed the job already.
Free(j) ==
  /\ LockFree
  /\ j \in DOMAIN jobs
  /\ jobs[j].state = "released"
  /\ machines' = Freed(j)
  /\ jobs' = Without(jobs, j)
  /\ scan' = FirstPass
  /\ UNCHANGED <<order, nextId, regen, leaving, target, fault>>

\* Mutant: nobody is told that there is room again.
CheckFree_Silent ==
  /\ LockFree
  /\ \E m \in DOMAIN machines : machines[m].ripe > 0
  /\ machines' = [m \in DOMAIN machines |-> Collected(machines[m])]
  /\ UNCHANGED <<order, jobs, nextId, scan, regen, leaving, target, fault>>

\* check_free: every allocator collects what is ripe; if one did, process.
CheckFree ==
  /\ LockFree
  /\ \E m \in DOMAIN machines : machines[m].ripe > 0
  /\ machines' = [m \in DOMAIN machines |-> Collected(machines[m])]
  /\ scan' = FirstPass
  /\ UNCHANGED <<order, jobs, nextId, regen, leaving, target, fault>>

\* seconds_before_free have passed since the oldest unripe free of m.
TimePasses(m) ==
  /\ m \in DOMAIN machines
  /\ machines[m].ripe < Len(machines[m].freeing)
  /\ machines' = [machines EXCEPT ![m].ripe = @ + 1]
  /\ UNCHANGED <<order, jobs, nextId, scan, regen, leaving, target, fault>>

-----------------------------------------------------------------------------
(* _process_queue: pass over the machines in order, trying the head of each *)
(* queue once, until a whole pass starts no job.                           *)

NextMachine(started) == [at |-> scan.at + 1, again |-> started]

Scanning(m) ==
  /\ scan.at \in 1 .. Len(order)
  /\ m = order[scan.at]

\* A machine taken out of service by an update that then failed is not visited.
SkipMachine(m) ==
  /\ Scanning(m)
  /\ m \notin DOMAIN machines
  /\ scan' = NextMachine(scan.again)
  /\ UNCHANGED <<order, machines, jobs, nextId, regen, leaving, target, fault>>

\* No job waits for m: only cancelled and started ones are dropped.
FindEmpty(m) ==
  /\ Scanning(m)
  /\ m \in DOMAIN machines
  /\ \A k \in 1 .. Len(machines[m].queue) : ~Pending(machines[m].queue[k])
  /\ machines' = [machines EXCEPT ![m].queue = <<>>]
  /\ scan' = NextMachine(scan.again)
  /\ UNCHANGED <<order, jobs, nextId, regen, leaving, target, fault>>

\* _try_job fails: alloc has collected what was ripe and found no room.
FindBlocked(m) ==
  /\ Scanning(m)
  /\ m \in DOMAIN machines
  /\ LET q == machines[m].queue
     IN  \E k \in 1 .. Len(q) :
           /\ FirstPending(q, k)
           /\ Placements(m, jobs[q[k]].req) = {}
           /\ machines' = [machines EXCEPT
                ![m] = [Collected(@) EXCEPT !.queue = SubSeq(q, k, Len(q))]]
  /\ scan' = NextMachine(scan.again)
  /\ UNCHANGED <<order, jobs, nextId, regen, leaving, target, fault>>

\* _try_job has given boards p of machine m to job j, the first in the queue; the
\* job leaves the queue (drop is 1) when on_allocate has returned.
TakeBoards(m, j, p, drop) ==
  /\ m \in DOMAIN machines
  /\ LET q == machines[m].queue
     IN  \E k \in 1 .. Len(q) :
           /\ FirstPending(q, k)
           /\ j = q[k]
           /\ p \in Placements(m, jobs[j].req)
           /\ machines' = [machines EXCEPT
                ![m] = [Collected(@) EXCEPT !.queue = SubSeq(q, k + drop, Len(q))]]
  /\ jobs' = [jobs EXCEPT ![j] = [state |-> "running", req |-> jobs[j].req,
                                 machine |-> m, boards |-> p]]

\* _try_job succeeds, and the callback does.
StartJob(m, j, p) ==
  /\ Scanning(m)
  /\ TakeBoards(m, j, p, 1)
  /\ scan' = NextMachine(TRUE)
  /\ UNCHANGED <<order, nextId, regen, leaving, target, fault>>

\* Mutant: one pass is made, whatever it has started.
EndPass_Once ==
  /\ scan.at > Len(order)
  /\ scan' = Idle
  /\ UNCHANGED <<order, machines, jobs, nextId, regen, leaving, target, fault>>

EndPass ==
  /\ scan.at > Len(order)
  /\ scan' = IF scan.again THEN FirstPass ELSE Idle
  /\ UNCHANGED <<order, machines, jobs, nextId, regen, leaving, target, fault>>

ProcessQueue ==
  \/ \E m \in Machine :
       \/ SkipMachine(m) \/ FindEmpty(m) \/ FindBlocked(m)
       \/ \E j \in JobId : \E p \in SUBSET Board : StartJob(m, j, p)
  \/ EndPass

-----------------------------------------------------------------------------
(* _regenerate_queues: the queues have been cleared, and every pending job *)
(* is enqueued again, oldest first, processing the queues after each.      *)

\* The iteration over _jobs.values() stands at job j.
Visiting(j) ==
  /\ scan = Idle
  /\ j \in DOMAIN jobs
  /\ regen \in 1 .. j
  /\ \A k \in DOMAIN jobs : k < j => k < regen

VisitStarted(j) ==
  /\ Visiting(j)
  /\ ~Pending(j)
  /\ regen' = j + 1
  /\ UNCHANGED <<order, machines, jobs, nextId, scan, leaving, target, fault>>

VisitPending(j) ==
  /\ Visiting(j)
  /\ Pending(j)
  /\ Suitable(jobs[j].req) # {}
  /\ machines' = Enqueued(j, jobs[j].req)
  /\ scan' = FirstPass
  /\ regen' = j + 1
  /\ UNCHANGED <<order, jobs, nextId, leaving, target, fault>>

\* No machine suits the job any more: it is cancelled, which removes it from
\* the dictionary being iterated over.  Asking the iterator for another job
\* then raises RuntimeError, unless this one was the last.  The jobs after it
\* are left out of the queues; read_config_file logs the exception, no more.
VisitUnsuitable(j) ==
  /\ Visiting(j)
  /\ Pending(j)
  /\ Suitable(jobs[j].req) = {}
  /\ jobs' = Without(jobs, j)
  /\ scan' = FirstPass
  /\ IF \E k \in DOMAIN jobs : k > j
     THEN regen' = 0 /\ fault' = "RuntimeError"
     ELSE regen' = j + 1 /\ UNCHANGED fault
  /\ UNCHANGED <<order, machines, nextId, leaving, target>>

EndRegen ==
  /\ scan = Idle
  /\ regen > 0
  /\ \A j \in DOMAIN jobs : j < regen
  /\ regen' = 0
  /\ UNCHANGED <<order, machines, jobs, nextId, scan, leaving, target, fault>>

RegenerateQueues ==
  \/ \E j \in JobId : VisitStarted(j) \/ VisitPending(j) \/ VisitUnsuitable(j)
  \/ EndRegen

-----------------------------------------------------------------------------
(* The update of the machines: the setter of Controller.machines, inside   *)
(* "with self._job_queue", which postpones every _process_queue and        *)
(* regenerates the queues once when it ends.                               *)

\* Machines that go: no longer named, or with other boards than before.
Removed(c) ==
  {m \in DOMAIN machines :
     m \notin Names(c) \/ c.desc[m].boards # machines[m].boards}

\* The set of removed names is visited in any order.
Arrangements(S) ==
  {s \in [1 .. Cardinality(S) -> S] : \A x \in S : \E i \in DOMAIN s : s[i] = x}

StartUpdate(c) ==
  /\ LockFree
  /\ target' = c
  /\ leaving' \in Arrangements(Removed(c))
  /\ fault' = "none"
  /\ UNCHANGED <<order, machines, jobs, nextId, scan, regen>>

\* remove_machine looks at job j next.
Removing(j) ==
  /\ leaving # <<>>
  /\ j \in JobsOn(Head(leaving))
  /\ \A k \in JobsOn(Head(leaving)) : j <= k

\* A running job is destroyed, which calls on_free, and freed at once.
RemoveJob(j) ==
  /\ Removing(j)
  /\ jobs[j].state = "running"
  /\ machines' = Freed(j)
  /\ jobs' = Without(jobs, j)
  /\ UNCHANGED <<order, nextId, scan, regen, leaving, target, fault>>

\* A job that was destroyed before but not yet freed is destroyed again: the
\* controller, which has forgotten it, answers on_free with a KeyError.  The
\* update is abandoned with part of the machines gone; leaving "with
\* self._job_queue" regenerates the queues and read_config_file logs the error.
RemoveReleasedJob(j) ==
  /\ Removing(j)
  /\ jobs[j].state = "released"
  /\ fault' = "KeyError"
  /\ leaving' = <<>>
  /\ target' = NoConfig
  /\ machines' = Cleared
  /\ regen' = 1
  /\ UNCHANGED <<order, jobs, nextId, scan>>

RemoveMachine(m) ==
  /\ leaving # <<>>
  /\ m = Head(leaving)
  /\ JobsOn(m) = {}
  /\ machines' = Without(machines, m)
  /\ leaving' = Tail(leaving)
  /\ UNCHANGED <<order, jobs, nextId, scan, regen, target, fault>>

NewMachine(d) == [tags |-> d.tags, boards |-> d.boards, dead |-> d.dead,
                  freeing |-> <<>>, ripe |-> 0, queue |-> <<>>]

\* The rest of the setter: modify_machine of the machines that stay (a no-op
\* for those described as before), add_machine of the others, the new order,
\* and the start of _regenerate_queues, which clears the queues.
FinishUpdate ==
  /\ target # NoConfig
  /\ leaving = <<>>
  /\ order' = target.order
  /\ machines' =
       [m \in Names(target) |->
          IF m \in DOMAIN machines
          THEN [machines[m] EXCEPT !.tags = target.desc[m].tags,
                                   !.dead = target.desc[m].dead,
                                   !.queue = <<>>]
          ELSE NewMachine(target.desc[m])]
  /\ target' = NoConfig
  /\ regen' = 1
  /\ UNCHANGED <<jobs, nextId, scan, leaving, fault>>

UpdateMachines ==
  \/ \E c \in Config : StartUpdate(c)
  \/ \E j \in JobId : RemoveJob(j) \/ RemoveReleasedJob(j)
  \/ \E m \in Machine : RemoveMachine(m)
  \/ FinishUpdate

-----------------------------------------------------------------------------

QInit ==
  /\ \E c \in Config :
       /\ order = c.order
       /\ machines = [m \in Names(c) |-> NewMachine(c.desc[m])]
  /\ jobs = [j \in {} |-> {}]
  /\ nextId = 1
  /\ scan = Idle
  /\ regen = 0
  /\ leaving = <<>>
  /\ target = NoConfig
  /\ fault = "none"

QNext ==
  \/ \E r \in Request : CreateJob(r) \/ RejectJob(r)
  \/ \E j \in JobId : CancelJob(j) \/ ReleaseJob(j) \/ Free(j)
  \/ CheckFree
  \/ \E m \in Machine : TimePasses(m)
  \/ ProcessQueue
  \/ RegenerateQueues
  \/ UpdateMachines

QSpec == QInit /\ [][QNext]_qvars

\* The thread that holds the lock runs on until it releases it; time passes
\* and the server's loop calls check_free; users come to the end of their
\* jobs, the BMPs free the boards of a destroyed job, and at some point the
\* configuration file is no longer edited.
QFairness ==
  /\ WF_qvars(ProcessQueue)
  /\ WF_qvars(RegenerateQueues)
  /\ WF_qvars(\E j \in JobId : RemoveJob(j) \/ RemoveReleasedJob(j))
  /\ WF_qvars(\E m \in Machine : RemoveMachine(m))
  /\ WF_qvars(FinishUpdate)
  /\ WF_qvars(CheckFree)
  /\ \A m \in Machine : WF_qvars(TimePasses(m))
  /\ \A j \in JobId : WF_qvars(ReleaseJob(j)) /\ WF_qvars(Free(j))

QFairSpec == QSpec /\ QFairness

-----------------------------------------------------------------------------
(* Properties.                                                             *)

\* Every variable holds what its comment says, and the scan stays within the
\* machines: the types of the attributes set up by JobQueue.__init__.
QTypeOK ==
  /\ order \in Seq(Machine)
  /\ DOMAIN machines \subseteq Machine
  /\ machines \in [DOMAIN machines -> MachineType]
  /\ DOMAIN jobs \subseteq JobId
  /\ jobs \in [DOMAIN jobs -> JobType]
  /\ nextId \in 1 .. MaxJob + 1
  /\ scan \in [at : Nat, again : BOOLEAN]
  /\ regen \in Nat
  /\ leaving \in Seq(Machine)
  /\ target \in Config \cup {NoConfig}
  /\ fault \in {"none", "KeyError", "RuntimeError"}

HoldsBoards(j) == j \in DOMAIN jobs /\ jobs[j].state # "pending"

\* No board is ever given to two jobs, counting a destroyed job until its
\* boards are freed, on whatever machine and across updates of the machines.
BoardExclusive ==
  \A j, k \in DOMAIN jobs :
    j # k /\ HoldsBoards(j) /\ HoldsBoards(k)
      => jobs[j].boards \cap jobs[k].boards = {}

\* A board waiting for seconds_before_free is in no job: the delay between
\* two users of a board (allocator.py, to_free) is never cut short.
DelayRespected ==
  \A j \in DOMAIN jobs : HoldsBoards(j) =>
    \A i \in 1 .. Len(machines[jobs[j].machine].freeing) :
      machines[jobs[j].machine].freeing[i] \cap jobs[j].boards = {}

\* What every step relies on to keep boards exclusive.  The jobs with boards are
\* on a machine in service that has these boards, the others are nowhere.
JobsPlaced ==
  \A j \in DOMAIN jobs :
    IF HoldsBoards(j)
    THEN /\ jobs[j].machine \in DOMAIN machines
         /\ jobs[j].boards \subseteq machines[jobs[j].machine].boards
    ELSE jobs[j].machine = NoMachine /\ jobs[j].boards = {}

\* No board is in two machines, though machines come, go and are recreated.
MachinesApart ==
  \A m, n \in DOMAIN machines :
    m # n => machines[m].boards \cap machines[n].boards = {}

\* Whatever is not as the configuration being installed wants it is leaving.
UpdateOnCourse ==
  target # NoConfig =>
    \A m \in DOMAIN machines :
      \/ \E i \in 1 .. Len(leaving) : leaving[i] = m
      \/ m \in Names(target) /\ target.desc[m].boards = machines[m].boards

\* The inductive invariant from which BoardExclusive and DelayRespected follow.
QInv ==
  /\ QTypeOK
  /\ JobsPlaced
  /\ MachinesApart
  /\ UpdateOnCourse
  /\ BoardExclusive
  /\ DelayRespected

\* A job that waits is in the queue of every machine that suits it, and only
\* there, whatever updates of tags, dead boards and machines came between, even
\* one abandoned for a KeyError.
QueuedWhereSuitable ==
  LockFree /\ fault # "RuntimeError" =>
    \A j \in DOMAIN jobs : Pending(j) =>
      {m \in DOMAIN machines :
         \E i \in 1 .. Len(machines[m].queue) : machines[m].queue[i] = j}
        = Suitable(jobs[j].req)

\* Every queue is in the order the jobs were created, each job once.
QueuesInOrder ==
  \A m \in DOMAIN machines :
    \A i, k \in 1 .. Len(machines[m].queue) :
      i < k => machines[m].queue[i] < machines[m].queue[k]

\* When nothing is under way, the job at the head of each queue cannot be
\* started: _process_queue went on "until no more jobs can be started".
NoIdleBoards ==
  LockFree =>
    \A m \in DOMAIN machines :
      \A k \in 1 .. Len(machines[m].queue) :
        FirstPending(machines[m].queue, k) =>
          ~\E p \in jobs[machines[m].queue[k]].req.places :
             p \subseteq Working(m) \ Unavailable(m, 1)

\* "Identical jobs are handled in a FIFO fashion" (create_job): no job starts
\* while an older one with the same request waits, unless the regeneration
\* ended with a RuntimeError: the jobs it left out of the queues wait on.
NoOvertaking ==
  [][fault # "RuntimeError" =>
       \A j \in DOMAIN jobs :
         Pending(j) /\ j \in DOMAIN jobs' /\ jobs'[j].state = "running" =>
           ~\E k \in DOMAIN jobs : k < j /\ Pending(k) /\ jobs[k].req = jobs[j].req]_qvars

\* Every queued job is eventually started or cancelled, given that jobs end,
\* that the configuration is eventually left alone, and that no job was left out
\* of the queues by an update.
EveryJobServed ==
  (<>[][target' = NoConfig]_qvars /\ [](fault # "RuntimeError")) =>
    \A j \in JobId : Pending(j) ~> ~Pending(j)

\* _regenerate_queues "reinserts the jobs": once an update of the machines
\* has ended, each waiting job is in the queue of every machine suiting it.
UpdateRequeuesAll ==
  LockFree =>
    \A j \in DOMAIN jobs : Pending(j) =>
      \A m \in Suitable(jobs[j].req) :
        \E i \in 1 .. Len(machines[m].queue) : machines[m].queue[i] = j

=============================================================================
