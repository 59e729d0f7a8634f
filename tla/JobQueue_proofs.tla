-------------------------- MODULE JobQueue_proofs --------------------------
(***************************************************************************)
(* Proofs about the scheduler, for any machines, boards, requests,         *)
(* configurations and number of jobs.  QTypeOK is inductive by itself;     *)
(* BoardExclusive and DelayRespected are proved from QInv, QueuesInOrder   *)
(* from OrderInv, QueuedWhereSuitable and NoOvertaking from OrderInv and   *)
(* QueuesComplete, and NoIdleBoards from ScanInv.                          *)
(***************************************************************************)
EXTENDS JobQueue, SequenceTheorems, FiniteSetTheorems, TLAPS

-----------------------------------------------------------------------------
(* Facts about the helpers.                                                *)

LEMMA CollectedFacts ==
  ASSUME NEW mach \in MachineType
  PROVE  /\ Collected(mach) \in MachineType
         /\ Collected(mach).boards = mach.boards
         /\ Collected(mach).queue = mach.queue
         /\ \A i \in 1 .. Len(Collected(mach).freeing) :
              \E k \in mach.ripe + 1 .. Len(mach.freeing) :
                Collected(mach).freeing[i] = mach.freeing[k]
<1> DEFINE f == mach.freeing
           s == SubSeq(f, mach.ripe + 1, Len(f))
<1>1. f \in Seq(SUBSET Board) /\ mach.ripe \in Nat /\ Len(f) \in Nat
  BY LenProperties DEF MachineType
<1>2. \A i \in mach.ripe + 1 .. Len(f) : f[i] \in SUBSET Board
  BY <1>1, ElementOfSeq
<1>3. /\ s \in Seq(SUBSET Board)
      /\ Len(s) = IF mach.ripe + 1 <= Len(f) THEN Len(f) - mach.ripe ELSE 0
      /\ \A i \in 1 .. Len(f) - mach.ripe : s[i] = f[mach.ripe + i]
  <2>1. PICK lo \in Int, hi \in Int : lo = mach.ripe + 1 /\ hi = Len(f)
    BY <1>1
  <2>2. \A i \in lo .. hi : f[i] \in SUBSET Board
    BY <1>2, <2>1
  <2>3. s = SubSeq(f, lo, hi)
    BY <2>1
  <2>4. hi - lo + 1 = Len(f) - mach.ripe
    BY <1>1, <2>1
  <2> HIDE DEF f, s
  <2>5. /\ s \in Seq(SUBSET Board)
        /\ Len(s) = IF lo <= hi THEN hi - lo + 1 ELSE 0
        /\ \A i \in 1 .. hi - lo + 1 : s[i] = f[lo + i - 1]
    <3>1. PICK S : S = SUBSET Board
      OBVIOUS
    <3>2. \A i \in lo .. hi : f[i] \in S
      BY <2>2, <3>1
    <3>3. /\ SubSeq(f, lo, hi) \in Seq(S)
          /\ Len(SubSeq(f, lo, hi)) = IF lo <= hi THEN hi - lo + 1 ELSE 0
          /\ \A i \in 1 .. hi - lo + 1 : SubSeq(f, lo, hi)[i] = f[lo + i - 1]
      BY <3>2, SubSeqProperties
    <3>4. /\ s \in Seq(S)
          /\ Len(s) = IF lo <= hi THEN hi - lo + 1 ELSE 0
          /\ \A i \in 1 .. hi - lo + 1 : s[i] = f[lo + i - 1]
      BY <2>3, <3>3, Zenon
    <3> QED BY <3>1, <3>4
  <2>6. ASSUME NEW i \in 1 .. Len(f) - mach.ripe
        PROVE  s[i] = f[mach.ripe + i]
    <3>1. i \in 1 .. hi - lo + 1
      BY <2>4
    <3>2. i \in Int /\ lo + i - 1 = mach.ripe + i
      BY <1>1, <2>1
    <3> QED BY <2>5, <3>1, <3>2
  <2> QED BY <2>1, <2>4, <2>5, <2>6
<1>4. Collected(mach) = [mach EXCEPT !.freeing = s, !.ripe = 0]
  BY DEF Collected
<1>5. Collected(mach) \in MachineType /\ Collected(mach).freeing = s
  <2> HIDE DEF s
  <2>1. [mach EXCEPT !.freeing = s, !.ripe = 0] \in MachineType
    BY <1>3 DEF MachineType
  <2>2. [mach EXCEPT !.freeing = s, !.ripe = 0].freeing = s
    BY DEF MachineType
  <2> QED BY <2>1, <2>2, <1>4
<1>6. \A i \in 1 .. Len(s) : \E k \in mach.ripe + 1 .. Len(f) : s[i] = f[k]
  <2> SUFFICES ASSUME NEW i \in 1 .. Len(s)
               PROVE  \E k \in mach.ripe + 1 .. Len(f) : s[i] = f[k]
    OBVIOUS
  <2>1. i \in 1 .. Len(f) - mach.ripe
    BY <1>1, <1>3
  <2>2. mach.ripe + i \in mach.ripe + 1 .. Len(f)
    BY <2>1, <1>1
  <2> QED BY <2>1, <2>2, <1>3
<1> QED BY <1>4, <1>5, <1>6 DEF MachineType

\* A machine keeps its type when its queue is replaced.
LEMMA QueueReplaced ==
  ASSUME NEW mach \in MachineType, NEW q \in Seq(JobId)
  PROVE  /\ [mach EXCEPT !.queue = q] \in MachineType
         /\ [mach EXCEPT !.queue = q].boards = mach.boards
         /\ [mach EXCEPT !.queue = q].freeing = mach.freeing
BY DEF MachineType

LEMMA EnqueuedFacts ==
  ASSUME QTypeOK, NEW j \in JobId, NEW r
  PROVE  /\ Enqueued(j, r) \in [DOMAIN machines -> MachineType]
         /\ \A m \in DOMAIN machines :
              /\ Enqueued(j, r)[m].boards = machines[m].boards
              /\ Enqueued(j, r)[m].freeing = machines[m].freeing
<1> SUFFICES ASSUME NEW m \in DOMAIN machines
             PROVE  /\ Enqueued(j, r)[m] \in MachineType
                    /\ Enqueued(j, r)[m].boards = machines[m].boards
                    /\ Enqueued(j, r)[m].freeing = machines[m].freeing
  BY DEF Enqueued
<1>1. machines[m] \in MachineType
  BY DEF QTypeOK
<1>2. Append(machines[m].queue, j) \in Seq(JobId)
  BY <1>1, AppendProperties DEF MachineType
<1> QED BY <1>1, <1>2, QueueReplaced DEF Enqueued

LEMMA FreedFacts ==
  ASSUME QTypeOK, NEW j \in DOMAIN jobs, jobs[j].machine \in DOMAIN machines
  PROVE  /\ Freed(j) \in [DOMAIN machines -> MachineType]
         /\ \A m \in DOMAIN machines :
              /\ Freed(j)[m].boards = machines[m].boards
              /\ \A i \in 1 .. Len(Freed(j)[m].freeing) :
                   \/ m = jobs[j].machine /\ Freed(j)[m].freeing[i] = jobs[j].boards
                   \/ \E k \in 1 .. Len(machines[m].freeing) :
                        Freed(j)[m].freeing[i] = machines[m].freeing[k]
<1> DEFINE n == jobs[j].machine
           longer == Append(machines[n].freeing, jobs[j].boards)
<1>1. machines[n] \in MachineType /\ jobs[j].boards \in SUBSET Board
  BY DEF QTypeOK, JobType
<1>2. machines[n].freeing \in Seq(SUBSET Board)
  BY <1>1 DEF MachineType
<1>3. /\ longer \in Seq(SUBSET Board)
      /\ Len(machines[n].freeing) \in Nat
      /\ Len(longer) = Len(machines[n].freeing) + 1
      /\ \A i \in 1 .. Len(machines[n].freeing) : longer[i] = machines[n].freeing[i]
      /\ longer[Len(machines[n].freeing) + 1] = jobs[j].boards
  BY <1>1, <1>2, AppendProperties, LenProperties
<1>4. \A i \in 1 .. Len(longer) :
        \/ longer[i] = jobs[j].boards
        \/ \E k \in 1 .. Len(machines[n].freeing) : longer[i] = machines[n].freeing[k]
  BY <1>3
<1>5. Freed(j) = [machines EXCEPT ![n] = [machines[n] EXCEPT !.freeing = longer]]
  BY DEF Freed
<1>6. [machines[n] EXCEPT !.freeing = longer] \in MachineType
  BY <1>1, <1>3 DEF MachineType
<1>7. Freed(j) \in [DOMAIN machines -> MachineType]
  BY <1>5, <1>6 DEF QTypeOK
<1>8. /\ Freed(j)[n].boards = machines[n].boards
      /\ Freed(j)[n].freeing = longer
      /\ \A m \in DOMAIN machines : m # n => Freed(j)[m] = machines[m]
  <2>1. machines = [m \in DOMAIN machines |-> machines[m]]
    BY DEF QTypeOK
  <2>2. /\ Freed(j)[n] = [machines[n] EXCEPT !.freeing = longer]
        /\ \A m \in DOMAIN machines : m # n => Freed(j)[m] = machines[m]
    BY <1>5, <2>1
  <2>3. /\ [machines[n] EXCEPT !.freeing = longer].boards = machines[n].boards
        /\ [machines[n] EXCEPT !.freeing = longer].freeing = longer
    <3> HIDE DEF longer
    <3> QED BY <1>1 DEF MachineType
  <2> QED BY <2>2, <2>3
<1> HIDE DEF longer
<1>9. ASSUME NEW m \in DOMAIN machines
      PROVE  /\ Freed(j)[m].boards = machines[m].boards
             /\ \A i \in 1 .. Len(Freed(j)[m].freeing) :
                  \/ m = jobs[j].machine /\ Freed(j)[m].freeing[i] = jobs[j].boards
                  \/ \E k \in 1 .. Len(machines[m].freeing) :
                       Freed(j)[m].freeing[i] = machines[m].freeing[k]
  <2>1. CASE m = n
    BY <2>1, <1>4, <1>8
  <2>2. CASE m # n
    <3>1. Freed(j)[m] = machines[m]
      BY <2>2, <1>8
    <3> QED BY <3>1
  <2> QED BY <2>1, <2>2
<1> QED BY <1>7, <1>9

LEMMA NewMachineFacts ==
  ASSUME NEW d \in Description
  PROVE  /\ NewMachine(d) \in MachineType
         /\ NewMachine(d).boards = d.boards
         /\ NewMachine(d).freeing = <<>>
<1>1. <<>> \in Seq(SUBSET Board) /\ <<>> \in Seq(JobId)
  BY EmptySeq
<1> QED BY <1>1 DEF NewMachine, MachineType, Description

\* The machines to remove, in whatever order, are a sequence that names each.
LEMMA ArrangementFacts ==
  ASSUME NEW S, S \subseteq Machine, NEW s \in Arrangements(S)
  PROVE  /\ s \in Seq(Machine)
         /\ \A x \in S : \E i \in 1 .. Len(s) : s[i] = x
<1>1. IsFiniteSet(S)
  BY MachineAssumption, FS_Subset
<1>2. Cardinality(S) \in Nat
  BY <1>1, FS_CardinalityType
<1>3. s \in [1 .. Cardinality(S) -> Machine]
  BY DEF Arrangements
<1>4. s \in Seq(Machine)
  BY <1>2, <1>3, SeqDef
<1>5. DOMAIN s = 1 .. Len(s)
  BY <1>4, LenProperties
<1> QED BY <1>4, <1>5 DEF Arrangements

-----------------------------------------------------------------------------
(* Type correctness.                                                       *)

LEMMA QInitTypeOK == QInit => QTypeOK
<1> SUFFICES ASSUME QInit
             PROVE  QTypeOK
  OBVIOUS
<1>1. PICK c \in Config : /\ order = c.order
                          /\ machines = [m \in Names(c) |-> NewMachine(c.desc[m])]
  BY DEF QInit
<1>2. c.order \in Seq(Machine) /\ c.desc \in [Names(c) -> Description]
  BY ConfigAssumption
<1>3. Names(c) \subseteq Machine
  BY <1>2, ElementOfSeq DEF Names
<1>4. machines \in [Names(c) -> MachineType]
  BY <1>1, <1>2, NewMachineFacts
<1>5. <<>> \in Seq(Machine)
  BY EmptySeq
<1> QED
  BY <1>1, <1>2, <1>3, <1>4, <1>5, BoundAssumption
  DEF QInit, QTypeOK, Idle, JobId, JobType

LEMMA CallsKeepType ==
  ASSUME QTypeOK,
         \/ \E r \in Request : CreateJob(r) \/ RejectJob(r)
         \/ \E j \in JobId : CancelJob(j) \/ ReleaseJob(j) \/ Free(j)
         \/ CheckFree
         \/ \E m \in Machine : TimePasses(m)
  PROVE  QTypeOK'
<1>0. FirstPass \in [at : Nat, again : BOOLEAN]
  BY DEF FirstPass
<1>1. ASSUME NEW r \in Request, CreateJob(r)
      PROVE  QTypeOK'
  <2>1. nextId \in JobId /\ nextId + 1 \in 1 .. MaxJob + 1
    BY <1>1, BoundAssumption DEF CreateJob, CanCreate, JobId
  <2>2. machines' \in [DOMAIN machines -> MachineType]
    BY <1>1, <2>1, EnqueuedFacts DEF CreateJob
  <2>3. [state |-> "pending", req |-> r, machine |-> NoMachine, boards |-> {}] \in JobType
    BY DEF JobType
  <2>4. DOMAIN jobs' \subseteq JobId /\ jobs' \in [DOMAIN jobs' -> JobType]
    BY <1>1, <2>1, <2>3 DEF CreateJob, With, QTypeOK
  <2> QED BY <1>0, <1>1, <2>1, <2>2, <2>4 DEF CreateJob, QTypeOK
<1>2. ASSUME NEW r \in Request, RejectJob(r)
      PROVE  QTypeOK'
  <2>1. nextId + 1 \in 1 .. MaxJob + 1
    BY <1>2, BoundAssumption DEF RejectJob, CanCreate, JobId
  <2> QED BY <1>0, <1>2, <2>1 DEF RejectJob, QTypeOK
<1>3. ASSUME NEW j \in JobId, CancelJob(j)
      PROVE  QTypeOK'
  BY <1>0, <1>3 DEF CancelJob, Without, QTypeOK
<1>4. ASSUME NEW j \in JobId, ReleaseJob(j)
      PROVE  QTypeOK'
  <2>1. jobs[j] \in JobType /\ j \in DOMAIN jobs
    BY <1>4 DEF ReleaseJob, QTypeOK
  <2>2. [jobs[j] EXCEPT !.state = "released"] \in JobType
    BY <2>1 DEF JobType
  <2>3. jobs' \in [DOMAIN jobs -> JobType]
    BY <1>4, <2>1, <2>2 DEF ReleaseJob, QTypeOK
  <2> QED BY <1>0, <1>4, <2>3 DEF ReleaseJob, QTypeOK
<1>5. ASSUME NEW j \in JobId, Free(j), jobs[j].machine \in DOMAIN machines
      PROVE  QTypeOK'
  <2>1. machines' \in [DOMAIN machines -> MachineType]
    BY <1>5, FreedFacts DEF Free
  <2> QED BY <1>0, <1>5, <2>1 DEF Free, Without, QTypeOK
<1>6. ASSUME NEW j \in JobId, Free(j), jobs[j].machine \notin DOMAIN machines
      PROVE  QTypeOK'
  <2>1. machines' = machines
    BY <1>6 DEF Free, Freed, QTypeOK
  <2> QED BY <1>0, <1>6, <2>1 DEF Free, Without, QTypeOK
<1>7. ASSUME CheckFree
      PROVE  QTypeOK'
  <2>1. machines' \in [DOMAIN machines -> MachineType]
    BY <1>7, CollectedFacts DEF CheckFree, QTypeOK
  <2> QED BY <1>0, <1>7, <2>1 DEF CheckFree, QTypeOK
<1>8. ASSUME NEW m \in Machine, TimePasses(m)
      PROVE  QTypeOK'
  <2>1. machines[m] \in MachineType
    BY <1>8 DEF TimePasses, QTypeOK
  <2>2. [machines[m] EXCEPT !.ripe = @ + 1] \in MachineType
    BY <2>1 DEF MachineType
  <2>3. machines' \in [DOMAIN machines -> MachineType]
    BY <1>8, <2>2 DEF TimePasses, QTypeOK
  <2> QED BY <1>8, <2>3 DEF TimePasses, QTypeOK
<1> QED BY <1>1, <1>2, <1>3, <1>4, <1>5, <1>6, <1>7, <1>8

LEMMA TakingKeepsType ==
  ASSUME QTypeOK, NEW m \in Machine, NEW j \in JobId, NEW p \in SUBSET Board,
         NEW drop \in {0, 1}, TakeBoards(m, j, p, drop)
  PROVE  /\ machines' \in [DOMAIN machines -> MachineType]
         /\ jobs' \in [DOMAIN jobs -> JobType]
<1> DEFINE q == machines[m].queue
<1>1. machines[m] \in MachineType /\ q \in Seq(JobId) /\ Len(q) \in Nat
  BY LenProperties DEF TakeBoards, QTypeOK, MachineType
<1>2. PICK k \in 1 .. Len(q) :
        /\ FirstPending(q, k)
        /\ j = q[k]
        /\ machines' = [machines EXCEPT
              ![m] = [Collected(@) EXCEPT !.queue = SubSeq(q, k + drop, Len(q))]]
  BY DEF TakeBoards
<1>3. SubSeq(q, k + drop, Len(q)) \in Seq(JobId)
  <2>1. \A i \in k + drop .. Len(q) : q[i] \in JobId
    BY <1>1, ElementOfSeq
  <2> QED BY <1>1, <2>1, SubSeqProperties
<1>4. [Collected(machines[m]) EXCEPT !.queue = SubSeq(q, k + drop, Len(q))] \in MachineType
  BY <1>1, <1>3, CollectedFacts, QueueReplaced
<1>5. machines' \in [DOMAIN machines -> MachineType]
  BY <1>2, <1>4 DEF QTypeOK
<1>6. j \in DOMAIN jobs /\ jobs[j].req \in Request
  BY <1>2 DEF FirstPending, Pending, QTypeOK, JobType
<1>7. [state |-> "running", req |-> jobs[j].req, machine |-> m, boards |-> p] \in JobType
  BY <1>6 DEF JobType
<1>8. jobs' \in [DOMAIN jobs -> JobType]
  BY <1>7 DEF TakeBoards, QTypeOK
<1> QED BY <1>5, <1>8

LEMMA ProcessQueueKeepsType ==
  ASSUME QTypeOK, ProcessQueue
  PROVE  QTypeOK'
<1>0. /\ scan.at \in Nat /\ scan.again \in BOOLEAN
      /\ \A b \in BOOLEAN : [at |-> scan.at + 1, again |-> b] \in [at : Nat, again : BOOLEAN]
      /\ {Idle, FirstPass} \subseteq [at : Nat, again : BOOLEAN]
  BY DEF QTypeOK, Idle, FirstPass
<1>1. ASSUME NEW m \in Machine, SkipMachine(m)
      PROVE  QTypeOK'
  BY <1>0, <1>1 DEF SkipMachine, NextMachine, QTypeOK
<1>2. ASSUME NEW m \in Machine, FindEmpty(m)
      PROVE  QTypeOK'
  <2>1. machines[m] \in MachineType
    BY <1>2 DEF FindEmpty, QTypeOK
  <2>2. [machines[m] EXCEPT !.queue = <<>>] \in MachineType
    BY <2>1, QueueReplaced, EmptySeq
  <2>3. machines' \in [DOMAIN machines -> MachineType]
    BY <1>2, <2>2 DEF FindEmpty, QTypeOK
  <2> QED BY <1>0, <1>2, <2>3 DEF FindEmpty, NextMachine, QTypeOK
<1>3. ASSUME NEW m \in Machine, FindBlocked(m)
      PROVE  QTypeOK'
  <2> DEFINE q == machines[m].queue
  <2>1. machines[m] \in MachineType /\ q \in Seq(JobId) /\ Len(q) \in Nat
    BY <1>3, LenProperties DEF FindBlocked, QTypeOK, MachineType
  <2>2. PICK k \in 1 .. Len(q) :
          machines' = [machines EXCEPT
                         ![m] = [Collected(@) EXCEPT !.queue = SubSeq(q, k, Len(q))]]
    BY <1>3 DEF FindBlocked
  <2>3. SubSeq(q, k, Len(q)) \in Seq(JobId)
    <3>1. \A i \in k .. Len(q) : q[i] \in JobId
      BY <2>1, ElementOfSeq
    <3> QED BY <2>1, <3>1, SubSeqProperties
  <2>4. [Collected(machines[m]) EXCEPT !.queue = SubSeq(q, k, Len(q))] \in MachineType
    BY <2>1, <2>3, CollectedFacts, QueueReplaced
  <2>5. machines' \in [DOMAIN machines -> MachineType]
    BY <2>2, <2>4 DEF QTypeOK
  <2> QED BY <1>0, <1>3, <2>5 DEF FindBlocked, NextMachine, QTypeOK
<1>4. ASSUME NEW m \in Machine, NEW j \in JobId, NEW p \in SUBSET Board,
             StartJob(m, j, p)
      PROVE  QTypeOK'
  <2>1. /\ machines' \in [DOMAIN machines -> MachineType]
        /\ jobs' \in [DOMAIN jobs -> JobType]
    BY <1>4, TakingKeepsType DEF StartJob
  <2> QED BY <1>0, <1>4, <2>1 DEF StartJob, NextMachine, QTypeOK
<1>5. ASSUME EndPass
      PROVE  QTypeOK'
  BY <1>0, <1>5 DEF EndPass, QTypeOK
<1> QED BY <1>1, <1>2, <1>3, <1>4, <1>5 DEF ProcessQueue

LEMMA RegenerateKeepsType ==
  ASSUME QTypeOK, RegenerateQueues
  PROVE  QTypeOK'
<1>0. /\ FirstPass \in [at : Nat, again : BOOLEAN]
      /\ \A j \in JobId : j + 1 \in Nat
  BY BoundAssumption DEF FirstPass, JobId
<1>1. ASSUME NEW j \in JobId, VisitStarted(j)
      PROVE  QTypeOK'
  BY <1>0, <1>1 DEF VisitStarted, QTypeOK
<1>2. ASSUME NEW j \in JobId, VisitPending(j)
      PROVE  QTypeOK'
  <2>1. machines' \in [DOMAIN machines -> MachineType]
    BY <1>2, EnqueuedFacts DEF VisitPending
  <2> QED BY <1>0, <1>2, <2>1 DEF VisitPending, QTypeOK
<1>3. ASSUME NEW j \in JobId, VisitUnsuitable(j)
      PROVE  QTypeOK'
  <2>1. regen' \in Nat /\ fault' \in {"none", "KeyError", "RuntimeError"}
    BY <1>0, <1>3 DEF VisitUnsuitable, QTypeOK
  <2> QED BY <1>0, <1>3, <2>1 DEF VisitUnsuitable, Without, QTypeOK
<1>4. ASSUME EndRegen
      PROVE  QTypeOK'
  BY <1>4 DEF EndRegen, QTypeOK
<1> QED BY <1>1, <1>2, <1>3, <1>4 DEF RegenerateQueues

LEMMA UpdateKeepsType ==
  ASSUME QTypeOK, UpdateMachines
  PROVE  QTypeOK'
<1>1. ASSUME NEW c \in Config, StartUpdate(c)
      PROVE  QTypeOK'
  <2>1. Removed(c) \subseteq Machine
    BY DEF Removed, QTypeOK
  <2>2. leaving' \in Seq(Machine)
    BY <1>1, <2>1, ArrangementFacts DEF StartUpdate
  <2> QED BY <1>1, <2>2 DEF StartUpdate, QTypeOK
<1>2. ASSUME NEW j \in JobId, RemoveJob(j)
      PROVE  QTypeOK'
  <2>1. CASE jobs[j].machine \in DOMAIN machines
    <3>1. machines' \in [DOMAIN machines -> MachineType]
      BY <1>2, <2>1, FreedFacts DEF RemoveJob, Removing, JobsOn
    <3> QED BY <1>2, <3>1 DEF RemoveJob, Without, QTypeOK
  <2>2. CASE jobs[j].machine \notin DOMAIN machines
    <3>1. machines' = machines
      BY <1>2, <2>2 DEF RemoveJob, Freed, QTypeOK
    <3> QED BY <1>2, <3>1 DEF RemoveJob, Without, QTypeOK
  <2> QED BY <2>1, <2>2
<1>3. ASSUME NEW j \in JobId, RemoveReleasedJob(j)
      PROVE  QTypeOK'
  <2>1. machines' \in [DOMAIN machines -> MachineType]
    BY <1>3, QueueReplaced, EmptySeq DEF RemoveReleasedJob, Cleared, QTypeOK
  <2> QED BY <1>3, <2>1, EmptySeq DEF RemoveReleasedJob, QTypeOK
<1>4. ASSUME NEW m \in Machine, RemoveMachine(m)
      PROVE  QTypeOK'
  <2>1. Tail(leaving) \in Seq(Machine)
    BY <1>4, HeadTailProperties DEF RemoveMachine, QTypeOK
  <2>2. DOMAIN machines' \subseteq Machine /\ machines' \in [DOMAIN machines' -> MachineType]
    BY <1>4 DEF RemoveMachine, Without, QTypeOK
  <2> QED BY <1>4, <2>1, <2>2 DEF RemoveMachine, QTypeOK
<1>5. ASSUME FinishUpdate
      PROVE  QTypeOK'
  <2>1. target \in Config
    BY <1>5 DEF FinishUpdate, QTypeOK
  <2>2. target.order \in Seq(Machine) /\ target.desc \in [Names(target) -> Description]
    BY <2>1, ConfigAssumption
  <2>3. Names(target) \subseteq Machine
    BY <2>2, ElementOfSeq DEF Names
  <2>4. ASSUME NEW m \in Names(target), m \in DOMAIN machines
        PROVE  [machines[m] EXCEPT !.tags = target.desc[m].tags,
                                   !.dead = target.desc[m].dead,
                                   !.queue = <<>>] \in MachineType
    <3>1. machines[m] \in MachineType /\ target.desc[m] \in Description
      BY <2>2, <2>4 DEF QTypeOK
    <3>2. <<>> \in Seq(JobId)
      BY EmptySeq
    <3> QED BY <3>1, <3>2 DEF MachineType, Description
  <2>5. \A m \in Names(target) : NewMachine(target.desc[m]) \in MachineType
    BY <2>2, NewMachineFacts
  <2>6. machines' \in [Names(target) -> MachineType]
    BY <1>5, <2>4, <2>5 DEF FinishUpdate
  <2> QED BY <1>5, <2>2, <2>3, <2>6 DEF FinishUpdate, QTypeOK
<1> QED BY <1>1, <1>2, <1>3, <1>4, <1>5 DEF UpdateMachines

LEMMA QNextTypeOK == QTypeOK /\ [QNext]_qvars => QTypeOK'
<1> SUFFICES ASSUME QTypeOK, [QNext]_qvars
             PROVE  QTypeOK'
  OBVIOUS
<1>1. CASE QNext
  BY <1>1, CallsKeepType, ProcessQueueKeepsType, RegenerateKeepsType, UpdateKeepsType
  DEF QNext
<1>2. CASE UNCHANGED qvars
  BY <1>2 DEF qvars, QTypeOK
<1> QED BY <1>1, <1>2

\* Every attribute of a JobQueue keeps its type, whatever the machines, jobs and
\* configurations.
THEOREM QTypeCorrect == QSpec => []QTypeOK
<1>1. QED BY QInitTypeOK, QNextTypeOK, PTL DEF QSpec

-----------------------------------------------------------------------------
(* Boards stay exclusive.                                                  *)

QSafe == JobsPlaced /\ MachinesApart /\ UpdateOnCourse /\ BoardExclusive /\ DelayRespected

\* The machines in service are the same, with the same boards, and hold back no
\* set of boards they did not hold back before.
SameHardware ==
  /\ DOMAIN machines' = DOMAIN machines
  /\ \A m \in DOMAIN machines :
       /\ machines'[m].boards = machines[m].boards
       /\ \A i \in 1 .. Len(machines'[m].freeing) :
            \E k \in 1 .. Len(machines[m].freeing) :
              machines'[m].freeing[i] = machines[m].freeing[k]

\* UpdateOnCourse does not depend on the jobs, nor on what machines hold back.
LEMMA CourseKept ==
  ASSUME UpdateOnCourse, DOMAIN machines' = DOMAIN machines,
         \A m \in DOMAIN machines : machines'[m].boards = machines[m].boards,
         leaving' = leaving, target' = target
  PROVE  UpdateOnCourse'
BY DEF UpdateOnCourse

LEMMA SteadyKeepsSafe ==
  ASSUME QSafe, SameHardware, jobs' = jobs, leaving' = leaving, target' = target
  PROVE  QSafe'
<1>1. JobsPlaced'
  BY DEF QSafe, SameHardware, JobsPlaced, HoldsBoards
<1>2. MachinesApart'
  BY DEF QSafe, SameHardware, MachinesApart
<1>3. UpdateOnCourse'
  BY CourseKept DEF QSafe, SameHardware
<1>4. BoardExclusive'
  BY DEF QSafe, BoardExclusive, HoldsBoards
<1>5. DelayRespected'
  <2> SUFFICES ASSUME NEW j \in DOMAIN jobs, HoldsBoards(j),
                      NEW i \in 1 .. Len(machines'[jobs[j].machine].freeing)
               PROVE  machines'[jobs[j].machine].freeing[i] \cap jobs[j].boards = {}
    BY DEF DelayRespected, HoldsBoards
  <2>1. jobs[j].machine \in DOMAIN machines
    BY DEF QSafe, JobsPlaced
  <2>2. PICK k \in 1 .. Len(machines[jobs[j].machine].freeing) :
          machines'[jobs[j].machine].freeing[i] = machines[jobs[j].machine].freeing[k]
    BY <2>1 DEF SameHardware
  <2> QED BY <2>2 DEF QSafe, DelayRespected
<1> QED BY <1>1, <1>2, <1>3, <1>4, <1>5 DEF QSafe

\* A job that holds no boards may come or go.
LEMMA JobWithoutBoards ==
  ASSUME QSafe, SameHardware, leaving' = leaving, target' = target,
         \A j \in DOMAIN jobs' :
           \/ j \in DOMAIN jobs /\ jobs'[j] = jobs[j]
           \/ jobs'[j].state = "pending" /\ jobs'[j].machine = NoMachine /\ jobs'[j].boards = {}
           \/ /\ j \in DOMAIN jobs
              /\ jobs[j].state = "running" /\ jobs'[j].state = "released"
              /\ jobs'[j].machine = jobs[j].machine /\ jobs'[j].boards = jobs[j].boards
  PROVE  QSafe'
<1>0. \A j \in DOMAIN jobs' : HoldsBoards(j)' =>
        /\ j \in DOMAIN jobs /\ HoldsBoards(j)
        /\ jobs'[j].machine = jobs[j].machine /\ jobs'[j].boards = jobs[j].boards
  BY DEF HoldsBoards
<1>1. JobsPlaced'
  <2> SUFFICES ASSUME NEW j \in DOMAIN jobs'
               PROVE  IF HoldsBoards(j)'
                      THEN /\ jobs'[j].machine \in DOMAIN machines'
                           /\ jobs'[j].boards \subseteq machines'[jobs'[j].machine].boards
                      ELSE jobs'[j].machine = NoMachine /\ jobs'[j].boards = {}
    BY DEF JobsPlaced
  <2>1. CASE HoldsBoards(j)'
    BY <2>1, <1>0 DEF QSafe, JobsPlaced, SameHardware
  <2>2. CASE ~HoldsBoards(j)'
    BY <2>2 DEF QSafe, JobsPlaced, HoldsBoards
  <2> QED BY <2>1, <2>2
<1>2. MachinesApart'
  BY DEF QSafe, SameHardware, MachinesApart
<1>3. UpdateOnCourse'
  BY CourseKept DEF QSafe, SameHardware
<1>4. BoardExclusive'
  BY <1>0 DEF QSafe, BoardExclusive
<1>5. DelayRespected'
  <2> SUFFICES ASSUME NEW j \in DOMAIN jobs', HoldsBoards(j)',
                      NEW i \in 1 .. Len(machines'[jobs'[j].machine].freeing)
               PROVE  machines'[jobs'[j].machine].freeing[i] \cap jobs'[j].boards = {}
    BY DEF DelayRespected
  <2>1. jobs[j].machine \in DOMAIN machines
    BY <1>0 DEF QSafe, JobsPlaced
  <2>2. PICK k \in 1 .. Len(machines[jobs[j].machine].freeing) :
          machines'[jobs[j].machine].freeing[i] = machines[jobs[j].machine].freeing[k]
    BY <1>0, <2>1 DEF SameHardware
  <2> QED BY <1>0, <2>2 DEF QSafe, DelayRespected
<1> QED BY <1>1, <1>2, <1>3, <1>4, <1>5 DEF QSafe

\* Giving back the boards of job j, by free or by remove_machine: nobody else
\* holds them, so they may wait to be reused.
LEMMA GivingBack ==
  ASSUME QTypeOK, QSafe, NEW j \in DOMAIN jobs, HoldsBoards(j),
         machines' = Freed(j), jobs' = Without(jobs, j),
         leaving' = leaving, target' = target
  PROVE  QSafe'
<1> DEFINE n == jobs[j].machine
<1>0. n \in DOMAIN machines
  BY DEF QSafe, JobsPlaced
<1>1. /\ DOMAIN machines' = DOMAIN machines
      /\ \A m \in DOMAIN machines : machines'[m].boards = machines[m].boards
      /\ \A m \in DOMAIN machines : \A i \in 1 .. Len(machines'[m].freeing) :
           \/ m = n /\ machines'[m].freeing[i] = jobs[j].boards
           \/ \E k \in 1 .. Len(machines[m].freeing) :
                machines'[m].freeing[i] = machines[m].freeing[k]
  BY <1>0, FreedFacts
<1>2. /\ DOMAIN jobs' = DOMAIN jobs \ {j}
      /\ \A k \in DOMAIN jobs' : jobs'[k] = jobs[k] /\ (HoldsBoards(k)' <=> HoldsBoards(k))
  BY DEF Without, HoldsBoards
<1>3. JobsPlaced'
  BY <1>1, <1>2 DEF QSafe, JobsPlaced
<1>4. MachinesApart'
  BY <1>1 DEF QSafe, MachinesApart
<1>5. UpdateOnCourse'
  BY <1>1, CourseKept DEF QSafe
<1>6. BoardExclusive'
  BY <1>2 DEF QSafe, BoardExclusive
<1>7. DelayRespected'
  <2> SUFFICES ASSUME NEW k \in DOMAIN jobs', HoldsBoards(k)',
                      NEW i \in 1 .. Len(machines'[jobs'[k].machine].freeing)
               PROVE  machines'[jobs'[k].machine].freeing[i] \cap jobs'[k].boards = {}
    BY DEF DelayRespected
  <2>1. k \in DOMAIN jobs /\ k # j /\ HoldsBoards(k) /\ jobs'[k] = jobs[k]
    BY <1>2
  <2>2. jobs[k].machine \in DOMAIN machines
    BY <2>1 DEF QSafe, JobsPlaced
  <2>3. CASE machines'[jobs[k].machine].freeing[i] = jobs[j].boards
    BY <2>1, <2>3 DEF QSafe, BoardExclusive
  <2>4. CASE \E l \in 1 .. Len(machines[jobs[k].machine].freeing) :
               machines'[jobs[k].machine].freeing[i] = machines[jobs[k].machine].freeing[l]
    BY <2>1, <2>4 DEF QSafe, DelayRespected
  <2> QED BY <1>1, <2>1, <2>2, <2>3, <2>4
<1> QED BY <1>3, <1>4, <1>5, <1>6, <1>7 DEF QSafe

LEMMA NothingMoved ==
  ASSUME QTypeOK, machines' = machines
  PROVE  SameHardware
<1>1. \A m \in DOMAIN machines : Len(machines[m].freeing) \in Nat
  BY LenProperties DEF QTypeOK, MachineType
<1> QED BY <1>1 DEF SameHardware

LEMMA CallsKeepSafe ==
  ASSUME QTypeOK, QSafe,
         \/ \E r \in Request : CreateJob(r) \/ RejectJob(r)
         \/ \E j \in JobId : CancelJob(j) \/ ReleaseJob(j) \/ Free(j)
         \/ CheckFree
         \/ \E m \in Machine : TimePasses(m)
  PROVE  QSafe'
<1>0. \A m \in DOMAIN machines : machines[m] \in MachineType
  BY DEF QTypeOK
<1>1. ASSUME NEW r \in Request, CreateJob(r)
      PROVE  QSafe'
  <2>1. nextId \in JobId
    BY <1>1 DEF CreateJob, CanCreate
  <2>2. SameHardware
    BY <1>1, <2>1, EnqueuedFacts DEF CreateJob, SameHardware, Enqueued
  <2>3. \A j \in DOMAIN jobs' :
          \/ j \in DOMAIN jobs /\ jobs'[j] = jobs[j]
          \/ jobs'[j].state = "pending" /\ jobs'[j].machine = NoMachine /\ jobs'[j].boards = {}
    BY <1>1 DEF CreateJob, With
  <2> QED BY <1>1, <2>2, <2>3, JobWithoutBoards DEF CreateJob
<1>2. ASSUME NEW r \in Request, RejectJob(r)
      PROVE  QSafe'
  BY <1>2, NothingMoved, SteadyKeepsSafe DEF RejectJob
<1>3. ASSUME NEW j \in JobId, CancelJob(j)
      PROVE  QSafe'
  <2>1. \A k \in DOMAIN jobs' : k \in DOMAIN jobs /\ jobs'[k] = jobs[k]
    BY <1>3 DEF CancelJob, Without
  <2> QED BY <1>3, <2>1, NothingMoved, JobWithoutBoards DEF CancelJob
<1>4. ASSUME NEW j \in JobId, ReleaseJob(j)
      PROVE  QSafe'
  <2>1. \A k \in DOMAIN jobs' : k \in DOMAIN jobs /\ (k # j => jobs'[k] = jobs[k])
    BY <1>4 DEF ReleaseJob
  <2>2. /\ jobs[j].state = "running" /\ jobs'[j].state = "released"
        /\ jobs'[j].machine = jobs[j].machine /\ jobs'[j].boards = jobs[j].boards
    BY <1>4 DEF ReleaseJob, QTypeOK, JobType
  <2> QED BY <1>4, <2>1, <2>2, NothingMoved, JobWithoutBoards DEF ReleaseJob
<1>5. ASSUME NEW j \in JobId, Free(j)
      PROVE  QSafe'
  BY <1>5, GivingBack DEF Free, HoldsBoards
<1>6. ASSUME CheckFree
      PROVE  QSafe'
  <2>1. SameHardware
    <3>1. \A m \in DOMAIN machines : machines[m].ripe \in Nat /\ Len(machines[m].freeing) \in Nat
      BY <1>0, LenProperties DEF MachineType
    <3> QED BY <1>0, <1>6, <3>1, CollectedFacts DEF CheckFree, SameHardware
  <2> QED BY <1>6, <2>1, SteadyKeepsSafe DEF CheckFree
<1>7. ASSUME NEW m \in Machine, TimePasses(m)
      PROVE  QSafe'
  <2>1. DOMAIN machines' = DOMAIN machines
    BY <1>7 DEF TimePasses
  <2>2. \A n \in DOMAIN machines : machines'[n].boards = machines[n].boards
                                    /\ machines'[n].freeing = machines[n].freeing
    BY <1>0, <1>7 DEF TimePasses, MachineType
  <2> QED BY <1>7, <2>1, <2>2, SteadyKeepsSafe DEF TimePasses, SameHardware
<1> QED BY <1>1, <1>2, <1>3, <1>4, <1>5, <1>6, <1>7

\* What the allocator of m hands out is taken from nobody.
LEMMA PlacementIsFree ==
  ASSUME QTypeOK, NEW m \in DOMAIN machines, NEW r, NEW p \in Placements(m, r)
  PROVE  /\ p \subseteq machines[m].boards
         /\ \A k \in DOMAIN jobs : jobs[k].machine = m => p \cap jobs[k].boards = {}
         /\ \A i \in machines[m].ripe + 1 .. Len(machines[m].freeing) :
              p \cap machines[m].freeing[i] = {}
<1>1. p \subseteq Working(m) /\ p \cap Unavailable(m, machines[m].ripe + 1) = {}
  BY DEF Placements
<1>2. \A k \in JobsOn(m) : jobs[k].boards \subseteq Unavailable(m, machines[m].ripe + 1)
  BY DEF Unavailable
<1>3. \A i \in machines[m].ripe + 1 .. Len(machines[m].freeing) :
        machines[m].freeing[i] \subseteq Unavailable(m, machines[m].ripe + 1)
  BY DEF Unavailable, HeldFrom
<1> QED BY <1>1, <1>2, <1>3 DEF Working, JobsOn

LEMMA TakingKeepsSafe ==
  ASSUME QTypeOK, QSafe, NEW m \in Machine, NEW j \in JobId, NEW p \in SUBSET Board,
         NEW drop \in {0, 1}, TakeBoards(m, j, p, drop), leaving' = leaving,
         target' = target
  PROVE  QSafe'
<1> DEFINE q == machines[m].queue
<1>1. m \in DOMAIN machines /\ machines[m] \in MachineType
  BY DEF TakeBoards, QTypeOK
<1>2. PICK k \in 1 .. Len(q) :
        /\ FirstPending(q, k)
        /\ j = q[k]
        /\ p \in Placements(m, jobs[j].req)
        /\ machines' = [machines EXCEPT
              ![m] = [Collected(@) EXCEPT !.queue = SubSeq(q, k + drop, Len(q))]]
  BY DEF TakeBoards
<1>3. /\ DOMAIN machines' = DOMAIN machines
      /\ \A n \in DOMAIN machines : n # m => machines'[n] = machines[n]
      /\ machines'[m] = [Collected(machines[m]) EXCEPT !.queue = SubSeq(q, k + drop, Len(q))]
  BY <1>1, <1>2
<1>4. /\ machines'[m].boards = machines[m].boards
      /\ \A i \in 1 .. Len(machines'[m].freeing) :
           \E l \in machines[m].ripe + 1 .. Len(machines[m].freeing) :
             machines'[m].freeing[i] = machines[m].freeing[l]
  BY <1>1, <1>3, CollectedFacts DEF MachineType
<1>5. /\ j \in DOMAIN jobs /\ ~HoldsBoards(j)
      /\ DOMAIN jobs' = DOMAIN jobs
      /\ jobs'[j].state = "running" /\ jobs'[j].machine = m /\ jobs'[j].boards = p
      /\ \A i \in DOMAIN jobs : i # j => jobs'[i] = jobs[i]
  BY <1>2 DEF TakeBoards, FirstPending, Pending, HoldsBoards
<1>6. \A i \in DOMAIN jobs : i # j => (HoldsBoards(i)' <=> HoldsBoards(i))
  BY <1>5 DEF HoldsBoards
<1>7. /\ p \subseteq machines[m].boards
      /\ \A i \in DOMAIN jobs : jobs[i].machine = m => p \cap jobs[i].boards = {}
      /\ \A i \in machines[m].ripe + 1 .. Len(machines[m].freeing) :
           p \cap machines[m].freeing[i] = {}
  BY <1>1, <1>2, PlacementIsFree
<1>8. \A n \in DOMAIN machines : machines'[n].boards = machines[n].boards
  BY <1>3, <1>4
<1>9. leaving' = leaving /\ target' = target
  OBVIOUS
<1>10. JobsPlaced'
  <2> SUFFICES ASSUME NEW i \in DOMAIN jobs
               PROVE  IF HoldsBoards(i)'
                      THEN /\ jobs'[i].machine \in DOMAIN machines'
                           /\ jobs'[i].boards \subseteq machines'[jobs'[i].machine].boards
                      ELSE jobs'[i].machine = NoMachine /\ jobs'[i].boards = {}
    BY <1>5 DEF JobsPlaced
  <2>1. CASE i = j
    BY <2>1, <1>1, <1>3, <1>4, <1>5, <1>7 DEF HoldsBoards
  <2>2. CASE i # j
    BY <2>2, <1>3, <1>5, <1>6, <1>8 DEF QSafe, JobsPlaced
  <2> QED BY <2>1, <2>2
<1>11. MachinesApart'
  BY <1>3, <1>8 DEF QSafe, MachinesApart
<1>12. UpdateOnCourse'
  BY <1>3, <1>8, <1>9, CourseKept DEF QSafe
<1>13. BoardExclusive'
  <2>1. \A i \in DOMAIN jobs : i # j /\ HoldsBoards(i) => p \cap jobs[i].boards = {}
    <3> SUFFICES ASSUME NEW i \in DOMAIN jobs, i # j, HoldsBoards(i)
                 PROVE  p \cap jobs[i].boards = {}
      OBVIOUS
    <3>1. CASE jobs[i].machine = m
      BY <3>1, <1>7
    <3>2. CASE jobs[i].machine # m
      BY <3>2, <1>1, <1>7 DEF QSafe, JobsPlaced, MachinesApart
    <3> QED BY <3>1, <3>2
  <2> QED BY <2>1, <1>5, <1>6 DEF QSafe, BoardExclusive
<1>14. DelayRespected'
  <2> SUFFICES ASSUME NEW i \in DOMAIN jobs, HoldsBoards(i)',
                      NEW l \in 1 .. Len(machines'[jobs'[i].machine].freeing)
               PROVE  machines'[jobs'[i].machine].freeing[l] \cap jobs'[i].boards = {}
    BY <1>5 DEF DelayRespected
  <2>1. CASE i = j
    BY <2>1, <1>4, <1>5, <1>7
  <2>2. CASE i # j /\ jobs[i].machine = m
    <3>1. PICK x \in machines[m].ripe + 1 .. Len(machines[m].freeing) :
            machines'[m].freeing[l] = machines[m].freeing[x]
      BY <2>2, <1>4, <1>5
    <3>2. x \in 1 .. Len(machines[m].freeing)
      BY <1>1, <3>1, LenProperties DEF MachineType
    <3> QED BY <2>2, <3>1, <3>2, <1>5, <1>6 DEF QSafe, DelayRespected
  <2>3. CASE i # j /\ jobs[i].machine # m
    <3>1. jobs[i].machine \in DOMAIN machines
      BY <2>3, <1>6 DEF QSafe, JobsPlaced
    <3> QED BY <2>3, <3>1, <1>3, <1>5, <1>6 DEF QSafe, DelayRespected
  <2> QED BY <2>1, <2>2, <2>3
<1> QED BY <1>10, <1>11, <1>12, <1>13, <1>14 DEF QSafe

LEMMA ProcessQueueKeepsSafe ==
  ASSUME QTypeOK, QSafe, ProcessQueue
  PROVE  QSafe'
<1>1. ASSUME NEW m \in Machine, SkipMachine(m)
      PROVE  QSafe'
  BY <1>1, NothingMoved, SteadyKeepsSafe DEF SkipMachine
<1>2. ASSUME NEW m \in Machine, FindEmpty(m)
      PROVE  QSafe'
  <2>1. \A n \in DOMAIN machines : machines[n] \in MachineType
    BY DEF QTypeOK
  <2>2. DOMAIN machines' = DOMAIN machines
    BY <1>2 DEF FindEmpty
  <2>3. \A n \in DOMAIN machines : machines'[n].boards = machines[n].boards
                                    /\ machines'[n].freeing = machines[n].freeing
    BY <1>2, <2>1 DEF FindEmpty, MachineType
  <2> QED BY <1>2, <2>2, <2>3, SteadyKeepsSafe DEF FindEmpty, SameHardware
<1>3. ASSUME NEW m \in Machine, FindBlocked(m)
      PROVE  QSafe'
  <2>1. m \in DOMAIN machines /\ machines[m] \in MachineType
    BY <1>3 DEF FindBlocked, QTypeOK
  <2>2. PICK k \in 1 .. Len(machines[m].queue) :
          machines' = [machines EXCEPT ![m] = [Collected(@) EXCEPT
            !.queue = SubSeq(machines[m].queue, k, Len(machines[m].queue))]]
    BY <1>3 DEF FindBlocked
  <2>3. /\ DOMAIN machines' = DOMAIN machines
        /\ \A n \in DOMAIN machines : n # m => machines'[n] = machines[n]
        /\ machines'[m] = [Collected(machines[m]) EXCEPT
             !.queue = SubSeq(machines[m].queue, k, Len(machines[m].queue))]
    BY <2>1, <2>2
  <2>4. /\ machines'[m].boards = machines[m].boards
        /\ \A i \in 1 .. Len(machines'[m].freeing) :
             \E l \in machines[m].ripe + 1 .. Len(machines[m].freeing) :
               machines'[m].freeing[i] = machines[m].freeing[l]
    BY <2>1, <2>3, CollectedFacts DEF MachineType
  <2>5. machines[m].ripe + 1 .. Len(machines[m].freeing) \subseteq 1 .. Len(machines[m].freeing)
    BY <2>1, LenProperties DEF MachineType
  <2>6. SameHardware
    <3> SUFFICES ASSUME NEW n \in DOMAIN machines
                 PROVE  /\ machines'[n].boards = machines[n].boards
                        /\ \A i \in 1 .. Len(machines'[n].freeing) :
                             \E l \in 1 .. Len(machines[n].freeing) :
                               machines'[n].freeing[i] = machines[n].freeing[l]
      BY <2>3 DEF SameHardware
    <3>1. CASE n = m
      BY <3>1, <2>4, <2>5
    <3>2. CASE n # m
      BY <3>2, <2>3
    <3> QED BY <3>1, <3>2
  <2> QED BY <1>3, <2>6, SteadyKeepsSafe DEF FindBlocked
<1>4. ASSUME EndPass
      PROVE  QSafe'
  BY <1>4, NothingMoved, SteadyKeepsSafe DEF EndPass
<1>5. ASSUME NEW m \in Machine, NEW j \in JobId, NEW p \in SUBSET Board,
             StartJob(m, j, p)
      PROVE  QSafe'
  BY <1>5, TakingKeepsSafe DEF StartJob
<1> QED BY <1>1, <1>2, <1>3, <1>4, <1>5 DEF ProcessQueue

LEMMA RegenerateKeepsSafe ==
  ASSUME QTypeOK, QSafe, RegenerateQueues
  PROVE  QSafe'
<1>1. ASSUME NEW j \in JobId, VisitStarted(j)
      PROVE  QSafe'
  BY <1>1, NothingMoved, SteadyKeepsSafe DEF VisitStarted
<1>2. ASSUME NEW j \in JobId, VisitPending(j)
      PROVE  QSafe'
  <2>1. SameHardware
    BY <1>2, EnqueuedFacts DEF VisitPending, SameHardware, Enqueued
  <2> QED BY <1>2, <2>1, SteadyKeepsSafe DEF VisitPending
<1>3. ASSUME NEW j \in JobId, VisitUnsuitable(j)
      PROVE  QSafe'
  <2>1. \A k \in DOMAIN jobs' : k \in DOMAIN jobs /\ jobs'[k] = jobs[k]
    BY <1>3 DEF VisitUnsuitable, Without
  <2> QED BY <1>3, <2>1, NothingMoved, JobWithoutBoards DEF VisitUnsuitable
<1>4. ASSUME EndRegen
      PROVE  QSafe'
  BY <1>4, NothingMoved, SteadyKeepsSafe DEF EndRegen
<1> QED BY <1>1, <1>2, <1>3, <1>4 DEF RegenerateQueues

\* The machine removed has no jobs left.
LEMMA RemoveMachineKeepsSafe ==
  ASSUME QTypeOK, QSafe, NEW m \in Machine, RemoveMachine(m)
  PROVE  QSafe'
<1>1. /\ DOMAIN machines' = DOMAIN machines \ {m}
      /\ \A n \in DOMAIN machines' : machines'[n] = machines[n]
      /\ jobs' = jobs /\ target' = target /\ leaving' = Tail(leaving)
  BY DEF RemoveMachine, Without
<1>2. \A j \in DOMAIN jobs : jobs[j].machine # m
  BY DEF RemoveMachine, JobsOn
<1>3. JobsPlaced'
  BY <1>1, <1>2 DEF QSafe, JobsPlaced, HoldsBoards
<1>4. MachinesApart'
  BY <1>1 DEF QSafe, MachinesApart
<1>5. UpdateOnCourse'
  <2> SUFFICES ASSUME target # NoConfig, NEW n \in DOMAIN machines, n # m,
                      ~(n \in Names(target) /\ target.desc[n].boards = machines[n].boards)
               PROVE  \E i \in 1 .. Len(leaving') : leaving'[i] = n
    BY <1>1 DEF UpdateOnCourse
  <2>1. leaving \in Seq(Machine) /\ leaving # <<>> /\ m = Head(leaving)
    BY DEF RemoveMachine, QTypeOK
  <2>2. PICK i \in 1 .. Len(leaving) : leaving[i] = n
    BY DEF QSafe, UpdateOnCourse
  <2>3. Head(leaving) = leaving[1]
    OBVIOUS
  <2>4. i # 1
    BY <2>1, <2>2, <2>3
  <2>5. Len(leaving) \in Nat /\ Len(leaving') = Len(leaving) - 1
    BY <1>1, <2>1, HeadTailProperties, LenProperties
  <2>6. i - 1 \in 1 .. Len(leaving')
    BY <2>4, <2>5
  <2>7. leaving'[i - 1] = leaving[i]
    BY <1>1, <2>1, <2>6, HeadTailProperties
  <2> QED BY <2>2, <2>6, <2>7
<1>6. BoardExclusive'
  BY <1>1 DEF QSafe, BoardExclusive, HoldsBoards
<1>7. DelayRespected'
  BY <1>1, <1>2 DEF QSafe, DelayRespected, JobsPlaced, HoldsBoards
<1> QED BY <1>3, <1>4, <1>5, <1>6, <1>7 DEF QSafe

\* When the setter comes to the machines that stay and those that are new, it
\* leaves exactly those of the configuration, each with the boards given there.
LEMMA FinishKeepsSafe ==
  ASSUME QTypeOK, QSafe, FinishUpdate
  PROVE  QSafe'
<1>1. target \in Config
  BY DEF FinishUpdate, QTypeOK
<1>2. target.desc \in [Names(target) -> Description]
  BY <1>1, ConfigAssumption
<1>3. \A m \in DOMAIN machines :
        m \in Names(target) /\ target.desc[m].boards = machines[m].boards
  <2>1. target # NoConfig /\ leaving = <<>>
    BY DEF FinishUpdate
  <2>2. ~\E i \in 1 .. Len(leaving) : TRUE
    BY <2>1
  <2> QED BY <2>1, <2>2 DEF QSafe, UpdateOnCourse
<1>4. /\ DOMAIN machines' = Names(target)
      /\ jobs' = jobs /\ target' = NoConfig
  BY DEF FinishUpdate
<1>5. \A m \in DOMAIN machines : machines'[m].boards = machines[m].boards
                                 /\ machines'[m].freeing = machines[m].freeing
  <2> SUFFICES ASSUME NEW m \in DOMAIN machines
               PROVE  machines'[m].boards = machines[m].boards
                      /\ machines'[m].freeing = machines[m].freeing
    OBVIOUS
  <2>1. machines[m] \in MachineType
    BY DEF QTypeOK
  <2>2. machines'[m] = [machines[m] EXCEPT !.tags = target.desc[m].tags,
                                           !.dead = target.desc[m].dead,
                                           !.queue = <<>>]
    BY <1>3 DEF FinishUpdate
  <2> QED BY <2>1, <2>2 DEF MachineType
<1>6. \A m \in Names(target) : machines'[m].boards = target.desc[m].boards
  <2> SUFFICES ASSUME NEW m \in Names(target)
               PROVE  machines'[m].boards = target.desc[m].boards
    OBVIOUS
  <2>1. CASE m \in DOMAIN machines
    BY <2>1, <1>3, <1>5
  <2>2. CASE m \notin DOMAIN machines
    BY <2>2, <1>2, NewMachineFacts DEF FinishUpdate
  <2> QED BY <2>1, <2>2
<1>7. JobsPlaced'
  BY <1>3, <1>4, <1>5 DEF QSafe, JobsPlaced, HoldsBoards
<1>8. MachinesApart'
  BY <1>1, <1>4, <1>6, ConfigAssumption DEF MachinesApart
<1>9. UpdateOnCourse'
  BY <1>4 DEF UpdateOnCourse
<1>10. BoardExclusive'
  BY <1>4 DEF QSafe, BoardExclusive, HoldsBoards
<1>11. DelayRespected'
  BY <1>4, <1>5 DEF QSafe, JobsPlaced, DelayRespected, HoldsBoards
<1> QED BY <1>7, <1>8, <1>9, <1>10, <1>11 DEF QSafe

LEMMA UpdateKeepsSafe ==
  ASSUME QTypeOK, QSafe, UpdateMachines
  PROVE  QSafe'
<1>1. ASSUME NEW c \in Config, StartUpdate(c)
      PROVE  QSafe'
  <2>1. Removed(c) \subseteq Machine
    BY DEF Removed, QTypeOK
  <2>2. \A m \in Removed(c) : \E i \in 1 .. Len(leaving') : leaving'[i] = m
    BY <1>1, <2>1, ArrangementFacts DEF StartUpdate
  <2>3. UpdateOnCourse'
    BY <1>1, <2>2 DEF StartUpdate, UpdateOnCourse, Removed
  <2>4. /\ JobsPlaced' /\ MachinesApart' /\ BoardExclusive' /\ DelayRespected'
    BY <1>1 DEF StartUpdate, QSafe, JobsPlaced, MachinesApart, BoardExclusive,
                DelayRespected, HoldsBoards
  <2> QED BY <2>3, <2>4 DEF QSafe
<1>2. ASSUME NEW j \in JobId, RemoveJob(j)
      PROVE  QSafe'
  BY <1>2, GivingBack DEF RemoveJob, Removing, JobsOn, HoldsBoards
<1>3. ASSUME NEW j \in JobId, RemoveReleasedJob(j)
      PROVE  QSafe'
  <2>1. /\ DOMAIN machines' = DOMAIN machines
        /\ jobs' = jobs /\ target' = NoConfig
    BY <1>3 DEF RemoveReleasedJob, Cleared
  <2>2. \A m \in DOMAIN machines : machines'[m].boards = machines[m].boards
                                    /\ machines'[m].freeing = machines[m].freeing
    BY <1>3, QueueReplaced, EmptySeq DEF RemoveReleasedJob, Cleared, QTypeOK
  <2>3. JobsPlaced' /\ MachinesApart' /\ DelayRespected'
    BY <2>1, <2>2 DEF QSafe, JobsPlaced, MachinesApart, DelayRespected, HoldsBoards
  <2>4. UpdateOnCourse' /\ BoardExclusive'
    BY <2>1 DEF QSafe, UpdateOnCourse, BoardExclusive, HoldsBoards
  <2> QED BY <2>3, <2>4 DEF QSafe
<1> QED
  BY <1>1, <1>2, <1>3, RemoveMachineKeepsSafe, FinishKeepsSafe DEF UpdateMachines

LEMMA QInitInv == QInit => QInv
<1> SUFFICES ASSUME QInit
             PROVE  QInv
  OBVIOUS
<1>1. PICK c \in Config : machines = [m \in Names(c) |-> NewMachine(c.desc[m])]
  BY DEF QInit
<1>2. \A m \in Names(c) : machines[m].boards = c.desc[m].boards
  BY <1>1, ConfigAssumption, NewMachineFacts
<1>3. MachinesApart
  BY <1>1, <1>2, ConfigAssumption DEF MachinesApart
<1>4. JobsPlaced /\ UpdateOnCourse /\ BoardExclusive /\ DelayRespected
  BY DEF QInit, JobsPlaced, UpdateOnCourse, BoardExclusive, DelayRespected
<1> QED BY <1>3, <1>4, QInitTypeOK DEF QInv

LEMMA QNextInv == QInv /\ [QNext]_qvars => QInv'
<1> SUFFICES ASSUME QInv, [QNext]_qvars
             PROVE  QInv'
  OBVIOUS
<1>1. QTypeOK /\ QSafe
  BY DEF QInv, QSafe
<1>2. QTypeOK'
  BY <1>1, QNextTypeOK
<1>3. CASE QNext
  <2>1. QSafe'
    BY <1>1, <1>3, CallsKeepSafe, ProcessQueueKeepsSafe, RegenerateKeepsSafe,
       UpdateKeepsSafe DEF QNext
  <2> QED BY <1>2, <2>1 DEF QInv, QSafe
<1>4. CASE UNCHANGED qvars
  <2>1. QSafe'
    BY <1>1, <1>4, NothingMoved, SteadyKeepsSafe DEF qvars
  <2> QED BY <1>2, <2>1 DEF QInv, QSafe
<1> QED BY <1>3, <1>4

LEMMA QInvariance == QSpec => []QInv
<1>1. QED BY QInitInv, QNextInv, PTL DEF QSpec

\* No board ever has two users, whatever jobs ask for and however often, and in
\* whatever way, the machines are updated: through destroyed jobs that are not
\* freed yet, machines recreated under them and updates that fail half-way.
THEOREM BoardsExclusive == QSpec => []BoardExclusive
<1>1. QInv => BoardExclusive
  BY DEF QInv
<1> QED BY <1>1, QInvariance, PTL

\* No job is given a board before its delayed free was collected.
THEOREM DelaysRespected == QSpec => []DelayRespected
<1>1. QInv => DelayRespected
  BY DEF QInv
<1> QED BY <1>1, QInvariance, PTL

-----------------------------------------------------------------------------
(* The jobs that come and go, and the queues they wait in.                 *)

\* Ids are given out in order.
IdsUsed == \A j \in DOMAIN jobs : j < nextId

\* Jobs come with the next id, and are pending to begin with or never again.
LEMMA JobsComeAndGo ==
  ASSUME QTypeOK, IdsUsed, [QNext]_qvars
  PROVE  /\ nextId \in Nat /\ nextId' \in Nat /\ nextId <= nextId'
         /\ IdsUsed'
         /\ \A j \in DOMAIN jobs' : Pending(j)' => j >= nextId \/ Pending(j)
<1>0. nextId \in Nat /\ DOMAIN jobs \subseteq JobId /\ JobId \subseteq Nat
  BY BoundAssumption DEF QTypeOK, JobId
<1>1. ASSUME nextId' = nextId,
             DOMAIN jobs' \subseteq DOMAIN jobs,
             \A j \in DOMAIN jobs' : jobs'[j].state = "pending" => jobs[j].state = "pending"
      PROVE  /\ nextId' \in Nat /\ nextId <= nextId'
             /\ IdsUsed'
             /\ \A j \in DOMAIN jobs' : Pending(j)' => j >= nextId \/ Pending(j)
  BY <1>0, <1>1 DEF IdsUsed, Pending
<1>2. ASSUME nextId' = nextId + 1,
             DOMAIN jobs' \subseteq DOMAIN jobs \cup {nextId},
             \A j \in DOMAIN jobs : jobs'[j] = jobs[j]
      PROVE  /\ nextId' \in Nat /\ nextId <= nextId'
             /\ IdsUsed'
             /\ \A j \in DOMAIN jobs' : Pending(j)' => j >= nextId \/ Pending(j)
  <2>1. ASSUME NEW j \in DOMAIN jobs'
        PROVE  j < nextId' /\ (Pending(j)' => j >= nextId \/ Pending(j))
    <3>1. CASE j = nextId
      BY <1>0, <1>2, <3>1
    <3>2. CASE j \in DOMAIN jobs
      <4>1. j \in Nat /\ j < nextId
        BY <1>0, <3>2 DEF IdsUsed
      <4> QED BY <1>0, <1>2, <3>2, <4>1 DEF Pending
    <3> QED BY <1>2, <3>1, <3>2
  <2> QED BY <1>0, <1>2, <2>1 DEF IdsUsed
<1>3. ASSUME NEW r \in Request, CreateJob(r) \/ RejectJob(r)
      PROVE  /\ nextId' = nextId + 1
             /\ DOMAIN jobs' \subseteq DOMAIN jobs \cup {nextId}
             /\ \A j \in DOMAIN jobs : jobs'[j] = jobs[j]
  <2>1. nextId \notin DOMAIN jobs
    BY <1>0 DEF IdsUsed
  <2> QED BY <1>3, <2>1 DEF CreateJob, RejectJob, With
<1>4. ASSUME NEW j \in JobId,
             CancelJob(j) \/ Free(j) \/ VisitUnsuitable(j) \/ RemoveJob(j)
      PROVE  /\ nextId' = nextId
             /\ DOMAIN jobs' \subseteq DOMAIN jobs
             /\ \A k \in DOMAIN jobs' : jobs'[k] = jobs[k]
  BY <1>4 DEF CancelJob, Free, VisitUnsuitable, RemoveJob, Without
<1>5. ASSUME NEW j \in JobId, ReleaseJob(j)
      PROVE  /\ nextId' = nextId
             /\ DOMAIN jobs' \subseteq DOMAIN jobs
             /\ \A k \in DOMAIN jobs' : jobs'[k].state = "pending" => jobs[k].state = "pending"
  BY <1>5 DEF ReleaseJob, QTypeOK, JobType
<1>6. ASSUME NEW m \in Machine, NEW j \in JobId, NEW p \in SUBSET Board, StartJob(m, j, p)
      PROVE  /\ nextId' = nextId
             /\ DOMAIN jobs' \subseteq DOMAIN jobs
             /\ \A k \in DOMAIN jobs' : jobs'[k].state = "pending" => jobs[k].state = "pending"
  BY <1>6 DEF StartJob, TakeBoards, QTypeOK, JobType
<1>7. ASSUME \/ CheckFree \/ EndPass \/ EndRegen \/ FinishUpdate
             \/ \E m \in Machine : \/ TimePasses(m) \/ SkipMachine(m) \/ FindEmpty(m)
                                   \/ FindBlocked(m) \/ RemoveMachine(m)
             \/ \E j \in JobId : VisitStarted(j) \/ VisitPending(j) \/ RemoveReleasedJob(j)
             \/ \E c \in Config : StartUpdate(c)
             \/ UNCHANGED qvars
      PROVE  nextId' = nextId /\ jobs' = jobs
  BY <1>7 DEF CheckFree, EndPass, EndRegen, FinishUpdate, TimePasses, SkipMachine, FindEmpty,
     FindBlocked, RemoveMachine, VisitStarted, VisitPending, RemoveReleasedJob, StartUpdate,
     qvars
<1> QED BY <1>0, <1>1, <1>2, <1>3, <1>4, <1>5, <1>6, <1>7
        DEF QNext, ProcessQueue, RegenerateQueues, UpdateMachines

-----------------------------------------------------------------------------
(* The queues of the machines.                                             *)

\* An update of the machines starts when nothing else is under way, ...
OneAtATime ==
  /\ target # NoConfig => scan.at = 0 /\ regen = 0
  /\ target = NoConfig => leaving = <<>>

LEMMA QNextOneAtATime ==
  ASSUME QTypeOK, OneAtATime, [QNext]_qvars
  PROVE  OneAtATime'
<1>1. scan.at \in Nat
  BY DEF QTypeOK
<1>2. CASE \/ \E r \in Request : CreateJob(r) \/ RejectJob(r)
           \/ \E j \in JobId : CancelJob(j) \/ ReleaseJob(j) \/ Free(j)
           \/ CheckFree
  BY <1>2 DEF CreateJob, RejectJob, CanCreate, CancelJob, ReleaseJob, Free, CheckFree,
     LockFree, OneAtATime
<1>3. CASE \/ UNCHANGED qvars \/ \E m \in Machine : TimePasses(m)
  BY <1>3 DEF qvars, TimePasses, OneAtATime
<1>4. CASE ProcessQueue
  <2>1. scan.at > 0
    <3>1. ASSUME NEW m \in Machine, Scanning(m)
          PROVE  scan.at > 0
      BY <3>1, <1>1 DEF Scanning
    <3>2. Len(order) \in Nat
      BY LenProperties DEF QTypeOK
    <3>3. ASSUME scan.at > Len(order)
          PROVE  scan.at > 0
      BY <3>2, <3>3, <1>1
    <3> QED BY <1>4, <3>1, <3>3 DEF ProcessQueue, SkipMachine, FindEmpty, FindBlocked,
               StartJob, EndPass
  <2>2. UNCHANGED <<target, leaving, regen>>
    BY <1>4 DEF ProcessQueue, SkipMachine, FindEmpty, FindBlocked, StartJob, EndPass
  <2> QED BY <1>1, <2>1, <2>2 DEF OneAtATime
<1>5. CASE RegenerateQueues
  <2>1. regen # 0 /\ UNCHANGED <<target, leaving>>
    BY <1>5 DEF RegenerateQueues, VisitStarted, VisitPending, VisitUnsuitable, EndRegen,
       Visiting, QTypeOK
  <2> QED BY <2>1 DEF OneAtATime
<1>6. CASE UpdateMachines
  <2>1. ASSUME NEW c \in Config, StartUpdate(c)
        PROVE  OneAtATime'
    BY <2>1, ConfigAssumption DEF StartUpdate, LockFree, Idle, OneAtATime
  <2>2. ASSUME NEW j \in JobId, RemoveJob(j)
        PROVE  OneAtATime'
    BY <2>2 DEF RemoveJob, OneAtATime, Removing
  <2>3. ASSUME NEW j \in JobId, RemoveReleasedJob(j)
        PROVE  OneAtATime'
    BY <2>3 DEF RemoveReleasedJob, OneAtATime
  <2>4. ASSUME NEW m \in Machine, RemoveMachine(m)
        PROVE  OneAtATime'
    BY <2>4 DEF RemoveMachine, OneAtATime
  <2>5. CASE FinishUpdate
    BY <2>5 DEF FinishUpdate, OneAtATime
  <2> QED BY <1>6, <2>1, <2>2, <2>3, <2>4, <2>5 DEF UpdateMachines
<1> QED BY <1>2, <1>3, <1>4, <1>5, <1>6 DEF QNext

\* The machines in service are the same, and suit the same jobs.
SameFit ==
  /\ DOMAIN machines' = DOMAIN machines
  /\ \A m \in DOMAIN machines :
       /\ machines'[m].tags = machines[m].tags
       /\ machines'[m].boards = machines[m].boards
       /\ machines'[m].dead = machines[m].dead

LEMMA SameSuitable ==
  ASSUME SameFit, NEW r
  PROVE  Suitable(r)' = Suitable(r)
<1>1. ASSUME NEW m \in DOMAIN machines
      PROVE  (m \in Suitable(r)') <=> m \in Suitable(r)
  BY DEF SameFit, Suitable, AllocPossible, Working
<1> QED BY <1>1 DEF SameFit, Suitable

\* Jobs may go, and none comes to be pending.
JobsGo ==
  /\ DOMAIN jobs' \subseteq DOMAIN jobs
  /\ \A j \in DOMAIN jobs' : Pending(j)' => Pending(j) /\ jobs'[j].req = jobs[j].req

\* What a step does to the queues: nothing, ...
QueuesStay ==
  /\ SameFit /\ JobsGo
  /\ \A m \in DOMAIN machines : machines'[m].queue = machines[m].queue
  /\ nextId' \in {nextId, nextId + 1}
  /\ UNCHANGED <<regen, target, fault>>

\* ... a job is put in those it suits, being new or visited, ...
JobQueued(j) ==
  /\ SameFit
  /\ Pending(j)'
  /\ DOMAIN jobs' = DOMAIN jobs \cup {j} /\ \A k \in DOMAIN jobs \ {j} : jobs'[k] = jobs[k]
  /\ \A m \in DOMAIN machines :
       machines'[m].queue = IF m \in Suitable(jobs'[j].req)
                            THEN Append(machines[m].queue, j) ELSE machines[m].queue
  /\ \/ j = nextId /\ nextId' = nextId + 1 /\ regen = 0 /\ regen' = 0
     \/ /\ j \in DOMAIN jobs /\ nextId' = nextId
        /\ regen \in 1 .. j /\ regen' = j + 1
        /\ \A k \in DOMAIN jobs : k < j => k < regen
  /\ UNCHANGED <<target, fault>>

\* ... the first d - 1 jobs, which no longer wait, are dropped from that of m, ...
QueueDrops(m, d) ==
  /\ SameFit /\ JobsGo
  /\ d \in 1 .. Len(machines[m].queue) + 1
  /\ machines'[m].queue = SubSeq(machines[m].queue, d, Len(machines[m].queue))
  /\ \A n \in DOMAIN machines \ {m} : machines'[n].queue = machines[n].queue
  /\ \A j \in JobId : (\E i \in 1 .. d - 1 : machines[m].queue[i] = j) => ~Pending(j)'
  /\ UNCHANGED <<nextId, regen, target, fault>>

\* ... the regeneration goes on past jobs that no queue is for, or ends, ...
VisitPasses ==
  /\ JobsGo
  /\ regen > 0 /\ regen' <= nextId
  /\ UNCHANGED <<machines, nextId, target>>
  /\ \/ fault' = "RuntimeError" /\ regen' = 0
     \/ /\ fault' = fault /\ (regen' = 0 \/ regen <= regen')
        /\ \A j \in DOMAIN jobs' : Pending(j)' /\ (regen' = 0 \/ j < regen') => j < regen

\* ... machines go that an update removes, ...
Updating ==
  /\ JobsGo
  /\ target' # NoConfig
  /\ DOMAIN machines' \subseteq DOMAIN machines
  /\ \A m \in DOMAIN machines' : machines'[m].queue = machines[m].queue
  /\ UNCHANGED <<nextId, regen>>

\* ... or the regeneration starts with queues that are empty.
QueuesCleared ==
  /\ jobs' = jobs /\ nextId' = nextId
  /\ regen' = 1
  /\ \A m \in DOMAIN machines' : machines'[m].queue = <<>>

QueueShapes ==
  \/ QueuesStay
  \/ \E j \in JobId : JobQueued(j)
  \/ \E m \in DOMAIN machines : \E d \in Nat : QueueDrops(m, d)
  \/ VisitPasses
  \/ Updating
  \/ QueuesCleared

LEMMA EnqueuedQueues ==
  ASSUME QTypeOK, NEW j \in JobId, NEW r, machines' = Enqueued(j, r)
  PROVE  /\ SameFit
         /\ \A m \in DOMAIN machines :
              machines'[m].queue = IF m \in Suitable(r)
                                   THEN Append(machines[m].queue, j) ELSE machines[m].queue
<1>1. DOMAIN machines' = DOMAIN machines
  BY DEF Enqueued
<1>2. ASSUME NEW m \in DOMAIN machines
      PROVE  /\ machines'[m].tags = machines[m].tags
             /\ machines'[m].boards = machines[m].boards
             /\ machines'[m].dead = machines[m].dead
             /\ machines'[m].queue = IF m \in Suitable(r)
                                     THEN Append(machines[m].queue, j) ELSE machines[m].queue
  <2>1. machines[m] \in MachineType
    BY DEF QTypeOK
  <2> QED BY <2>1 DEF Enqueued, MachineType
<1> QED BY <1>1, <1>2 DEF SameFit

LEMMA CollectedFit ==
  ASSUME NEW mach \in MachineType
  PROVE  /\ Collected(mach) \in MachineType
         /\ Collected(mach).tags = mach.tags /\ Collected(mach).boards = mach.boards
         /\ Collected(mach).dead = mach.dead /\ Collected(mach).queue = mach.queue
<1>1. Collected(mach) \in MachineType /\ Collected(mach).queue = mach.queue
      /\ Collected(mach).boards = mach.boards
  BY CollectedFacts
<1>2. PICK s : s = SubSeq(mach.freeing, mach.ripe + 1, Len(mach.freeing))
  OBVIOUS
<1>3. Collected(mach) = [mach EXCEPT !.freeing = s, !.ripe = 0]
  BY <1>2 DEF Collected
<1>4. Collected(mach).tags = mach.tags /\ Collected(mach).dead = mach.dead
  BY <1>3 DEF MachineType
<1> QED BY <1>1, <1>4

LEMMA CallsOnQueues ==
  ASSUME QTypeOK, IdsUsed,
         \/ \E r \in Request : CreateJob(r) \/ RejectJob(r)
         \/ \E j \in JobId : CancelJob(j) \/ ReleaseJob(j) \/ Free(j)
         \/ CheckFree
         \/ \E m \in Machine : TimePasses(m)
         \/ UNCHANGED qvars
  PROVE  QueueShapes
<1>1. ASSUME NEW r \in Request, CreateJob(r)
      PROVE  QueueShapes
  <2>1. PICK j \in JobId : j = nextId
    BY <1>1 DEF CreateJob, CanCreate
  <2>2. /\ jobs' = With(jobs, j, [state |-> "pending", req |-> r,
                                  machine |-> NoMachine, boards |-> {}])
        /\ machines' = Enqueued(j, r) /\ nextId' = nextId + 1
        /\ regen = 0 /\ regen' = 0 /\ UNCHANGED <<target, fault>>
    BY <1>1, <2>1 DEF CreateJob, CanCreate, LockFree
  <2>3. /\ DOMAIN jobs' = DOMAIN jobs \cup {j} /\ \A k \in DOMAIN jobs \ {j} : jobs'[k] = jobs[k]
        /\ jobs'[j].req = r /\ Pending(j)'
    BY <2>2 DEF With, Pending
  <2>4. /\ SameFit
        /\ \A m \in DOMAIN machines :
              machines'[m].queue = IF m \in Suitable(r)
                                   THEN Append(machines[m].queue, j) ELSE machines[m].queue
    BY <2>2, EnqueuedQueues
  <2> QED BY <2>1, <2>2, <2>3, <2>4 DEF JobQueued, QueueShapes
<1>2. ASSUME NEW r \in Request, RejectJob(r)
      PROVE  QueueShapes
  <2>1. QueuesStay
    BY <1>2 DEF RejectJob, QueuesStay, SameFit, JobsGo, Pending
  <2> QED BY <2>1 DEF QueueShapes
<1>3. ASSUME NEW j \in JobId, CancelJob(j)
      PROVE  QueueShapes
  <2>1. QueuesStay
    BY <1>3 DEF CancelJob, QueuesStay, SameFit, JobsGo, Pending, Without
  <2> QED BY <2>1 DEF QueueShapes
<1>4. ASSUME NEW j \in JobId, ReleaseJob(j)
      PROVE  QueueShapes
  <2>1. JobsGo
    <3>1. DOMAIN jobs' = DOMAIN jobs /\ \A k \in DOMAIN jobs \ {j} : jobs'[k] = jobs[k]
      BY <1>4 DEF ReleaseJob
    <3>2. jobs'[j].state = "released"
      BY <1>4 DEF ReleaseJob, QTypeOK, JobType
    <3> QED BY <3>1, <3>2 DEF JobsGo, Pending
  <2>2. QueuesStay
    BY <1>4, <2>1 DEF ReleaseJob, QueuesStay, SameFit
  <2> QED BY <2>2 DEF QueueShapes
<1>5. ASSUME NEW j \in JobId, Free(j)
      PROVE  QueueShapes
  <2>1. PICK n : n = jobs[j].machine
    OBVIOUS
  <2>2. machines' = [machines EXCEPT ![n].freeing = Append(@, jobs[j].boards)]
    BY <1>5, <2>1 DEF Free, Freed
  <2>3. \A m \in DOMAIN machines : machines[m] \in MachineType
    BY DEF QTypeOK
  <2>4. SameFit /\ \A m \in DOMAIN machines : machines'[m].queue = machines[m].queue
    BY <2>2, <2>3 DEF SameFit, MachineType
  <2>5. JobsGo
    BY <1>5 DEF Free, JobsGo, Without, Pending
  <2>6. QueuesStay
    BY <1>5, <2>4, <2>5 DEF Free, QueuesStay
  <2> QED BY <2>6 DEF QueueShapes
<1>6. ASSUME CheckFree
      PROVE  QueueShapes
  <2>1. machines' = [m \in DOMAIN machines |-> Collected(machines[m])]
        /\ \A m \in DOMAIN machines : machines[m] \in MachineType
    BY <1>6 DEF CheckFree, QTypeOK
  <2>2. SameFit /\ \A m \in DOMAIN machines : machines'[m].queue = machines[m].queue
    BY <2>1, CollectedFit DEF SameFit
  <2>3. QueuesStay
    BY <1>6, <2>2 DEF CheckFree, QueuesStay, JobsGo, Pending
  <2> QED BY <2>3 DEF QueueShapes
<1>7. ASSUME NEW m \in Machine, TimePasses(m)
      PROVE  QueueShapes
  <2>1. \A n \in DOMAIN machines : machines[n] \in MachineType
    BY DEF QTypeOK
  <2>2. SameFit /\ \A n \in DOMAIN machines : machines'[n].queue = machines[n].queue
    BY <1>7, <2>1 DEF TimePasses, SameFit, MachineType
  <2>3. QueuesStay
    BY <1>7, <2>2 DEF TimePasses, QueuesStay, JobsGo, Pending
  <2> QED BY <2>3 DEF QueueShapes
<1>8. ASSUME UNCHANGED qvars
      PROVE  QueueShapes
  <2>1. QueuesStay
    BY <1>8 DEF qvars, QueuesStay, SameFit, JobsGo, Pending
  <2> QED BY <2>1 DEF QueueShapes
<1> QED BY <1>1, <1>2, <1>3, <1>4, <1>5, <1>6, <1>7, <1>8

LEMMA ProcessOnQueues ==
  ASSUME QTypeOK, ProcessQueue
  PROVE  QueueShapes
<1>1. ASSUME NEW m \in Machine, SkipMachine(m)
      PROVE  QueueShapes
  <2>1. QueuesStay
    BY <1>1 DEF SkipMachine, QueuesStay, SameFit, JobsGo, Pending
  <2> QED BY <2>1 DEF QueueShapes
<1>2. ASSUME NEW m \in Machine, FindEmpty(m)
      PROVE  QueueShapes
  <2>1. PICK q : q = machines[m].queue
    OBVIOUS
  <2>2. q \in Seq(JobId) /\ Len(q) \in Nat /\ m \in DOMAIN machines
        /\ \A n \in DOMAIN machines : machines[n] \in MachineType
    BY <1>2, <2>1, LenProperties DEF QTypeOK, MachineType, FindEmpty
  <2>3. PICK d \in Nat : d = Len(q) + 1
    BY <2>2
  <2>4. SubSeq(q, d, Len(q)) = <<>> /\ d \in 1 .. Len(q) + 1
    BY <2>2, <2>3
  <2>5. machines' = [machines EXCEPT ![m].queue = <<>>]
        /\ jobs' = jobs /\ UNCHANGED <<nextId, regen, target, fault>>
    BY <1>2 DEF FindEmpty
  <2>6. SameFit /\ machines'[m].queue = <<>>
        /\ \A n \in DOMAIN machines \ {m} : machines'[n].queue = machines[n].queue
    BY <2>2, <2>5 DEF SameFit, MachineType
  <2>7. \A i \in 1 .. d - 1 : ~Pending(q[i])'
    BY <1>2, <2>1, <2>2, <2>3, <2>5 DEF FindEmpty, Pending
  <2>8. QueueDrops(m, d)
    BY <2>1, <2>2, <2>4, <2>5, <2>6, <2>7 DEF QueueDrops, JobsGo, Pending
  <2> QED BY <2>2, <2>3, <2>8 DEF QueueShapes
<1>3. ASSUME NEW m \in Machine, FindBlocked(m)
      PROVE  QueueShapes
  <2>1. PICK q : q = machines[m].queue
    OBVIOUS
  <2>2. q \in Seq(JobId) /\ Len(q) \in Nat /\ m \in DOMAIN machines
        /\ \A n \in DOMAIN machines : machines[n] \in MachineType
    BY <1>3, <2>1, LenProperties DEF QTypeOK, MachineType, FindBlocked
  <2>3. PICK k \in 1 .. Len(q) :
           /\ FirstPending(q, k)
           /\ machines' = [machines EXCEPT
                ![m] = [Collected(@) EXCEPT !.queue = SubSeq(q, k, Len(q))]]
    BY <1>3, <2>1 DEF FindBlocked
  <2>4. PICK c \in MachineType :
           /\ c = Collected(machines[m])
           /\ c.tags = machines[m].tags /\ c.boards = machines[m].boards
           /\ c.dead = machines[m].dead
    BY <2>2, CollectedFit
  <2>5. SameFit /\ machines'[m].queue = SubSeq(q, k, Len(q))
        /\ \A n \in DOMAIN machines \ {m} : machines'[n].queue = machines[n].queue
    BY <2>2, <2>3, <2>4 DEF SameFit, MachineType
  <2>6. jobs' = jobs /\ UNCHANGED <<nextId, regen, target, fault>>
    BY <1>3 DEF FindBlocked
  <2>7. k \in Nat /\ k \in 1 .. Len(q) + 1 /\ \A i \in 1 .. k - 1 : ~Pending(q[i])'
    BY <2>2, <2>3, <2>6 DEF FirstPending, Pending
  <2>8. QueueDrops(m, k)
    BY <2>1, <2>5, <2>6, <2>7 DEF QueueDrops, JobsGo, Pending
  <2> QED BY <2>2, <2>7, <2>8 DEF QueueShapes
<1>4. ASSUME NEW m \in Machine, NEW j \in JobId, NEW p \in SUBSET Board, StartJob(m, j, p)
      PROVE  QueueShapes
  <2>1. PICK q : q = machines[m].queue
    OBVIOUS
  <2>2. q \in Seq(JobId) /\ Len(q) \in Nat /\ m \in DOMAIN machines
        /\ \A n \in DOMAIN machines : machines[n] \in MachineType
    BY <1>4, <2>1, LenProperties DEF QTypeOK, MachineType, StartJob, TakeBoards
  <2>3. PICK k \in 1 .. Len(q) :
           /\ FirstPending(q, k) /\ j = q[k]
           /\ machines' = [machines EXCEPT
                ![m] = [Collected(@) EXCEPT !.queue = SubSeq(q, k + 1, Len(q))]]
    BY <1>4, <2>1 DEF StartJob, TakeBoards
  <2>4. PICK c \in MachineType :
           /\ c = Collected(machines[m])
           /\ c.tags = machines[m].tags /\ c.boards = machines[m].boards
           /\ c.dead = machines[m].dead
    BY <2>2, CollectedFit
  <2>5. SameFit /\ machines'[m].queue = SubSeq(q, k + 1, Len(q))
        /\ \A n \in DOMAIN machines \ {m} : machines'[n].queue = machines[n].queue
    BY <2>2, <2>3, <2>4 DEF SameFit, MachineType
  <2>6. UNCHANGED <<nextId, regen, target, fault>>
        /\ jobs' = [jobs EXCEPT ![j] = [state |-> "running", req |-> jobs[j].req,
                                       machine |-> m, boards |-> p]]
    BY <1>4 DEF StartJob, TakeBoards
  <2>7. PICK d \in Nat : d = k + 1
    BY <2>2
  <2>8. JobsGo /\ ~Pending(j)'
    BY <2>6 DEF JobsGo, Pending
  <2>9. d \in 1 .. Len(q) + 1 /\ \A i \in 1 .. d - 1 : i = k \/ i \in 1 .. k - 1
    BY <2>2, <2>7
  <2>10. ASSUME NEW i \in 1 .. d - 1
         PROVE  ~Pending(q[i])'
    <3>1. CASE i = k
      BY <3>1, <2>3, <2>6 DEF Pending
    <3>2. CASE i \in 1 .. k - 1
      BY <3>2, <2>3, <2>6 DEF FirstPending, Pending
    <3> QED BY <2>9, <3>1, <3>2
  <2>11. QueueDrops(m, d)
    BY <2>1, <2>5, <2>6, <2>7, <2>8, <2>9, <2>10 DEF QueueDrops
  <2> QED BY <2>2, <2>7, <2>11 DEF QueueShapes
<1>5. ASSUME EndPass
      PROVE  QueueShapes
  <2>1. QueuesStay
    BY <1>5 DEF EndPass, QueuesStay, SameFit, JobsGo, Pending
  <2> QED BY <2>1 DEF QueueShapes
<1> QED BY <1>1, <1>2, <1>3, <1>4, <1>5 DEF ProcessQueue

LEMMA RegenerateOnQueues ==
  ASSUME QTypeOK, IdsUsed, RegenerateQueues
  PROVE  QueueShapes
<1>1. regen \in Nat /\ nextId \in Nat /\ \A j \in DOMAIN jobs : j \in Nat /\ j < nextId
  BY BoundAssumption DEF QTypeOK, IdsUsed, JobId
<1>2. ASSUME NEW j \in JobId, VisitStarted(j)
      PROVE  QueueShapes
  <2>1. /\ j \in DOMAIN jobs /\ ~Pending(j) /\ regen \in 1 .. j /\ regen' = j + 1
        /\ \A k \in DOMAIN jobs : k < j => k < regen
        /\ UNCHANGED <<machines, jobs, nextId, target, fault>>
    BY <1>2 DEF VisitStarted, Visiting
  <2>2. JobsGo /\ regen' <= nextId /\ regen > 0 /\ regen <= regen'
    BY <1>1, <2>1 DEF JobsGo, Pending
  <2>3. ASSUME NEW k \in DOMAIN jobs', k < regen', Pending(k)'
        PROVE  k < regen
    <3>1. k \in DOMAIN jobs /\ k # j
      BY <2>1, <2>3 DEF Pending
    <3> QED BY <1>1, <2>1, <2>3, <3>1
  <2>4. VisitPasses
    BY <1>1, <2>1, <2>2, <2>3 DEF VisitPasses
  <2> QED BY <2>4 DEF QueueShapes
<1>3. ASSUME NEW j \in JobId, VisitPending(j)
      PROVE  QueueShapes
  <2>1. /\ j \in DOMAIN jobs /\ Pending(j) /\ regen \in 1 .. j /\ regen' = j + 1
        /\ \A k \in DOMAIN jobs : k < j => k < regen
        /\ machines' = Enqueued(j, jobs[j].req)
        /\ UNCHANGED <<jobs, nextId, target, fault>>
    BY <1>3 DEF VisitPending, Visiting
  <2>2. PICK r : r = jobs[j].req
    OBVIOUS
  <2>3. /\ SameFit
        /\ \A m \in DOMAIN machines :
              machines'[m].queue = IF m \in Suitable(r)
                                   THEN Append(machines[m].queue, j) ELSE machines[m].queue
    BY <2>1, <2>2, EnqueuedQueues
  <2>4. JobQueued(j)
    BY <2>1, <2>2, <2>3 DEF JobQueued, Pending
  <2> QED BY <2>4 DEF QueueShapes
<1>4. ASSUME NEW j \in JobId, VisitUnsuitable(j)
      PROVE  QueueShapes
  <2>1. /\ j \in DOMAIN jobs /\ regen \in 1 .. j
        /\ \A k \in DOMAIN jobs : k < j => k < regen
        /\ UNCHANGED <<machines, nextId, target>>
        /\ \/ regen' = 0 /\ fault' = "RuntimeError"
           \/ regen' = j + 1 /\ UNCHANGED fault
    BY <1>4 DEF VisitUnsuitable, Visiting
  <2>2. jobs' = Without(jobs, j)
    BY <1>4 DEF VisitUnsuitable
  <2>3. JobsGo /\ DOMAIN jobs' = DOMAIN jobs \ {j}
    BY <2>2 DEF JobsGo, Without, Pending
  <2>4. VisitPasses
    BY <1>1, <2>1, <2>3 DEF VisitPasses
  <2> QED BY <2>4 DEF QueueShapes
<1>5. ASSUME EndRegen
      PROVE  QueueShapes
  <2>1. VisitPasses
    BY <1>1, <1>5 DEF EndRegen, VisitPasses, JobsGo, Pending
  <2> QED BY <2>1 DEF QueueShapes
<1> QED BY RegenerateQueues, <1>2, <1>3, <1>4, <1>5 DEF RegenerateQueues

LEMMA UpdateOnQueues ==
  ASSUME QTypeOK, OneAtATime, UpdateMachines
  PROVE  QueueShapes
<1>1. ASSUME NEW c \in Config, StartUpdate(c)
      PROVE  QueueShapes
  <2>1. Updating
    BY <1>1, ConfigAssumption DEF StartUpdate, Updating, JobsGo, Pending
  <2> QED BY <2>1 DEF QueueShapes
<1>2. ASSUME NEW j \in JobId, RemoveJob(j)
      PROVE  QueueShapes
  <2>1. PICK n : n = jobs[j].machine
    OBVIOUS
  <2>2. machines' = [machines EXCEPT ![n].freeing = Append(@, jobs[j].boards)]
    BY <1>2, <2>1 DEF RemoveJob, Freed
  <2>3. \A m \in DOMAIN machines : machines[m] \in MachineType
    BY DEF QTypeOK
  <2>4. DOMAIN machines' = DOMAIN machines
        /\ \A m \in DOMAIN machines : machines'[m].queue = machines[m].queue
    BY <2>2, <2>3 DEF MachineType
  <2>5. target' # NoConfig /\ UNCHANGED <<nextId, regen>> /\ JobsGo
    BY <1>2 DEF RemoveJob, Removing, OneAtATime, JobsGo, Without, Pending
  <2> QED BY <2>4, <2>5 DEF Updating, QueueShapes
<1>3. ASSUME NEW j \in JobId, RemoveReleasedJob(j)
      PROVE  QueueShapes
  <2>1. \A m \in DOMAIN machines : machines[m] \in MachineType
    BY DEF QTypeOK
  <2>2. \A m \in DOMAIN machines' : machines'[m].queue = <<>>
    BY <1>3, <2>1 DEF RemoveReleasedJob, Cleared, MachineType
  <2>3. QueuesCleared
    BY <1>3, <2>2 DEF RemoveReleasedJob, QueuesCleared
  <2> QED BY <2>3 DEF QueueShapes
<1>4. ASSUME NEW m \in Machine, RemoveMachine(m)
      PROVE  QueueShapes
  <2>1. target' # NoConfig /\ UNCHANGED <<nextId, regen>> /\ JobsGo
    BY <1>4 DEF RemoveMachine, OneAtATime, JobsGo, Pending
  <2>2. DOMAIN machines' \subseteq DOMAIN machines
        /\ \A n \in DOMAIN machines' : machines'[n].queue = machines[n].queue
    BY <1>4 DEF RemoveMachine, Without
  <2> QED BY <2>1, <2>2 DEF Updating, QueueShapes
<1>5. ASSUME FinishUpdate
      PROVE  QueueShapes
  <2>1. \A m \in DOMAIN machines : machines[m] \in MachineType
    BY DEF QTypeOK
  <2>2. ASSUME NEW m \in DOMAIN machines'
        PROVE  machines'[m].queue = <<>>
    BY <1>5, <2>1 DEF FinishUpdate, MachineType, NewMachine
  <2>3. QueuesCleared
    BY <1>5, <2>2 DEF FinishUpdate, QueuesCleared
  <2> QED BY <2>3 DEF QueueShapes
<1> QED BY <1>1, <1>2, <1>3, <1>4, <1>5 DEF UpdateMachines

LEMMA QNextOnQueues ==
  ASSUME QTypeOK, IdsUsed, OneAtATime, [QNext]_qvars
  PROVE  QueueShapes
<1> QED BY CallsOnQueues, ProcessOnQueues, RegenerateOnQueues, UpdateOnQueues DEF QNext

InOrder(q) == \A i, k \in 1 .. Len(q) : i < k => q[i] < q[k]

\* A job is in a queue.
Holds(q, j) == \E i \in 1 .. Len(q) : q[i] = j

\* Putting a later job at the end of a queue, ...
LEMMA AppendedInOrder ==
  ASSUME NEW q \in Seq(JobId), NEW j \in JobId
  PROVE  /\ Append(q, j) \in Seq(JobId) /\ Holds(Append(q, j), j)
         /\ \A k : k # j => (Holds(Append(q, j), k) <=> Holds(q, k))
         /\ InOrder(q) /\ (\A i \in 1 .. Len(q) : q[i] < j) => InOrder(Append(q, j))
<1>1. PICK a \in Seq(JobId) : a = Append(q, j)
  BY AppendProperties
<1>2. Len(q) \in Nat /\ Len(a) = Len(q) + 1 /\ a[Len(q) + 1] = j
      /\ \A i \in 1 .. Len(q) : a[i] = q[i]
  <2>1. Len(q) \in Nat
    BY LenProperties
  <2>2. Len(a) = Len(q) + 1 /\ a[Len(q) + 1] = j
    BY <1>1, AppendProperties
  <2>3. \A i \in 1 .. Len(q) : a[i] = q[i]
    BY <1>1, AppendProperties
  <2> QED BY <2>1, <2>2, <2>3
<1>3. Len(a) \in 1 .. Len(a) /\ Holds(a, j)
  BY <1>2 DEF Holds
<1>4. ASSUME NEW k, k # j
      PROVE  Holds(a, k) <=> Holds(q, k)
  <2>1. ASSUME NEW i \in 1 .. Len(a), a[i] = k
        PROVE  i \in 1 .. Len(q) /\ q[i] = k
    BY <1>2, <1>4, <2>1
  <2>2. \A i \in 1 .. Len(q) : i \in 1 .. Len(a)
    BY <1>2
  <2> QED BY <1>2, <2>1, <2>2 DEF Holds
<1>5. ASSUME InOrder(q), \A i \in 1 .. Len(q) : q[i] < j
      PROVE  InOrder(a)
  <2> SUFFICES ASSUME NEW i \in 1 .. Len(a), NEW k \in 1 .. Len(a), i < k
               PROVE  a[i] < a[k]
    BY DEF InOrder
  <2>1. i \in 1 .. Len(q) /\ (k \in 1 .. Len(q) \/ k = Len(q) + 1)
    BY <1>2
  <2> QED BY <1>2, <1>5, <2>1 DEF InOrder
<1> QED BY <1>1, <1>3, <1>4, <1>5

\* ... and dropping its first jobs, keep it in order.
LEMMA DroppedInOrder ==
  ASSUME NEW q \in Seq(JobId), NEW d \in 1 .. Len(q) + 1
  PROVE  /\ \A i \in 1 .. Len(SubSeq(q, d, Len(q))) :
              i + d - 1 \in 1 .. Len(q) /\ SubSeq(q, d, Len(q))[i] = q[i + d - 1]
         /\ InOrder(q) => InOrder(SubSeq(q, d, Len(q)))
         /\ \A k : (\A i \in 1 .. d - 1 : q[i] # k)
                     => (Holds(SubSeq(q, d, Len(q)), k) <=> Holds(q, k))
<1>1. PICK s : s = SubSeq(q, d, Len(q))
  OBVIOUS
<1>2. Len(q) \in Nat /\ d \in Nat
  OBVIOUS
<1>3. Len(s) = Len(q) - d + 1 /\ \A i \in 1 .. Len(q) - d + 1 : s[i] = q[d + i - 1]
  BY <1>1, <1>2
<1>4. ASSUME NEW i \in 1 .. Len(s)
      PROVE  i + d - 1 \in 1 .. Len(q) /\ s[i] = q[i + d - 1]
  <2>1. i \in 1 .. Len(q) - d + 1 /\ d + i - 1 = i + d - 1 /\ i + d - 1 \in 1 .. Len(q)
    BY <1>2, <1>3
  <2>2. s[i] = q[d + i - 1]
    BY <1>3, <2>1
  <2> QED BY <2>1, <2>2
<1>5. ASSUME InOrder(q)
      PROVE  InOrder(s)
  <2> SUFFICES ASSUME NEW i \in 1 .. Len(s), NEW k \in 1 .. Len(s), i < k
               PROVE  s[i] < s[k]
    BY DEF InOrder
  <2>1. i + d - 1 \in 1 .. Len(q) /\ k + d - 1 \in 1 .. Len(q) /\ i + d - 1 < k + d - 1
        /\ s[i] = q[i + d - 1] /\ s[k] = q[k + d - 1]
    BY <1>2, <1>4
  <2> QED BY <1>5, <2>1 DEF InOrder
<1>6. ASSUME NEW k, \A i \in 1 .. d - 1 : q[i] # k
      PROVE  Holds(s, k) <=> Holds(q, k)
  <2>1. Holds(s, k) => Holds(q, k)
    BY <1>4 DEF Holds
  <2>2. ASSUME NEW i \in 1 .. Len(q), q[i] = k
        PROVE  Holds(s, k)
    <3>1. i >= d
      BY <1>2, <1>6, <2>2
    <3>2. i - d + 1 \in 1 .. Len(s) /\ (i - d + 1) + d - 1 = i
      BY <1>2, <1>3, <3>1
    <3>3. s[i - d + 1] = k
      BY <1>4, <2>2, <3>2
    <3> QED BY <3>2, <3>3 DEF Holds
  <2> QED BY <2>1, <2>2 DEF Holds
<1> QED BY <1>1, <1>4, <1>5, <1>6

\* Every job in a queue has been created, and visited by the regeneration.
Visited == IF regen = 0 THEN nextId ELSE regen

QueuesVisited ==
  \A m \in DOMAIN machines :
    \A i \in 1 .. Len(machines[m].queue) : machines[m].queue[i] < Visited

\* The inductive invariant from which QueuesInOrder follows.
OrderInv ==
  /\ IdsUsed
  /\ OneAtATime
  /\ regen <= nextId
  /\ QueuesInOrder
  /\ QueuesVisited

LEMMA ShapesKeepOrder ==
  ASSUME QTypeOK, QTypeOK', OrderInv, QueueShapes
  PROVE  regen' <= nextId' /\ QueuesInOrder' /\ QueuesVisited'
<1>1. /\ regen \in Nat /\ nextId \in Nat \ {0} /\ regen' \in Nat /\ nextId' \in Nat \ {0}
      /\ regen <= nextId
  BY BoundAssumption DEF QTypeOK, OrderInv
<1>2. \A m \in DOMAIN machines :
        /\ machines[m].queue \in Seq(JobId) /\ Len(machines[m].queue) \in Nat
        /\ \A i \in 1 .. Len(machines[m].queue) : machines[m].queue[i] \in Nat
  <2> SUFFICES ASSUME NEW m \in DOMAIN machines
               PROVE  /\ machines[m].queue \in Seq(JobId) /\ Len(machines[m].queue) \in Nat
                      /\ \A i \in 1 .. Len(machines[m].queue) : machines[m].queue[i] \in Nat
    OBVIOUS
  <2>1. PICK q \in Seq(JobId) : q = machines[m].queue
    BY DEF QTypeOK, MachineType
  <2>2. Len(q) \in Nat /\ \A i \in 1 .. Len(q) : q[i] \in JobId
    BY LenProperties, ElementOfSeq
  <2> QED BY <2>1, <2>2 DEF JobId
<1>3. \A m \in DOMAIN machines : InOrder(machines[m].queue)
  BY DEF OrderInv, QueuesInOrder, InOrder
<1>4. \A m \in DOMAIN machines : \A i \in 1 .. Len(machines[m].queue) :
        machines[m].queue[i] < Visited
  BY DEF OrderInv, QueuesVisited
<1>5. /\ (\A m \in DOMAIN machines' : InOrder(machines'[m].queue)) => QueuesInOrder'
      /\ (\A m \in DOMAIN machines' : \A i \in 1 .. Len(machines'[m].queue) :
            machines'[m].queue[i] < Visited') => QueuesVisited'
  BY DEF QueuesInOrder, InOrder, QueuesVisited
<1>6. /\ (IF regen = 0 THEN nextId ELSE regen) = Visited
      /\ (IF regen' = 0 THEN nextId' ELSE regen') = Visited'
      /\ Visited \in Nat /\ Visited' \in Nat
  BY <1>1 DEF Visited
<1>7. CASE QueuesStay
  <2>1. DOMAIN machines' = DOMAIN machines /\ regen' = regen /\ nextId <= nextId'
        /\ \A m \in DOMAIN machines : machines'[m].queue = machines[m].queue
    BY <1>1, <1>7 DEF QueuesStay, SameFit
  <2>2. Visited <= Visited'
    BY <1>1, <1>6, <2>1
  <2>3. \A m \in DOMAIN machines' : \A i \in 1 .. Len(machines'[m].queue) :
           machines'[m].queue[i] < Visited'
    BY <1>2, <1>4, <1>6, <2>1, <2>2
  <2> QED BY <1>1, <1>3, <1>5, <2>1, <2>3
<1>8. ASSUME NEW j \in JobId, JobQueued(j)
      PROVE  regen' <= nextId' /\ QueuesInOrder' /\ QueuesVisited'
  <2>1. j \in Nat
    BY DEF JobId
  <2>2. Visited <= j /\ Visited' = j + 1 /\ regen' <= nextId'
    <3>1. CASE j = nextId /\ nextId' = nextId + 1 /\ regen = 0 /\ regen' = 0
      BY <1>1, <1>6, <2>1, <3>1
    <3>2. CASE j \in DOMAIN jobs /\ nextId' = nextId /\ regen \in 1 .. j /\ regen' = j + 1
      <4>1. j < nextId
        BY <3>2 DEF OrderInv, IdsUsed
      <4> QED BY <1>1, <1>6, <2>1, <3>2, <4>1
    <3> QED BY <1>8, <3>1, <3>2 DEF JobQueued
  <2>3. DOMAIN machines' = DOMAIN machines
        /\ \A m \in DOMAIN machines :
             machines'[m].queue \in {machines[m].queue, Append(machines[m].queue, j)}
    BY <1>8 DEF JobQueued, SameFit
  <2>4. ASSUME NEW m \in DOMAIN machines
        PROVE  /\ InOrder(machines'[m].queue)
               /\ \A i \in 1 .. Len(machines'[m].queue) : machines'[m].queue[i] < Visited'
    <3>1. PICK q \in Seq(JobId) : q = machines[m].queue
      BY <1>2
    <3>2. Len(q) \in Nat /\ \A i \in 1 .. Len(q) : q[i] \in Nat /\ q[i] < j
      BY <1>2, <1>4, <1>6, <2>1, <2>2, <3>1
    <3>3. InOrder(q) /\ InOrder(Append(q, j))
      BY <1>3, <3>1, <3>2, AppendedInOrder
    <3>4. \A i \in 1 .. Len(q) : q[i] < Visited'
      BY <2>1, <2>2, <3>2
    <3>5. \A i \in 1 .. Len(Append(q, j)) : Append(q, j)[i] < Visited'
      BY <2>1, <2>2, <3>2
    <3> QED BY <2>3, <3>1, <3>3, <3>4, <3>5
  <2> QED BY <1>5, <2>2, <2>3, <2>4
<1>9. ASSUME NEW n \in DOMAIN machines, NEW d \in Nat, QueueDrops(n, d)
      PROVE  regen' <= nextId' /\ QueuesInOrder' /\ QueuesVisited'
  <2>1. DOMAIN machines' = DOMAIN machines /\ regen' = regen /\ nextId' = nextId
        /\ \A m \in DOMAIN machines \ {n} : machines'[m].queue = machines[m].queue
    BY <1>9 DEF QueueDrops, SameFit
  <2>2. Visited' = Visited
    BY <1>6, <2>1
  <2>3. PICK q \in Seq(JobId) : q = machines[n].queue
    BY <1>2
  <2>4. d \in 1 .. Len(q) + 1 /\ machines'[n].queue = SubSeq(q, d, Len(q))
    BY <1>9, <2>3 DEF QueueDrops
  <2>5. InOrder(SubSeq(q, d, Len(q)))
        /\ \A i \in 1 .. Len(SubSeq(q, d, Len(q))) : SubSeq(q, d, Len(q))[i] < Visited
    BY <1>3, <1>4, <2>3, <2>4, DroppedInOrder
  <2>6. ASSUME NEW m \in DOMAIN machines
        PROVE  /\ InOrder(machines'[m].queue)
               /\ \A i \in 1 .. Len(machines'[m].queue) : machines'[m].queue[i] < Visited'
    BY <1>3, <1>4, <2>1, <2>2, <2>4, <2>5
  <2> QED BY <1>1, <1>5, <2>1, <2>6
<1>10. CASE VisitPasses
  <2>1. machines' = machines /\ nextId' = nextId /\ regen' <= nextId' /\ regen > 0
        /\ (regen' = 0 \/ regen <= regen')
    BY <1>10 DEF VisitPasses
  <2>2. Visited <= Visited'
    BY <1>1, <1>6, <2>1
  <2>3. \A m \in DOMAIN machines : \A i \in 1 .. Len(machines[m].queue) :
           machines[m].queue[i] < Visited'
    BY <1>2, <1>4, <1>6, <2>2
  <2> QED BY <1>3, <1>5, <2>1, <2>3
<1>11. CASE Updating
  <2>1. DOMAIN machines' \subseteq DOMAIN machines /\ UNCHANGED <<nextId, regen>>
        /\ \A m \in DOMAIN machines' : machines'[m].queue = machines[m].queue
    BY <1>11 DEF Updating
  <2>2. Visited' = Visited
    BY <1>6, <2>1
  <2> QED BY <1>1, <1>3, <1>4, <1>5, <2>1, <2>2
<1>12. CASE QueuesCleared
  <2>1. regen' = 1 /\ \A m \in DOMAIN machines' : machines'[m].queue = <<>>
    BY <1>12 DEF QueuesCleared
  <2>2. \A m \in DOMAIN machines' : 1 .. Len(machines'[m].queue) = {}
    BY <2>1
  <2> QED BY <1>1, <1>5, <2>1, <2>2 DEF InOrder
<1> QED BY <1>7, <1>8, <1>9, <1>10, <1>11, <1>12 DEF QueueShapes

LEMMA QNextOrder == QTypeOK /\ OrderInv /\ [QNext]_qvars => OrderInv'
<1> SUFFICES ASSUME QTypeOK, OrderInv, [QNext]_qvars
             PROVE  OrderInv'
  OBVIOUS
<1>1. QTypeOK' /\ IdsUsed' /\ OneAtATime'
  BY QNextTypeOK, JobsComeAndGo, QNextOneAtATime DEF OrderInv
<1>2. QueueShapes
  BY QNextOnQueues DEF OrderInv
<1> QED BY <1>1, <1>2, ShapesKeepOrder DEF OrderInv

LEMMA QInitOrder == QInit => OrderInv
<1> SUFFICES ASSUME QInit
             PROVE  OrderInv
  OBVIOUS
<1>1. IdsUsed /\ OneAtATime /\ regen <= nextId
  BY DEF QInit, IdsUsed, OneAtATime, Idle
<1>2. \A m \in DOMAIN machines : machines[m].queue = <<>>
  BY DEF QInit, NewMachine
<1>3. \A m \in DOMAIN machines : 1 .. Len(machines[m].queue) = {}
  BY <1>2
<1> QED BY <1>1, <1>3 DEF OrderInv, QueuesInOrder, QueuesVisited

\* A queue is always in the order the jobs were created (_enqueue_job appends,
\* _regenerate_queues clears the queues and goes through the jobs by age).
THEOREM QueuesOrdered == QSpec => []QueuesInOrder
<1>1. QSpec => []OrderInv
  BY QTypeCorrect, QInitOrder, QNextOrder, PTL DEF QSpec
<1>2. OrderInv => QueuesInOrder
  BY DEF OrderInv
<1> QED BY <1>1, <1>2, PTL

-----------------------------------------------------------------------------
(* Who waits where.                                                        *)

\* While the machines are not being updated, a waiting job the regeneration
\* has dealt with is in the queues of the machines that suit it.
QueuesComplete ==
  target = NoConfig /\ fault # "RuntimeError" =>
    \A j \in DOMAIN jobs : Pending(j) /\ (regen = 0 \/ j < regen) =>
      \A m \in DOMAIN machines :
        Holds(machines[m].queue, j) <=> m \in Suitable(jobs[j].req)

LEMMA ShapesKeepComplete ==
  ASSUME QTypeOK, OrderInv, QueuesComplete, QTypeOK', OrderInv', QueueShapes
  PROVE  QueuesComplete'
<1>1. regen \in Nat /\ nextId \in Nat /\ regen' \in Nat /\ DOMAIN jobs \subseteq JobId
      /\ DOMAIN jobs' \subseteq JobId /\ JobId \subseteq Nat \ {0}
  BY BoundAssumption DEF QTypeOK, JobId
<1>2. \A m \in DOMAIN machines : machines[m].queue \in Seq(JobId)
  BY DEF QTypeOK, MachineType
<1> SUFFICES ASSUME target' = NoConfig, fault' # "RuntimeError",
                    NEW k \in DOMAIN jobs', Pending(k)', regen' = 0 \/ k < regen',
                    NEW m \in DOMAIN machines', NEW r, r = jobs'[k].req
             PROVE  Holds(machines'[m].queue, k) <=> m \in Suitable(r)'
  BY DEF QueuesComplete
<1>3. k \in Nat \ {0} /\ k \in JobId
  BY <1>1
<1>4. ASSUME target = NoConfig, fault # "RuntimeError", k \in DOMAIN jobs, Pending(k),
             regen = 0 \/ k < regen, m \in DOMAIN machines
      PROVE  Holds(machines[m].queue, k) <=> m \in Suitable(jobs[k].req)
  BY <1>4 DEF QueuesComplete
<1>5. CASE QueuesStay
  <2>1. SameFit /\ JobsGo /\ UNCHANGED <<regen, target, fault>>
        /\ \A n \in DOMAIN machines : machines'[n].queue = machines[n].queue
    BY <1>5 DEF QueuesStay
  <2>2. m \in DOMAIN machines /\ k \in DOMAIN jobs /\ Pending(k) /\ jobs[k].req = r
    BY <2>1 DEF SameFit, JobsGo
  <2>3. Suitable(r)' = Suitable(r)
    BY <2>1, <2>2, SameSuitable
  <2> QED BY <1>4, <2>1, <2>2, <2>3
<1>6. ASSUME NEW j \in JobId, JobQueued(j)
      PROVE  Holds(machines'[m].queue, k) <=> m \in Suitable(r)'
  <2>1. SameFit /\ m \in DOMAIN machines /\ target = NoConfig /\ fault # "RuntimeError"
    BY <1>6 DEF JobQueued, SameFit
  <2>2. Suitable(r)' = Suitable(r)
    BY <2>1, SameSuitable
  <2>3. PICK q \in Seq(JobId) : q = machines[m].queue
    BY <1>2, <2>1
  <2>4. machines'[m].queue = IF m \in Suitable(jobs'[j].req) THEN Append(q, j) ELSE q
    BY <1>6, <2>1, <2>3 DEF JobQueued
  <2>5. /\ Holds(Append(q, j), j)
        /\ \A i : i # j => (Holds(Append(q, j), i) <=> Holds(q, i))
    BY AppendedInOrder
  <2>6. CASE k = j
    <3>1. j \in Nat /\ Visited <= j
      <4>1. CASE j = nextId /\ regen = 0
        BY <1>1, <4>1 DEF Visited
      <4>2. CASE regen \in 1 .. j
        BY <1>1, <1>3, <2>6, <4>2 DEF Visited
      <4> QED BY <1>1, <1>6, <4>1, <4>2 DEF JobQueued
    <3>2. \A i \in 1 .. Len(q) : q[i] \in Nat /\ q[i] < Visited
      <4>1. \A i \in 1 .. Len(q) : q[i] \in JobId
        BY ElementOfSeq
      <4> QED BY <1>1, <2>1, <2>3, <4>1 DEF OrderInv, QueuesVisited
    <3>3. Visited \in Nat
      BY <1>1 DEF Visited
    <3>4. ~Holds(q, j)
      BY <3>1, <3>2, <3>3 DEF Holds
    <3> QED BY <2>2, <2>4, <2>5, <2>6, <3>4
  <2>7. CASE k # j
    <3>1. k \in DOMAIN jobs /\ jobs'[k] = jobs[k] /\ jobs[k].req = r
      BY <1>6, <2>7 DEF JobQueued
    <3>2. Pending(k)
      BY <3>1 DEF Pending
    <3>3. regen = 0 \/ k < regen
      <4>1. CASE regen = 0
        BY <4>1
      <4>2. CASE regen' = j + 1 /\ \A i \in DOMAIN jobs : i < j => i < regen
        BY <1>1, <1>3, <2>7, <3>1, <4>2
      <4> QED BY <1>6, <4>1, <4>2 DEF JobQueued
    <3>4. Holds(q, k) <=> m \in Suitable(jobs[k].req)
      BY <1>4, <2>1, <2>3, <3>1, <3>2, <3>3
    <3> QED BY <2>2, <2>4, <2>5, <2>7, <3>1, <3>4
  <2> QED BY <2>6, <2>7
<1>7. ASSUME NEW n \in DOMAIN machines, NEW d \in Nat, QueueDrops(n, d)
      PROVE  Holds(machines'[m].queue, k) <=> m \in Suitable(r)'
  <2>1. SameFit /\ JobsGo /\ UNCHANGED <<regen, target, fault>>
    BY <1>7 DEF QueueDrops
  <2>2. m \in DOMAIN machines /\ k \in DOMAIN jobs /\ Pending(k) /\ jobs[k].req = r
    BY <2>1 DEF SameFit, JobsGo
  <2>3. Suitable(r)' = Suitable(r)
    BY <2>1, <2>2, SameSuitable
  <2>4. PICK q \in Seq(JobId) : q = machines[m].queue
    BY <1>2, <2>2
  <2>5. CASE m = n
    <3>1. d \in 1 .. Len(q) + 1 /\ machines'[m].queue = SubSeq(q, d, Len(q))
          /\ \A i \in 1 .. d - 1 : q[i] # k
      BY <1>3, <1>7, <2>4, <2>5 DEF QueueDrops
    <3>2. Holds(SubSeq(q, d, Len(q)), k) <=> Holds(q, k)
      BY <3>1, DroppedInOrder
    <3> QED BY <1>4, <2>1, <2>2, <2>3, <2>4, <3>1, <3>2
  <2>6. CASE m # n
    <3>1. machines'[m].queue = machines[m].queue
      BY <1>7, <2>2, <2>6 DEF QueueDrops
    <3> QED BY <1>4, <2>1, <2>2, <2>3, <3>1
  <2> QED BY <2>5, <2>6
<1>8. CASE VisitPasses
  <2>1. JobsGo /\ UNCHANGED <<machines, target>> /\ fault' = fault
        /\ (regen' = 0 \/ k < regen' => k < regen)
    BY <1>8 DEF VisitPasses
  <2>2. m \in DOMAIN machines /\ k \in DOMAIN jobs /\ Pending(k) /\ jobs[k].req = r
    BY <2>1 DEF JobsGo
  <2>3. Suitable(r)' = Suitable(r)
    BY <2>1, <2>2 DEF Suitable, AllocPossible, Working
  <2> QED BY <1>4, <2>1, <2>2, <2>3
<1>9. ~Updating
  BY DEF Updating
<1>10. ~QueuesCleared
  BY <1>3 DEF QueuesCleared
<1> QED BY <1>5, <1>6, <1>7, <1>8, <1>9, <1>10 DEF QueueShapes

LEMMA QNextComplete == QTypeOK /\ OrderInv /\ QueuesComplete /\ [QNext]_qvars => QueuesComplete'
<1> SUFFICES ASSUME QTypeOK, OrderInv, QueuesComplete, [QNext]_qvars
             PROVE  QueuesComplete'
  OBVIOUS
<1>1. QTypeOK' /\ OrderInv'
  BY QNextTypeOK, QNextOrder
<1>2. QueueShapes
  BY QNextOnQueues DEF OrderInv
<1> QED BY <1>1, <1>2, ShapesKeepComplete

LEMMA QueuesInv == QSpec => [](QTypeOK /\ OrderInv /\ QueuesComplete)
<1>1. QInit => QueuesComplete
  BY DEF QInit, QueuesComplete
<1> QED BY <1>1, QInitTypeOK, QInitOrder, QNextTypeOK, QNextOrder, QNextComplete, PTL DEF QSpec

\* However tags, dead boards and machines change, a waiting job is in the queue
\* of every machine that suits it, and only there (_enqueue_job,
\* _regenerate_queues), but for the jobs a RuntimeError left out.
THEOREM WaitsWhereSuitable == QSpec => []QueuedWhereSuitable
<1>1. QTypeOK /\ OrderInv /\ QueuesComplete => QueuedWhereSuitable
  <2> SUFFICES ASSUME QTypeOK, QueuesComplete, LockFree, fault # "RuntimeError",
                      NEW j \in DOMAIN jobs, Pending(j)
               PROVE  {m \in DOMAIN machines :
                        \E i \in 1 .. Len(machines[m].queue) : machines[m].queue[i] = j}
                        = Suitable(jobs[j].req)
    BY DEF QueuedWhereSuitable
  <2>1. ASSUME NEW m \in DOMAIN machines
        PROVE  (\E i \in 1 .. Len(machines[m].queue) : machines[m].queue[i] = j)
                 <=> m \in Suitable(jobs[j].req)
    BY DEF QueuesComplete, LockFree, Holds
  <2>2. Suitable(jobs[j].req) \subseteq DOMAIN machines
    BY DEF Suitable
  <2> QED BY <2>1, <2>2
<1> QED BY <1>1, QueuesInv, PTL

\* Only _try_job makes a job run.
LEMMA OnlyTryJobStarts ==
  ASSUME QTypeOK, [QNext]_qvars,
         NEW j \in DOMAIN jobs, Pending(j), j \in DOMAIN jobs', jobs'[j].state = "running"
  PROVE  \E m \in Machine : \E p \in SUBSET Board : StartJob(m, j, p)
<1>1. jobs[j].state = "pending"
  BY DEF Pending
<1>2. ASSUME NEW r \in Request, CreateJob(r) \/ RejectJob(r)
      PROVE  FALSE
  <2>1. jobs' = jobs \/ jobs'[j].state = "pending"
    BY <1>1, <1>2 DEF CreateJob, RejectJob, With
  <2> QED BY <1>1, <2>1
<1>3. ASSUME NEW k \in JobId, CancelJob(k) \/ Free(k) \/ VisitUnsuitable(k) \/ RemoveJob(k)
      PROVE  FALSE
  BY <1>1, <1>3 DEF CancelJob, Free, VisitUnsuitable, RemoveJob, Without
<1>4. ASSUME NEW k \in JobId, ReleaseJob(k)
      PROVE  FALSE
  <2>1. k # j
    BY <1>1, <1>4 DEF ReleaseJob
  <2> QED BY <1>1, <1>4, <2>1 DEF ReleaseJob
<1>5. ASSUME NEW m \in Machine, NEW k \in JobId, NEW p \in SUBSET Board, StartJob(m, k, p)
      PROVE  k = j
  BY <1>1, <1>5 DEF StartJob, TakeBoards
<1>6. ASSUME \/ CheckFree \/ EndPass \/ EndRegen \/ FinishUpdate
             \/ \E m \in Machine : \/ TimePasses(m) \/ SkipMachine(m) \/ FindEmpty(m)
                                   \/ FindBlocked(m) \/ RemoveMachine(m)
             \/ \E k \in JobId : VisitStarted(k) \/ VisitPending(k) \/ RemoveReleasedJob(k)
             \/ \E c \in Config : StartUpdate(c)
             \/ UNCHANGED qvars
      PROVE  jobs' = jobs
  BY <1>6 DEF CheckFree, EndPass, EndRegen, FinishUpdate, TimePasses, SkipMachine, FindEmpty,
     FindBlocked, RemoveMachine, VisitStarted, VisitPending, RemoveReleasedJob, StartUpdate,
     qvars
<1> QED BY <1>1, <1>2, <1>3, <1>4, <1>5, <1>6
        DEF QNext, ProcessQueue, RegenerateQueues, UpdateMachines

LEMMA QueuesAreFair ==
  ASSUME QTypeOK, OrderInv, QueuesComplete, fault # "RuntimeError",
         NEW m \in Machine, NEW j \in DOMAIN jobs, NEW p, StartJob(m, j, p),
         NEW k \in DOMAIN jobs, k < j, Pending(k), jobs[k].req = jobs[j].req
  PROVE  FALSE
<1>1. PICK q \in Seq(JobId) : q = machines[m].queue
  BY DEF QTypeOK, MachineType, StartJob, TakeBoards
<1>2. m \in DOMAIN machines /\ \E i \in 1 .. Len(q) : FirstPending(q, i) /\ q[i] = j
  BY <1>1 DEF StartJob, TakeBoards
<1>3. PICK i \in 1 .. Len(q) : FirstPending(q, i) /\ q[i] = j
  BY <1>2
<1>4. Len(q) \in Nat /\ j \in Nat /\ k \in Nat /\ regen \in Nat
  BY LenProperties, BoundAssumption DEF QTypeOK, JobId
<1>5. Pending(j) /\ Holds(q, j)
  BY <1>3 DEF FirstPending, Holds
<1>6. regen = 0 \/ j < regen
  BY <1>1, <1>2, <1>3 DEF OrderInv, QueuesVisited, Visited
<1>7. target = NoConfig
  <2>1. scan.at # 0
    BY DEF StartJob, Scanning
  <2> QED BY <2>1 DEF OrderInv, OneAtATime
<1>8. m \in Suitable(jobs[k].req)
  BY <1>1, <1>2, <1>5, <1>6, <1>7 DEF QueuesComplete
<1>9. Holds(q, k)
  <2>1. regen = 0 \/ k < regen
    BY <1>4, <1>6
  <2> QED BY <1>1, <1>2, <1>7, <1>8, <2>1 DEF QueuesComplete
<1>10. PICK h \in 1 .. Len(q) : q[h] = k
  BY <1>9 DEF Holds
<1>11. \A a, b \in 1 .. Len(q) : a < b => q[a] < q[b]
  BY <1>1, <1>2 DEF OrderInv, QueuesInOrder
<1>12. h < i
  <2>1. ASSUME i < h
        PROVE  FALSE
    <3>1. j < k
      BY <1>3, <1>10, <1>11, <2>1
    <3> QED BY <1>4, <3>1
  <2>2. h # i
    BY <1>3, <1>4, <1>10
  <2> QED BY <1>4, <2>1, <2>2
<1>13. h \in 1 .. i - 1
  BY <1>4, <1>12
<1> QED BY <1>3, <1>10, <1>13 DEF FirstPending

\* "Identical jobs are handled in a FIFO fashion" (create_job), across machines
\* and updates, but for the jobs a RuntimeError left out of the queues.
THEOREM FirstComeFirstServed == QSpec => NoOvertaking
<1>1. QTypeOK /\ OrderInv /\ QueuesComplete /\ [QNext]_qvars
        => (fault # "RuntimeError" =>
              \A j \in DOMAIN jobs :
                Pending(j) /\ j \in DOMAIN jobs' /\ jobs'[j].state = "running" =>
                  ~\E k \in DOMAIN jobs : k < j /\ Pending(k) /\ jobs[k].req = jobs[j].req)
  BY OnlyTryJobStarts, QueuesAreFair
<1> QED BY <1>1, QueuesInv, PTL DEF QSpec, NoOvertaking

-----------------------------------------------------------------------------
(* What could be started.                                                  *)

\* The job at the head of the queue of m cannot be started.
Blocked(m) ==
  \A k \in 1 .. Len(machines[m].queue) :
    FirstPending(machines[m].queue, k) =>
      ~\E p \in jobs[machines[m].queue[k]].req.places :
         p \subseteq Working(m) \ Unavailable(m, 1)

\* Where _process_queue finds nothing to start: everywhere when it is done, and
\* in a pass that has started nothing, at the machines it has been to.
QuietWhenDone ==
  target = NoConfig /\ scan.at = 0 => \A m \in DOMAIN machines : Blocked(m)

QuietBehind ==
  target = NoConfig /\ scan.at > 0 /\ ~scan.again =>
    \A i \in 1 .. Len(order) :
      i < scan.at /\ order[i] \in DOMAIN machines => Blocked(order[i])

\* Every machine in service is visited.
AllVisited ==
  \A m \in DOMAIN machines : \E i \in 1 .. Len(order) : order[i] = m

\* The inductive invariant from which NoIdleBoards follows.
ScanInv == QuietWhenDone /\ QuietBehind /\ AllVisited

\* Nothing has happened to machine m, but for the time that has passed.
SameRoom(m) ==
  /\ machines'[m].boards = machines[m].boards
  /\ machines'[m].dead = machines[m].dead
  /\ machines'[m].freeing = machines[m].freeing
  /\ machines'[m].queue = machines[m].queue

LEMMA StillBlocked ==
  ASSUME NEW m, jobs' = jobs, SameRoom(m), Blocked(m)
  PROVE  Blocked(m)'
BY DEF Blocked, SameRoom, FirstPending, Pending, Working, Unavailable, HeldFrom, JobsOn

LEMMA EmptyIsBlocked ==
  ASSUME NEW m, machines'[m].queue = <<>>
  PROVE  Blocked(m)'
<1>1. 1 .. Len(machines'[m].queue) = {}
  OBVIOUS
<1> QED BY <1>1 DEF Blocked

LEMMA FoundBlocked ==
  ASSUME QTypeOK, NEW m \in Machine, FindBlocked(m)
  PROVE  Blocked(m)'
<1>1. m \in DOMAIN machines /\ machines[m] \in MachineType /\ jobs' = jobs
  BY DEF FindBlocked, QTypeOK
<1>2. PICK q \in Seq(JobId) : q = machines[m].queue
  BY <1>1 DEF MachineType
<1>3. PICK k \in 1 .. Len(q) :
        /\ FirstPending(q, k)
        /\ Placements(m, jobs[q[k]].req) = {}
        /\ machines' = [machines EXCEPT
             ![m] = [Collected(@) EXCEPT !.queue = SubSeq(q, k, Len(q))]]
  BY <1>2 DEF FindBlocked
<1>4. Len(q) \in Nat /\ k \in 1 .. Len(q) + 1
  BY LenProperties
<1>5. PICK f \in Seq(SUBSET Board) : f = machines[m].freeing
  BY <1>1 DEF MachineType
<1>6. PICK r \in Nat : r = machines[m].ripe
  BY <1>1 DEF MachineType
<1>7. PICK g : g = SubSeq(f, r + 1, Len(f))
  OBVIOUS
<1>8. /\ machines'[m].queue = SubSeq(q, k, Len(q)) /\ machines'[m].freeing = g
      /\ machines'[m].boards = machines[m].boards /\ machines'[m].dead = machines[m].dead
  <2>1. Collected(machines[m]) = [machines[m] EXCEPT !.freeing = g, !.ripe = 0]
    BY <1>5, <1>6, <1>7 DEF Collected
  <2> QED BY <1>1, <1>3, <2>1 DEF MachineType
<1>9. PICK s : s = SubSeq(q, k, Len(q))
  OBVIOUS
<1>10. \A i \in 1 .. Len(s) : i + k - 1 \in 1 .. Len(q) /\ s[i] = q[i + k - 1]
  BY <1>4, <1>9, DroppedInOrder
<1>11. Len(s) = Len(q) - k + 1
  BY <1>4, <1>9
<1>12. 1 \in 1 .. Len(s) /\ s[1] = q[k] /\ Pending(s[1])
  <2>1. 1 \in 1 .. Len(s) /\ 1 + k - 1 = k
    BY <1>4, <1>11
  <2> QED BY <1>3, <1>10, <2>1 DEF FirstPending
\* Only its first job can be the first that waits.
<1>13. ASSUME NEW i \in 1 .. Len(s), FirstPending(s, i)
       PROVE  i = 1
  <2>1. i # 1 => 1 \in 1 .. i - 1
    BY <1>4, <1>11
  <2> QED BY <1>12, <1>13, <2>1 DEF FirstPending
\* What is held back now is what alloc took for held back.
<1>14. \A b \in HeldFrom(m, r + 1) : b \in (UNION {g[i] : i \in 1 .. Len(g)})
  <2>1. ASSUME NEW i \in r + 1 .. Len(f), NEW b \in f[i]
        PROVE  b \in UNION {g[h] : h \in 1 .. Len(g)}
    <3>1. Len(f) \in Nat /\ r + 1 <= Len(f)
      BY <2>1, LenProperties
    <3>2. Len(g) = Len(f) - r /\ \A h \in 1 .. Len(f) - r : g[h] = f[r + h]
      BY <1>7, <3>1
    <3>3. i - r \in 1 .. Len(g) /\ r + (i - r) = i
      BY <3>1, <3>2
    <3>4. g[i - r] = f[i]
      BY <3>2, <3>3
    <3> QED BY <2>1, <3>3, <3>4
  <2> QED BY <1>5, <2>1 DEF HeldFrom
<1>15. HeldFrom(m, r + 1) \subseteq HeldFrom(m, 1)'
  BY <1>8, <1>14 DEF HeldFrom
<1>16. Working(m)' = Working(m) /\ JobsOn(m)' = JobsOn(m)
  BY <1>1, <1>8 DEF Working, JobsOn
<1>17. Unavailable(m, r + 1) \subseteq Unavailable(m, 1)'
  BY <1>1, <1>15, <1>16 DEF Unavailable
<1>18. ~\E p \in jobs[s[1]].req.places : p \subseteq Working(m)' \ Unavailable(m, 1)'
  <2>1. Working(m)' \ Unavailable(m, 1)' \subseteq Working(m) \ Unavailable(m, r + 1)
    BY <1>16, <1>17
  <2> QED BY <1>3, <1>6, <1>12, <2>1 DEF Placements
<1>19. \A i \in 1 .. Len(s) : FirstPending(s, i)' => i = 1
  BY <1>1, <1>13 DEF FirstPending, Pending
<1> QED BY <1>1, <1>8, <1>9, <1>18, <1>19 DEF Blocked

\* Calls and visits that wake _process_queue: it has been nowhere yet.
LEMMA WokenKeepsScan ==
  ASSUME AllVisited, scan' = FirstPass, UNCHANGED order,
         DOMAIN machines' \subseteq DOMAIN machines
  PROVE  ScanInv'
<1>1. scan'.at = 1 /\ \A i \in 1 .. Len(order') : ~(i < 1)
  BY DEF FirstPass
<1>2. AllVisited'
  BY DEF AllVisited
<1> QED BY <1>1, <1>2 DEF ScanInv, QuietWhenDone, QuietBehind

LEMMA QNextScan ==
  ASSUME QTypeOK, OneAtATime, ScanInv, [QNext]_qvars
  PROVE  ScanInv'
<1>1. scan.at \in Nat /\ scan.again \in BOOLEAN /\ Len(order) \in Nat
      /\ \A m \in DOMAIN machines : machines[m] \in MachineType
  BY LenProperties DEF QTypeOK
<1>2. AllVisited
  BY DEF ScanInv
<1>3. CASE \/ \E r \in Request : CreateJob(r) \/ RejectJob(r)
           \/ \E j \in JobId : CancelJob(j) \/ ReleaseJob(j) \/ Free(j)
           \/ CheckFree
           \/ \E j \in JobId : VisitPending(j) \/ VisitUnsuitable(j)
  <2>1. scan' = FirstPass /\ UNCHANGED order
    BY <1>3 DEF CreateJob, RejectJob, CancelJob, ReleaseJob, Free, CheckFree,
       VisitPending, VisitUnsuitable
  <2>2. DOMAIN machines' = DOMAIN machines
    BY <1>3 DEF CreateJob, RejectJob, CancelJob, ReleaseJob, Free, CheckFree,
       VisitPending, VisitUnsuitable, Enqueued, Freed
  <2> QED BY <1>2, <2>1, <2>2, WokenKeepsScan
<1>4. ASSUME UNCHANGED <<order, jobs, scan, target>>, DOMAIN machines' = DOMAIN machines,
             \A m \in DOMAIN machines : SameRoom(m)
      PROVE  ScanInv'
  <2>1. \A m \in DOMAIN machines : Blocked(m) => Blocked(m)'
    BY <1>4, StillBlocked
  <2>2. QuietWhenDone'
    BY <1>4, <2>1 DEF ScanInv, QuietWhenDone
  <2>3. ASSUME target = NoConfig, scan.at > 0, ~scan.again, NEW i \in 1 .. Len(order), NEW n,
               n = order[i], i < scan.at, n \in DOMAIN machines
        PROVE  Blocked(n)'
    BY <2>1, <2>3 DEF ScanInv, QuietBehind
  <2>4. QuietBehind'
    BY <1>4, <2>3 DEF QuietBehind
  <2>5. AllVisited'
    BY <1>2, <1>4 DEF AllVisited
  <2> QED BY <2>2, <2>4, <2>5 DEF ScanInv
<1>5. CASE \/ UNCHANGED qvars
           \/ EndRegen
           \/ \E j \in JobId : VisitStarted(j)
  <2>1. UNCHANGED <<order, jobs, scan, target, machines>>
    BY <1>5 DEF qvars, EndRegen, VisitStarted
  <2> QED BY <1>4, <2>1 DEF SameRoom
<1>6. ASSUME NEW m \in Machine, TimePasses(m)
      PROVE  ScanInv'
  <2>1. UNCHANGED <<order, jobs, scan, target>> /\ DOMAIN machines' = DOMAIN machines
    BY <1>6 DEF TimePasses
  <2>2. \A n \in DOMAIN machines : SameRoom(n)
    BY <1>1, <1>6 DEF TimePasses, SameRoom, MachineType
  <2> QED BY <1>4, <2>1, <2>2
\* A step of a pass that leaves machine m, reached now, with nothing to start.
<1>7. ASSUME NEW m \in Machine, Scanning(m), scan' = NextMachine(scan.again),
             UNCHANGED <<order, jobs, target>>, DOMAIN machines' = DOMAIN machines,
             \A n \in DOMAIN machines \ {m} : SameRoom(n),
             m \in DOMAIN machines => Blocked(m)'
      PROVE  ScanInv'
  <2>1. scan'.at = scan.at + 1 /\ scan'.again = scan.again /\ scan.at \in 1 .. Len(order)
        /\ m = order[scan.at]
    BY <1>7 DEF Scanning, NextMachine
  <2>2. ASSUME target = NoConfig, ~scan.again, NEW i \in 1 .. Len(order), NEW n,
               n = order[i], i < scan.at + 1, n \in DOMAIN machines
        PROVE  Blocked(n)'
    <3>1. CASE n = m
      BY <1>7, <2>2, <3>1
    <3>2. CASE n # m
      <4>1. i < scan.at /\ scan.at > 0
        BY <1>1, <2>1, <2>2, <3>2
      <4>2. Blocked(n)
        BY <2>2, <4>1 DEF ScanInv, QuietBehind
      <4> QED BY <1>7, <2>2, <3>2, <4>2, StillBlocked
    <3> QED BY <3>1, <3>2
  <2>3. QuietBehind'
    BY <1>7, <2>1, <2>2 DEF QuietBehind
  <2>4. QuietWhenDone'
    <3>1. scan'.at # 0
      BY <1>1, <2>1
    <3> QED BY <3>1 DEF QuietWhenDone
  <2>5. AllVisited'
    BY <1>2, <1>7 DEF AllVisited
  <2> QED BY <2>3, <2>4, <2>5 DEF ScanInv
<1>8. ASSUME NEW m \in Machine, SkipMachine(m)
      PROVE  ScanInv'
  BY <1>7, <1>8 DEF SkipMachine, SameRoom
<1>9. ASSUME NEW m \in Machine, FindEmpty(m)
      PROVE  ScanInv'
  <2>1. machines' = [machines EXCEPT ![m].queue = <<>>] /\ m \in DOMAIN machines
    BY <1>9 DEF FindEmpty
  <2>2. machines'[m].queue = <<>> /\ \A n \in DOMAIN machines \ {m} : SameRoom(n)
    BY <1>1, <2>1 DEF SameRoom, MachineType
  <2>3. Blocked(m)'
    BY <2>2, EmptyIsBlocked
  <2>4. Scanning(m) /\ scan' = NextMachine(scan.again) /\ UNCHANGED <<order, jobs, target>>
        /\ DOMAIN machines' = DOMAIN machines
    BY <1>9, <2>1 DEF FindEmpty
  <2> QED BY <1>7, <2>2, <2>3, <2>4
<1>10. ASSUME NEW m \in Machine, FindBlocked(m)
       PROVE  ScanInv'
  <2>1. Blocked(m)'
    BY <1>10, FoundBlocked
  <2>2. Scanning(m) /\ scan' = NextMachine(scan.again) /\ UNCHANGED <<order, jobs, target>>
    BY <1>10 DEF FindBlocked
  <2>3. DOMAIN machines' = DOMAIN machines /\ \A n \in DOMAIN machines \ {m} : SameRoom(n)
    BY <1>10 DEF FindBlocked, SameRoom
  <2> QED BY <1>7, <2>1, <2>2, <2>3
<1>11. ASSUME NEW m \in Machine, NEW j \in JobId, NEW p \in SUBSET Board, StartJob(m, j, p)
       PROVE  ScanInv'
  <2>1. scan'.at = scan.at + 1 /\ scan'.again = TRUE
    BY <1>11 DEF StartJob, NextMachine
  <2>2. scan'.at # 0
    BY <1>1, <2>1
  <2>3. UNCHANGED order /\ DOMAIN machines' = DOMAIN machines
    BY <1>11 DEF StartJob, TakeBoards
  <2>4. AllVisited'
    BY <1>2, <2>3 DEF AllVisited
  <2> QED BY <2>1, <2>2, <2>4 DEF ScanInv, QuietWhenDone, QuietBehind
<1>12. CASE EndPass
  <2>1. scan.at > Len(order) /\ UNCHANGED <<order, machines, jobs, target>>
    BY <1>12 DEF EndPass
  <2>2. AllVisited'
    BY <1>2, <2>1 DEF AllVisited
  <2>3. CASE scan.again
    <3>1. scan' = FirstPass
      BY <1>12, <2>3 DEF EndPass
    <3> QED BY <1>2, <2>1, <3>1, WokenKeepsScan
  <2>4. CASE ~scan.again
    <3>1. scan'.at = 0
      BY <1>12, <2>4 DEF EndPass, Idle
    <3>2. ASSUME target = NoConfig, NEW m \in DOMAIN machines
          PROVE  Blocked(m)
      <4>1. PICK i \in 1 .. Len(order) : order[i] = m
        BY <1>2 DEF AllVisited
      <4>2. i < scan.at /\ scan.at > 0
        BY <1>1, <2>1
      <4> QED BY <2>4, <3>2, <4>1, <4>2 DEF ScanInv, QuietBehind
    <3>3. \A m \in DOMAIN machines : Blocked(m) => Blocked(m)'
      BY <2>1, StillBlocked DEF SameRoom
    <3>4. QuietWhenDone'
      BY <2>1, <3>2, <3>3 DEF QuietWhenDone
    <3> QED BY <2>2, <3>1, <3>4 DEF ScanInv, QuietBehind
  <2> QED BY <1>1, <2>3, <2>4
<1>13. CASE UpdateMachines
  <2>1. ASSUME target' # NoConfig, UNCHANGED order, DOMAIN machines' \subseteq DOMAIN machines
        PROVE  ScanInv'
    <3>1. AllVisited'
      BY <1>2, <2>1 DEF AllVisited
    <3> QED BY <2>1, <3>1 DEF ScanInv, QuietWhenDone, QuietBehind
  <2>2. ASSUME \A m \in DOMAIN machines' : machines'[m].queue = <<>>, AllVisited'
        PROVE  ScanInv'
    <3>1. \A m \in DOMAIN machines' : Blocked(m)'
      BY <2>2, EmptyIsBlocked
    <3>2. QuietWhenDone'
      BY <3>1 DEF QuietWhenDone
    <3>3. \A i : order'[i] \in DOMAIN machines' => Blocked(order[i])'
      BY <3>1
    <3>4. QuietBehind'
      BY <3>3 DEF QuietBehind
    <3> QED BY <2>2, <3>2, <3>4 DEF ScanInv
  <2>3. ASSUME NEW c \in Config, StartUpdate(c)
        PROVE  ScanInv'
    BY <2>1, <2>3, ConfigAssumption DEF StartUpdate
  <2>4. ASSUME NEW j \in JobId, RemoveJob(j)
        PROVE  ScanInv'
    <3>1. target' # NoConfig /\ UNCHANGED order
      BY <2>4 DEF RemoveJob, Removing, OneAtATime
    <3>2. DOMAIN machines' = DOMAIN machines
      BY <2>4 DEF RemoveJob, Freed
    <3> QED BY <2>1, <3>1, <3>2
  <2>5. ASSUME NEW j \in JobId, RemoveReleasedJob(j)
        PROVE  ScanInv'
    <3>1. machines' = Cleared /\ UNCHANGED order
      BY <2>5 DEF RemoveReleasedJob
    <3>2. DOMAIN machines' = DOMAIN machines
          /\ \A m \in DOMAIN machines' : machines'[m].queue = <<>>
      BY <1>1, <3>1 DEF Cleared, MachineType
    <3>3. AllVisited'
      BY <1>2, <3>1, <3>2 DEF AllVisited
    <3> QED BY <2>2, <3>2, <3>3
  <2>6. ASSUME NEW m \in Machine, RemoveMachine(m)
        PROVE  ScanInv'
    <3>1. target' # NoConfig /\ UNCHANGED order
      BY <2>6 DEF RemoveMachine, OneAtATime
    <3>2. DOMAIN machines' \subseteq DOMAIN machines
      BY <2>6 DEF RemoveMachine, Without
    <3> QED BY <2>1, <3>1, <3>2
  <2>7. CASE FinishUpdate
    <3>1. order' = target.order /\ DOMAIN machines' = Names(target)
      BY <2>7 DEF FinishUpdate
    <3>2. ASSUME NEW m \in DOMAIN machines'
          PROVE  machines'[m].queue = <<>>
      BY <1>1, <2>7, <3>2 DEF FinishUpdate, MachineType, NewMachine
    <3>3. AllVisited'
      BY <3>1 DEF AllVisited, Names
    <3> QED BY <2>2, <3>2, <3>3
  <2> QED BY <1>13, <2>3, <2>4, <2>5, <2>6, <2>7 DEF UpdateMachines
<1> QED BY <1>3, <1>5, <1>6, <1>8, <1>9, <1>10, <1>11, <1>12, <1>13
        DEF QNext, ProcessQueue, RegenerateQueues

LEMMA QInitScan == QInit => ScanInv
<1> SUFFICES ASSUME QInit
             PROVE  ScanInv
  OBVIOUS
<1>1. PICK c \in Config : order = c.order /\ DOMAIN machines = Names(c)
      /\ \A m \in DOMAIN machines : machines[m].queue = <<>>
  BY DEF QInit, NewMachine
<1>2. AllVisited
  BY <1>1 DEF AllVisited, Names
<1>3. \A m \in DOMAIN machines : 1 .. Len(machines[m].queue) = {}
  BY <1>1
<1>4. \A m \in DOMAIN machines : Blocked(m)
  BY <1>3 DEF Blocked
<1> QED BY <1>2, <1>4 DEF ScanInv, QuietWhenDone, QuietBehind

\* When nothing is under way no machine has room for the job at the head of its
\* queue: _process_queue goes on "until no more jobs can be started", and every
\* operation that could make room or change a queue wakes it.
THEOREM NothingLeftIdle == QSpec => []NoIdleBoards
<1>1. QTypeOK /\ OrderInv /\ ScanInv /\ [QNext]_qvars => ScanInv'
  BY QNextScan DEF OrderInv
<1>2. ScanInv => NoIdleBoards
  BY DEF ScanInv, QuietWhenDone, NoIdleBoards, Blocked, LockFree, Idle
<1> QED BY <1>1, <1>2, QInitScan, QueuesInv, PTL DEF QSpec

=============================================================================
