--------------------------- MODULE Power_proofs ----------------------------
(***************************************************************************)
(* What the BMPs are asked to do, and what the controller makes of their   *)
(* reports.  Proved here, for any number of machines, frames, jobs and BMP *)
(* threads: the requests on their way are counted exactly; the last thing  *)
(* a BMP does to a board is what its job asked for; a job that is ready    *)
(* has its boards as it asked, given that no two threads ever command one  *)
(* frame; and no two do, as long as every configuration has a machine in   *)
(* every frame and no update of the machines is abandoned.                 *)
(*                                                                         *)
(* Then the lists of the controller: the jobs it has retired and those     *)
(* that have timed out, and what has changed since the server last looked. *)
(* They hold what they should; every change of a job is told; and, as long *)
(* as no more jobs were created than the controller remembers, a destroyed *)
(* job is remembered, with a request on its way, until its boards are      *)
(* freed.                                                                  *)
(***************************************************************************)
EXTENDS Controller_proofs

-----------------------------------------------------------------------------
(* Counting the requests of a job.                                         *)

\* The places at which the requests of job j are in the queues of table b.
OutstandingIn(b, j) ==
  {ci \in UNION {{c} \X (1 .. Len(b[c].queue)) : c \in DOMAIN b} :
     b[ci[1]].queue[ci[2]].job = j}

\* n requests of job j are in the queues of table b.
HasRequests(b, j, n) ==
  IsFiniteSet(OutstandingIn(b, j)) /\ Cardinality(OutstandingIn(b, j)) = n

LEMMA OutstandingMeans ==
  ASSUME NEW b, NEW j, NEW x
  PROVE  x \in OutstandingIn(b, j) <=>
           \E c \in DOMAIN b : \E i \in 1 .. Len(b[c].queue) :
             x = <<c, i>> /\ b[c].queue[i].job = j
<1>1. ASSUME NEW c \in DOMAIN b, NEW i \in 1 .. Len(b[c].queue), x = <<c, i>>
      PROVE  x \in UNION {{d} \X (1 .. Len(b[d].queue)) : d \in DOMAIN b}
             /\ x[1] = c /\ x[2] = i
  BY <1>1
<1>2. ASSUME x \in UNION {{d} \X (1 .. Len(b[d].queue)) : d \in DOMAIN b}
      PROVE  \E c \in DOMAIN b : \E i \in 1 .. Len(b[c].queue) : x = <<c, i>>
  BY <1>2
<1> QED BY <1>1, <1>2 DEF OutstandingIn

\* The BMPs there are, and those of a machine that some boards are behind, are
\* finitely many.
LEMMA FiniteBmps ==
  ASSUME BmpTable(bmps), NEW m, NEW B
  PROVE  IsFiniteSet(BmpsOf(m, B)) /\ Cardinality(BmpsOf(m, B)) \in Nat
<1>1. IsFiniteSet(BmpId)
  BY FS_Product, FrameAssumption, LimitAssumption DEF BmpId
<1>2. BmpsOf(m, B) \in SUBSET BmpId
  BY DEF BmpsOf, BmpTable
<1> QED BY <1>1, <1>2, FS_Subset, FS_CardinalityType

\* What job j asks of BMP c in order to switch boards B on or off.
Ask(j, B, on, c) == [job |-> j, on |-> on, boards |-> {x \in B : FrameOf[x] = c[1]}]

\* In table b each BMP of machine m that boards B are behind has one request more.
Asked(b, m, j, B, on) ==
  /\ DOMAIN b = DOMAIN bmps
  /\ \A c \in DOMAIN bmps :
       /\ bmps[c].queue \in Seq(RequestsType) /\ Len(bmps[c].queue) \in Nat
       /\ Ask(j, B, on, c) \in RequestsType
       /\ c \notin BmpsOf(m, B) => b[c] = bmps[c]
       /\ c \in BmpsOf(m, B) =>
            /\ b[c].queue = Append(bmps[c].queue, Ask(j, B, on, c))
            /\ Len(b[c].queue) = Len(bmps[c].queue) + 1
            /\ \A i \in 1 .. Len(bmps[c].queue) : b[c].queue[i] = bmps[c].queue[i]
            /\ b[c].queue[Len(bmps[c].queue) + 1] = Ask(j, B, on, c)
       /\ b[c].machine = bmps[c].machine /\ b[c].result = bmps[c].result
       /\ b[c].stop = bmps[c].stop /\ b[c].after = bmps[c].after

LEMMA RequestedAsks ==
  ASSUME BmpTable(bmps), NEW j \in JobId, NEW B \in SUBSET Board, NEW on, on \in BOOLEAN,
         NEW m
  PROVE  Asked(Requested(m, j, B, on), m, j, B, on)
<1>0. PICK b : b = Requested(m, j, B, on)
  OBVIOUS
<1>1. DOMAIN b = DOMAIN bmps
  BY <1>0 DEF Requested
<1>2. ASSUME NEW c \in DOMAIN bmps
      PROVE  /\ bmps[c].queue \in Seq(RequestsType) /\ Len(bmps[c].queue) \in Nat
             /\ Ask(j, B, on, c) \in RequestsType
             /\ c \notin BmpsOf(m, B) => b[c] = bmps[c]
             /\ c \in BmpsOf(m, B) =>
                  /\ b[c].queue = Append(bmps[c].queue, Ask(j, B, on, c))
                  /\ Len(b[c].queue) = Len(bmps[c].queue) + 1
                  /\ \A i \in 1 .. Len(bmps[c].queue) : b[c].queue[i] = bmps[c].queue[i]
                  /\ b[c].queue[Len(bmps[c].queue) + 1] = Ask(j, B, on, c)
             /\ b[c].machine = bmps[c].machine /\ b[c].result = bmps[c].result
             /\ b[c].stop = bmps[c].stop /\ b[c].after = bmps[c].after
  <2> DEFINE q == bmps[c].queue
             r == Ask(j, B, on, c)
  <2>1. bmps[c] \in BmpType /\ q \in Seq(RequestsType) /\ Len(q) \in Nat
    BY BmpRecord
  <2>2. r \in RequestsType
    BY DEF RequestsType, Ask
  <2>3. b[c] = IF c \in BmpsOf(m, B) THEN [bmps[c] EXCEPT !.queue = Append(q, r)] ELSE bmps[c]
    BY <1>0 DEF Requested, Ask
  <2> HIDE DEF r
  <2>4. ASSUME c \in BmpsOf(m, B)
        PROVE  /\ b[c].queue = Append(q, r)
               /\ b[c].machine = bmps[c].machine /\ b[c].result = bmps[c].result
               /\ b[c].stop = bmps[c].stop /\ b[c].after = bmps[c].after
    BY <2>1, <2>3, <2>4 DEF BmpType
  <2>5. /\ Len(Append(q, r)) = Len(q) + 1
        /\ \A i \in 1 .. Len(q) : Append(q, r)[i] = q[i]
        /\ Append(q, r)[Len(q) + 1] = r
    BY <2>1, <2>2, AppendProperties
  <2>6. c \notin BmpsOf(m, B) => b[c] = bmps[c]
    BY <2>3
  <2> QED BY <2>1, <2>2, <2>4, <2>5, <2>6 DEF r
<1>3. Asked(b, m, j, B, on)
  BY <1>1, <1>2 DEF Asked
<1> QED BY <1>0, <1>3

\* Where these requests are put.
NewPlaces(m, B) == {<<c, Len(bmps[c].queue) + 1>> : c \in BmpsOf(m, B)}

\* A job that asks something of its BMPs has one more request with each.
LEMMA RequestedOutstanding ==
  ASSUME NEW b, NEW m, NEW j, NEW B, NEW on, Asked(b, m, j, B, on)
  PROVE  /\ OutstandingIn(b, j) = OutstandingIn(bmps, j) \cup NewPlaces(m, B)
         /\ \A k : k # j => OutstandingIn(b, k) = OutstandingIn(bmps, k)
<1> DEFINE new == NewPlaces(m, B)
<1>1. DOMAIN b = DOMAIN bmps
  BY DEF Asked
<1>2. ASSUME NEW c \in DOMAIN bmps
      PROVE  /\ Len(bmps[c].queue) \in Nat
             /\ Len(b[c].queue) \in {Len(bmps[c].queue), Len(bmps[c].queue) + 1}
             /\ c \in BmpsOf(m, B) <=> Len(b[c].queue) = Len(bmps[c].queue) + 1
             /\ \A i \in 1 .. Len(bmps[c].queue) : b[c].queue[i] = bmps[c].queue[i]
             /\ c \in BmpsOf(m, B) => b[c].queue[Len(bmps[c].queue) + 1].job = j
  <2>1. Ask(j, B, on, c).job = j
    BY DEF Ask
  <2> QED BY <2>1 DEF Asked
<1>3. ASSUME NEW k, NEW x \in OutstandingIn(bmps, k)
      PROVE  x \in OutstandingIn(b, k)
  <2>1. PICK c \in DOMAIN bmps : \E i \in 1 .. Len(bmps[c].queue) :
          x = <<c, i>> /\ bmps[c].queue[i].job = k
    BY <1>3, OutstandingMeans
  <2>2. PICK i \in 1 .. Len(bmps[c].queue) : x = <<c, i>> /\ bmps[c].queue[i].job = k
    BY <2>1
  <2>3. c \in DOMAIN b /\ i \in 1 .. Len(b[c].queue) /\ b[c].queue[i].job = k
    BY <1>1, <1>2, <2>2
  <2> QED BY <2>2, <2>3, OutstandingMeans
<1>4. ASSUME NEW k, NEW x \in OutstandingIn(b, k)
      PROVE  x \in OutstandingIn(bmps, k) \/ (k = j /\ x \in new)
  <2>1. PICK c \in DOMAIN b : \E i \in 1 .. Len(b[c].queue) :
          x = <<c, i>> /\ b[c].queue[i].job = k
    BY <1>4, OutstandingMeans
  <2>2. PICK i \in 1 .. Len(b[c].queue) : x = <<c, i>> /\ b[c].queue[i].job = k
    BY <2>1
  <2>3. CASE i \in 1 .. Len(bmps[c].queue)
    <3>1. c \in DOMAIN bmps /\ bmps[c].queue[i].job = k
      BY <1>1, <1>2, <2>2, <2>3
    <3> QED BY <2>2, <2>3, <3>1, OutstandingMeans
  <2>4. CASE i \notin 1 .. Len(bmps[c].queue)
    <3>1. i = Len(bmps[c].queue) + 1 /\ c \in BmpsOf(m, B)
      BY <1>1, <1>2, <2>2, <2>4
    <3> QED BY <1>1, <1>2, <2>2, <3>1 DEF NewPlaces
  <2> QED BY <2>3, <2>4
<1>5. ASSUME NEW x \in new
      PROVE  x \in OutstandingIn(b, j)
  <2>1. PICK c \in BmpsOf(m, B) : x = <<c, Len(bmps[c].queue) + 1>>
    BY <1>5 DEF NewPlaces
  <2>2. c \in DOMAIN bmps
    BY DEF BmpsOf
  <2>3. Len(bmps[c].queue) + 1 \in 1 .. Len(b[c].queue)
        /\ b[c].queue[Len(bmps[c].queue) + 1].job = j
    BY <1>2, <2>2
  <2> QED BY <1>1, <2>1, <2>2, <2>3, OutstandingMeans
<1>6. OutstandingIn(b, j) = OutstandingIn(bmps, j) \cup new
  BY <1>3, <1>4, <1>5
<1>7. \A k : k # j => OutstandingIn(b, k) = OutstandingIn(bmps, k)
  BY <1>3, <1>4
<1> QED BY <1>6, <1>7

LEMMA RequestedCount ==
  ASSUME BmpTable(bmps), NEW b, NEW m, NEW j, NEW B, NEW on, Asked(b, m, j, B, on),
         NEW k, NEW n \in Nat, HasRequests(bmps, k, n)
  PROVE  HasRequests(b, k, IF k = j THEN n + Cardinality(BmpsOf(m, B)) ELSE n)
<1> DEFINE new == NewPlaces(m, B)
           f == [c \in BmpsOf(m, B) |-> <<c, Len(bmps[c].queue) + 1>>]
<1>1. f \in Bijection(BmpsOf(m, B), new)
  <2>1. f \in [BmpsOf(m, B) -> new]
    BY DEF NewPlaces
  <2>2. \A c, d \in BmpsOf(m, B) : f[c] = f[d] => c = d
    OBVIOUS
  <2>3. \A x \in new : \E c \in BmpsOf(m, B) : f[c] = x
    BY DEF NewPlaces
  <2> HIDE DEF f, new
  <2> QED BY <2>1, <2>2, <2>3 DEF Bijection, Injection, Surjection, IsInjective
<1>2. IsFiniteSet(new) /\ Cardinality(new) = Cardinality(BmpsOf(m, B))
        /\ Cardinality(BmpsOf(m, B)) \in Nat
  <2> HIDE DEF f, new
  <2>1. ExistsBijection(BmpsOf(m, B), new)
    BY <1>1 DEF ExistsBijection
  <2> QED BY <2>1, FiniteBmps, FS_Bijection
<1>3. OutstandingIn(bmps, j) \cap new = {}
  <2> SUFFICES ASSUME NEW x \in OutstandingIn(bmps, j), x \in new
               PROVE  FALSE
    OBVIOUS
  <2>1. PICK c \in DOMAIN bmps : \E i \in 1 .. Len(bmps[c].queue) : x = <<c, i>>
    BY OutstandingMeans
  <2>2. PICK d \in BmpsOf(m, B) : x = <<d, Len(bmps[d].queue) + 1>>
    BY DEF NewPlaces
  <2>3. Len(bmps[c].queue) \in Nat
    BY BmpRecord
  <2> QED BY <2>1, <2>2, <2>3
<1>4. /\ OutstandingIn(b, j) = OutstandingIn(bmps, j) \cup new
      /\ k # j => OutstandingIn(b, k) = OutstandingIn(bmps, k)
  BY RequestedOutstanding
<1> HIDE DEF new
<1>5. CASE k = j
  <2> DEFINE S == OutstandingIn(bmps, j)
  <2>0. IsFiniteSet(S) /\ Cardinality(S) = n
    BY <1>5 DEF HasRequests
  <2> HIDE DEF S
  <2>1. IsFiniteSet(S \cup new)
        /\ Cardinality(S \cup new) = Cardinality(S) + Cardinality(new) - Cardinality(S \cap new)
    BY <1>2, <2>0, FS_Union, Zenon
  <2> USE DEF S
  <2>2. Cardinality(S \cap new) = 0
    BY <1>3, FS_EmptySet
  <2>3. OutstandingIn(b, k) = S \cup new
    BY <1>4, <1>5
  <2> HIDE DEF S
  <2>4. Cardinality(S \cup new) = n + Cardinality(BmpsOf(m, B))
    BY <1>2, <2>0, <2>1, <2>2
  <2> QED BY <1>5, <2>1, <2>3, <2>4 DEF HasRequests
<1>6. CASE k # j
  BY <1>4, <1>6 DEF HasRequests
<1> QED BY <1>5, <1>6

\* In table s the request at the head of the queue of c has been reported on.
Reported(b, c, s) ==
  /\ DOMAIN s = DOMAIN b /\ c \in DOMAIN b
  /\ \A d \in DOMAIN b \ {c} : s[d] = b[d]
  /\ Len(b[c].queue) \in Nat \ {0}
  /\ Head(b[c].queue) = b[c].queue[1]
  /\ s[c].queue \in Seq(RequestsType)
  /\ Len(s[c].queue) = Len(b[c].queue) - 1
  /\ \A i \in 1 .. Len(s[c].queue) : s[c].queue[i] = b[c].queue[i + 1]
  /\ s[c].result = "none" /\ s[c].machine = b[c].machine
  /\ s[c].stop = b[c].stop /\ s[c].after = b[c].after

LEMMA ShortenedReports ==
  ASSUME NEW b, BmpTable(b), NEW c \in DOMAIN b, b[c].queue # <<>>
  PROVE  Reported(b, c, Shortened(b, c))
<1>1. PICK s : s = Shortened(b, c)
  OBVIOUS
<1>2. b[c] \in BmpType /\ b[c].queue \in Seq(RequestsType) /\ Len(b[c].queue) \in Nat \ {0}
  BY BmpRecord, EmptySeq
<1>3. DOMAIN s = DOMAIN b /\ \A d \in DOMAIN b \ {c} : s[d] = b[d]
  BY <1>1 DEF Shortened
<1>4. /\ Tail(b[c].queue) \in Seq(RequestsType)
      /\ Len(Tail(b[c].queue)) = Len(b[c].queue) - 1
      /\ \A i \in 1 .. Len(Tail(b[c].queue)) : Tail(b[c].queue)[i] = b[c].queue[i + 1]
  BY <1>2, HeadTailProperties
<1>5. s[c] = [b[c] EXCEPT !.queue = Tail(b[c].queue), !.result = "none"]
  BY <1>1, <1>2 DEF Shortened, BmpType
<1>6. /\ s[c].queue = Tail(b[c].queue)
      /\ s[c].result = "none" /\ s[c].machine = b[c].machine
      /\ s[c].stop = b[c].stop /\ s[c].after = b[c].after
  BY <1>2, <1>5 DEF BmpType
<1>7. Head(b[c].queue) = b[c].queue[1]
  BY <1>2
<1> QED BY <1>1, <1>2, <1>3, <1>4, <1>6, <1>7 DEF Reported

\* The requests that stay move up by one place.
LEMMA ReportedCount ==
  ASSUME NEW b, NEW c, NEW s, Reported(b, c, s),
         \A d \in DOMAIN b : Len(b[d].queue) \in Nat,
         NEW k, NEW n \in Nat, HasRequests(b, k, n)
  PROVE  /\ k = Head(b[c].queue).job => n > 0
         /\ HasRequests(s, k, IF k = Head(b[c].queue).job THEN n - 1 ELSE n)
<1> DEFINE old == OutstandingIn(b, k) \ {<<c, 1>>}
           new == OutstandingIn(s, k)
           place(x) == <<x[1], IF x[1] = c THEN x[2] - 1 ELSE x[2]>>
           f == [x \in old |-> place(x)]
<1>1. ASSUME NEW x \in old
      PROVE  /\ x = <<x[1], x[2]>> /\ x[2] \in Nat
             /\ x[1] \in DOMAIN b /\ x[2] \in 1 .. Len(b[x[1]].queue)
             /\ b[x[1]].queue[x[2]].job = k /\ x # <<c, 1>>
  BY OutstandingMeans
<1>2. ASSUME NEW x \in old
      PROVE  f[x] \in new
  <2>1. CASE x[1] = c
    <3>1. x[2] - 1 \in 1 .. Len(s[c].queue) /\ s[c].queue[x[2] - 1].job = k
      BY <1>1, <2>1 DEF Reported
    <3> QED BY <1>1, <2>1, <3>1, OutstandingMeans DEF Reported
  <2>2. CASE x[1] # c
    <3>1. s[x[1]] = b[x[1]] /\ x[1] \in DOMAIN s
      BY <1>1, <2>2 DEF Reported
    <3> QED BY <1>1, <2>2, <3>1, OutstandingMeans
  <2> QED BY <2>1, <2>2
<1>3. ASSUME NEW y \in new
      PROVE  \E x \in old : f[x] = y
  <2>1. PICK d \in DOMAIN s : \E i \in 1 .. Len(s[d].queue) :
          y = <<d, i>> /\ s[d].queue[i].job = k
    BY OutstandingMeans
  <2>2. PICK i \in 1 .. Len(s[d].queue) : y = <<d, i>> /\ s[d].queue[i].job = k
    BY <2>1
  <2>3. CASE d = c
    <3>1. i + 1 \in 1 .. Len(b[c].queue) /\ b[c].queue[i + 1].job = k /\ i + 1 # 1
          /\ c \in DOMAIN b
      BY <2>2, <2>3 DEF Reported
    <3>2. <<c, i + 1>> \in OutstandingIn(b, k)
      BY <3>1, OutstandingMeans
    <3>3. <<c, i + 1>> \in old
      BY <3>1, <3>2
    <3>4. f[<<c, i + 1>>] = <<c, (i + 1) - 1>>
      BY <3>3
    <3> QED BY <2>2, <2>3, <3>3, <3>4
  <2>4. CASE d # c
    <3>1. d \in DOMAIN b /\ i \in 1 .. Len(b[d].queue) /\ b[d].queue[i].job = k
      BY <2>2, <2>4 DEF Reported
    <3>2. y \in old
      BY <2>2, <2>4, <3>1, OutstandingMeans
    <3> QED BY <2>2, <2>4, <3>2
  <2> QED BY <2>3, <2>4
<1>4. ASSUME NEW x \in old, NEW y \in old, f[x] = f[y]
      PROVE  x = y
  <2>1. x[1] = y[1] /\ x[2] = y[2]
    BY <1>1, <1>4
  <2> QED BY <1>1, <2>1
<1>5. <<c, 1>> \in OutstandingIn(b, k) <=> k = Head(b[c].queue).job
  <2>1. c \in DOMAIN b /\ 1 \in 1 .. Len(b[c].queue) /\ Head(b[c].queue) = b[c].queue[1]
    BY DEF Reported
  <2>2. ASSUME <<c, 1>> \in OutstandingIn(b, k)
        PROVE  b[c].queue[1].job = k
    BY <2>2, OutstandingMeans
  <2>3. ASSUME b[c].queue[1].job = k
        PROVE  <<c, 1>> \in OutstandingIn(b, k)
    BY <2>1, <2>3, OutstandingMeans
  <2> QED BY <2>1, <2>2, <2>3
<1>6. f \in [old -> new]
  BY <1>2
<1> HIDE DEF f, new, place
<1>7. ExistsBijection(old, new)
  <2> HIDE DEF old
  <2> QED BY <1>3, <1>4, <1>6 DEF ExistsBijection, Bijection, Injection, Surjection, IsInjective
<1>8. /\ IsFiniteSet(old)
      /\ Cardinality(old) = IF k = Head(b[c].queue).job THEN n - 1 ELSE n
      /\ Cardinality(old) \in Nat
  <2> DEFINE S == OutstandingIn(b, k)
  <2>1. IsFiniteSet(S) /\ Cardinality(S) = n
    BY DEF HasRequests
  <2> HIDE DEF S
  <2>2. IsFiniteSet(S \ {<<c, 1>>})
        /\ Cardinality(S \ {<<c, 1>>}) =
             IF <<c, 1>> \in S THEN Cardinality(S) - 1 ELSE Cardinality(S)
    BY <2>1, FS_RemoveElement, Zenon
  <2>3. Cardinality(S \ {<<c, 1>>}) \in Nat
    BY <2>2, FS_CardinalityType
  <2>4. <<c, 1>> \in S <=> k = Head(b[c].queue).job
    BY <1>5 DEF S
  <2> QED BY <2>1, <2>2, <2>3, <2>4 DEF S
<1> HIDE DEF old
<1>9. IsFiniteSet(new) /\ Cardinality(new) = Cardinality(old)
  BY <1>7, <1>8, FS_Bijection
<1> QED BY <1>8, <1>9 DEF HasRequests, new

\* Threads come and go with empty queues.
LEMMA RelabelledCount ==
  ASSUME NEW b, NEW s, NEW k, NEW n, HasRequests(b, k, n),
         \A c \in DOMAIN s : s[c].queue = <<>> \/ (c \in DOMAIN b /\ s[c].queue = b[c].queue),
         \A c \in DOMAIN b : b[c].queue = <<>> \/ (c \in DOMAIN s /\ s[c].queue = b[c].queue)
  PROVE  HasRequests(s, k, n)
<1>1. ASSUME NEW x
      PROVE  x \in OutstandingIn(s, k) <=> x \in OutstandingIn(b, k)
  <2>1. ASSUME NEW t, NEW u, x \in OutstandingIn(t, k),
               \A c \in DOMAIN t :
                 t[c].queue = <<>> \/ (c \in DOMAIN u /\ t[c].queue = u[c].queue)
        PROVE  x \in OutstandingIn(u, k)
    <3>1. PICK c \in DOMAIN t : \E i \in 1 .. Len(t[c].queue) :
            x = <<c, i>> /\ t[c].queue[i].job = k
      BY <2>1, OutstandingMeans
    <3>2. t[c].queue # <<>>
      BY <3>1
    <3>3. c \in DOMAIN u /\ t[c].queue = u[c].queue
      BY <2>1, <3>2
    <3> QED BY <3>1, <3>3, OutstandingMeans
  <2>2. x \in OutstandingIn(s, k) => x \in OutstandingIn(b, k)
    BY <2>1
  <2>3. \A c \in DOMAIN b : b[c].queue = <<>> \/ (c \in DOMAIN s /\ b[c].queue = s[c].queue)
    OBVIOUS
  <2>4. x \in OutstandingIn(b, k) => x \in OutstandingIn(s, k)
    BY <2>1, <2>3
  <2> QED BY <2>2, <2>4
<1>2. OutstandingIn(s, k) = OutstandingIn(b, k)
  BY <1>1
<1> QED BY <1>2 DEF HasRequests

-----------------------------------------------------------------------------
(* What a step does to the requests, and to the jobs they are for.         *)

\* Nobody is asked for anything on behalf of these jobs: a job is forgotten, or is
\* as it was, or is queued.
SameWishes(J) ==
  \A k \in J : cjobs'[k].state = "queued" \/ (k \in DOMAIN cjobs /\ cjobs'[k] = cjobs[k])

Silent == UNCHANGED <<bmps, count, powered>> /\ SameWishes(DOMAIN cjobs')

\* What job j is to have, if it is still there: boards B of machine m, on or off.
Wish(j, m, B, on) ==
  j \in DOMAIN cjobs' =>
    /\ cjobs'[j].machine = m /\ cjobs'[j].boards = B
    /\ cjobs'[j].state = "power" /\ (cjobs'[j].power = "on") = on

\* Job j asks the BMPs of machine m to switch boards B, in which no other job has a
\* part; b is what becomes of the BMPs.
AsksFor(j, m, B, on, b) ==
  /\ j \in DOMAIN cjobs /\ m \in DOMAIN machines /\ B \in SUBSET Board /\ B # {}
  /\ Asked(b, m, j, B, on)
  /\ B \subseteq machines[m].boards
  /\ Wish(j, m, B, on)
  /\ j \in DOMAIN cjobs' \/ cjobs[j].machine = m
  /\ SameWishes(DOMAIN cjobs' \ {j})
  /\ \A k \in DOMAIN cjobs' \ {j} : cjobs'[k].state # "queued" => cjobs'[k].boards \cap B = {}
  /\ powered' = powered

Asks(j, m, B, on) ==
  /\ AsksFor(j, m, B, on, bmps')
  /\ count' = [count EXCEPT ![j] = @ + Cardinality(BmpsOf(m, B))]

\* Thread c reports, and nothing is asked for because of it.
ReportsBack(c) ==
  /\ Reports(c)
  /\ bmps[c].result = "ok" \/ JobOf(c) \notin DOMAIN cjobs
  /\ Reported(bmps, c, bmps')
  /\ count' = CountDown(c)
  /\ powered' = powered
  /\ SameWishes(DOMAIN cjobs' \ {JobOf(c)})
  /\ JobOf(c) \in DOMAIN cjobs' =>
       /\ JobOf(c) \in DOMAIN cjobs
       /\ \/ cjobs'[JobOf(c)] = cjobs[JobOf(c)]
          \/ LastReport(c) /\ cjobs'[JobOf(c)] = [cjobs[JobOf(c)] EXCEPT !.state = "ready"]

\* Thread c reports a failure, and the job it worked for is to be switched off.
FailsJob(c, m, B, b) ==
  /\ Reports(c)
  /\ bmps[c].result = "failed"
  /\ JobOf(c) \in DOMAIN cjobs /\ JobOf(c) \notin DOMAIN cjobs'
  /\ AsksFor(JobOf(c), m, B, FALSE, b)
  /\ Reported(b, c, bmps')
  /\ count' = [count EXCEPT ![JobOf(c)] = @ + Cardinality(BmpsOf(m, B)) - 1]

\* Thread c switches boards.
Works(c) ==
  /\ AtWork(c)
  /\ UNCHANGED <<cjobs, count, machines>>
  /\ Switch(c) \/ Succeed(c) \/ Fail(c)

\* Threads come, go, or are let go of.
ThreadsChange ==
  /\ UNCHANGED <<cjobs, count, powered>>
  /\ \/ \E c \in BmpId : ThreadEnds(c)
     \/ \E j \in JobId : UpdateFails(j)
     \/ \E m \in Machine : UpdateRemovesMachine(m)
     \/ UpdateEnds

Shapes ==
  \/ Silent
  \/ \E j, m, B : \E on \in BOOLEAN : Asks(j, m, B, on)
  \/ \E c \in BmpId : ReportsBack(c)
  \/ \E c \in BmpId : \E m, B, b : FailsJob(c, m, B, b)
  \/ \E c \in BmpId : Works(c)
  \/ ThreadsChange

\* A job that has boards has at least one.
BoardsNonEmpty == \A j \in DOMAIN jobs : HoldsBoards(j) => jobs[j].boards # {}

\* A running job has the same boards, which are nobody else's, in the controller.
LEMMA RunningJob ==
  ASSUME AInv, NEW j \in DOMAIN jobs, jobs[j].state = "running"
  PROVE  /\ j \in JobId /\ j \in DOMAIN cjobs /\ HoldsBoards(j)
         /\ cjobs[j].machine = jobs[j].machine /\ cjobs[j].machine \in DOMAIN machines
         /\ cjobs[j].boards = jobs[j].boards /\ cjobs[j].boards \in SUBSET Board
         /\ cjobs[j].boards \subseteq machines[cjobs[j].machine].boards
<1>1. j \in DOMAIN cjobs /\ HoldsBoards(j) /\ j \in JobId
  BY DEF AInv, JobsAgree, HoldsBoards, QInv, QTypeOK
<1>2. cjobs[j].machine = jobs[j].machine /\ cjobs[j].boards = jobs[j].boards
  BY <1>1 DEF AInv, JobsAgree
<1>3. jobs[j].machine \in DOMAIN machines /\ jobs[j].boards \subseteq machines[jobs[j].machine].boards
  BY <1>1 DEF AInv, QInv, JobsPlaced
<1>4. cjobs[j].boards \in SUBSET Board
  BY <1>1 DEF AInv, CJobsTyped, CJobType
<1> QED BY <1>1, <1>2, <1>3, <1>4

\* The boards of a job that is not queued are not those of another.
LEMMA OthersApart ==
  ASSUME AInv, NEW j \in DOMAIN jobs, HoldsBoards(j), NEW k \in DOMAIN cjobs, k # j,
         cjobs[k].state # "queued"
  PROVE  cjobs[k].boards \cap jobs[j].boards = {}
<1>1. k \in DOMAIN jobs /\ HoldsBoards(k) /\ cjobs[k].boards = jobs[k].boards
  BY DEF AInv, JobsAgree, HoldsBoards
<1> QED BY <1>1 DEF AInv, QInv, BoardExclusive

\* A job that has no boards yet has no wishes.
LEMMA ForgetsOne ==
  ASSUME NEW j, cjobs' = Without(cjobs, j)
  PROVE  /\ DOMAIN cjobs' = DOMAIN cjobs \ {j}
         /\ SameWishes(DOMAIN cjobs')
         /\ \A k \in DOMAIN cjobs' : cjobs'[k] = cjobs[k]
  BY DEF Without, SameWishes

\* The controller asks for the boards of a running job to be switched, and then
\* forgets the job or not.
LEMMA AsksForRunning ==
  ASSUME AInv, BoardsNonEmpty, NEW j \in DOMAIN jobs, jobs[j].state = "running",
         NEW on, on \in BOOLEAN, NEW b, b = Requested(cjobs[j].machine, j, cjobs[j].boards, on),
         powered' = powered,
         Wish(j, cjobs[j].machine, cjobs[j].boards, on),
         DOMAIN cjobs' \subseteq DOMAIN cjobs,
         \A k \in DOMAIN cjobs' \ {j} : cjobs'[k] = cjobs[k]
  PROVE  AsksFor(j, cjobs[j].machine, cjobs[j].boards, on, b)
<1>1. /\ j \in JobId /\ j \in DOMAIN cjobs /\ HoldsBoards(j)
      /\ cjobs[j].machine \in DOMAIN machines
      /\ cjobs[j].boards = jobs[j].boards /\ cjobs[j].boards \in SUBSET Board
      /\ cjobs[j].boards \subseteq machines[cjobs[j].machine].boards
  BY RunningJob
<1>2. Asked(b, cjobs[j].machine, j, cjobs[j].boards, on)
  <2>1. BmpTable(bmps)
    BY DEF AInv
  <2> QED BY <1>1, <2>1, RequestedAsks
<1>3. cjobs[j].boards # {}
  BY <1>1 DEF BoardsNonEmpty
<1>4. ASSUME NEW k \in DOMAIN cjobs' \ {j}, cjobs'[k].state # "queued"
      PROVE  cjobs'[k].boards \cap cjobs[j].boards = {}
  BY <1>1, <1>4, OthersApart
<1> QED BY <1>1, <1>2, <1>3, <1>4 DEF AsksFor, SameWishes

LEMMA DestroyShape ==
  ASSUME AInv, BoardsNonEmpty, NEW j, DestroyQueued(j) \/ DestroyRunning(j)
  PROVE  Shapes
<1>1. CASE DestroyQueued(j)
  BY <1>1, ForgetsOne DEF DestroyQueued, OnCancel, Silent, Shapes
<1>2. CASE DestroyRunning(j)
  <2>0. PICK off \in BOOLEAN : off = FALSE
    OBVIOUS
  <2>1. /\ j \in DOMAIN jobs /\ jobs[j].state = "running"
        /\ cjobs' = Without(cjobs, j) /\ powered' = powered
        /\ bmps' = Requested(cjobs[j].machine, j, cjobs[j].boards, off)
        /\ count' = [count EXCEPT
             ![j] = @ + Cardinality(BmpsOf(cjobs[j].machine, cjobs[j].boards))]
    BY <1>2, <2>0 DEF DestroyRunning, ReleaseJob, OnFree, OnCancel, PowerDown
  <2>2. /\ DOMAIN cjobs' = DOMAIN cjobs \ {j}
        /\ \A k \in DOMAIN cjobs' : cjobs'[k] = cjobs[k]
    BY <2>1, ForgetsOne
  <2>3. AsksFor(j, cjobs[j].machine, cjobs[j].boards, off, bmps')
    BY <2>1, <2>2, AsksForRunning DEF Wish
  <2>4. Asks(j, cjobs[j].machine, cjobs[j].boards, off)
    BY <2>1, <2>3 DEF Asks
  <2> QED BY <2>4 DEF Shapes
<1> QED BY <1>1, <1>2

LEMMA SetPowerShape ==
  ASSUME AInv, BoardsNonEmpty, NEW j \in JobId, NEW on \in BOOLEAN, SetPower(j, on)
  PROVE  Shapes
<1>1. /\ j \in DOMAIN cjobs /\ cjobs[j].boards # {} /\ powered' = powered
      /\ bmps' = Requested(cjobs[j].machine, j, cjobs[j].boards, on)
      /\ cjobs' = [cjobs EXCEPT ![j].state = "power",
                                ![j].power = IF on THEN "on" ELSE "off"]
      /\ count' = [count EXCEPT
           ![j] = @ + Cardinality(BmpsOf(cjobs[j].machine, cjobs[j].boards))]
  BY DEF SetPower
<1>2. j \in DOMAIN jobs /\ jobs[j].state = "running"
  BY <1>1 DEF AInv, JobsAgree, QInv, QTypeOK, JobType, JobsPlaced, HoldsBoards
<1>3. cjobs[j] \in CJobType
  BY <1>1 DEF AInv, CJobsTyped
<1>4. DOMAIN cjobs' = DOMAIN cjobs /\ \A k \in DOMAIN cjobs' \ {j} : cjobs'[k] = cjobs[k]
  BY <1>1
<1>5. Wish(j, cjobs[j].machine, cjobs[j].boards, on)
  BY <1>1, <1>3 DEF Wish, CJobType
<1>6. AsksFor(j, cjobs[j].machine, cjobs[j].boards, on, bmps')
  BY <1>1, <1>2, <1>4, <1>5, AsksForRunning
<1> QED BY <1>1, <1>6 DEF Asks, Shapes

LEMMA UsersShape ==
  ASSUME AInv, BoardsNonEmpty, Users \/ Power
  PROVE  Shapes
<1>1. ASSUME NEW r \in Request, Create(r)
      PROVE  Silent
  <2>1. cjobs' = With(cjobs, nextId, NewJob) /\ UNCHANGED <<bmps, count, powered>>
    BY <1>1 DEF Create
  <2>2. \A k \in DOMAIN cjobs' : cjobs'[k] = NewJob \/ (k \in DOMAIN cjobs /\ cjobs'[k] = cjobs[k])
    BY <2>1 DEF With
  <2> QED BY <2>1, <2>2 DEF Silent, SameWishes, NewJob
<1>2. ASSUME NEW r \in Request, CreateRejected(r)
      PROVE  Silent
  BY <1>2 DEF CreateRejected, Silent, SameWishes
<1>3. ASSUME NEW j \in JobId, Keepalive(j) \/ Lapse(j)
      PROVE  Silent
  BY <1>3 DEF Keepalive, Lapse, Silent, SameWishes
<1>4. ASSUME NEW j \in JobId, Destroy(j)
      PROVE  Shapes
  BY <1>4, DestroyShape DEF Destroy
<1>5. ASSUME NEW j \in JobId, NEW on \in BOOLEAN, SetPower(j, on)
      PROVE  Shapes
  BY <1>5, SetPowerShape
<1> QED BY <1>1, <1>2, <1>3, <1>4, <1>5 DEF Users, Power, Shapes

LEMMA AllocateShape ==
  ASSUME AInv, AInv', NEW m \in Machine, NEW j \in JobId, NEW p \in SUBSET Board,
         Allocate(m, j, p)
  PROVE  Shapes
<1>0. PICK on \in BOOLEAN : on = TRUE
  OBVIOUS
<1>1. /\ m \in DOMAIN machines /\ j \in DOMAIN jobs /\ Pending(j) /\ p \in Placements(m, jobs[j].req)
      /\ jobs' = [jobs EXCEPT ![j] = [state |-> "running", req |-> jobs[j].req,
                                      machine |-> m, boards |-> p]]
  BY DEF Allocate, StartJob, TakeBoards, FirstPending, Pending
<1>2. /\ cjobs' = [cjobs EXCEPT ![j] = [state |-> "power", power |-> "on", machine |-> m,
                                         desc |-> Described(m), boards |-> p]]
      /\ bmps' = Requested(m, j, p, on) /\ powered' = powered
      /\ count' = [count EXCEPT ![j] = @ + Cardinality(BmpsOf(m, p))]
  BY <1>0 DEF Allocate
<1>3. j \in DOMAIN cjobs
  BY <1>1, KnownJob DEF Pending
<1>4. p # {} /\ p \subseteq machines[m].boards
  <2>1. jobs[j].req \in Request
    BY <1>1 DEF AInv, QInv, QTypeOK, JobType
  <2> QED BY <1>1, <2>1, RequestAssumption DEF Placements, Working
<1>5. Asked(bmps', m, j, p, on)
  <2>1. BmpTable(bmps)
    BY DEF AInv
  <2> QED BY <1>2, <2>1, RequestedAsks
<1>6. /\ DOMAIN cjobs' = DOMAIN cjobs /\ \A k \in DOMAIN cjobs' \ {j} : cjobs'[k] = cjobs[k]
      /\ Wish(j, m, p, on)
  BY <1>0, <1>2, <1>3 DEF Wish
<1>7. ASSUME NEW k \in DOMAIN cjobs' \ {j}, cjobs'[k].state # "queued"
      PROVE  cjobs'[k].boards \cap p = {}
  <2>1. j \in DOMAIN jobs' /\ jobs'[j].boards = p /\ jobs'[j].state = "running"
    BY <1>1
  <2>2. k \in DOMAIN jobs' /\ jobs'[k].state # "pending" /\ cjobs'[k].boards = jobs'[k].boards
    BY <1>7 DEF AInv, JobsAgree
  <2> QED BY <2>1, <2>2 DEF AInv, QInv, BoardExclusive, HoldsBoards
<1>8. AsksFor(j, m, p, on, bmps')
  BY <1>1, <1>2, <1>3, <1>4, <1>5, <1>6, <1>7 DEF AsksFor, SameWishes
<1>9. Asks(j, m, p, on)
  BY <1>2, <1>8 DEF Asks
<1> QED BY <1>9 DEF Shapes

LEMMA LoopShape ==
  ASSUME AInv, AInv', BoardsNonEmpty, ServerLoop \/ Delay \/ Schedule \/ Regenerate
  PROVE  Shapes
<1>1. ASSUME NEW j \in JobId, SweepJob(j)
      PROVE  Shapes
  BY <1>1, DestroyShape DEF SweepJob
<1>2. ASSUME StartSweep \/ EndSweep \/ CollectFreed \/ ReadChanges \/ Delay \/ EndUpdate
             \/ (EndPass /\ UNCHANGED cvars)
             \/ (UNCHANGED cvars /\ \E m \in Machine :
                   SkipMachine(m) \/ FindEmpty(m) \/ FindBlocked(m))
             \/ (UNCHANGED cvars /\ \E j \in JobId : VisitStarted(j) \/ VisitPending(j))
      PROVE  UNCHANGED <<cjobs, bmps, count, powered>>
  BY <1>2 DEF StartSweep, EndSweep, CollectFreed, ReadChanges, Delay, EndUpdate, cvars
<1>3. ASSUME NEW j \in JobId, CancelUnsuitable(j)
      PROVE  Silent
  BY <1>3, ForgetsOne DEF CancelUnsuitable, OnCancel, Silent
<1>4. UNCHANGED <<cjobs, bmps, count, powered>> => Silent
  BY DEF Silent, SameWishes
<1> QED BY <1>1, <1>2, <1>3, <1>4, AllocateShape
        DEF ServerLoop, Schedule, Regenerate, Shapes

\* The thread that reports has done, or given up, what is at the head of its queue.
LEMMA ReporterBusy ==
  ASSUME AInv, NEW c, Reports(c)
  PROVE  c \in DOMAIN bmps /\ HasWork(bmps, c) /\ c \in BmpId
  BY DEF AInv, BmpTable, Reports, HasWork

LEMMA FinishedReports ==
  ASSUME AInv, NEW c, Reports(c), bmps' = Finished(c)
  PROVE  Reported(bmps, c, bmps')
<1>1. BmpTable(bmps) /\ c \in DOMAIN bmps /\ bmps[c].queue # <<>>
  BY ReporterBusy DEF AInv, HasWork
<1>2. bmps' = Shortened(bmps, c)
  BY DEF Finished, Shortened
<1> QED BY <1>1, <1>2, ShortenedReports

LEMMA FailureShape ==
  ASSUME AInv, BoardsNonEmpty, NEW c \in BmpId, ReportFailure(c)
  PROVE  Shapes
<1> DEFINE j == JobOf(c)
<1>0. PICK off \in BOOLEAN : off = FALSE
  OBVIOUS
<1> DEFINE b == Requested(cjobs[j].machine, j, cjobs[j].boards, off)
<1>1. /\ Reports(c) /\ bmps[c].result = "failed" /\ j \in DOMAIN cjobs
      /\ j \in DOMAIN jobs /\ jobs[j].state = "running"
      /\ cjobs' = Without(cjobs, j) /\ powered' = powered
      /\ bmps' = Shortened(b, c)
      /\ count' = [count EXCEPT
           ![j] = @ + Cardinality(BmpsOf(cjobs[j].machine, cjobs[j].boards)) - 1]
  BY <1>0 DEF ReportFailure, ReleaseJob, OnFree, OnCancel, Shortened
<1>2. /\ DOMAIN cjobs' = DOMAIN cjobs \ {j}
      /\ \A k \in DOMAIN cjobs' : cjobs'[k] = cjobs[k]
  BY <1>1, ForgetsOne
<1> HIDE DEF j
<1>3. AsksFor(j, cjobs[j].machine, cjobs[j].boards, off, b)
  BY <1>1, <1>2, AsksForRunning DEF Wish
<1>4. /\ j \in JobId /\ cjobs[j].boards \in SUBSET Board /\ BmpTable(bmps)
  BY <1>1, RunningJob DEF AInv
<1>5. BmpTable(b)
  <2>1. PICK t : t = Requested(cjobs[j].machine, j, cjobs[j].boards, off)
    OBVIOUS
  <2>2. BmpTable(t)
    BY <1>4, <2>1, RequestedTable
  <2> QED BY <2>1, <2>2
<1>6. HasWork(b, c)
  BY <1>1, <1>4, ReporterBusy, RequestedBehind, Zenon
<1>7. Reported(b, c, bmps')
  <2>1. c \in DOMAIN b /\ b[c].queue # <<>>
    BY <1>6 DEF HasWork
  <2> HIDE DEF b
  <2> QED BY <1>1, <1>5, <2>1, ShortenedReports
<1> HIDE DEF b
<1>8. FailsJob(c, cjobs[j].machine, cjobs[j].boards, b)
  BY <1>0, <1>1, <1>2, <1>3, <1>7 DEF FailsJob, j
<1> QED BY <1>8 DEF Shapes

LEMMA BmpShape ==
  ASSUME AInv, BoardsNonEmpty, NEW c \in BmpId, BmpThread(c)
  PROVE  Shapes
<1>1. ASSUME Switch(c) \/ Succeed(c) \/ Fail(c)
      PROVE  Works(c)
  BY <1>1 DEF Switch, Succeed, Fail, Works, qvars
<1>2. ASSUME ReportProgress(c) \/ ReportForgotten(c) \/ ReportFreed(c)
      PROVE  ReportsBack(c)
  <2>1. /\ Reports(c) /\ bmps' = Finished(c) /\ count' = CountDown(c)
        /\ UNCHANGED <<cjobs, powered>>
    BY <1>2 DEF ReportProgress, ReportForgotten, ReportFreed
  <2>2. bmps[c].result = "ok" \/ JobOf(c) \notin DOMAIN cjobs
    <3>1. CASE ReportFreed(c)
      BY <3>1 DEF ReportFreed, Free, AInv, JobsAgree
    <3> QED BY <1>2, <3>1 DEF ReportProgress, ReportForgotten
  <2> QED BY <2>1, <2>2, FinishedReports DEF ReportsBack, SameWishes
<1>3. ASSUME ReportReady(c)
      PROVE  ReportsBack(c)
  <2>1. /\ Reports(c) /\ bmps' = Finished(c) /\ count' = CountDown(c) /\ powered' = powered
        /\ bmps[c].result = "ok" /\ JobOf(c) \in DOMAIN cjobs /\ LastReport(c)
        /\ cjobs' = [cjobs EXCEPT ![JobOf(c)].state = "ready"]
    BY <1>3 DEF ReportReady
  <2>2. /\ DOMAIN cjobs' = DOMAIN cjobs
        /\ \A k \in DOMAIN cjobs' \ {JobOf(c)} : cjobs'[k] = cjobs[k]
        /\ cjobs'[JobOf(c)] = [cjobs[JobOf(c)] EXCEPT !.state = "ready"]
    BY <2>1
  <2> QED BY <2>1, <2>2, FinishedReports DEF ReportsBack, SameWishes
<1>4. ASSUME ThreadEnds(c)
      PROVE  ThreadsChange
  BY <1>4 DEF ThreadEnds, ThreadsChange
<1> QED BY <1>1, <1>2, <1>3, <1>4, FailureShape DEF BmpThread, Shapes

LEMMA UpdateShape ==
  ASSUME AInv, BoardsNonEmpty, Update
  PROVE  Shapes
<1>1. ASSUME NEW c \in Config, BeginUpdate(c)
      PROVE  Silent
  BY <1>1 DEF BeginUpdate, Silent, SameWishes
<1>2. ASSUME NEW j \in JobId, UpdateRemovesJob(j)
      PROVE  Shapes
  <2>0. PICK off \in BOOLEAN : off = FALSE
    OBVIOUS
  <2>1. /\ j \in DOMAIN jobs /\ jobs[j].state = "running"
        /\ cjobs' = Without(cjobs, j) /\ powered' = powered
        /\ bmps' = Requested(cjobs[j].machine, j, cjobs[j].boards, off)
        /\ count' = [count EXCEPT
             ![j] = @ + Cardinality(BmpsOf(cjobs[j].machine, cjobs[j].boards))]
    BY <1>2, <2>0 DEF UpdateRemovesJob, RemoveJob, Removing, JobsOn, OnFree, OnCancel, PowerDown
  <2>2. /\ DOMAIN cjobs' = DOMAIN cjobs \ {j}
        /\ \A k \in DOMAIN cjobs' : cjobs'[k] = cjobs[k]
    BY <2>1, ForgetsOne
  <2>3. AsksFor(j, cjobs[j].machine, cjobs[j].boards, off, bmps')
    BY <2>1, <2>2, AsksForRunning DEF Wish
  <2> QED BY <2>1, <2>3 DEF Asks, Shapes
<1>3. ASSUME (\E j \in JobId : UpdateFails(j))
             \/ (\E m \in Machine : UpdateRemovesMachine(m)) \/ UpdateEnds
      PROVE  ThreadsChange
  BY <1>3 DEF UpdateFails, UpdateRemovesMachine, UpdateEnds, ThreadsChange
<1> QED BY <1>1, <1>2, <1>3 DEF Update, Shapes

LEMMA StepShapes ==
  ASSUME AInv, AInv', BoardsNonEmpty, [Next]_vars
  PROVE  Shapes
<1>1. CASE UNCHANGED vars
  BY <1>1 DEF vars, cvars, Silent, SameWishes, Shapes
<1>2. CASE Next
  BY <1>2, UsersShape, LoopShape, UpdateShape, BmpShape DEF Next
<1> QED BY <1>1, <1>2

-----------------------------------------------------------------------------
(* The machines, and the threads of their BMPs.                            *)

\* The machines in service are the same, with the same boards.
SameMachines ==
  /\ DOMAIN machines' = DOMAIN machines
  /\ \A m \in DOMAIN machines : machines'[m].boards = machines[m].boards

\* Only an update that has got to the machines takes any out of service, or
\* puts any into it.
LEMMA SteadyMachines ==
  ASSUME QTypeOK, [QNext]_qvars, leaving' = leaving, target' = target
  PROVE  SameMachines
<1>0. \A n \in DOMAIN machines : machines[n] \in MachineType
  BY DEF QTypeOK
<1>1. machines' = machines => SameMachines
  BY DEF SameMachines
<1>2. ASSUME NEW r \in Request, CreateJob(r)
      PROVE  SameMachines
  <2>1. nextId \in JobId
    BY <1>2 DEF CreateJob, CanCreate
  <2>2. DOMAIN machines' = DOMAIN machines
    BY <1>2 DEF CreateJob, Enqueued
  <2> QED BY <1>2, <2>1, <2>2, EnqueuedFacts DEF CreateJob, SameMachines
<1>3. ASSUME NEW j \in JobId, VisitPending(j)
      PROVE  SameMachines
  <2>1. DOMAIN machines' = DOMAIN machines
    BY <1>3 DEF VisitPending, Enqueued
  <2> QED BY <1>3, <2>1, EnqueuedFacts DEF VisitPending, SameMachines
<1>4. ASSUME NEW j \in JobId, Free(j) \/ RemoveJob(j)
      PROVE  SameMachines
  <2>1. machines' = Freed(j) /\ j \in DOMAIN jobs
    BY <1>4 DEF Free, RemoveJob, Removing, JobsOn
  <2>2. CASE jobs[j].machine \in DOMAIN machines
    <3>1. DOMAIN machines' = DOMAIN machines
      BY <2>1 DEF Freed
    <3> QED BY <2>1, <2>2, <3>1, FreedFacts DEF SameMachines
  <2>3. CASE jobs[j].machine \notin DOMAIN machines
    BY <1>1, <2>1, <2>3 DEF Freed, QTypeOK
  <2> QED BY <2>2, <2>3
<1>5. ASSUME CheckFree
      PROVE  SameMachines
  BY <1>0, <1>5, CollectedFacts DEF CheckFree, SameMachines
<1>6. ASSUME NEW m \in Machine, TimePasses(m)
      PROVE  SameMachines
  BY <1>0, <1>6 DEF TimePasses, MachineType, SameMachines
<1>7. ASSUME NEW m \in Machine, FindEmpty(m)
      PROVE  SameMachines
  BY <1>0, <1>7 DEF FindEmpty, MachineType, SameMachines
<1>8. ASSUME NEW m \in DOMAIN machines, NEW q,
             machines' = [machines EXCEPT ![m] = [Collected(@) EXCEPT !.queue = q]]
      PROVE  SameMachines
  <2>1. Collected(machines[m]) \in MachineType
        /\ Collected(machines[m]).boards = machines[m].boards
    BY <1>0, CollectedFacts
  <2>2. [Collected(machines[m]) EXCEPT !.queue = q].boards = machines[m].boards
    BY <2>1 DEF MachineType
  <2> QED BY <1>8, <2>2 DEF SameMachines
<1>9. ASSUME NEW m \in Machine, FindBlocked(m)
      PROVE  SameMachines
  BY <1>8, <1>9 DEF FindBlocked
<1>10. ASSUME NEW m \in Machine, NEW j \in JobId, NEW p \in SUBSET Board, StartJob(m, j, p)
       PROVE  SameMachines
  <2>1. m \in DOMAIN machines
    BY <1>10 DEF StartJob, TakeBoards
  <2>2. \E q : machines' = [machines EXCEPT ![m] = [Collected(@) EXCEPT !.queue = q]]
    BY <1>10 DEF StartJob, TakeBoards
  <2> QED BY <1>8, <2>1, <2>2
<1>11. ASSUME NEW j \in JobId, RemoveReleasedJob(j)
       PROVE  SameMachines
  BY <1>0, <1>11, QueueReplaced, EmptySeq DEF RemoveReleasedJob, Cleared, SameMachines
<1>12. ASSUME NEW m \in Machine, RemoveMachine(m)
       PROVE  FALSE
  <2>1. leaving \in Seq(Machine) /\ leaving # <<>> /\ leaving = Tail(leaving)
    BY <1>12 DEF RemoveMachine, QTypeOK
  <2>2. Len(leaving) \in Nat /\ Len(Tail(leaving)) = Len(leaving) - 1
    BY <2>1, HeadTailProperties, LenProperties
  <2> QED BY <2>1, <2>2
<1>13. ~FinishUpdate
  BY DEF FinishUpdate
<1>14. ASSUME ProcessQueue
       PROVE  SameMachines
  BY <1>1, <1>7, <1>9, <1>10, <1>14 DEF ProcessQueue, SkipMachine, EndPass
<1>15. ASSUME RegenerateQueues
       PROVE  SameMachines
  BY <1>1, <1>3, <1>15 DEF RegenerateQueues, VisitStarted, VisitUnsuitable, EndRegen
<1>16. ASSUME UpdateMachines
       PROVE  SameMachines
  BY <1>1, <1>4, <1>11, <1>12, <1>13, <1>16 DEF UpdateMachines, StartUpdate
<1>17. ASSUME (\E r \in Request : RejectJob(r)) \/ (\E j \in JobId : CancelJob(j) \/ ReleaseJob(j))
              \/ UNCHANGED qvars
       PROVE  SameMachines
  BY <1>1, <1>17 DEF RejectJob, CancelJob, ReleaseJob, qvars
<1> QED BY <1>2, <1>4, <1>5, <1>6, <1>14, <1>15, <1>16, <1>17 DEF QNext

\* The steps of a controller that is not updating its machines.
LEMMA NotUpdating ==
  ASSUME Users \/ Power \/ ServerLoop \/ Delay \/ Schedule \/ Regenerate
         \/ \E c \in BmpId : BmpThread(c)
  PROVE  leaving' = leaving /\ target' = target
<1>1. ASSUME NEW j, DestroyQueued(j) \/ DestroyRunning(j)
      PROVE  leaving' = leaving /\ target' = target
  BY <1>1 DEF DestroyQueued, DestroyRunning, CancelJob, ReleaseJob
<1>2. ASSUME Users \/ Power
      PROVE  leaving' = leaving /\ target' = target
  BY <1>1, <1>2 DEF Users, Power, Create, CreateJob, CreateRejected, RejectJob, Destroy,
     Keepalive, Lapse, SetPower, qvars
<1>3. ASSUME ServerLoop \/ Delay
      PROVE  leaving' = leaving /\ target' = target
  BY <1>1, <1>3 DEF ServerLoop, Delay, StartSweep, SweepJob, EndSweep, CollectFreed,
     CheckFree, ReadChanges, TimePasses, qvars
<1>4. ASSUME Schedule
      PROVE  leaving' = leaving /\ target' = target
  BY <1>4 DEF Schedule, SkipMachine, FindEmpty, FindBlocked, Allocate, StartJob, EndPass
<1>5. ASSUME Regenerate
      PROVE  leaving' = leaving /\ target' = target
  BY <1>5 DEF Regenerate, VisitStarted, VisitPending, CancelUnsuitable, VisitUnsuitable,
     EndUpdate, EndRegen
<1>6. ASSUME NEW c \in BmpId, BmpThread(c)
      PROVE  leaving' = leaving /\ target' = target
  BY <1>6 DEF BmpThread, Switch, Succeed, Fail, ReportFailure, ReleaseJob, ReportProgress,
     ReportReady, ReportFreed, Free, ReportForgotten, ThreadEnds, qvars
<1> QED BY <1>2, <1>3, <1>4, <1>5, <1>6

LEMMA MachinesMove ==
  ASSUME QTypeOK, [Next]_vars
  PROVE  SameMachines \/ (\E m \in Machine : UpdateRemovesMachine(m)) \/ UpdateEnds
<1>0. [QNext]_qvars
  BY NextRefines
<1>1. CASE UNCHANGED vars
  BY <1>1 DEF vars, qvars, SameMachines
<1>2. CASE Update
  <2>1. ASSUME NEW c \in Config, BeginUpdate(c)
        PROVE  SameMachines
    BY <2>1 DEF BeginUpdate, StartUpdate, SameMachines
  <2>2. ASSUME NEW j \in JobId, UpdateRemovesJob(j)
        PROVE  SameMachines
    BY <1>0, <2>2, SteadyMachines DEF UpdateRemovesJob, RemoveJob
  <2>3. ASSUME NEW j \in JobId, UpdateFails(j)
        PROVE  SameMachines
    BY <2>3, QueueReplaced, EmptySeq
       DEF UpdateFails, RemoveReleasedJob, Cleared, QTypeOK, SameMachines
  <2> QED BY <1>2, <2>1, <2>2, <2>3 DEF Update
<1>3. CASE Users \/ Power \/ ServerLoop \/ Delay \/ Schedule \/ Regenerate
           \/ \E c \in BmpId : BmpThread(c)
  BY <1>0, <1>3, NotUpdating, SteadyMachines
<1> QED BY <1>1, <1>2, <1>3 DEF Next

-----------------------------------------------------------------------------
\* The controllers the update under way will stop.
Due == {c \in DOMAIN bmps : bmps[c].stop = "due"}

\* The machines that are not in service yet.
Arriving == {m \in Names(target) : m \notin DOMAIN machines}

\* What an update that ends makes of the machines ...
MachinesSwapped ==
  /\ target \in Config /\ DOMAIN machines' = Names(target)
  /\ \A m \in Names(target) : machines'[m].boards = target.desc[m].boards
  /\ \A m \in DOMAIN machines : m \in Names(target) /\ machines'[m].boards = machines[m].boards

\* ... and of the BMPs: those there are stay as they are, or are told to stop, ...
OldBmps ==
  \A d \in DOMAIN bmps :
    /\ d \in DOMAIN bmps'
    /\ bmps'[d].machine = bmps[d].machine /\ bmps'[d].queue = bmps[d].queue
    /\ bmps'[d].result = bmps[d].result /\ bmps'[d].after = bmps[d].after
    /\ bmps'[d].stop = IF bmps[d].stop = "due" THEN "told" ELSE bmps[d].stop

\* ... and there is a new one for each frame of each new machine.
NewBmps ==
  /\ \A d \in DOMAIN bmps' \ DOMAIN bmps :
       /\ d[1] \in Frame
       /\ \E m \in Arriving :
            bmps'[d] = NewBmp(m, Due) /\ d[1] \in FramesOf(target.desc[m].boards)
  /\ \A d, e \in DOMAIN bmps' \ DOMAIN bmps : d[1] = e[1] => d = e
  /\ \A m \in Arriving : \A f \in FramesOf(target.desc[m].boards) :
       \E d \in DOMAIN bmps' \ DOMAIN bmps : d[1] = f /\ bmps'[d] = NewBmp(m, Due)

LEMMA UpdateEndsMachines ==
  ASSUME AInv, UpdateEnds
  PROVE  MachinesSwapped
<1>1. QTypeOK /\ UpdateOnCourse /\ FinishUpdate
  BY DEF AInv, QInv, UpdateEnds
<1>2. target \in Config
  BY <1>1 DEF FinishUpdate, QTypeOK
<1>3. target.desc \in [Names(target) -> Description]
  BY <1>2, ConfigAssumption
<1>4. \A m \in DOMAIN machines :
        m \in Names(target) /\ target.desc[m].boards = machines[m].boards
  <2>1. target # NoConfig /\ leaving = <<>>
    BY <1>1 DEF FinishUpdate
  <2>2. ~\E i \in 1 .. Len(leaving) : TRUE
    BY <2>1
  <2> QED BY <1>1, <2>1, <2>2 DEF UpdateOnCourse
<1>5. ASSUME NEW m \in Names(target)
      PROVE  machines'[m].boards = target.desc[m].boards
  <2>1. CASE m \in DOMAIN machines
    <3>1. machines[m] \in MachineType
      BY <1>1, <2>1 DEF QTypeOK
    <3>2. machines'[m] = [machines[m] EXCEPT !.tags = target.desc[m].tags,
                                             !.dead = target.desc[m].dead,
                                             !.queue = <<>>]
      BY <1>1, <2>1 DEF FinishUpdate
    <3>3. machines'[m].boards = machines[m].boards
      BY <3>1, <3>2 DEF MachineType
    <3> QED BY <1>4, <2>1, <3>3
  <2>2. CASE m \notin DOMAIN machines
    BY <1>1, <1>3, <2>2, NewMachineFacts DEF FinishUpdate
  <2> QED BY <2>1, <2>2
<1> QED BY <1>1, <1>2, <1>4, <1>5 DEF FinishUpdate, MachinesSwapped

\* Two machines of a configuration have no frame in common.
LEMMA FrameOfOneMachine ==
  ASSUME NEW c \in Config, NEW m \in Names(c), NEW n \in Names(c), NEW f,
         f \in FramesOf(c.desc[m].boards), f \in FramesOf(c.desc[n].boards)
  PROVE  m = n
  BY FrameAssumption

LEMMA UpdateEndsBmps ==
  ASSUME AInv, UpdateEnds
  PROVE  OldBmps /\ NewBmps
<1>0. BmpTable(bmps)
  BY DEF AInv
<1>1. target \in Config /\ target # NoConfig
  BY DEF UpdateEnds, FinishUpdate, AInv, QInv, QTypeOK
<1> DEFINE Fresh(f) == <<f, CHOOSE g \in Generation : g \in Unused(f)>>
           Started(m) == {Fresh(f) : f \in FramesOf(target.desc[m].boards)}
           Owner(c) == CHOOSE m \in Arriving : c \in Started(m)
           all == DOMAIN bmps \cup (UNION {Started(m) : m \in Arriving})
<1>2. bmps' = [c \in all |->
                 CASE c \notin DOMAIN bmps -> NewBmp(Owner(c), Due)
                   [] c \in Due -> [bmps[c] EXCEPT !.stop = "told"]
                   [] OTHER -> bmps[c]]
  BY DEF UpdateEnds, Due, Arriving
<1>3. Arriving \subseteq Machine
      /\ \A m \in Arriving : FramesOf(target.desc[m].boards) \subseteq Frame
  <2>1. target.order \in Seq(Machine) /\ target.desc \in [Names(target) -> Description]
    BY <1>1, ConfigAssumption
  <2>2. Names(target) \subseteq Machine
    BY <2>1, ElementOfSeq DEF Names
  <2>3. \A m \in Names(target) : target.desc[m].boards \subseteq Board
    BY <2>1 DEF Description
  <2> QED BY <2>2, <2>3, FrameAssumption DEF FramesOf, Arriving
<1>4. \A f \in Frame : Fresh(f) \notin DOMAIN bmps
  <2> SUFFICES ASSUME NEW f \in Frame
               PROVE  (CHOOSE g \in Generation : g \in Unused(f)) \in Unused(f)
    BY DEF Unused
  <2>1. \E g \in Generation : g \in Unused(f)
    BY <1>1 DEF AInv, RoomForNew, Unused
  <2> QED BY <2>1
<1>6. DOMAIN bmps' = all
  <2> HIDE DEF all, Owner
  <2> QED BY <1>2
<1>7. OldBmps
  <2> SUFFICES ASSUME NEW d \in DOMAIN bmps
               PROVE  /\ d \in DOMAIN bmps'
                      /\ bmps'[d].machine = bmps[d].machine /\ bmps'[d].queue = bmps[d].queue
                      /\ bmps'[d].result = bmps[d].result /\ bmps'[d].after = bmps[d].after
                      /\ bmps'[d].stop = IF bmps[d].stop = "due" THEN "told" ELSE bmps[d].stop
    BY DEF OldBmps
  <2>1. d \in all /\ bmps[d] \in BmpType
    BY <1>0, BmpRecord
  <2> HIDE DEF all, Owner
  <2>2. CASE d \in Due
    <3>1. bmps'[d] = [bmps[d] EXCEPT !.stop = "told"]
      BY <1>2, <2>1, <2>2
    <3> QED BY <1>6, <2>1, <2>2, <3>1 DEF BmpType, Due
  <2>3. CASE d \notin Due
    <3>1. bmps'[d] = bmps[d]
      BY <1>2, <2>1, <2>3
    <3> QED BY <1>6, <2>1, <2>3, <3>1 DEF Due
  <2> QED BY <2>2, <2>3
<1>8. ASSUME NEW m \in Arriving, NEW d \in Started(m)
      PROVE  Owner(d) = m /\ d \in all /\ d \notin DOMAIN bmps
  <2>1. d \in all
    OBVIOUS
  <2>2. PICK f \in FramesOf(target.desc[m].boards) : d = Fresh(f)
    BY <1>8
  <2>6. d[1] = f
    BY <2>2
  <2>3. d \notin DOMAIN bmps
    BY <1>3, <1>4, <2>2
  <2>4. ASSUME NEW n \in Arriving, d \in Started(n)
        PROVE  n = m
    <3>1. PICK h \in FramesOf(target.desc[n].boards) : d = Fresh(h)
      BY <2>4
    <3>2. h = f
      BY <2>6, <3>1
    <3>3. m \in Names(target) /\ n \in Names(target)
      BY DEF Arriving
    <3> QED BY <1>1, <3>1, <3>2, <3>3, FrameOfOneMachine
  <2> HIDE DEF Fresh, Started, all
  <2>5. Owner(d) = m
    BY <1>8, <2>4
  <2> QED BY <2>1, <2>3, <2>5
<1>9. ASSUME NEW m \in Arriving, NEW d \in Started(m)
      PROVE  d \in DOMAIN bmps' /\ bmps'[d] = NewBmp(m, Due)
  <2> HIDE DEF Owner, all, Started
  <2>1. Owner(d) = m /\ d \in all /\ d \notin DOMAIN bmps /\ d \notin Due
    BY <1>8, <1>9 DEF Due
  <2> QED BY <1>2, <1>6, <2>1
<1>10. ASSUME NEW d \in DOMAIN bmps' \ DOMAIN bmps
       PROVE  /\ d[1] \in Frame /\ d = Fresh(d[1])
              /\ \E m \in Arriving :
                   bmps'[d] = NewBmp(m, Due) /\ d[1] \in FramesOf(target.desc[m].boards)
  <2>1. PICK m \in Arriving : d \in Started(m)
    BY <1>6, <1>10
  <2>2. PICK f \in FramesOf(target.desc[m].boards) : d = Fresh(f)
    BY <2>1
  <2>3. d[1] = f /\ f \in Frame
    BY <1>3, <2>2
  <2> HIDE DEF Started
  <2> QED BY <1>9, <2>1, <2>2, <2>3
<1>11. ASSUME NEW m \in Arriving, NEW f \in FramesOf(target.desc[m].boards)
       PROVE  \E d \in DOMAIN bmps' \ DOMAIN bmps : d[1] = f /\ bmps'[d] = NewBmp(m, Due)
  <2>1. Fresh(f) \in Started(m) /\ Fresh(f)[1] = f
    OBVIOUS
  <2> HIDE DEF Started, Fresh, Owner, all
  <2> QED BY <1>8, <1>9, <2>1
<1>12. \A d, e \in DOMAIN bmps' \ DOMAIN bmps : d[1] = e[1] => d = e
  <2> HIDE DEF Fresh
  <2> QED BY <1>10
<1> HIDE DEF Fresh, Started, Owner, all
<1> QED BY <1>7, <1>10, <1>11, <1>12 DEF NewBmps

\* What becomes of the BMPs otherwise when threads end or are let go of.
Loosened ==
  /\ DOMAIN bmps' \subseteq DOMAIN bmps
  /\ \A d \in DOMAIN bmps \ DOMAIN bmps' :
       /\ bmps[d].stop = "told" /\ bmps[d].queue = <<>> /\ bmps[d].after = {}
       /\ DOMAIN bmps' = DOMAIN bmps \ {d}
  /\ \A d \in DOMAIN bmps' :
       /\ bmps'[d].queue = bmps[d].queue /\ bmps'[d].result = bmps[d].result
       /\ bmps'[d].after \subseteq bmps[d].after
       /\ \A e \in DOMAIN bmps' : e \in bmps[d].after => e \in bmps'[d].after

LEMMA ThreadEndsLoosens ==
  ASSUME AInv, NEW c, ThreadEnds(c)
  PROVE  /\ Loosened
         /\ \A d \in DOMAIN bmps' :
              bmps'[d].machine = bmps[d].machine /\ bmps'[d].stop = bmps[d].stop
<1>1. /\ c \in DOMAIN bmps
      /\ bmps[c].stop = "told" /\ bmps[c].queue = <<>> /\ bmps[c].after = {}
      /\ DOMAIN bmps' = DOMAIN bmps \ {c}
  BY DEF ThreadEnds
<1>2. ASSUME NEW d \in DOMAIN bmps'
      PROVE  /\ bmps'[d].queue = bmps[d].queue /\ bmps'[d].result = bmps[d].result
             /\ bmps'[d].machine = bmps[d].machine /\ bmps'[d].stop = bmps[d].stop
             /\ bmps'[d].after = bmps[d].after \ {c}
  <2>1. bmps[d] \in BmpType /\ bmps'[d] = [bmps[d] EXCEPT !.after = @ \ {c}]
    BY <1>1, BmpRecord DEF ThreadEnds, AInv
  <2> QED BY <2>1 DEF BmpType
<1> QED BY <1>1, <1>2 DEF Loosened

LEMMA UpdateFailsLoosens ==
  ASSUME AInv, NEW j, UpdateFails(j)
  PROVE  /\ Loosened /\ DOMAIN bmps' = DOMAIN bmps
         /\ \A d \in DOMAIN bmps' :
              bmps'[d].machine = bmps[d].machine
              /\ bmps'[d].stop = IF bmps[d].stop = "due" THEN "no" ELSE bmps[d].stop
<1>1. DOMAIN bmps' = DOMAIN bmps
  BY DEF UpdateFails
<1>2. ASSUME NEW d \in DOMAIN bmps
      PROVE  /\ bmps'[d].queue = bmps[d].queue /\ bmps'[d].result = bmps[d].result
             /\ bmps'[d].machine = bmps[d].machine /\ bmps'[d].after = bmps[d].after
             /\ bmps'[d].stop = IF bmps[d].stop = "due" THEN "no" ELSE bmps[d].stop
  <2>1. bmps[d] \in BmpType
    BY BmpRecord DEF AInv
  <2> QED BY <2>1 DEF UpdateFails, BmpType
<1> QED BY <1>1, <1>2 DEF Loosened

LEMMA RemovesLoosens ==
  ASSUME AInv, NEW m, UpdateRemovesMachine(m)
  PROVE  /\ Loosened /\ DOMAIN bmps' = DOMAIN bmps
         /\ \A d \in DOMAIN bmps' :
              IF bmps[d].machine = m
              THEN bmps'[d].machine = NoMachine /\ bmps'[d].stop = "due"
              ELSE bmps'[d].machine = bmps[d].machine /\ bmps'[d].stop = bmps[d].stop
<1>1. DOMAIN bmps' = DOMAIN bmps
  BY DEF UpdateRemovesMachine
<1>2. ASSUME NEW d \in DOMAIN bmps
      PROVE  /\ bmps'[d].queue = bmps[d].queue /\ bmps'[d].result = bmps[d].result
             /\ bmps'[d].after = bmps[d].after
             /\ IF bmps[d].machine = m
                THEN bmps'[d].machine = NoMachine /\ bmps'[d].stop = "due"
                ELSE bmps'[d].machine = bmps[d].machine /\ bmps'[d].stop = bmps[d].stop
  <2>1. bmps[d] \in BmpType
    BY BmpRecord DEF AInv
  <2> QED BY <2>1 DEF UpdateRemovesMachine, BmpType
<1> QED BY <1>1, <1>2 DEF Loosened

-----------------------------------------------------------------------------
(* The requests are counted.                                               *)

\* A job keeps its machine and its boards, is new, or is given some boards.
KeepsPlace(j) ==
  \/ /\ j \in DOMAIN jobs
     /\ jobs'[j].machine = jobs[j].machine /\ jobs'[j].boards = jobs[j].boards
     /\ jobs[j].state = "pending" => jobs'[j].state = "pending"
  \/ j = nextId /\ jobs'[j].state = "pending"
  \/ Pending(j) /\ jobs'[j].boards # {}

LEMMA JobsKeepPlace ==
  ASSUME QTypeOK, [QNext]_qvars
  PROVE  \A j \in DOMAIN jobs' : KeepsPlace(j)
<1> DEFINE Goal == \A j \in DOMAIN jobs' : KeepsPlace(j)
<1>1. ASSUME jobs' = jobs
      PROVE  Goal
  BY <1>1 DEF KeepsPlace
<1>2. ASSUME NEW r \in Request, CreateJob(r)
      PROVE  Goal
  BY <1>2 DEF CreateJob, With, KeepsPlace
<1>3. ASSUME NEW j \in JobId, CancelJob(j) \/ Free(j) \/ VisitUnsuitable(j) \/ RemoveJob(j)
      PROVE  Goal
  BY <1>3 DEF CancelJob, Free, VisitUnsuitable, RemoveJob, Without, KeepsPlace
<1>4. ASSUME NEW j \in JobId, ReleaseJob(j)
      PROVE  Goal
  <2>1. jobs[j] \in JobType
    BY <1>4 DEF ReleaseJob, QTypeOK
  <2>2. jobs'[j].machine = jobs[j].machine /\ jobs'[j].boards = jobs[j].boards
    BY <1>4, <2>1 DEF ReleaseJob, JobType
  <2> QED BY <1>4, <2>2 DEF ReleaseJob, KeepsPlace
<1>5. ASSUME NEW m \in Machine, NEW j \in JobId, NEW p \in SUBSET Board, StartJob(m, j, p)
      PROVE  Goal
  <2>1. /\ Pending(j) /\ p \in Placements(m, jobs[j].req)
        /\ jobs' = [jobs EXCEPT ![j] = [state |-> "running", req |-> jobs[j].req,
                                        machine |-> m, boards |-> p]]
    BY <1>5 DEF StartJob, TakeBoards, FirstPending
  <2>2. jobs[j].req \in Request
    BY <2>1 DEF QTypeOK, JobType, Pending
  <2>3. p # {}
    BY <2>1, <2>2, RequestAssumption DEF Placements
  <2> QED BY <2>1, <2>3 DEF KeepsPlace, Pending
<1>6. ASSUME ProcessQueue
      PROVE  Goal
  BY <1>1, <1>5, <1>6 DEF ProcessQueue, SkipMachine, FindEmpty, FindBlocked, EndPass
<1>7. ASSUME RegenerateQueues
      PROVE  Goal
  BY <1>1, <1>3, <1>7 DEF RegenerateQueues, VisitStarted, VisitPending, EndRegen
<1>8. ASSUME UpdateMachines
      PROVE  Goal
  BY <1>1, <1>3, <1>8 DEF UpdateMachines, StartUpdate, RemoveReleasedJob, RemoveMachine,
     FinishUpdate
<1>9. ASSUME (\E r \in Request : RejectJob(r)) \/ CheckFree \/ (\E m \in Machine : TimePasses(m))
             \/ UNCHANGED qvars
      PROVE  Goal
  BY <1>1, <1>9 DEF RejectJob, CheckFree, TimePasses, qvars
<1> QED BY <1>2, <1>3, <1>4, <1>6, <1>7, <1>8, <1>9 DEF QNext

\* The allocator never hands out no boards at all.
LEMMA BoardsStayNonEmpty ==
  ASSUME QTypeOK, BoardsNonEmpty, [QNext]_qvars
  PROVE  BoardsNonEmpty'
BY JobsKeepPlace DEF KeepsPlace, BoardsNonEmpty, HoldsBoards

\* Each job has as many requests on their way as its count says.
Counted ==
  /\ count \in [JobId -> Nat]
  /\ \A j \in JobId : HasRequests(bmps, j, count[j])

\* All steps but those at which threads come, go, or are let go of.
CalmStep ==
  \/ Silent
  \/ \E j, m, B : \E on \in BOOLEAN : Asks(j, m, B, on)
  \/ \E c \in BmpId : ReportsBack(c)
  \/ \E c \in BmpId : \E m, B, b : FailsJob(c, m, B, b)
  \/ \E c \in BmpId : Works(c)

LEMMA StepCases ==
  ASSUME AInv, AInv', BoardsNonEmpty, [Next]_vars
  PROVE  (CalmStep /\ SameMachines) \/ ThreadsChange
<1>1. CalmStep \/ ThreadsChange
  BY StepShapes, Zenon DEF Shapes, CalmStep
<1>2. ASSUME (\E m \in Machine : UpdateRemovesMachine(m)) \/ UpdateEnds
      PROVE  ThreadsChange
  BY <1>2 DEF UpdateRemovesMachine, UpdateEnds, ThreadsChange
<1>3. QTypeOK
  BY DEF AInv, QInv
<1> QED BY <1>1, <1>2, <1>3, MachinesMove

\* A step of a BMP thread, seen from its queue.
LEMMA WorksFacts ==
  ASSUME AInv, NEW c, Works(c)
  PROVE  /\ DOMAIN bmps' = DOMAIN bmps /\ bmps' \in [DOMAIN bmps -> BmpType]
         /\ \A d \in DOMAIN bmps :
              /\ bmps'[d].queue = bmps[d].queue /\ bmps'[d].machine = bmps[d].machine
              /\ bmps'[d].stop = bmps[d].stop /\ bmps'[d].after = bmps[d].after
              /\ d # c => bmps'[d].result = bmps[d].result
<1>1. bmps \in [DOMAIN bmps -> BmpType] /\ c \in DOMAIN bmps
  BY DEF AInv, BmpTable, Works, AtWork
<1>2. CASE Switch(c)
  BY <1>1, <1>2 DEF Switch
<1>3. CASE Succeed(c) \/ Fail(c)
  <2>1. PICK s \in {"ok", "failed"} : bmps' = [bmps EXCEPT ![c].result = s]
    BY <1>3 DEF Succeed, Fail
  <2>2. /\ bmps'[c] = [bmps[c] EXCEPT !.result = s] /\ bmps[c] \in BmpType
        /\ DOMAIN bmps' = DOMAIN bmps /\ \A d \in DOMAIN bmps \ {c} : bmps'[d] = bmps[d]
    BY <1>1, <2>1
  <2>3. /\ bmps'[c] \in BmpType
        /\ bmps'[c].queue = bmps[c].queue /\ bmps'[c].machine = bmps[c].machine
        /\ bmps'[c].stop = bmps[c].stop /\ bmps'[c].after = bmps[c].after
    BY <2>1, <2>2 DEF BmpType
  <2>4. bmps' = [d \in DOMAIN bmps |-> bmps'[d]]
    BY <2>1
  <2>5. \A d \in DOMAIN bmps : bmps'[d] \in BmpType
    BY <1>1, <2>2, <2>3
  <2> QED BY <2>2, <2>3, <2>4, <2>5
<1> QED BY <1>2, <1>3 DEF Works

\* The job reported on has a request less, as RequestedCount and ReportedCount say.
LEMMA AskingCounts ==
  ASSUME AInv, Counted, NEW j, NEW m, NEW B, NEW on, NEW b, Asked(b, m, j, B, on),
         NEW k \in JobId
  PROVE  /\ Cardinality(BmpsOf(m, B)) \in Nat
         /\ HasRequests(b, k, IF k = j THEN count[k] + Cardinality(BmpsOf(m, B)) ELSE count[k])
<1>1. BmpTable(bmps) /\ count[k] \in Nat /\ HasRequests(bmps, k, count[k])
  BY DEF AInv, Counted
<1> QED BY <1>1, FiniteBmps, RequestedCount

LEMMA CalmCounted ==
  ASSUME AInv, Counted, CalmStep
  PROVE  Counted'
<1>0. count \in [JobId -> Nat] /\ BmpTable(bmps)
      /\ \A k \in JobId : count[k] \in Nat /\ HasRequests(bmps, k, count[k])
  BY DEF Counted, AInv
<1>1. ASSUME Silent
      PROVE  Counted'
  BY <1>0, <1>1 DEF Silent, Counted
<1>2. ASSUME NEW j, NEW m, NEW B, NEW on \in BOOLEAN, Asks(j, m, B, on)
      PROVE  Counted'
  <2>1. /\ j \in JobId /\ Asked(bmps', m, j, B, on)
        /\ count' = [count EXCEPT ![j] = @ + Cardinality(BmpsOf(m, B))]
    BY <1>2 DEF Asks, AsksFor, AInv, CJobsTyped
  <2>2. ASSUME NEW k \in JobId
        PROVE  count'[k] \in Nat /\ HasRequests(bmps', k, count'[k])
    <3>1. /\ Cardinality(BmpsOf(m, B)) \in Nat
          /\ HasRequests(bmps', k, IF k = j THEN count[k] + Cardinality(BmpsOf(m, B)) ELSE count[k])
      BY <2>1, AskingCounts
    <3>2. count'[k] = IF k = j THEN count[k] + Cardinality(BmpsOf(m, B)) ELSE count[k]
      BY <1>0, <2>1
    <3> QED BY <1>0, <3>1, <3>2
  <2>3. count' = [k \in JobId |-> count'[k]]
    BY <1>0, <2>1
  <2> QED BY <2>2, <2>3 DEF Counted
<1>3. ASSUME NEW c \in BmpId, ReportsBack(c)
      PROVE  Counted'
  <2>1. Reported(bmps, c, bmps') /\ count' = CountDown(c)
    BY <1>3 DEF ReportsBack
  <2>2. \A d \in DOMAIN bmps : Len(bmps[d].queue) \in Nat
    BY <1>0, BmpRecord
  <2>3. JobOf(c) = Head(bmps[c].queue).job
    BY DEF JobOf
  <2>4. ASSUME NEW k \in JobId
        PROVE  count'[k] \in Nat /\ HasRequests(bmps', k, count'[k])
    <3>1. /\ k = Head(bmps[c].queue).job => count[k] > 0
          /\ HasRequests(bmps', k, IF k = Head(bmps[c].queue).job THEN count[k] - 1 ELSE count[k])
      BY <1>0, <2>1, <2>2, ReportedCount
    <3>2. count'[k] = IF k = Head(bmps[c].queue).job THEN count[k] - 1 ELSE count[k]
      BY <1>0, <2>1, <2>3 DEF CountDown
    <3> QED BY <1>0, <3>1, <3>2
  <2>5. count' = [k \in JobId |-> count'[k]]
    BY <1>0, <2>1 DEF CountDown
  <2> QED BY <2>4, <2>5 DEF Counted
<1>4. ASSUME NEW c \in BmpId, NEW m, NEW B, NEW b, FailsJob(c, m, B, b)
      PROVE  Counted'
  <2> DEFINE j == JobOf(c)
             n == Cardinality(BmpsOf(m, B))
  <2>0. PICK off \in BOOLEAN : off = FALSE
    OBVIOUS
  <2>1. /\ j \in JobId /\ Asked(b, m, j, B, off) /\ Reported(b, c, bmps')
        /\ count' = [count EXCEPT ![j] = @ + n - 1]
        /\ HasWork(bmps, c)
    BY <1>4, <2>0, ReporterBusy DEF FailsJob, AsksFor, AInv, CJobsTyped
  <2>2. c \in DOMAIN bmps /\ Head(b[c].queue) = Head(bmps[c].queue)
    <3>1. c \in DOMAIN bmps /\ bmps[c].queue # <<>>
      BY <2>1 DEF HasWork
    <3>2. bmps[c].queue \in Seq(RequestsType) /\ Len(bmps[c].queue) \in Nat \ {0}
      BY <1>0, <3>1, BmpRecord, EmptySeq
    <3>3. Head(b[c].queue) = b[c].queue[1]
      BY <2>1 DEF Reported
    <3>4. b[c].queue[1] = bmps[c].queue[1]
      BY <2>1, <3>1, <3>2 DEF Asked
    <3>5. Head(bmps[c].queue) = bmps[c].queue[1]
      BY <3>2
    <3> QED BY <3>1, <3>3, <3>4, <3>5
  <2>3. \A d \in DOMAIN b : Len(b[d].queue) \in Nat
    BY <2>1 DEF Asked
  <2>4. j = Head(b[c].queue).job
    BY <2>2 DEF JobOf
  <2> HIDE DEF j, n
  <2>5. ASSUME NEW k \in JobId
        PROVE  count'[k] \in Nat /\ HasRequests(bmps', k, count'[k])
    <3>1. n \in Nat /\ HasRequests(b, k, IF k = j THEN count[k] + n ELSE count[k])
      BY <2>1, AskingCounts DEF n
    <3>2. PICK x \in Nat : x = IF k = j THEN count[k] + n ELSE count[k]
      BY <1>0, <3>1
    <3>3. /\ k = j => x > 0
          /\ HasRequests(bmps', k, IF k = j THEN x - 1 ELSE x)
      BY <2>1, <2>3, <2>4, <3>1, <3>2, ReportedCount
    <3>4. count'[k] = IF k = j THEN x - 1 ELSE x
      BY <1>0, <2>1, <3>1, <3>2
    <3> QED BY <3>3, <3>4
  <2>6. count' = [k \in JobId |-> count'[k]]
    BY <1>0, <2>1
  <2> QED BY <2>5, <2>6 DEF Counted
<1>5. ASSUME NEW c \in BmpId, Works(c)
      PROVE  Counted'
  <2>1. count' = count
    BY <1>5 DEF Works
  <2>2. DOMAIN bmps' = DOMAIN bmps /\ \A d \in DOMAIN bmps : bmps'[d].queue = bmps[d].queue
    BY <1>5, WorksFacts
  <2>3. ASSUME NEW k \in JobId
        PROVE  HasRequests(bmps', k, count[k])
    BY <1>0, <2>2, RelabelledCount
  <2> QED BY <1>0, <2>1, <2>3 DEF Counted
<1> QED BY <1>1, <1>2, <1>3, <1>4, <1>5 DEF CalmStep

\* What threads do when they come, go, or are let go of.
LEMMA ThreadsChangeFacts ==
  ASSUME AInv, ThreadsChange
  PROVE  UNCHANGED <<cjobs, count, powered>> /\ (Loosened \/ (UpdateEnds /\ OldBmps /\ NewBmps))
  BY ThreadEndsLoosens, UpdateFailsLoosens, RemovesLoosens, UpdateEndsBmps DEF ThreadsChange

LEMMA ThreadsCounted ==
  ASSUME AInv, Counted, ThreadsChange
  PROVE  Counted'
<1>1. count' = count
  BY DEF ThreadsChange
<1>2. /\ \A c \in DOMAIN bmps' :
           bmps'[c].queue = <<>> \/ (c \in DOMAIN bmps /\ bmps'[c].queue = bmps[c].queue)
      /\ \A c \in DOMAIN bmps :
           bmps[c].queue = <<>> \/ (c \in DOMAIN bmps' /\ bmps'[c].queue = bmps[c].queue)
  <2>1. CASE Loosened
    BY <2>1 DEF Loosened
  <2>2. CASE OldBmps /\ NewBmps
    BY <2>2 DEF OldBmps, NewBmps, NewBmp
  <2> QED BY <2>1, <2>2, ThreadsChangeFacts
<1>3. ASSUME NEW k \in JobId
      PROVE  HasRequests(bmps', k, count[k])
  <2>1. HasRequests(bmps, k, count[k])
    BY DEF Counted
  <2> QED BY <1>2, <2>1, RelabelledCount
<1> QED BY <1>1, <1>3 DEF Counted

-----------------------------------------------------------------------------
(* Who commands the frames.                                                *)

\* The thread of a machine in service was not told to stop.
Unstopped == \A c \in DOMAIN bmps : bmps[c].machine # NoMachine => bmps[c].stop = "no"

\* In table b it is behind boards of that machine.
Serving(b) ==
  \A c \in DOMAIN b : b[c].machine # NoMachine =>
    /\ b[c].machine \in DOMAIN machines
    /\ c[1] \in FramesOf(machines[b[c].machine].boards)

\* A BMP is asked only for boards of its frame.
InFrame(b) ==
  \A c \in DOMAIN b : \A i \in 1 .. Len(b[c].queue) :
    \A x \in b[c].queue[i].boards : FrameOf[x] = c[1]

\* Only a thread that waits for no other works.
WorksAlone == \A c \in DOMAIN bmps : bmps[c].result # "none" => bmps[c].after = {}

ThreadsPlaced == Serving(bmps) /\ InFrame(bmps) /\ WorksAlone

\* Every frame of a machine in service has a thread of that machine.
FramesServed ==
  \A m \in DOMAIN machines : \A f \in FramesOf(machines[m].boards) :
    \E c \in DOMAIN bmps : c[1] = f /\ bmps[c].machine = m

\* In tables b and s there are the same threads, of the same machines.
SameThreads(b, s) ==
  /\ DOMAIN s = DOMAIN b
  /\ \A c \in DOMAIN b :
       s[c].machine = b[c].machine /\ s[c].stop = b[c].stop /\ s[c].after = b[c].after

LEMMA AskedThreads ==
  ASSUME NEW b, NEW m, NEW j, NEW B, NEW on, Asked(b, m, j, B, on)
  PROVE  /\ SameThreads(bmps, b)
         /\ \A c \in DOMAIN bmps : b[c].result = bmps[c].result
         /\ InFrame(bmps) => InFrame(b)
<1>1. SameThreads(bmps, b) /\ \A c \in DOMAIN bmps : b[c].result = bmps[c].result
  BY DEF Asked, SameThreads
<1>2. ASSUME InFrame(bmps), NEW c \in DOMAIN b, NEW i \in 1 .. Len(b[c].queue),
             NEW x \in b[c].queue[i].boards
      PROVE  FrameOf[x] = c[1]
  <2>1. c \in DOMAIN bmps /\ Len(bmps[c].queue) \in Nat
    BY DEF Asked
  <2>2. CASE i \in 1 .. Len(bmps[c].queue)
    <3>1. b[c].queue[i] = bmps[c].queue[i]
      BY <2>1, <2>2 DEF Asked
    <3> QED BY <1>2, <2>1, <2>2, <3>1 DEF InFrame
  <2>3. CASE i \notin 1 .. Len(bmps[c].queue)
    <3>1. i = Len(bmps[c].queue) + 1 /\ b[c].queue[i] = Ask(j, B, on, c)
      BY <2>1, <2>3 DEF Asked
    <3> QED BY <3>1 DEF Ask
  <2> QED BY <2>2, <2>3
<1> QED BY <1>1, <1>2 DEF InFrame

LEMMA ReportedThreads ==
  ASSUME NEW b, NEW c, NEW s, Reported(b, c, s)
  PROVE  /\ SameThreads(b, s)
         /\ \A d \in DOMAIN b : s[d].result \in {"none", b[d].result}
         /\ InFrame(b) => InFrame(s)
<1>1. SameThreads(b, s) /\ \A d \in DOMAIN b : s[d].result \in {"none", b[d].result}
  BY DEF Reported, SameThreads
<1>2. ASSUME InFrame(b), NEW d \in DOMAIN s, NEW i \in 1 .. Len(s[d].queue),
             NEW x \in s[d].queue[i].boards
      PROVE  FrameOf[x] = d[1]
  <2>1. CASE d = c
    <3>1. i + 1 \in 1 .. Len(b[c].queue) /\ s[c].queue[i] = b[c].queue[i + 1] /\ c \in DOMAIN b
      BY <2>1 DEF Reported
    <3> QED BY <1>2, <2>1, <3>1 DEF InFrame
  <2>2. CASE d # c
    <3>1. d \in DOMAIN b /\ s[d] = b[d]
      BY <2>2 DEF Reported
    <3> QED BY <1>2, <3>1 DEF InFrame
  <2> QED BY <2>1, <2>2
<1> QED BY <1>1, <1>2 DEF InFrame

\* In a calm step the threads stay, and nobody starts work that waits for another.
LEMMA CalmThreads ==
  ASSUME AInv, CalmStep
  PROVE  /\ SameThreads(bmps, bmps')
         /\ InFrame(bmps) => InFrame(bmps')
         /\ \A c \in DOMAIN bmps :
              bmps'[c].result \in {"none", bmps[c].result} \/ bmps[c].after = {}
<1> DEFINE Goal == /\ SameThreads(bmps, bmps')
                   /\ InFrame(bmps) => InFrame(bmps')
                   /\ \A c \in DOMAIN bmps :
                        bmps'[c].result \in {"none", bmps[c].result} \/ bmps[c].after = {}
<1>1. ASSUME Silent
      PROVE  Goal
  BY <1>1 DEF Silent, SameThreads, InFrame
<1>2. ASSUME NEW j, NEW m, NEW B, NEW on \in BOOLEAN, Asks(j, m, B, on)
      PROVE  Goal
  BY <1>2, AskedThreads DEF Asks, AsksFor
<1>3. ASSUME NEW c \in BmpId, ReportsBack(c)
      PROVE  Goal
  BY <1>3, ReportedThreads DEF ReportsBack
<1>4. ASSUME NEW c \in BmpId, NEW m, NEW B, NEW b, FailsJob(c, m, B, b)
      PROVE  Goal
  <2>0. PICK off \in BOOLEAN : off = FALSE
    OBVIOUS
  <2>1. Asked(b, m, JobOf(c), B, off) /\ Reported(b, c, bmps')
    BY <1>4, <2>0 DEF FailsJob, AsksFor
  <2>2. /\ SameThreads(bmps, b) /\ \A d \in DOMAIN bmps : b[d].result = bmps[d].result
        /\ InFrame(bmps) => InFrame(b)
    BY <2>1, AskedThreads
  <2>3. /\ SameThreads(b, bmps') /\ \A d \in DOMAIN b : bmps'[d].result \in {"none", b[d].result}
        /\ InFrame(b) => InFrame(bmps')
    BY <2>1, ReportedThreads
  <2> QED BY <2>2, <2>3 DEF SameThreads
<1>5. ASSUME NEW c \in BmpId, Works(c)
      PROVE  Goal
  <2>1. /\ DOMAIN bmps' = DOMAIN bmps
        /\ \A d \in DOMAIN bmps :
              /\ bmps'[d].queue = bmps[d].queue /\ bmps'[d].machine = bmps[d].machine
              /\ bmps'[d].stop = bmps[d].stop /\ bmps'[d].after = bmps[d].after
              /\ d # c => bmps'[d].result = bmps[d].result
    BY <1>5, WorksFacts
  <2>2. bmps[c].after = {}
    BY <1>5 DEF Works, AtWork
  <2> QED BY <2>1, <2>2 DEF SameThreads, InFrame
<1> QED BY <1>1, <1>2, <1>3, <1>4, <1>5 DEF CalmStep

LEMMA CalmPlaced ==
  ASSUME AInv, ThreadsPlaced, FramesServed, CalmStep, SameMachines
  PROVE  ThreadsPlaced' /\ FramesServed'
<1>1. /\ SameThreads(bmps, bmps')
      /\ InFrame(bmps')
      /\ \A c \in DOMAIN bmps :
           bmps'[c].result \in {"none", bmps[c].result} \/ bmps[c].after = {}
  BY CalmThreads DEF ThreadsPlaced
<1>2. Serving(bmps)'
  BY <1>1 DEF ThreadsPlaced, Serving, SameThreads, SameMachines
<1>3. InFrame(bmps)'
  BY <1>1 DEF InFrame
<1>4. WorksAlone'
  BY <1>1 DEF ThreadsPlaced, WorksAlone, SameThreads
<1>5. FramesServed'
  BY <1>1 DEF FramesServed, SameThreads, SameMachines
<1> QED BY <1>2, <1>3, <1>4, <1>5 DEF ThreadsPlaced

\* What is shared by the four ways in which threads come, go, or are let go of.
LEMMA ThreadsStayPlaced ==
  ASSUME AInv, ThreadsPlaced, ThreadsChange
  PROVE  InFrame(bmps)' /\ WorksAlone'
<1>1. ASSUME NEW c \in DOMAIN bmps'
      PROVE  \/ /\ c \in DOMAIN bmps /\ bmps'[c].queue = bmps[c].queue
                /\ bmps'[c].result = bmps[c].result /\ bmps'[c].after \subseteq bmps[c].after
             \/ bmps'[c].queue = <<>> /\ bmps'[c].result = "none"
  <2>1. CASE Loosened
    BY <2>1 DEF Loosened
  <2>2. CASE OldBmps /\ NewBmps
    BY <2>2 DEF OldBmps, NewBmps, NewBmp
  <2> QED BY <2>1, <2>2, ThreadsChangeFacts
<1>2. InFrame(bmps)'
  BY <1>1 DEF ThreadsPlaced, InFrame
<1>3. WorksAlone'
  BY <1>1 DEF ThreadsPlaced, WorksAlone
<1> QED BY <1>2, <1>3

LEMMA ThreadsChangePlaced ==
  ASSUME AInv, ThreadsPlaced, FramesServed, ThreadsChange,
         \A c \in BmpId : ThreadEnds(c) => bmps[c].machine = NoMachine
  PROVE  ThreadsPlaced' /\ FramesServed'
<1>0. InFrame(bmps)' /\ WorksAlone' /\ Serving(bmps)
  BY ThreadsStayPlaced DEF ThreadsPlaced
<1>1. ASSUME NEW c \in BmpId, ThreadEnds(c)
      PROVE  Serving(bmps)' /\ FramesServed'
  <2>1. /\ DOMAIN bmps' = DOMAIN bmps \ {c}
        /\ \A d \in DOMAIN bmps' : bmps'[d].machine = bmps[d].machine
    BY <1>1, ThreadEndsLoosens DEF ThreadEnds
  <2>2. machines' = machines
    BY <1>1 DEF ThreadEnds, qvars
  <2>3. bmps[c].machine = NoMachine
    BY <1>1
  <2>4. \A m \in DOMAIN machines : m # NoMachine
    BY MachineAssumption DEF AInv, QInv, QTypeOK
  <2>5. Serving(bmps)'
    BY <1>0, <2>1, <2>2 DEF Serving
  <2>6. FramesServed'
    BY <2>1, <2>2, <2>3, <2>4 DEF FramesServed
  <2> QED BY <2>5, <2>6
<1>2. ASSUME NEW j \in JobId, UpdateFails(j)
      PROVE  Serving(bmps)' /\ FramesServed'
  <2>1. /\ DOMAIN bmps' = DOMAIN bmps
        /\ \A d \in DOMAIN bmps' : bmps'[d].machine = bmps[d].machine
    BY <1>2, UpdateFailsLoosens
  <2>2. SameMachines
    BY <1>2, QueueReplaced, EmptySeq
       DEF UpdateFails, RemoveReleasedJob, Cleared, QTypeOK, SameMachines, AInv, QInv
  <2>3. Serving(bmps)'
    BY <1>0, <2>1, <2>2 DEF Serving, SameMachines
  <2>4. FramesServed'
    BY <2>1, <2>2 DEF FramesServed, SameMachines
  <2> QED BY <2>3, <2>4
<1>3. ASSUME NEW m \in Machine, UpdateRemovesMachine(m)
      PROVE  Serving(bmps)' /\ FramesServed'
  <2>1. /\ DOMAIN bmps' = DOMAIN bmps
        /\ \A d \in DOMAIN bmps' :
              bmps'[d].machine = IF bmps[d].machine = m THEN NoMachine ELSE bmps[d].machine
    BY <1>3, RemovesLoosens
  <2>2. /\ DOMAIN machines' = DOMAIN machines \ {m}
        /\ \A n \in DOMAIN machines' : machines'[n] = machines[n]
    BY <1>3 DEF UpdateRemovesMachine, RemoveMachine, Without
  <2>3. Serving(bmps)'
    BY <1>0, <2>1, <2>2 DEF Serving
  <2>4. FramesServed'
    BY <2>1, <2>2 DEF FramesServed
  <2> QED BY <2>3, <2>4
<1>4. ASSUME UpdateEnds
      PROVE  Serving(bmps)' /\ FramesServed'
  <2>1. OldBmps /\ NewBmps /\ MachinesSwapped
    BY <1>4, UpdateEndsBmps, UpdateEndsMachines
  <2>2. ASSUME NEW c \in DOMAIN bmps', bmps'[c].machine # NoMachine
        PROVE  /\ bmps'[c].machine \in DOMAIN machines'
               /\ c[1] \in FramesOf(machines'[bmps'[c].machine].boards)
    <3>1. CASE c \in DOMAIN bmps
      BY <1>0, <2>1, <2>2, <3>1 DEF OldBmps, MachinesSwapped, Serving
    <3>2. CASE c \notin DOMAIN bmps
      BY <2>1, <3>2 DEF NewBmps, NewBmp, MachinesSwapped, Arriving
    <3> QED BY <3>1, <3>2
  <2>3. ASSUME NEW m \in DOMAIN machines', NEW f \in FramesOf(machines'[m].boards)
        PROVE  \E c \in DOMAIN bmps' : c[1] = f /\ bmps'[c].machine = m
    <3>1. CASE m \in DOMAIN machines
      <4>1. f \in FramesOf(machines[m].boards)
        BY <2>1, <3>1 DEF MachinesSwapped
      <4>2. PICK c \in DOMAIN bmps : c[1] = f /\ bmps[c].machine = m
        BY <3>1, <4>1 DEF FramesServed
      <4> QED BY <2>1, <4>2 DEF OldBmps
    <3>2. CASE m \notin DOMAIN machines
      <4>1. m \in Arriving /\ f \in FramesOf(target.desc[m].boards)
        BY <2>1, <3>2 DEF MachinesSwapped, Arriving
      <4>2. PICK d \in DOMAIN bmps' : d[1] = f /\ bmps'[d] = NewBmp(m, Due)
        BY <2>1, <4>1 DEF NewBmps
      <4> QED BY <4>2 DEF NewBmp
    <3> QED BY <3>1, <3>2
  <2> QED BY <2>2, <2>3 DEF Serving, FramesServed
<1> QED BY <1>0, <1>1, <1>2, <1>3, <1>4 DEF ThreadsChange, ThreadsPlaced

\* A thread in service is told to stop only when its machine leaves.
LEMMA StaysUnstopped ==
  ASSUME AInv, Unstopped, CalmStep \/ ThreadsChange
  PROVE  Unstopped'
<1>1. CASE CalmStep
  BY <1>1, CalmThreads DEF Unstopped, SameThreads
<1>2. CASE \E c \in BmpId : ThreadEnds(c)
  BY <1>2, ThreadEndsLoosens DEF Unstopped, Loosened
<1>3. CASE \E j \in JobId : UpdateFails(j)
  BY <1>3, UpdateFailsLoosens DEF Unstopped
<1>4. CASE \E m \in Machine : UpdateRemovesMachine(m)
  BY <1>4, RemovesLoosens DEF Unstopped
<1>5. CASE UpdateEnds
  BY <1>5, UpdateEndsBmps DEF Unstopped, OldBmps, NewBmps, NewBmp
<1> QED BY <1>1, <1>2, <1>3, <1>4, <1>5 DEF ThreadsChange

-----------------------------------------------------------------------------
(* Jobs, requests and machines.                                            *)

\* The machines in service are as some configuration describes them.
OfConfig ==
  \E c \in Config : \A m \in DOMAIN machines :
    m \in Names(c) /\ machines[m].boards = c.desc[m].boards

LEMMA StaysOfConfig ==
  ASSUME AInv, OfConfig, SameMachines \/ ThreadsChange
  PROVE  OfConfig'
<1>1. PICK c \in Config : \A m \in DOMAIN machines :
        m \in Names(c) /\ machines[m].boards = c.desc[m].boards
  BY DEF OfConfig
<1>2. CASE SameMachines
  BY <1>1, <1>2 DEF OfConfig, SameMachines
<1>3. CASE \E d \in BmpId : ThreadEnds(d)
  BY <1>1, <1>3 DEF ThreadEnds, qvars, OfConfig
<1>4. ASSUME NEW j \in JobId, UpdateFails(j)
      PROVE  OfConfig'
  <2>1. QTypeOK
    BY DEF AInv, QInv
  <2>2. SameMachines
    BY <1>4, <2>1, QueueReplaced, EmptySeq
       DEF UpdateFails, RemoveReleasedJob, Cleared, QTypeOK, SameMachines
  <2> QED BY <1>2, <2>2
<1>5. ASSUME NEW m \in Machine, UpdateRemovesMachine(m)
      PROVE  OfConfig'
  <2>1. machines' = Without(machines, m)
    BY <1>5 DEF UpdateRemovesMachine, RemoveMachine
  <2>2. /\ DOMAIN machines' = DOMAIN machines \ {m}
        /\ \A n \in DOMAIN machines' : machines'[n] = machines[n]
    BY <2>1 DEF Without
  <2> QED BY <1>1, <2>2 DEF OfConfig
<1>6. CASE UpdateEnds
  BY <1>6, UpdateEndsMachines DEF MachinesSwapped, OfConfig
<1> QED BY <1>2, <1>3, <1>4, <1>5, <1>6 DEF ThreadsChange

\* What a BMP is asked for on behalf of a job concerns the machine the job is on.
RequestsPlaced ==
  \A c \in DOMAIN bmps : \A i \in 1 .. Len(bmps[c].queue) :
    bmps[c].queue[i].job \in DOMAIN jobs =>
      jobs[bmps[c].queue[i].job].machine = bmps[c].machine

\* At this step something may be asked of the BMPs of machine m for job j.
MayAsk(j, m) ==
  /\ j \in DOMAIN cjobs /\ m \in DOMAIN machines
  /\ IF j \in DOMAIN cjobs' THEN cjobs'[j].machine = m ELSE cjobs[j].machine = m

LEMMA AskedRequests ==
  ASSUME NEW j, NEW m, NEW B, NEW on, NEW b, AsksFor(j, m, B, on, b),
         NEW c \in DOMAIN b, NEW i \in 1 .. Len(b[c].queue)
  PROVE  \/ \E k \in 1 .. Len(bmps[c].queue) : b[c].queue[i].job = bmps[c].queue[k].job
         \/ MayAsk(b[c].queue[i].job, bmps[c].machine)
<1>1. /\ Asked(b, m, j, B, on) /\ c \in DOMAIN bmps /\ Len(bmps[c].queue) \in Nat
  BY DEF AsksFor, Asked
<1>2. CASE i \in 1 .. Len(bmps[c].queue)
  <2>1. b[c].queue[i] = bmps[c].queue[i]
    BY <1>1, <1>2 DEF Asked
  <2> QED BY <1>2, <2>1
<1>3. CASE i \notin 1 .. Len(bmps[c].queue)
  <2>1. c \in BmpsOf(m, B) /\ b[c].queue[i] = Ask(j, B, on, c)
    BY <1>1, <1>3 DEF Asked
  <2>2. b[c].queue[i].job = j /\ bmps[c].machine = m
    BY <2>1 DEF Ask, BmpsOf
  <2> QED BY <2>2 DEF AsksFor, Wish, MayAsk
<1> QED BY <1>2, <1>3

LEMMA ReportedRequests ==
  ASSUME NEW b, NEW c, NEW s, Reported(b, c, s), NEW d \in DOMAIN s, NEW i \in 1 .. Len(s[d].queue)
  PROVE  d \in DOMAIN b /\ \E k \in 1 .. Len(b[d].queue) : s[d].queue[i] = b[d].queue[k]
<1>1. CASE d = c
  <2>1. i + 1 \in 1 .. Len(b[c].queue) /\ s[c].queue[i] = b[c].queue[i + 1] /\ c \in DOMAIN b
    BY <1>1 DEF Reported
  <2> QED BY <1>1, <2>1
<1>2. CASE d # c
  BY <1>2 DEF Reported
<1> QED BY <1>1, <1>2

LEMMA CalmRequests ==
  ASSUME AInv, CalmStep, NEW c \in DOMAIN bmps', NEW i \in 1 .. Len(bmps'[c].queue)
  PROVE  \/ \E k \in 1 .. Len(bmps[c].queue) : bmps'[c].queue[i].job = bmps[c].queue[k].job
         \/ MayAsk(bmps'[c].queue[i].job, bmps[c].machine)
<1>1. CASE Silent
  BY <1>1 DEF Silent
<1>2. ASSUME NEW j, NEW m, NEW B, NEW on \in BOOLEAN, Asks(j, m, B, on)
      PROVE  \/ \E k \in 1 .. Len(bmps[c].queue) : bmps'[c].queue[i].job = bmps[c].queue[k].job
             \/ MayAsk(bmps'[c].queue[i].job, bmps[c].machine)
  BY <1>2, AskedRequests DEF Asks
<1>3. ASSUME NEW d \in BmpId, ReportsBack(d)
      PROVE  \E k \in 1 .. Len(bmps[c].queue) : bmps'[c].queue[i].job = bmps[c].queue[k].job
  BY <1>3, ReportedRequests DEF ReportsBack
<1>4. ASSUME NEW d \in BmpId, NEW m, NEW B, NEW b, FailsJob(d, m, B, b)
      PROVE  \/ \E k \in 1 .. Len(bmps[c].queue) : bmps'[c].queue[i].job = bmps[c].queue[k].job
             \/ MayAsk(bmps'[c].queue[i].job, bmps[c].machine)
  <2>0. PICK off \in BOOLEAN : off = FALSE
    OBVIOUS
  <2>1. AsksFor(JobOf(d), m, B, off, b) /\ Reported(b, d, bmps')
    BY <1>4, <2>0 DEF FailsJob
  <2>2. c \in DOMAIN b /\ \E k \in 1 .. Len(b[c].queue) : bmps'[c].queue[i] = b[c].queue[k]
    BY <2>1, ReportedRequests
  <2>3. PICK k \in 1 .. Len(b[c].queue) : bmps'[c].queue[i] = b[c].queue[k]
    BY <2>2
  <2> QED BY <2>1, <2>2, <2>3, AskedRequests
<1>5. ASSUME NEW d \in BmpId, Works(d)
      PROVE  \E k \in 1 .. Len(bmps[c].queue) : bmps'[c].queue[i].job = bmps[c].queue[k].job
  BY <1>5, WorksFacts
<1> QED BY <1>1, <1>2, <1>3, <1>4, <1>5 DEF CalmStep

\* A job for which something is asked of a BMP has its boards, and keeps its machine.
LEMMA ServedJobKept ==
  ASSUME AInv, [QNext]_qvars, NEW c \in DOMAIN bmps, NEW k \in 1 .. Len(bmps[c].queue),
         NEW j, j = bmps[c].queue[k].job, j \in DOMAIN jobs'
  PROVE  j \in DOMAIN jobs /\ jobs'[j].machine = jobs[j].machine
<1>1. j \in Served(bmps)
  BY ServedMeans
<1>2. j < nextId /\ (j \in DOMAIN jobs => ~Pending(j))
  BY <1>1 DEF AInv, ServedStarted
<1>3. nextId \in Nat
  BY BoundAssumption DEF AInv, QInv, QTypeOK
<1>4. KeepsPlace(j)
  BY JobsKeepPlace DEF AInv, QInv
<1> QED BY <1>2, <1>3, <1>4 DEF KeepsPlace, Pending

LEMMA CalmRequestsPlaced ==
  ASSUME AInv, AInv', RequestsPlaced, CalmStep, [QNext]_qvars
  PROVE  RequestsPlaced'
<1> SUFFICES ASSUME NEW c \in DOMAIN bmps', NEW i \in 1 .. Len(bmps'[c].queue),
                    NEW j, j = bmps'[c].queue[i].job, j \in DOMAIN jobs'
             PROVE  jobs'[j].machine = bmps'[c].machine
  BY DEF RequestsPlaced
<1>1. c \in DOMAIN bmps /\ bmps'[c].machine = bmps[c].machine
  BY CalmThreads DEF SameThreads
<1>2. ASSUME NEW k \in 1 .. Len(bmps[c].queue), j = bmps[c].queue[k].job
      PROVE  jobs'[j].machine = bmps'[c].machine
  BY <1>1, <1>2, ServedJobKept DEF RequestsPlaced
<1>3. ASSUME MayAsk(j, bmps[c].machine)
      PROVE  jobs'[j].machine = bmps'[c].machine
  <2>1. CASE j \in DOMAIN cjobs'
    <3>1. jobs'[j].machine = cjobs'[j].machine
      BY <2>1 DEF AInv, JobsAgree
    <3> QED BY <1>1, <1>3, <2>1, <3>1 DEF MayAsk
  <2>2. CASE j \notin DOMAIN cjobs'
    <3>1. /\ j \in DOMAIN jobs /\ jobs[j].machine = bmps[c].machine
          /\ bmps[c].machine \in DOMAIN machines
      BY <1>3, <2>2 DEF MayAsk, AInv, JobsAgree
    <3>2. ~Pending(j)
      BY <3>1, MachineAssumption DEF AInv, QInv, QTypeOK, JobsPlaced, HoldsBoards, Pending
    <3>3. j # nextId
      BY <3>1, BoundAssumption DEF AInv, IdsUsed, QInv, QTypeOK, JobId
    <3>4. KeepsPlace(j)
      BY JobsKeepPlace DEF AInv, QInv
    <3> QED BY <1>1, <3>1, <3>2, <3>3, <3>4 DEF KeepsPlace
  <2> QED BY <2>1, <2>2
<1> QED BY <1>2, <1>3, CalmRequests

LEMMA ThreadsRequestsPlaced ==
  ASSUME AInv, RequestsPlaced, ThreadsChange, [QNext]_qvars
  PROVE  RequestsPlaced'
<1> SUFFICES ASSUME NEW c \in DOMAIN bmps', NEW i \in 1 .. Len(bmps'[c].queue),
                    NEW j, j = bmps'[c].queue[i].job, j \in DOMAIN jobs'
             PROVE  jobs'[j].machine = bmps'[c].machine
  BY DEF RequestsPlaced
<1>1. c \in DOMAIN bmps /\ bmps'[c].queue = bmps[c].queue
  BY ThreadsChangeFacts DEF Loosened, OldBmps, NewBmps, NewBmp
<1>2. j \in DOMAIN jobs /\ jobs'[j].machine = jobs[j].machine /\ jobs[j].machine = bmps[c].machine
  BY <1>1, ServedJobKept DEF RequestsPlaced
<1>3. bmps'[c].machine = bmps[c].machine
  <2>1. CASE \E d \in BmpId : ThreadEnds(d)
    BY <2>1, ThreadEndsLoosens
  <2>2. CASE \E k \in JobId : UpdateFails(k)
    BY <2>2, UpdateFailsLoosens
  <2>3. CASE \E m \in Machine : UpdateRemovesMachine(m)
    <3>1. PICK m \in Machine : UpdateRemovesMachine(m)
      BY <2>3
    <3>2. bmps[c].machine # m
      BY <1>2, <3>1 DEF UpdateRemovesMachine, RemoveMachine, JobsOn
    <3> QED BY <3>1, <3>2, RemovesLoosens
  <2>4. CASE UpdateEnds
    BY <1>1, <2>4, UpdateEndsBmps DEF OldBmps
  <2> QED BY <2>1, <2>2, <2>3, <2>4 DEF ThreadsChange
<1> QED BY <1>2, <1>3

-----------------------------------------------------------------------------
(* The last word on every board.                                           *)

\* Of what queue q has to do to board x the last is what job j asked for.
Settled(q, j, x, on) ==
  \A i \in 1 .. Len(q) : x \in q[i].boards =>
    \E k \in i .. Len(q) :
      /\ q[k].job = j /\ x \in q[k].boards /\ q[k].on = on
      /\ \A n \in k + 1 .. Len(q) : x \notin q[n].boards

\* In table b, with jobs as in cj, the jobs have the last word.
LastWordIn(b, cj) ==
  \A j \in DOMAIN cj : \A c \in DOMAIN b :
    cj[j].state # "queued" /\ b[c].machine = cj[j].machine =>
      \A x \in cj[j].boards : Settled(b[c].queue, j, x, cj[j].power = "on")

LEMMA LastWordMeans == OwnerHasLastWord <=> LastWordIn(bmps, cjobs)
<1>1. OwnerHasLastWord => LastWordIn(bmps, cjobs)
  BY DEF OwnerHasLastWord, LastWordIn, Settled
<1>2. LastWordIn(bmps, cjobs) => OwnerHasLastWord
  BY DEF OwnerHasLastWord, LastWordIn, Settled
<1> QED BY <1>1, <1>2

\* A request that does not touch the board changes nothing, ...
LEMMA SettledBehind ==
  ASSUME NEW q, NEW p, Len(q) \in Nat, Len(p) = Len(q) + 1,
         \A i \in 1 .. Len(q) : p[i] = q[i],
         NEW j, NEW x, NEW on, Settled(q, j, x, on), x \notin p[Len(q) + 1].boards
  PROVE  Settled(p, j, x, on)
<1> SUFFICES ASSUME NEW i \in 1 .. Len(p), x \in p[i].boards
             PROVE  \E k \in i .. Len(p) :
                      /\ p[k].job = j /\ x \in p[k].boards /\ p[k].on = on
                      /\ \A n \in k + 1 .. Len(p) : x \notin p[n].boards
  BY DEF Settled
<1>1. i \in 1 .. Len(q) /\ x \in q[i].boards
  <2>1. i # Len(q) + 1
    OBVIOUS
  <2> QED BY <2>1
<1>2. PICK k \in i .. Len(q) :
        /\ q[k].job = j /\ x \in q[k].boards /\ q[k].on = on
        /\ \A n \in k + 1 .. Len(q) : x \notin q[n].boards
  BY <1>1 DEF Settled
<1>3. k \in 1 .. Len(q) /\ k \in i .. Len(p) /\ p[k] = q[k]
  BY <1>1
<1>4. ASSUME NEW n \in k + 1 .. Len(p)
      PROVE  x \notin p[n].boards
  <2>1. CASE n \in 1 .. Len(q)
    <3>1. n \in k + 1 .. Len(q) /\ p[n] = q[n]
      BY <1>3, <2>1
    <3> QED BY <1>2, <3>1
  <2>2. CASE n \notin 1 .. Len(q)
    <3>1. n = Len(q) + 1
      BY <1>3, <2>2
    <3> QED BY <3>1
  <2> QED BY <2>1, <2>2
<1> QED BY <1>2, <1>3, <1>4

\* ... one of the job settles it, ...
LEMMA SettledByLast ==
  ASSUME NEW p, Len(p) \in Nat \ {0}, NEW j, NEW x, NEW on,
         p[Len(p)].job = j, x \in p[Len(p)].boards, p[Len(p)].on = on
  PROVE  Settled(p, j, x, on)
<1>1. ASSUME NEW i \in 1 .. Len(p)
      PROVE  Len(p) \in i .. Len(p) /\ \A n \in Len(p) + 1 .. Len(p) : FALSE
  OBVIOUS
<1> QED BY <1>1 DEF Settled

\* ... and what is at the head can go.
LEMMA SettledAfter ==
  ASSUME NEW q, NEW p, Len(q) \in Nat \ {0}, Len(p) = Len(q) - 1,
         \A i \in 1 .. Len(p) : p[i] = q[i + 1],
         NEW j, NEW x, NEW on, Settled(q, j, x, on)
  PROVE  Settled(p, j, x, on)
<1> SUFFICES ASSUME NEW i \in 1 .. Len(p), x \in p[i].boards
             PROVE  \E k \in i .. Len(p) :
                      /\ p[k].job = j /\ x \in p[k].boards /\ p[k].on = on
                      /\ \A n \in k + 1 .. Len(p) : x \notin p[n].boards
  BY DEF Settled
<1>1. i + 1 \in 1 .. Len(q) /\ x \in q[i + 1].boards
  OBVIOUS
<1>2. PICK k \in i + 1 .. Len(q) :
        /\ q[k].job = j /\ x \in q[k].boards /\ q[k].on = on
        /\ \A n \in k + 1 .. Len(q) : x \notin q[n].boards
  BY <1>1 DEF Settled
<1>3. k - 1 \in i .. Len(p) /\ k - 1 \in 1 .. Len(p) /\ p[k - 1] = q[k] /\ k \in Int
  <2>1. k - 1 \in i .. Len(p) /\ k - 1 \in 1 .. Len(p) /\ (k - 1) + 1 = k /\ k \in Int
    OBVIOUS
  <2> QED BY <2>1
<1>4. ASSUME NEW n \in (k - 1) + 1 .. Len(p)
      PROVE  x \notin p[n].boards
  <2>1. n + 1 \in k + 1 .. Len(q) /\ n \in 1 .. Len(p)
    BY <1>3
  <2> QED BY <1>2, <2>1
<1> QED BY <1>2, <1>3, <1>4

\* When a job asks for its boards to be switched it gets the last word on them.
LEMMA AskedLastWord ==
  ASSUME AInv, InFrame(bmps), OwnerHasLastWord,
         NEW j, NEW m, NEW B, NEW on, on \in BOOLEAN, NEW b, AsksFor(j, m, B, on, b)
  PROVE  LastWordIn(b, cjobs')
<1>0. /\ Asked(b, m, j, B, on) /\ B \in SUBSET Board /\ Wish(j, m, B, on)
      /\ SameWishes(DOMAIN cjobs' \ {j})
      /\ \A k \in DOMAIN cjobs' \ {j} : cjobs'[k].state # "queued" => cjobs'[k].boards \cap B = {}
  BY DEF AsksFor
<1> SUFFICES ASSUME NEW k \in DOMAIN cjobs', NEW c \in DOMAIN b,
                    cjobs'[k].state # "queued", b[c].machine = cjobs'[k].machine,
                    NEW x \in cjobs'[k].boards
             PROVE  Settled(b[c].queue, k, x, cjobs'[k].power = "on")
  BY DEF LastWordIn
<1>1. /\ c \in DOMAIN bmps /\ Len(bmps[c].queue) \in Nat
      /\ b[c].machine = bmps[c].machine
      /\ c \notin BmpsOf(m, B) => b[c].queue = bmps[c].queue
      /\ c \in BmpsOf(m, B) =>
           /\ Len(b[c].queue) = Len(bmps[c].queue) + 1
           /\ \A i \in 1 .. Len(bmps[c].queue) : b[c].queue[i] = bmps[c].queue[i]
           /\ b[c].queue[Len(bmps[c].queue) + 1] = Ask(j, B, on, c)
  BY <1>0 DEF Asked
<1>2. /\ Ask(j, B, on, c).job = j /\ Ask(j, B, on, c).on = on
      /\ \A y : y \in Ask(j, B, on, c).boards <=> y \in B /\ FrameOf[y] = c[1]
  BY DEF Ask
<1>3. ASSUME k # j
      PROVE  Settled(b[c].queue, k, x, cjobs'[k].power = "on")
  <2>1. k \in DOMAIN cjobs /\ cjobs'[k] = cjobs[k] /\ x \notin B
    BY <1>0, <1>3 DEF SameWishes
  <2>2. Settled(bmps[c].queue, k, x, cjobs'[k].power = "on")
    BY <1>1, <2>1, LastWordMeans DEF LastWordIn
  <2>3. CASE c \in BmpsOf(m, B)
    <3>1. x \notin b[c].queue[Len(bmps[c].queue) + 1].boards
      BY <1>1, <1>2, <2>1, <2>3
    <3> QED BY <1>1, <2>2, <2>3, <3>1, SettledBehind
  <2>4. CASE c \notin BmpsOf(m, B)
    BY <1>1, <2>2, <2>4
  <2> QED BY <2>3, <2>4
<1>4. ASSUME k = j
      PROVE  Settled(b[c].queue, k, x, cjobs'[k].power = "on")
  <2>1. x \in B /\ bmps[c].machine = m /\ (cjobs'[k].power = "on") = on
    BY <1>0, <1>1, <1>4 DEF Wish
  <2>2. FrameOf[x] \in FramesOf(B)
    BY <2>1 DEF FramesOf
  <2>3. \A i \in 1 .. Len(bmps[c].queue) : x \in bmps[c].queue[i].boards => FrameOf[x] = c[1]
    BY <1>1 DEF InFrame
  <2>4. CASE c \notin BmpsOf(m, B)
    <3>1. FrameOf[x] # c[1]
      BY <1>1, <2>1, <2>2, <2>4 DEF BmpsOf
    <3> QED BY <1>1, <2>3, <2>4, <3>1 DEF Settled
  <2>5. CASE c \in BmpsOf(m, B) /\ FrameOf[x] # c[1]
    <3>1. Settled(bmps[c].queue, k, x, cjobs'[k].power = "on")
      BY <2>3, <2>5 DEF Settled
    <3>2. x \notin b[c].queue[Len(bmps[c].queue) + 1].boards
      BY <1>1, <1>2, <2>5
    <3>3. /\ Len(bmps[c].queue) \in Nat /\ Len(b[c].queue) = Len(bmps[c].queue) + 1
          /\ \A i \in 1 .. Len(bmps[c].queue) : b[c].queue[i] = bmps[c].queue[i]
      BY <1>1, <2>5
    <3> QED BY <3>1, <3>2, <3>3, SettledBehind
  <2>6. CASE c \in BmpsOf(m, B) /\ FrameOf[x] = c[1]
    <3>1. /\ Len(b[c].queue) \in Nat \ {0}
          /\ b[c].queue[Len(b[c].queue)] = Ask(j, B, on, c)
      BY <1>1, <2>6
    <3>2. /\ b[c].queue[Len(b[c].queue)].job = k
          /\ x \in b[c].queue[Len(b[c].queue)].boards
          /\ b[c].queue[Len(b[c].queue)].on = (cjobs'[k].power = "on")
      BY <1>2, <1>4, <2>1, <2>6, <3>1
    <3> QED BY <3>1, <3>2, SettledByLast
  <2> QED BY <2>4, <2>5, <2>6
<1> QED BY <1>3, <1>4

LEMMA ReportedLastWord ==
  ASSUME NEW b, NEW c, NEW s, Reported(b, c, s), NEW cj, LastWordIn(b, cj)
  PROVE  LastWordIn(s, cj)
<1> SUFFICES ASSUME NEW k \in DOMAIN cj, NEW d \in DOMAIN s,
                    cj[k].state # "queued", s[d].machine = cj[k].machine,
                    NEW x \in cj[k].boards
             PROVE  Settled(s[d].queue, k, x, cj[k].power = "on")
  BY DEF LastWordIn
<1>1. d \in DOMAIN b /\ s[d].machine = b[d].machine
  BY DEF Reported
<1>2. Settled(b[d].queue, k, x, cj[k].power = "on")
  BY <1>1 DEF LastWordIn
<1>3. CASE d = c
  <2>1. /\ Len(b[d].queue) \in Nat \ {0} /\ Len(s[d].queue) = Len(b[d].queue) - 1
        /\ \A i \in 1 .. Len(s[d].queue) : s[d].queue[i] = b[d].queue[i + 1]
    BY <1>3 DEF Reported
  <2> QED BY <1>2, <2>1, SettledAfter
<1>4. CASE d # c
  <2>1. s[d] = b[d]
    BY <1>1, <1>4 DEF Reported
  <2> QED BY <1>2, <2>1
<1> QED BY <1>3, <1>4

\* Jobs that are as they were, or have become ready, have the last word still.
LEMMA SameLastWord ==
  ASSUME NEW b, NEW c, NEW d, LastWordIn(b, c),
         \A k \in DOMAIN d : d[k].state # "queued" =>
           /\ k \in DOMAIN c /\ c[k].state # "queued" /\ d[k].machine = c[k].machine
           /\ d[k].boards = c[k].boards /\ d[k].power = c[k].power
  PROVE  LastWordIn(b, d)
  BY DEF LastWordIn

\* Of the job a thread reports on, nothing changes but perhaps that it is ready.
LEMMA ReportsBackJobs ==
  ASSUME AInv, NEW c, ReportsBack(c), NEW k \in DOMAIN cjobs', cjobs'[k].state # "queued"
  PROVE  /\ k \in DOMAIN cjobs /\ cjobs[k].state # "queued"
         /\ cjobs'[k].machine = cjobs[k].machine
         /\ cjobs'[k].boards = cjobs[k].boards /\ cjobs'[k].power = cjobs[k].power
         /\ \/ cjobs'[k].state = cjobs[k].state
            \/ k = JobOf(c) /\ LastReport(c) /\ cjobs'[k].state = "ready"
<1>1. CASE k # JobOf(c)
  BY <1>1 DEF ReportsBack, SameWishes
<1>2. CASE k = JobOf(c)
  <2>1. /\ k \in DOMAIN cjobs
        /\ cjobs'[k] = cjobs[k] \/ (LastReport(c) /\ cjobs'[k] = [cjobs[k] EXCEPT !.state = "ready"])
    BY <1>2 DEF ReportsBack
  <2>2. CASE cjobs'[k] = cjobs[k]
    BY <2>1, <2>2
  <2>3. CASE LastReport(c) /\ cjobs'[k] = [cjobs[k] EXCEPT !.state = "ready"]
    <3>1. cjobs[k] \in CJobType
      BY <2>1 DEF AInv, CJobsTyped
    <3>2. /\ cjobs'[k].machine = cjobs[k].machine /\ cjobs'[k].state = "ready"
          /\ cjobs'[k].boards = cjobs[k].boards /\ cjobs'[k].power = cjobs[k].power
      BY <2>3, <3>1 DEF CJobType
    <3>3. k \in JobId /\ HasWork(bmps, c) /\ k \in Served(bmps)
      <4>1. c \in DOMAIN bmps /\ bmps[c].queue # <<>>
        BY ReporterBusy DEF ReportsBack, HasWork
      <4>2. bmps[c].queue \in Seq(RequestsType) /\ Len(bmps[c].queue) \in Nat \ {0}
        BY <4>1, BmpRecord, EmptySeq DEF AInv
      <4>3. k = bmps[c].queue[1].job /\ 1 \in 1 .. Len(bmps[c].queue)
        BY <1>2, <4>2 DEF JobOf
      <4>4. k \in Served(bmps)
        BY <4>1, <4>3, ServedMeans
      <4> QED BY <2>1, <4>1, <4>4 DEF HasWork, AInv, CJobsTyped
    <3>4. cjobs[k].state # "queued"
      BY <2>1, <3>3 DEF AInv, ServedStarted, JobsAgree, Pending
    <3> QED BY <1>2, <2>1, <2>3, <3>2, <3>4
  <2> QED BY <2>1, <2>2, <2>3
<1> QED BY <1>1, <1>2

LEMMA CalmLastWord ==
  ASSUME AInv, InFrame(bmps), OwnerHasLastWord, CalmStep
  PROVE  LastWordIn(bmps', cjobs')
<1>0. LastWordIn(bmps, cjobs)
  BY LastWordMeans
<1>1. ASSUME Silent
      PROVE  LastWordIn(bmps', cjobs')
  <2>1. LastWordIn(bmps, cjobs')
    BY <1>0, <1>1, SameLastWord DEF Silent, SameWishes
  <2> QED BY <1>1, <2>1 DEF Silent
<1>2. ASSUME NEW j, NEW m, NEW B, NEW on \in BOOLEAN, Asks(j, m, B, on)
      PROVE  LastWordIn(bmps', cjobs')
  BY <1>2, AskedLastWord DEF Asks
<1>3. ASSUME NEW c \in BmpId, ReportsBack(c)
      PROVE  LastWordIn(bmps', cjobs')
  <2>1. LastWordIn(bmps, cjobs')
    BY <1>0, <1>3, SameLastWord, ReportsBackJobs
  <2> QED BY <1>3, <2>1, ReportedLastWord DEF ReportsBack
<1>4. ASSUME NEW c \in BmpId, NEW m, NEW B, NEW b, FailsJob(c, m, B, b)
      PROVE  LastWordIn(bmps', cjobs')
  <2>0. PICK off \in BOOLEAN : off = FALSE
    OBVIOUS
  <2>1. AsksFor(JobOf(c), m, B, off, b) /\ Reported(b, c, bmps')
    BY <1>4, <2>0 DEF FailsJob
  <2>2. LastWordIn(b, cjobs')
    BY <2>1, AskedLastWord
  <2> QED BY <2>1, <2>2, ReportedLastWord
<1>5. ASSUME NEW c \in BmpId, Works(c)
      PROVE  LastWordIn(bmps', cjobs')
  <2>1. cjobs' = cjobs
    BY <1>5 DEF Works
  <2> QED BY <1>0, <1>5, <2>1, WorksFacts DEF LastWordIn
<1> QED BY <1>1, <1>2, <1>3, <1>4, <1>5 DEF CalmStep

LEMMA ThreadsLastWord ==
  ASSUME AInv, ThreadsPlaced, OwnerHasLastWord, ThreadsChange
  PROVE  LastWordIn(bmps', cjobs')
<1>0. LastWordIn(bmps, cjobs) /\ cjobs' = cjobs
  BY LastWordMeans DEF ThreadsChange
<1>1. ASSUME NEW c \in DOMAIN bmps'
      PROVE  \/ c \in DOMAIN bmps /\ bmps'[c].queue = bmps[c].queue
                /\ bmps'[c].machine \in {bmps[c].machine, NoMachine}
             \/ bmps'[c].queue = <<>>
  <2>1. CASE \E d \in BmpId : ThreadEnds(d)
    BY <2>1, ThreadEndsLoosens DEF Loosened
  <2>2. CASE \E j \in JobId : UpdateFails(j)
    BY <2>2, UpdateFailsLoosens DEF Loosened
  <2>3. CASE \E m \in Machine : UpdateRemovesMachine(m)
    BY <2>3, RemovesLoosens DEF Loosened
  <2>4. CASE UpdateEnds
    BY <2>4, UpdateEndsBmps DEF OldBmps, NewBmps, NewBmp
  <2> QED BY <2>1, <2>2, <2>3, <2>4 DEF ThreadsChange
<1>2. \A j \in DOMAIN cjobs : cjobs[j].state # "queued" => cjobs[j].machine # NoMachine
  BY MachineAssumption DEF AInv, JobsAgree, QInv, JobsPlaced, HoldsBoards, QTypeOK
<1>3. ASSUME NEW j \in DOMAIN cjobs, NEW c \in DOMAIN bmps',
             cjobs[j].state # "queued", bmps'[c].machine = cjobs[j].machine,
             NEW x \in cjobs[j].boards
      PROVE  Settled(bmps'[c].queue, j, x, cjobs[j].power = "on")
  <2>1. CASE bmps'[c].queue = <<>>
    BY <2>1 DEF Settled
  <2>2. CASE bmps'[c].queue # <<>>
    <3>1. c \in DOMAIN bmps /\ bmps'[c].queue = bmps[c].queue /\ bmps[c].machine = cjobs[j].machine
      BY <1>1, <1>2, <1>3, <2>2
    <3> QED BY <1>0, <1>3, <3>1 DEF LastWordIn
  <2> QED BY <2>1, <2>2
<1> QED BY <1>0, <1>3 DEF LastWordIn

-----------------------------------------------------------------------------
(* A job that is ready has no request on its way.                          *)

ReadyCounted == \A j \in DOMAIN cjobs : cjobs[j].state = "ready" => count[j] = 0

LEMMA CalmReady ==
  ASSUME AInv, Counted, ReadyCounted, CalmStep
  PROVE  ReadyCounted'
<1>0. count \in [JobId -> Nat] /\ DOMAIN cjobs \subseteq JobId
  BY DEF Counted, AInv, CJobsTyped
<1>1. ASSUME Silent
      PROVE  ReadyCounted'
  BY <1>1 DEF Silent, SameWishes, ReadyCounted
<1>2. ASSUME NEW j, NEW m, NEW B, NEW on \in BOOLEAN, Asks(j, m, B, on)
      PROVE  ReadyCounted'
  <2>1. /\ count' = [count EXCEPT ![j] = @ + Cardinality(BmpsOf(m, B))]
        /\ SameWishes(DOMAIN cjobs' \ {j})
        /\ j \in DOMAIN cjobs' => cjobs'[j].state = "power"
    BY <1>2 DEF Asks, AsksFor, Wish
  <2> QED BY <1>0, <2>1 DEF SameWishes, ReadyCounted
<1>3. ASSUME NEW c \in BmpId, ReportsBack(c)
      PROVE  ReadyCounted'
  <2> SUFFICES ASSUME NEW k \in DOMAIN cjobs', cjobs'[k].state = "ready"
               PROVE  count'[k] = 0
    BY DEF ReadyCounted
  <2>1. /\ k \in DOMAIN cjobs /\ k \in JobId
        /\ \/ cjobs[k].state = "ready"
           \/ k = JobOf(c) /\ LastReport(c)
    BY <1>0, <1>3, ReportsBackJobs
  <2>2. count' = [count EXCEPT ![JobOf(c)] = @ - 1]
    BY <1>3 DEF ReportsBack, CountDown
  <2>3. CASE k # JobOf(c)
    BY <1>0, <2>1, <2>2, <2>3 DEF ReadyCounted
  <2>4. CASE k = JobOf(c)
    <3>1. count[k] > 0
      <4>1. HasRequests(bmps, k, count[k]) /\ count[k] \in Nat
        BY <2>1 DEF Counted
      <4>2. Reported(bmps, c, bmps')
        BY <1>3 DEF ReportsBack
      <4>3. \A d \in DOMAIN bmps : Len(bmps[d].queue) \in Nat
        BY BmpRecord DEF AInv
      <4> QED BY <2>4, <4>1, <4>2, <4>3, ReportedCount DEF JobOf
    <3>2. count[k] = 1
      BY <2>1, <2>4, <3>1 DEF LastReport, ReadyCounted
    <3> QED BY <1>0, <2>1, <2>2, <2>4, <3>2
  <2> QED BY <2>3, <2>4
<1>4. ASSUME NEW c \in BmpId, NEW m, NEW B, NEW b, FailsJob(c, m, B, b)
      PROVE  ReadyCounted'
  <2>0. PICK off \in BOOLEAN : off = FALSE
    OBVIOUS
  <2>1. /\ count' = [count EXCEPT ![JobOf(c)] = @ + Cardinality(BmpsOf(m, B)) - 1]
        /\ SameWishes(DOMAIN cjobs' \ {JobOf(c)}) /\ JobOf(c) \notin DOMAIN cjobs'
    BY <1>4, <2>0 DEF FailsJob, AsksFor
  <2> QED BY <1>0, <2>1 DEF SameWishes, ReadyCounted
<1>5. ASSUME NEW c \in BmpId, Works(c)
      PROVE  ReadyCounted'
  BY <1>5 DEF Works, ReadyCounted
<1> QED BY <1>1, <1>2, <1>3, <1>4, <1>5 DEF CalmStep

-----------------------------------------------------------------------------
(* The invariant of the requests.                                          *)

\* In table b there is one thread for each frame, and it has nothing to do.
FreshIn(b) ==
  /\ \A c \in DOMAIN b :
       /\ \E m \in DOMAIN machines :
            b[c] = NewBmp(m, {}) /\ c[1] \in FramesOf(machines[m].boards)
       /\ \A d \in DOMAIN b : c[1] = d[1] => c = d
  /\ \A m \in DOMAIN machines : \A f \in FramesOf(machines[m].boards) :
       \E c \in DOMAIN b : c[1] = f /\ b[c].machine = m

LEMMA NewThreadsFresh ==
  ASSUME OfConfig
  PROVE  FreshIn(NewThreads)
<1> DEFINE gen == CHOOSE g \in Generation : TRUE
           Owner(f) == CHOOSE m \in DOMAIN machines : f \in FramesOf(machines[m].boards)
           used == UNION {FramesOf(machines[m].boards) : m \in DOMAIN machines}
<1>0. PICK b : b = NewThreads
  OBVIOUS
<1>1. b = [c \in used \X {gen} |-> NewBmp(Owner(c[1]), {})]
  BY <1>0 DEF NewThreads
<1>2. PICK cfg \in Config : \A m \in DOMAIN machines :
        m \in Names(cfg) /\ machines[m].boards = cfg.desc[m].boards
  BY DEF OfConfig
<1>3. ASSUME NEW m \in DOMAIN machines, NEW f \in FramesOf(machines[m].boards)
      PROVE  Owner(f) = m /\ f \in used
  <2>1. \A n \in DOMAIN machines : f \in FramesOf(machines[n].boards) => n = m
    BY <1>2, <1>3, FrameOfOneMachine
  <2> QED BY <1>3, <2>1
<1>4. ASSUME NEW f \in used
      PROVE  Owner(f) \in DOMAIN machines /\ f \in FramesOf(machines[Owner(f)].boards)
  <2>1. \E m \in DOMAIN machines : f \in FramesOf(machines[m].boards)
    OBVIOUS
  <2> QED BY <2>1
<1> HIDE DEF gen, Owner, used
<1>5. DOMAIN b = used \X {gen}
  BY <1>1
<1>6. ASSUME NEW c \in DOMAIN b
      PROVE  /\ \E m \in DOMAIN machines :
                  b[c] = NewBmp(m, {}) /\ c[1] \in FramesOf(machines[m].boards)
             /\ \A d \in DOMAIN b : c[1] = d[1] => c = d
  BY <1>1, <1>4, <1>5
<1>7. ASSUME NEW m \in DOMAIN machines, NEW f \in FramesOf(machines[m].boards)
      PROVE  \E c \in DOMAIN b : c[1] = f /\ b[c].machine = m
  <2>1. <<f, gen>> \in DOMAIN b /\ <<f, gen>>[1] = f
    BY <1>3, <1>5, <1>7
  <2>2. b[<<f, gen>>] = NewBmp(Owner(f), {})
    BY <1>1, <1>5, <2>1
  <2>3. b[<<f, gen>>].machine = m
    BY <1>3, <1>7, <2>2 DEF NewBmp
  <2> QED BY <2>1, <2>3
<1>8. FreshIn(b)
  BY <1>6, <1>7 DEF FreshIn
<1> QED BY <1>0, <1>8

LEMMA InitFresh == Init => OfConfig /\ FreshIn(bmps)
<1> SUFFICES ASSUME Init
             PROVE  OfConfig /\ FreshIn(bmps)
  OBVIOUS
<1>1. PICK cfg \in Config : machines = [m \in Names(cfg) |-> NewMachine(cfg.desc[m])]
  BY DEF Init, QInit
<1>2. OfConfig
  BY <1>1 DEF OfConfig, NewMachine
<1> QED BY <1>2, NewThreadsFresh DEF Init

\* A thread with an empty queue has no requests of anybody.
LEMMA IdleHasNoRequests ==
  ASSUME NEW b, \A c \in DOMAIN b : b[c].queue = <<>>, NEW j
  PROVE  HasRequests(b, j, 0)
<1>1. \A x : x \notin OutstandingIn(b, j)
  <2> SUFFICES ASSUME NEW x \in OutstandingIn(b, j)
               PROVE  FALSE
    OBVIOUS
  <2>1. PICK c \in DOMAIN b : \E i \in 1 .. Len(b[c].queue) : x = <<c, i>>
    BY OutstandingMeans
  <2> QED BY <2>1
<1>2. OutstandingIn(b, j) = {}
  BY <1>1
<1> QED BY <1>2, FS_EmptySet DEF HasRequests

\* All that is true of the requests, whether or not threads are told to stop.
Ledger ==
  /\ AInv
  /\ BoardsNonEmpty
  /\ Counted
  /\ ThreadsPlaced
  /\ FramesServed
  /\ OfConfig
  /\ RequestsPlaced
  /\ OwnerHasLastWord
  /\ ReadyCounted

CInv == Ledger /\ Unstopped

LEMMA InitCInv == Init => CInv
<1> SUFFICES ASSUME Init
             PROVE  CInv
  OBVIOUS
<1>1. AInv /\ OfConfig /\ FreshIn(bmps)
  BY InitAInv, InitFresh
<1>2. DOMAIN jobs = {} /\ DOMAIN cjobs = {} /\ count = [j \in JobId |-> 0]
  BY DEF Init, QInit
<1>3. \A c \in DOMAIN bmps :
        /\ bmps[c].queue = <<>> /\ bmps[c].result = "none" /\ bmps[c].after = {}
        /\ bmps[c].stop = "no" /\ bmps[c].machine \in DOMAIN machines
        /\ c[1] \in FramesOf(machines[bmps[c].machine].boards)
  BY <1>1 DEF FreshIn, NewBmp
<1>4. \A j \in JobId : HasRequests(bmps, j, 0)
  BY <1>3, IdleHasNoRequests
<1>5. Counted
  BY <1>2, <1>4 DEF Counted
<1>6. ThreadsPlaced /\ Unstopped /\ FramesServed
  BY <1>1, <1>3 DEF ThreadsPlaced, Serving, InFrame, WorksAlone, Unstopped, FreshIn, FramesServed
<1>7. BoardsNonEmpty /\ RequestsPlaced /\ OwnerHasLastWord /\ ReadyCounted
  BY <1>2 DEF BoardsNonEmpty, RequestsPlaced, OwnerHasLastWord, ReadyCounted
<1> QED BY <1>1, <1>5, <1>6, <1>7 DEF CInv, Ledger

\* No step that leaves the threads of machines in service to run breaks it.
LEMMA NextLedger ==
  ASSUME Ledger, [Next]_vars,
         \A c \in BmpId : ThreadEnds(c) => bmps[c].machine = NoMachine
  PROVE  Ledger'
<1>1. /\ AInv /\ BoardsNonEmpty /\ Counted /\ ThreadsPlaced /\ FramesServed /\ OfConfig
      /\ RequestsPlaced /\ OwnerHasLastWord /\ ReadyCounted
  BY DEF Ledger
<1>2. AInv' /\ QTypeOK
  BY <1>1, NextAInv DEF AInv, QInv
<1>3. [QNext]_qvars
  BY <1>2, NextRefines
<1>4. BoardsNonEmpty'
  BY <1>1, <1>2, <1>3, BoardsStayNonEmpty
<1>5. CASE CalmStep /\ SameMachines
  <2>1. Counted' /\ ReadyCounted'
    BY <1>1, <1>5, CalmCounted, CalmReady
  <2>2. ThreadsPlaced' /\ FramesServed' /\ OfConfig'
    BY <1>1, <1>5, CalmPlaced, StaysOfConfig
  <2>3. RequestsPlaced'
    BY <1>1, <1>2, <1>3, <1>5, CalmRequestsPlaced
  <2>4. LastWordIn(bmps', cjobs')
    BY <1>1, <1>5, CalmLastWord DEF ThreadsPlaced
  <2>5. OwnerHasLastWord'
    BY <2>4 DEF OwnerHasLastWord, LastWordIn, Settled
  <2> QED BY <1>2, <1>4, <2>1, <2>2, <2>3, <2>5 DEF Ledger
<1>6. CASE ThreadsChange
  <2>1. Counted'
    BY <1>1, <1>6, ThreadsCounted
  <2>2. ThreadsPlaced' /\ FramesServed' /\ OfConfig'
    BY <1>1, <1>6, ThreadsChangePlaced, StaysOfConfig
  <2>3. RequestsPlaced'
    BY <1>1, <1>3, <1>6, ThreadsRequestsPlaced
  <2>4. LastWordIn(bmps', cjobs')
    BY <1>1, <1>6, ThreadsLastWord
  <2>5. OwnerHasLastWord'
    BY <2>4 DEF OwnerHasLastWord, LastWordIn, Settled
  <2>6. ReadyCounted'
    BY <1>1, <1>6 DEF ThreadsChange, ReadyCounted
  <2> QED BY <1>2, <1>4, <2>1, <2>2, <2>3, <2>5, <2>6 DEF Ledger
<1> QED BY <1>1, <1>2, <1>5, <1>6, StepCases

LEMMA NextCInv == CInv /\ [Next]_vars => CInv'
<1> SUFFICES ASSUME CInv, [Next]_vars
             PROVE  CInv'
  OBVIOUS
<1>1. Ledger /\ Unstopped /\ AInv /\ BoardsNonEmpty
  BY DEF CInv, Ledger
<1>2. Ledger'
  <2>1. \A c \in BmpId : ThreadEnds(c) => bmps[c].machine = NoMachine
    BY <1>1 DEF Unstopped, ThreadEnds
  <2> QED BY <1>1, <2>1, NextLedger
<1>3. CalmStep \/ ThreadsChange
  BY <1>1, <1>2, StepCases DEF Ledger
<1>4. Unstopped'
  BY <1>1, <1>3, StaysUnstopped
<1> QED BY <1>2, <1>4 DEF CInv

LEMMA CInvHolds == Spec => []CInv
<1> QED BY InitCInv, NextCInv, PTL DEF Spec

\* bmp_requests_until_ready is exact for every job, at all times: _teardown_job, power
\* commands, failures and updates of the machines add and take away just what BMPs
\* are asked for and report on.
THEOREM RequestsCounted == Spec => []CountsRequests
<1>1. ASSUME NEW j
      PROVE  Outstanding(j) = OutstandingIn(bmps, j)
  BY DEF Outstanding, OutstandingIn
<1>2. CInv => CountsRequests
  BY <1>1 DEF CInv, Ledger, Counted, HasRequests, CountsRequests
<1> QED BY <1>2, CInvHolds, PTL

\* The BMPs of the machines in service do to a board last what its job asked for,
\* whatever its earlier users have left in their queues.
THEOREM LastWordHolds == Spec => []OwnerHasLastWord
<1>1. CInv => OwnerHasLastWord
  BY DEF CInv, Ledger
<1> QED BY <1>1, CInvHolds, PTL

-----------------------------------------------------------------------------
(* A job that is ready has its boards as it asked.                         *)

\* A thread that has carried a request out has left the boards as asked ...
DoneIn(b, on) ==
  \A c \in DOMAIN b : b[c].result = "ok" =>
    \A x \in b[c].queue[1].boards : x \in on <=> b[c].queue[1].on

\* ... and a board of which nothing more is asked is as its job asked.
AsAskedIn(b, cj, on) ==
  \A j \in DOMAIN cj : \A c \in DOMAIN b :
    cj[j].state # "queued" /\ b[c].machine = cj[j].machine =>
      \A x \in cj[j].boards :
        FrameOf[x] = c[1] /\ (\A i \in 1 .. Len(b[c].queue) : x \notin b[c].queue[i].boards) =>
          b[c].after = {} /\ (x \in on <=> cj[j].power = "on")

ResultDone == DoneIn(bmps, powered)

PowerAsAsked == AsAskedIn(bmps, cjobs, powered)

LEMMA AskedPower ==
  ASSUME AInv, PowerAsAsked, ResultDone,
         NEW j, NEW m, NEW B, NEW on, on \in BOOLEAN, NEW b, AsksFor(j, m, B, on, b)
  PROVE  AsAskedIn(b, cjobs', powered') /\ DoneIn(b, powered')
<1>0. /\ Asked(b, m, j, B, on) /\ Wish(j, m, B, on) /\ SameWishes(DOMAIN cjobs' \ {j})
      /\ powered' = powered
  BY DEF AsksFor
<1>1. ASSUME NEW c \in DOMAIN b
      PROVE  /\ c \in DOMAIN bmps /\ Len(bmps[c].queue) \in Nat
             /\ b[c].machine = bmps[c].machine /\ b[c].after = bmps[c].after
             /\ b[c].result = bmps[c].result
             /\ Len(b[c].queue) \in {Len(bmps[c].queue), Len(bmps[c].queue) + 1}
             /\ \A i \in 1 .. Len(bmps[c].queue) : b[c].queue[i] = bmps[c].queue[i]
             /\ c \in BmpsOf(m, B) =>
                  /\ Len(b[c].queue) = Len(bmps[c].queue) + 1
                  /\ b[c].queue[Len(bmps[c].queue) + 1] = Ask(j, B, on, c)
  BY <1>0 DEF Asked
<1>2. ASSUME NEW k \in DOMAIN cjobs', NEW c \in DOMAIN b,
             cjobs'[k].state # "queued", b[c].machine = cjobs'[k].machine,
             NEW x \in cjobs'[k].boards, FrameOf[x] = c[1],
             \A i \in 1 .. Len(b[c].queue) : x \notin b[c].queue[i].boards
      PROVE  b[c].after = {} /\ (x \in powered' <=> cjobs'[k].power = "on")
  <2>1. CASE k # j
    <3>1. k \in DOMAIN cjobs /\ cjobs'[k] = cjobs[k]
      BY <1>0, <1>2, <2>1 DEF SameWishes
    <3>2. \A i \in 1 .. Len(bmps[c].queue) : x \notin bmps[c].queue[i].boards
      BY <1>1, <1>2
    <3>3. c \in DOMAIN bmps /\ bmps[c].machine = cjobs[k].machine /\ cjobs[k].state # "queued"
      BY <1>1, <1>2, <3>1
    <3>4. bmps[c].after = {} /\ (x \in powered <=> cjobs[k].power = "on")
      BY <1>2, <3>1, <3>2, <3>3 DEF PowerAsAsked, AsAskedIn
    <3> QED BY <1>0, <1>1, <3>1, <3>4
  <2>2. CASE k = j
    <3>1. x \in B /\ bmps[c].machine = m
      BY <1>0, <1>1, <1>2, <2>2 DEF Wish
    <3>2. c[1] \in FramesOf(B)
      BY <1>2, <3>1 DEF FramesOf
    <3>3. c \in BmpsOf(m, B)
      BY <1>1, <3>1, <3>2 DEF BmpsOf
    <3>4. x \in Ask(j, B, on, c).boards
      BY <1>2, <3>1 DEF Ask
    <3>5. x \in b[c].queue[Len(b[c].queue)].boards /\ Len(b[c].queue) \in 1 .. Len(b[c].queue)
      BY <1>1, <3>3, <3>4
    <3> QED BY <1>2, <3>5
  <2> QED BY <2>1, <2>2
<1>3. ASSUME NEW c \in DOMAIN b, b[c].result = "ok"
      PROVE  \A x \in b[c].queue[1].boards : x \in powered' <=> b[c].queue[1].on
  <2>1. c \in DOMAIN bmps /\ bmps[c].result = "ok" /\ bmps[c].queue # <<>>
    BY <1>1, <1>3 DEF AInv, BmpTable
  <2>2. Len(bmps[c].queue) \in Nat \ {0}
    BY <2>1, BmpRecord, EmptySeq DEF AInv
  <2>3. b[c].queue[1] = bmps[c].queue[1]
    BY <1>1, <2>2
  <2> QED BY <1>0, <2>1, <2>3 DEF ResultDone, DoneIn
<1> QED BY <1>2, <1>3 DEF AsAskedIn, DoneIn

LEMMA ReportedPower ==
  ASSUME NEW b, NEW c, NEW s, Reported(b, c, s), NEW cj, NEW on,
         LastWordIn(b, cj), AsAskedIn(b, cj, on), DoneIn(b, on),
         b[c].queue[1].job \in DOMAIN cj => b[c].result = "ok" /\ b[c].after = {}
  PROVE  AsAskedIn(s, cj, on) /\ DoneIn(s, on)
<1>1. /\ DOMAIN s = DOMAIN b /\ c \in DOMAIN b /\ \A d \in DOMAIN b \ {c} : s[d] = b[d]
      /\ Len(b[c].queue) \in Nat \ {0} /\ Len(s[c].queue) = Len(b[c].queue) - 1
      /\ \A i \in 1 .. Len(s[c].queue) : s[c].queue[i] = b[c].queue[i + 1]
      /\ s[c].result = "none" /\ s[c].machine = b[c].machine /\ s[c].after = b[c].after
  BY DEF Reported
<1>2. DoneIn(s, on)
  <2> SUFFICES ASSUME NEW d \in DOMAIN s, s[d].result = "ok"
               PROVE  \A x \in s[d].queue[1].boards : x \in on <=> s[d].queue[1].on
    BY DEF DoneIn
  <2>1. d # c /\ d \in DOMAIN b
    BY <1>1
  <2>2. s[d] = b[d]
    BY <1>1, <2>1
  <2> QED BY <2>1, <2>2 DEF DoneIn
<1>3. ASSUME NEW k \in DOMAIN cj, NEW d \in DOMAIN s,
             cj[k].state # "queued", s[d].machine = cj[k].machine,
             NEW x \in cj[k].boards, FrameOf[x] = d[1],
             \A i \in 1 .. Len(s[d].queue) : x \notin s[d].queue[i].boards
      PROVE  s[d].after = {} /\ (x \in on <=> cj[k].power = "on")
  <2>1. CASE d # c
    <3>1. s[d] = b[d] /\ d \in DOMAIN b
      BY <1>1, <2>1
    <3> QED BY <1>3, <3>1 DEF AsAskedIn
  <2>2. CASE d = c /\ x \notin b[c].queue[1].boards
    <3>1. ASSUME NEW i \in 1 .. Len(b[c].queue)
          PROVE  x \notin b[c].queue[i].boards
      <4>1. CASE i = 1
        BY <2>2, <4>1
      <4>2. CASE i # 1
        <5>1. PICK n : n = i - 1
          OBVIOUS
        <5>2. n \in 1 .. Len(s[c].queue) /\ n + 1 = i
          BY <1>1, <4>2, <5>1
        <5>3. s[c].queue[n] = b[c].queue[i]
          BY <1>1, <5>2
        <5> QED BY <1>3, <2>2, <5>2, <5>3
      <4> QED BY <4>1, <4>2
    <3> QED BY <1>1, <1>3, <2>2, <3>1 DEF AsAskedIn
  <2>3. CASE d = c /\ x \in b[c].queue[1].boards
    <3>1. Settled(b[c].queue, k, x, cj[k].power = "on")
      BY <1>1, <1>3, <2>3 DEF LastWordIn
    <3>2. 1 \in 1 .. Len(b[c].queue)
      BY <1>1
    <3>3. PICK i \in 1 .. Len(b[c].queue) :
            b[c].queue[i].job = k /\ x \in b[c].queue[i].boards
            /\ b[c].queue[i].on = (cj[k].power = "on")
      BY <2>3, <3>1, <3>2 DEF Settled
    <3>4. i = 1
      <4> SUFFICES ASSUME i # 1
                   PROVE  FALSE
        OBVIOUS
      <4>1. PICK n : n = i - 1
        OBVIOUS
      <4>2. n \in 1 .. Len(s[c].queue) /\ n + 1 = i
        BY <1>1, <4>1
      <4>3. s[c].queue[n] = b[c].queue[i]
        BY <1>1, <4>2
      <4> QED BY <1>3, <2>3, <3>3, <4>2, <4>3
    <3>5. b[c].result = "ok" /\ b[c].after = {}
      BY <3>3, <3>4
    <3>6. x \in on <=> b[c].queue[1].on
      BY <1>1, <2>3, <3>5 DEF DoneIn
    <3> QED BY <1>1, <2>3, <3>3, <3>4, <3>5, <3>6
  <2> QED BY <2>1, <2>2, <2>3
<1> QED BY <1>2, <1>3 DEF AsAskedIn

\* Jobs that are as they were, or have become ready, have asked for what they had.
LEMMA SameAsked ==
  ASSUME NEW b, NEW c, NEW d, NEW on, AsAskedIn(b, c, on),
         \A k \in DOMAIN d : d[k].state # "queued" =>
           /\ k \in DOMAIN c /\ c[k].state # "queued" /\ d[k].machine = c[k].machine
           /\ d[k].boards = c[k].boards /\ d[k].power = c[k].power
  PROVE  AsAskedIn(b, d, on)
  BY DEF AsAskedIn

\* What is at the head of the queue of a thread that reports.
LEMMA HeadFacts ==
  ASSUME AInv, NEW c, Reports(c)
  PROVE  /\ c \in DOMAIN bmps /\ Len(bmps[c].queue) \in Nat \ {0}
         /\ bmps[c].queue[1].job = JobOf(c)
         /\ \A b, m, j, B, on : Asked(b, m, j, B, on) => b[c].queue[1].job = JobOf(c)
<1>1. c \in DOMAIN bmps /\ bmps[c].queue # <<>>
  BY ReporterBusy DEF HasWork
<1>2. bmps[c].queue \in Seq(RequestsType) /\ Len(bmps[c].queue) \in Nat \ {0}
  BY <1>1, BmpRecord, EmptySeq DEF AInv
<1>3. bmps[c].queue[1].job = JobOf(c)
  BY <1>2 DEF JobOf
<1>4. ASSUME NEW b, NEW m, NEW j, NEW B, NEW on, Asked(b, m, j, B, on)
      PROVE  b[c].queue[1] = bmps[c].queue[1]
  BY <1>1, <1>2, <1>4 DEF Asked
<1> QED BY <1>1, <1>2, <1>3, <1>4

\* A thread at work switches boards of its frame only.
LEMMA WorksPower ==
  ASSUME AInv, ThreadsPlaced, NEW c, Works(c)
  PROVE  /\ c \in DOMAIN bmps /\ bmps[c].after = {} /\ Len(bmps[c].queue) \in Nat \ {0}
         /\ \A x : (x \in powered' <=> x \in powered)
                   \/ (x \in bmps[c].queue[1].boards /\ FrameOf[x] = c[1])
         /\ bmps'[c].result = "ok" =>
              \A x \in bmps[c].queue[1].boards : x \in powered' <=> bmps[c].queue[1].on
<1>1. /\ c \in DOMAIN bmps /\ bmps[c].after = {} /\ bmps[c].queue # <<>>
      /\ bmps[c].result = "none"
  BY DEF Works, AtWork
<1>2. /\ bmps[c].queue \in Seq(RequestsType) /\ Len(bmps[c].queue) \in Nat \ {0}
      /\ bmps[c] \in BmpType
  BY <1>1, BmpRecord, EmptySeq DEF AInv
<1>3. Head(bmps[c].queue) = bmps[c].queue[1] /\ bmps[c].queue[1] \in RequestsType
  BY <1>2, ElementOfSeq
<1>4. \A x \in bmps[c].queue[1].boards : FrameOf[x] = c[1]
  BY <1>1, <1>2 DEF ThreadsPlaced, InFrame
<1>5. ASSUME NEW B, powered' = Switched(c, B)
      PROVE  \A x : (x \in powered' <=> x \in powered)
                    \/ (x \in bmps[c].queue[1].boards /\ FrameOf[x] = c[1])
  BY <1>3, <1>4, <1>5 DEF Switched
<1>6. \/ \E B : powered' = Switched(c, B) \/ powered' = powered
  BY DEF Works, Switch, Succeed, Fail
<1>7. ASSUME bmps'[c].result = "ok"
      PROVE  \A x \in bmps[c].queue[1].boards : x \in powered' <=> bmps[c].queue[1].on
  <2>1. CASE Succeed(c)
    <3>1. powered' = Switched(c, Board)
      BY <2>1 DEF Succeed
    <3>2. bmps[c].queue[1].boards \subseteq Board /\ bmps[c].queue[1].on \in BOOLEAN
      BY <1>3 DEF RequestsType
    <3> QED BY <1>3, <3>1, <3>2 DEF Switched
  <2>2. CASE Switch(c)
    BY <1>1, <1>7, <2>2 DEF Switch
  <2>3. CASE Fail(c)
    <3>1. bmps'[c] = [bmps[c] EXCEPT !.result = "failed"]
      BY <1>1, <2>3 DEF Fail
    <3>2. bmps'[c].result = "failed"
      BY <1>2, <3>1 DEF BmpType
    <3> QED BY <1>7, <3>2
  <2> QED BY <2>1, <2>2, <2>3 DEF Works
<1> QED BY <1>1, <1>2, <1>5, <1>6, <1>7

PInv == ResultDone /\ PowerAsAsked

LEMMA CalmPower ==
  ASSUME Ledger, OneMasterPerFrame, PInv, CalmStep
  PROVE  AsAskedIn(bmps', cjobs', powered') /\ DoneIn(bmps', powered')
<1> DEFINE Goal == AsAskedIn(bmps', cjobs', powered') /\ DoneIn(bmps', powered')
<1>0. /\ AInv /\ ThreadsPlaced /\ InFrame(bmps) /\ OwnerHasLastWord /\ PowerAsAsked /\ ResultDone
      /\ LastWordIn(bmps, cjobs) /\ AsAskedIn(bmps, cjobs, powered) /\ DoneIn(bmps, powered)
  BY LastWordMeans DEF Ledger, ThreadsPlaced, PInv, PowerAsAsked, ResultDone
<1>1. ASSUME Silent
      PROVE  Goal
  <2>1. AsAskedIn(bmps, cjobs', powered)
    BY <1>0, <1>1, SameAsked DEF Silent, SameWishes
  <2> QED BY <1>0, <1>1, <2>1 DEF Silent
<1>2. ASSUME NEW j, NEW m, NEW B, NEW on \in BOOLEAN, Asks(j, m, B, on)
      PROVE  Goal
  BY <1>0, <1>2, AskedPower DEF Asks
<1>3. ASSUME NEW c \in BmpId, ReportsBack(c)
      PROVE  Goal
  <2>1. /\ Reports(c) /\ Reported(bmps, c, bmps') /\ powered' = powered
        /\ bmps[c].result = "ok" \/ JobOf(c) \notin DOMAIN cjobs
        /\ JobOf(c) \in DOMAIN cjobs' => JobOf(c) \in DOMAIN cjobs
    BY <1>3 DEF ReportsBack
  <2>2. LastWordIn(bmps, cjobs') /\ AsAskedIn(bmps, cjobs', powered)
    BY <1>0, <1>3, SameLastWord, SameAsked, ReportsBackJobs
  <2>3. bmps[c].after = {}
    BY <1>0, <2>1 DEF ThreadsPlaced, WorksAlone, Reports
  <2>4. bmps[c].queue[1].job = JobOf(c)
    BY <1>0, <2>1, HeadFacts
  <2> QED BY <1>0, <2>1, <2>2, <2>3, <2>4, ReportedPower
<1>4. ASSUME NEW c \in BmpId, NEW m, NEW B, NEW b, FailsJob(c, m, B, b)
      PROVE  Goal
  <2>0. PICK off \in BOOLEAN : off = FALSE
    OBVIOUS
  <2>1. /\ Reports(c) /\ AsksFor(JobOf(c), m, B, off, b) /\ Reported(b, c, bmps')
        /\ JobOf(c) \notin DOMAIN cjobs' /\ Asked(b, m, JobOf(c), B, off)
    BY <1>4, <2>0 DEF FailsJob, AsksFor
  <2>2. LastWordIn(b, cjobs')
    BY <1>0, <2>1, AskedLastWord
  <2>3. AsAskedIn(b, cjobs', powered') /\ DoneIn(b, powered')
    BY <1>0, <2>1, AskedPower
  <2>4. b[c].queue[1].job = JobOf(c)
    BY <1>0, <2>1, HeadFacts
  <2> QED BY <2>1, <2>2, <2>3, <2>4, ReportedPower
<1>5. ASSUME NEW c \in BmpId, Works(c)
      PROVE  Goal
  <2>1. /\ c \in DOMAIN bmps /\ bmps[c].after = {} /\ Len(bmps[c].queue) \in Nat \ {0}
        /\ \A x : (x \in powered' <=> x \in powered)
                  \/ (x \in bmps[c].queue[1].boards /\ FrameOf[x] = c[1])
        /\ bmps'[c].result = "ok" =>
             \A x \in bmps[c].queue[1].boards : x \in powered' <=> bmps[c].queue[1].on
    BY <1>0, <1>5, WorksPower
  <2>2. /\ DOMAIN bmps' = DOMAIN bmps /\ cjobs' = cjobs
        /\ \A d \in DOMAIN bmps :
              /\ bmps'[d].queue = bmps[d].queue /\ bmps'[d].machine = bmps[d].machine
              /\ bmps'[d].after = bmps[d].after
              /\ d # c => bmps'[d].result = bmps[d].result
    BY <1>0, <1>5, WorksFacts DEF Works
  <2>3. \A d \in DOMAIN bmps : d # c /\ bmps[d].after = {} => d[1] # c[1]
    BY <2>1 DEF OneMasterPerFrame
  <2>4. ASSUME NEW k \in DOMAIN cjobs, NEW d \in DOMAIN bmps,
               cjobs[k].state # "queued", bmps[d].machine = cjobs[k].machine,
               NEW x \in cjobs[k].boards, FrameOf[x] = d[1],
               \A i \in 1 .. Len(bmps[d].queue) : x \notin bmps[d].queue[i].boards
        PROVE  bmps[d].after = {} /\ (x \in powered' <=> cjobs[k].power = "on")
    <3>1. bmps[d].after = {} /\ (x \in powered <=> cjobs[k].power = "on")
      BY <1>0, <2>4 DEF AsAskedIn
    <3>2. CASE d = c
      <4>1. x \notin bmps[c].queue[1].boards
        BY <2>1, <2>4, <3>2
      <4> QED BY <2>1, <3>1, <4>1
    <3>3. CASE d # c
      <4>1. FrameOf[x] # c[1]
        BY <2>3, <2>4, <3>1, <3>3
      <4> QED BY <2>1, <3>1, <4>1
    <3> QED BY <3>2, <3>3
  <2>5. ASSUME NEW d \in DOMAIN bmps, bmps'[d].result = "ok"
        PROVE  \A x \in bmps[d].queue[1].boards : x \in powered' <=> bmps[d].queue[1].on
    <3>1. CASE d = c
      BY <2>1, <2>5, <3>1
    <3>2. CASE d # c
      <4>1. bmps[d].result = "ok"
        BY <2>2, <2>5, <3>2
      <4>2. bmps[d].after = {} /\ bmps[d].queue # <<>>
        BY <1>0, <4>1 DEF ThreadsPlaced, WorksAlone, AInv, BmpTable
      <4>3. d[1] # c[1]
        BY <2>3, <3>2, <4>2
      <4>4. 1 \in 1 .. Len(bmps[d].queue)
        <5>1. Len(bmps[d].queue) \in Nat \ {0}
          BY <1>0, <4>2, BmpRecord, EmptySeq DEF AInv
        <5> QED BY <5>1
      <4>5. \A x \in bmps[d].queue[1].boards : FrameOf[x] = d[1]
        BY <1>0, <4>4 DEF InFrame
      <4>6. \A x \in bmps[d].queue[1].boards : x \in powered' <=> x \in powered
        BY <2>1, <4>3, <4>5
      <4> QED BY <1>0, <4>1, <4>6 DEF DoneIn
    <3> QED BY <3>1, <3>2
  <2> QED BY <2>2, <2>4, <2>5 DEF AsAskedIn, DoneIn
<1> QED BY <1>1, <1>2, <1>3, <1>4, <1>5 DEF CalmStep

LEMMA ThreadsPower ==
  ASSUME Ledger, PInv, ThreadsChange
  PROVE  AsAskedIn(bmps', cjobs', powered') /\ DoneIn(bmps', powered')
<1>0. /\ AInv /\ AsAskedIn(bmps, cjobs, powered) /\ DoneIn(bmps, powered)
      /\ cjobs' = cjobs /\ powered' = powered
  BY DEF Ledger, PInv, ResultDone, PowerAsAsked, ThreadsChange
<1>1. ASSUME NEW c \in DOMAIN bmps'
      PROVE  \/ /\ c \in DOMAIN bmps /\ bmps'[c].queue = bmps[c].queue
                /\ bmps'[c].result = bmps[c].result /\ bmps'[c].after \subseteq bmps[c].after
                /\ bmps'[c].machine \in {bmps[c].machine, NoMachine}
             \/ /\ bmps'[c].result = "none"
                /\ bmps'[c].machine \notin DOMAIN machines
  <2>1. CASE \E d \in BmpId : ThreadEnds(d)
    BY <1>0, <2>1, ThreadEndsLoosens DEF Loosened
  <2>2. CASE \E j \in JobId : UpdateFails(j)
    BY <1>0, <2>2, UpdateFailsLoosens DEF Loosened
  <2>3. CASE \E m \in Machine : UpdateRemovesMachine(m)
    BY <1>0, <2>3, RemovesLoosens DEF Loosened
  <2>4. CASE UpdateEnds
    BY <1>0, <2>4, UpdateEndsBmps DEF OldBmps, NewBmps, NewBmp, Arriving
  <2> QED BY <2>1, <2>2, <2>3, <2>4 DEF ThreadsChange
<1>2. \A j \in DOMAIN cjobs : cjobs[j].state # "queued" =>
        cjobs[j].machine # NoMachine /\ cjobs[j].machine \in DOMAIN machines
  BY <1>0, MachineAssumption DEF AInv, JobsAgree, QInv, JobsPlaced, HoldsBoards, QTypeOK
<1>3. ASSUME NEW j \in DOMAIN cjobs, NEW c \in DOMAIN bmps',
             cjobs[j].state # "queued", bmps'[c].machine = cjobs[j].machine
      PROVE  /\ c \in DOMAIN bmps /\ bmps'[c].queue = bmps[c].queue
             /\ bmps'[c].after \subseteq bmps[c].after /\ bmps[c].machine = cjobs[j].machine
  BY <1>1, <1>2, <1>3
<1>4. AsAskedIn(bmps', cjobs', powered')
  <2> SUFFICES ASSUME NEW j \in DOMAIN cjobs, NEW c \in DOMAIN bmps',
                      cjobs[j].state # "queued", bmps'[c].machine = cjobs[j].machine,
                      NEW x \in cjobs[j].boards, FrameOf[x] = c[1],
                      \A i \in 1 .. Len(bmps'[c].queue) : x \notin bmps'[c].queue[i].boards
               PROVE  bmps'[c].after = {} /\ (x \in powered <=> cjobs[j].power = "on")
    BY <1>0 DEF AsAskedIn
  <2>1. /\ c \in DOMAIN bmps /\ bmps'[c].queue = bmps[c].queue
        /\ bmps'[c].after \subseteq bmps[c].after /\ bmps[c].machine = cjobs[j].machine
    BY <1>3
  <2>2. bmps[c].after = {} /\ (x \in powered <=> cjobs[j].power = "on")
    BY <1>0, <2>1 DEF AsAskedIn
  <2> QED BY <2>1, <2>2
<1>5. DoneIn(bmps', powered')
  BY <1>0, <1>1 DEF DoneIn
<1> QED BY <1>4, <1>5

\* What a ready job asked for was done, and nothing was done to its boards since.
LEMMA AllDoneAsAsked ==
  ASSUME Ledger, PInv
  PROVE  ReadyMeansPowered
<1> SUFFICES ASSUME NEW j \in DOMAIN cjobs, cjobs[j].state = "ready", NEW x \in cjobs[j].boards
             PROVE  x \in powered <=> cjobs[j].power = "on"
  BY DEF ReadyMeansPowered
<1>0. AInv /\ FramesServed /\ Counted /\ ReadyCounted /\ OwnerHasLastWord
  BY DEF Ledger
<1>1. /\ j \in DOMAIN jobs /\ HoldsBoards(j) /\ j \in JobId
      /\ cjobs[j].machine = jobs[j].machine /\ cjobs[j].boards = jobs[j].boards
  BY <1>0 DEF AInv, JobsAgree, HoldsBoards, CJobsTyped
<1>2. cjobs[j].machine \in DOMAIN machines /\ x \in machines[cjobs[j].machine].boards
  BY <1>0, <1>1 DEF AInv, QInv, JobsPlaced
<1>3. FrameOf[x] \in FramesOf(machines[cjobs[j].machine].boards)
  BY <1>2 DEF FramesOf
<1>4. PICK c \in DOMAIN bmps : c[1] = FrameOf[x] /\ bmps[c].machine = cjobs[j].machine
  BY <1>0, <1>2, <1>3 DEF FramesServed
<1>5. HasRequests(bmps, j, 0)
  BY <1>0, <1>1 DEF Counted, ReadyCounted
<1>6. OutstandingIn(bmps, j) = {}
  BY <1>5, FS_EmptySet DEF HasRequests
<1>7. \A i \in 1 .. Len(bmps[c].queue) : x \notin bmps[c].queue[i].boards
  <2> SUFFICES ASSUME NEW i \in 1 .. Len(bmps[c].queue), x \in bmps[c].queue[i].boards
               PROVE  FALSE
    OBVIOUS
  <2>1. PICK k \in i .. Len(bmps[c].queue) : bmps[c].queue[k].job = j
    BY <1>0, <1>4 DEF OwnerHasLastWord
  <2>2. k \in 1 .. Len(bmps[c].queue)
    OBVIOUS
  <2>3. <<c, k>> \in OutstandingIn(bmps, j)
    BY <2>1, <2>2, OutstandingMeans
  <2> QED BY <1>6, <2>3
<1> QED BY <1>4, <1>7 DEF PInv, PowerAsAsked, AsAskedIn

\* As long as no two threads are free to command one frame, a job told that it is
\* ready has each of its boards in the state it last asked for: no request of an
\* earlier user or of an earlier moment overtook that one.
THEOREM ReadyIsPowered == Spec /\ []OneMasterPerFrame => []ReadyMeansPowered
<1>1. Init => PInv
  <2> SUFFICES ASSUME Init
               PROVE  PInv
    OBVIOUS
  <2>1. DOMAIN cjobs = {} /\ FreshIn(bmps)
    BY InitFresh DEF Init
  <2> QED BY <2>1 DEF PInv, ResultDone, DoneIn, PowerAsAsked, AsAskedIn, FreshIn, NewBmp
<1>2. PInv /\ CInv /\ CInv' /\ OneMasterPerFrame /\ [Next]_vars => PInv'
  <2> SUFFICES ASSUME PInv, CInv, CInv', OneMasterPerFrame, [Next]_vars
               PROVE  PInv'
    OBVIOUS
  <2>1. CalmStep \/ ThreadsChange
    BY StepCases DEF CInv, Ledger
  <2>2. AsAskedIn(bmps', cjobs', powered') /\ DoneIn(bmps', powered')
    BY <2>1, CalmPower, ThreadsPower DEF CInv
  <2> QED BY <2>2 DEF PInv, ResultDone, PowerAsAsked, AsAskedIn, DoneIn
<1>3. CInv /\ PInv => ReadyMeansPowered
  BY AllDoneAsAsked DEF CInv
<1> QED BY <1>1, <1>2, <1>3, CInvHolds, PTL DEF Spec

-----------------------------------------------------------------------------
(* One thread commands a frame.                                            *)

\* No configuration leaves a frame without a machine.
AllFramesUsed ==
  \A c \in Config : \A f \in Frame : \E m \in Names(c) : f \in FramesOf(c.desc[m].boards)

\* Every frame has a thread in service, or one that the update under way will stop.
Covered ==
  \A f \in Frame : \E c \in DOMAIN bmps :
    c[1] = f /\ (bmps[c].machine # NoMachine \/ bmps[c].stop = "due")

\* The threads of a frame came one after the other, in the order of their ranks:
\* those that have a successor are told to stop, and the successor waits for one
\* that came no earlier than they did, for as long as they are there.
RankedIn(b, r) ==
  \A c, d \in DOMAIN b : c[1] = d[1] =>
    /\ r[c] = r[d] => c = d
    /\ r[c] < r[d] =>
         /\ b[c].stop = "told"
         /\ \E e \in b[d].after :
              e \in DOMAIN b /\ e[1] = d[1] /\ r[c] <= r[e] /\ r[e] < r[d]

Chain == \E n \in Nat : \E r \in [BmpId -> 0 .. n] : RankedIn(bmps, r)

OInv == Covered /\ Chain

LEMMA InitOInv ==
  ASSUME AllFramesUsed, Init
  PROVE  OInv
<1>1. FreshIn(bmps) /\ QTypeOK
  BY InitFresh, InitAInv DEF AInv, QInv
<1>2. \A c \in DOMAIN bmps : bmps[c].machine \in DOMAIN machines
  BY <1>1 DEF FreshIn, NewBmp
<1>3. \A m \in DOMAIN machines : m # NoMachine
  BY <1>1, MachineAssumption DEF QTypeOK
<1>4. Covered
  <2>1. PICK cfg \in Config : machines = [m \in Names(cfg) |-> NewMachine(cfg.desc[m])]
    BY DEF Init, QInit
  <2>2. \A m \in Names(cfg) : m \in DOMAIN machines /\ machines[m].boards = cfg.desc[m].boards
    BY <2>1 DEF NewMachine
  <2>3. ASSUME NEW f \in Frame
        PROVE  \E c \in DOMAIN bmps : c[1] = f /\ bmps[c].machine # NoMachine
    <3>1. PICK m \in Names(cfg) : f \in FramesOf(cfg.desc[m].boards)
      BY DEF AllFramesUsed
    <3> QED BY <1>1, <1>3, <2>2, <3>1 DEF FreshIn, FramesServed
  <2> QED BY <2>3 DEF Covered
<1>5. Chain
  <2>1. PICK r \in [BmpId -> 0 .. 0] : r = [c \in BmpId |-> 0]
    <3>1. 0 \in 0 .. 0
      OBVIOUS
    <3> QED BY <3>1
  <2>2. DOMAIN bmps \subseteq BmpId
    BY InitAInv DEF AInv, BmpTable
  <2>3. \A c, d \in DOMAIN bmps : c[1] = d[1] => c = d /\ r[c] = 0 /\ r[d] = 0
    BY <1>1, <2>1, <2>2 DEF FreshIn
  <2>4. RankedIn(bmps, r)
    BY <2>3 DEF RankedIn
  <2> QED BY <2>4 DEF Chain
<1> QED BY <1>4, <1>5 DEF OInv

LEMMA CalmOInv ==
  ASSUME AInv, OInv, CalmStep
  PROVE  OInv'
<1>1. SameThreads(bmps, bmps')
  BY CalmThreads
<1>2. Covered'
  BY <1>1 DEF OInv, Covered, SameThreads
<1>n. PICK n \in Nat : \E r \in [BmpId -> 0 .. n] : RankedIn(bmps, r)
  BY DEF OInv, Chain
<1>3. PICK r \in [BmpId -> 0 .. n] : RankedIn(bmps, r)
  BY <1>n
<1>4. RankedIn(bmps', r)
  BY <1>1, <1>3 DEF RankedIn, SameThreads
<1> QED BY <1>2, <1>3, <1>4 DEF OInv, Chain

LEMMA ThreadEndsOInv ==
  ASSUME AInv, OInv, NEW c, ThreadEnds(c), bmps[c].machine = NoMachine
  PROVE  OInv'
<1>1. /\ c \in DOMAIN bmps /\ bmps[c].stop = "told" /\ bmps[c].after = {}
      /\ DOMAIN bmps' = DOMAIN bmps \ {c}
  BY DEF ThreadEnds
<1>2. /\ \A d \in DOMAIN bmps' :
           /\ bmps'[d].machine = bmps[d].machine /\ bmps'[d].stop = bmps[d].stop
           /\ \A e \in DOMAIN bmps' : e \in bmps[d].after => e \in bmps'[d].after
  BY ThreadEndsLoosens DEF Loosened
<1>4. Covered'
  BY <1>1, <1>2 DEF OInv, Covered
<1>n. PICK n \in Nat : \E r \in [BmpId -> 0 .. n] : RankedIn(bmps, r)
  BY DEF OInv, Chain
<1>5. PICK r \in [BmpId -> 0 .. n] : RankedIn(bmps, r)
  BY <1>n
<1>6. \A d \in DOMAIN bmps : r[d] \in Nat
  BY DEF AInv, BmpTable
<1>7. ASSUME NEW a \in DOMAIN bmps', NEW d \in DOMAIN bmps', a[1] = d[1], r[a] < r[d]
      PROVE  \E e \in bmps'[d].after :
               e \in DOMAIN bmps' /\ e[1] = d[1] /\ r[a] <= r[e] /\ r[e] < r[d]
  <2>1. a \in DOMAIN bmps /\ d \in DOMAIN bmps /\ a # c
    BY <1>1
  <2>2. PICK e \in bmps[d].after :
          e \in DOMAIN bmps /\ e[1] = d[1] /\ r[a] <= r[e] /\ r[e] < r[d]
    BY <1>5, <1>7, <2>1 DEF RankedIn
  <2>3. e # c
    <3> SUFFICES ASSUME e = c
                 PROVE  FALSE
      OBVIOUS
    <3>1. r[a] # r[c] /\ a[1] = c[1]
      BY <1>1, <1>5, <1>7, <2>1, <2>2 DEF RankedIn
    <3>2. r[a] < r[c]
      BY <1>6, <2>1, <2>2, <3>1
    <3>3. \E x \in bmps[c].after : TRUE
      BY <1>1, <1>5, <2>1, <3>1, <3>2 DEF RankedIn
    <3> QED BY <1>1, <3>3
  <2>4. e \in DOMAIN bmps' /\ e \in bmps'[d].after
    BY <1>1, <1>2, <2>2, <2>3
  <2> QED BY <2>2, <2>4
<1>8. RankedIn(bmps', r)
  <2>1. ASSUME NEW a \in DOMAIN bmps', NEW d \in DOMAIN bmps', a[1] = d[1]
        PROVE  /\ r[a] = r[d] => a = d
               /\ r[a] < r[d] => bmps'[a].stop = "told"
    BY <1>1, <1>2, <1>5, <2>1 DEF RankedIn
  <2> QED BY <1>7, <2>1 DEF RankedIn
<1> QED BY <1>4, <1>5, <1>8 DEF OInv, Chain

LEMMA RemovesOInv ==
  ASSUME AInv, Unstopped, OInv, NEW m \in Machine, UpdateRemovesMachine(m)
  PROVE  OInv'
<1>1. /\ DOMAIN bmps' = DOMAIN bmps
      /\ \A d \in DOMAIN bmps' :
           IF bmps[d].machine = m
           THEN bmps'[d].machine = NoMachine /\ bmps'[d].stop = "due"
           ELSE bmps'[d].machine = bmps[d].machine /\ bmps'[d].stop = bmps[d].stop
      /\ \A d \in DOMAIN bmps' : \A e \in DOMAIN bmps' :
           e \in bmps[d].after => e \in bmps'[d].after
  BY RemovesLoosens DEF Loosened
<1>2. \A d \in DOMAIN bmps : bmps[d].stop = "told" => bmps'[d].stop = "told"
  BY <1>1, MachineAssumption DEF Unstopped
<1>3. Covered'
  BY <1>1 DEF OInv, Covered
<1>n. PICK n \in Nat : \E r \in [BmpId -> 0 .. n] : RankedIn(bmps, r)
  BY DEF OInv, Chain
<1>4. PICK r \in [BmpId -> 0 .. n] : RankedIn(bmps, r)
  BY <1>n
<1>5. RankedIn(bmps', r)
  BY <1>1, <1>2, <1>4 DEF RankedIn
<1> QED BY <1>3, <1>4, <1>5 DEF OInv, Chain

\* The threads started last in a frame wait for the one that commanded it, which
\* itself waits, if at all, for all the others.
LEMMA UpdateEndsOInv ==
  ASSUME AllFramesUsed, AInv, ThreadsPlaced, FramesServed', OInv, UpdateEnds
  PROVE  OInv'
<1>0. OldBmps /\ NewBmps /\ MachinesSwapped
  BY UpdateEndsBmps, UpdateEndsMachines
<1>1. DOMAIN bmps \subseteq BmpId /\ \A m \in Names(target) : m # NoMachine
  <2>1. target.order \in Seq(Machine)
    BY <1>0, ConfigAssumption DEF MachinesSwapped
  <2> QED BY <2>1, ElementOfSeq, MachineAssumption DEF Names, AInv, BmpTable
<1>2. Covered'
  <2> SUFFICES ASSUME NEW f \in Frame
               PROVE  \E c \in DOMAIN bmps' : c[1] = f /\ bmps'[c].machine # NoMachine
    BY DEF Covered
  <2>1. PICK m \in Names(target) : f \in FramesOf(target.desc[m].boards)
    BY <1>0 DEF AllFramesUsed, MachinesSwapped
  <2>2. m \in DOMAIN machines' /\ f \in FramesOf(machines'[m].boards)
    BY <1>0, <2>1 DEF MachinesSwapped
  <2> QED BY <1>1, <2>1, <2>2 DEF FramesServed
<1>n. PICK n \in Nat : \E r \in [BmpId -> 0 .. n] : RankedIn(bmps, r)
  BY DEF OInv, Chain
<1>3. PICK r \in [BmpId -> 0 .. n] : RankedIn(bmps, r)
  BY <1>n
<1>4. \A c \in DOMAIN bmps : r[c] \in 0 .. n /\ r[c] \in Nat
  BY <1>1
<1>5. PICK t \in [BmpId -> 0 .. n + 1] :
        t = [c \in BmpId |-> IF c \in DOMAIN bmps THEN r[c] ELSE n + 1]
  <2>1. \A c \in BmpId : (IF c \in DOMAIN bmps THEN r[c] ELSE n + 1) \in 0 .. n + 1
    BY <1>4
  <2> QED BY <2>1
<1>6. DOMAIN bmps' \subseteq BmpId
  BY UpdateEndsStep DEF StepKept, BmpTable
<1>7. \A c \in DOMAIN bmps' : t[c] = IF c \in DOMAIN bmps THEN r[c] ELSE n + 1
  BY <1>5, <1>6
<1>8. ASSUME NEW c \in DOMAIN bmps, NEW d \in DOMAIN bmps' \ DOMAIN bmps, c[1] = d[1]
      PROVE  /\ bmps'[c].stop = "told"
             /\ \E e \in bmps'[d].after : e \in DOMAIN bmps /\ e[1] = d[1] /\ r[c] <= r[e]
  <2>1. PICK m \in Arriving :
          bmps'[d] = NewBmp(m, Due) /\ d[1] \in FramesOf(target.desc[m].boards) /\ d[1] \in Frame
    BY <1>0, <1>8 DEF NewBmps
  <2>2. PICK e \in DOMAIN bmps :
          e[1] = d[1] /\ (bmps[e].machine # NoMachine \/ bmps[e].stop = "due")
    BY <2>1 DEF OInv, Covered
  <2>3. e \in Due
    <3> SUFFICES ASSUME bmps[e].machine # NoMachine
                 PROVE  FALSE
      BY <2>2 DEF Due
    <3>1. /\ bmps[e].machine \in DOMAIN machines
          /\ d[1] \in FramesOf(machines[bmps[e].machine].boards)
      BY <2>2 DEF ThreadsPlaced, Serving
    <3>2. /\ bmps[e].machine \in Names(target) /\ target \in Config
          /\ d[1] \in FramesOf(target.desc[bmps[e].machine].boards)
      BY <1>0, <3>1 DEF MachinesSwapped
    <3>3. m \in Names(target) /\ m \notin DOMAIN machines
      BY DEF Arriving
    <3> QED BY <2>1, <3>1, <3>2, <3>3, FrameOfOneMachine
  <2>4. ~(r[e] < r[c])
    BY <1>3, <1>8, <2>2, <2>3 DEF RankedIn, Due
  <2>5. r[c] <= r[e]
    BY <1>4, <2>4
  <2>6. bmps[c].stop \in {"due", "told"}
    <3>1. CASE c = e
      BY <2>3, <3>1 DEF Due
    <3>2. CASE c # e
      <4>1. r[c] # r[e]
        BY <1>3, <1>8, <2>2, <3>2 DEF RankedIn
      <4>2. r[c] < r[e]
        BY <1>4, <2>5, <4>1
      <4> QED BY <1>3, <1>8, <2>2, <4>2 DEF RankedIn
    <3> QED BY <3>1, <3>2
  <2>7. bmps'[c].stop = "told"
    BY <1>0, <2>6 DEF OldBmps
  <2>8. e \in bmps'[d].after
    BY <2>1, <2>3 DEF NewBmp
  <2> QED BY <2>2, <2>5, <2>7, <2>8
<1>9. ASSUME NEW c \in DOMAIN bmps', NEW d \in DOMAIN bmps', c[1] = d[1]
      PROVE  /\ t[c] = t[d] => c = d
             /\ t[c] < t[d] =>
                  /\ bmps'[c].stop = "told"
                  /\ \E e \in bmps'[d].after :
                       e \in DOMAIN bmps' /\ e[1] = d[1] /\ t[c] <= t[e] /\ t[e] < t[d]
  <2>0. \A e \in DOMAIN bmps : e \in DOMAIN bmps'
    BY <1>0 DEF OldBmps
  <2>1. CASE c \in DOMAIN bmps /\ d \in DOMAIN bmps
    <3>1. t[c] = r[c] /\ t[d] = r[d] /\ \A e \in DOMAIN bmps : t[e] = r[e]
      BY <1>7, <2>0, <2>1
    <3>2. /\ r[c] = r[d] => c = d
          /\ r[c] < r[d] =>
               /\ bmps[c].stop = "told"
               /\ \E e \in bmps[d].after :
                    e \in DOMAIN bmps /\ e[1] = d[1] /\ r[c] <= r[e] /\ r[e] < r[d]
      BY <1>3, <1>9, <2>1 DEF RankedIn
    <3>3. /\ bmps'[d].after = bmps[d].after
          /\ bmps[c].stop = "told" => bmps'[c].stop = "told"
      BY <1>0, <2>1 DEF OldBmps
    <3> QED BY <2>0, <3>1, <3>2, <3>3
  <2>2. CASE c \notin DOMAIN bmps /\ d \in DOMAIN bmps
    <3>1. t[c] = n + 1 /\ t[d] = r[d] /\ r[d] \in 0 .. n
      BY <1>4, <1>7, <2>2
    <3> QED BY <3>1
  <2>3. CASE c \notin DOMAIN bmps /\ d \notin DOMAIN bmps
    <3>1. c = d /\ t[c] = n + 1
      BY <1>0, <1>7, <1>9, <2>3 DEF NewBmps
    <3> QED BY <3>1
  <2>4. CASE c \in DOMAIN bmps /\ d \notin DOMAIN bmps
    <3>1. t[c] = r[c] /\ t[d] = n + 1 /\ r[c] \in 0 .. n
      BY <1>4, <1>7, <2>4
    <3>2. bmps'[c].stop = "told"
      BY <1>8, <1>9, <2>4
    <3>3. PICK e \in bmps'[d].after : e \in DOMAIN bmps /\ e[1] = d[1] /\ r[c] <= r[e]
      BY <1>8, <1>9, <2>4
    <3>4. e \in DOMAIN bmps' /\ t[e] = r[e] /\ r[e] \in 0 .. n
      BY <1>4, <1>7, <2>0, <3>3
    <3>5. t[c] <= t[e] /\ t[e] < t[d]
      BY <3>1, <3>3, <3>4
    <3> QED BY <3>1, <3>2, <3>3, <3>4, <3>5
  <2> QED BY <2>1, <2>2, <2>3, <2>4
<1>10. RankedIn(bmps', t)
  BY <1>9 DEF RankedIn
<1>11. Chain'
  <2>1. n + 1 \in Nat
    OBVIOUS
  <2> QED BY <1>5, <1>10, <2>1 DEF Chain
<1> QED BY <1>2, <1>11 DEF OInv

\* Of two threads of a frame the later waits, and is the one in service if one is.
LEMMA RanksKeepOrder ==
  ASSUME AInv, OInv
  PROVE  OneMasterPerFrame /\ (Unstopped => RemovedShutDownFirst)
<1>n. PICK n \in Nat : \E r \in [BmpId -> 0 .. n] : RankedIn(bmps, r)
  BY DEF OInv, Chain
<1>1. PICK r \in [BmpId -> 0 .. n] : RankedIn(bmps, r)
  BY <1>n
<1>2. \A c \in DOMAIN bmps : r[c] \in Nat
  BY DEF AInv, BmpTable
<1>3. ASSUME NEW c \in DOMAIN bmps, NEW d \in DOMAIN bmps, c[1] = d[1], r[c] < r[d]
      PROVE  bmps[c].stop = "told" /\ bmps[d].after # {}
  BY <1>1, <1>3 DEF RankedIn
<1>4. ASSUME NEW c \in DOMAIN bmps, NEW d \in DOMAIN bmps, c[1] = d[1], c # d
      PROVE  r[c] < r[d] \/ r[d] < r[c]
  <2>1. r[c] # r[d]
    BY <1>1, <1>4 DEF RankedIn
  <2> QED BY <1>2, <2>1
<1>5. OneMasterPerFrame
  BY <1>3, <1>4 DEF OneMasterPerFrame
<1>6. Unstopped => RemovedShutDownFirst
  BY <1>3, <1>4 DEF RemovedShutDownFirst, Unstopped
<1> QED BY <1>5, <1>6

\* "All new BMPControllers must wait for all the old controllers to shut-down first":
\* so they do, through any number of updates that overtake their threads, as long as
\* every configuration has a machine in every frame and no update is abandoned.
THEOREM OneMaster ==
  ASSUME AllFramesUsed
  PROVE  Spec /\ [](fault # "KeyError") => [](OneMasterPerFrame /\ RemovedShutDownFirst)
<1>1. Init => OInv
  BY InitOInv
<1>2. OInv /\ CInv /\ CInv' /\ (fault # "KeyError")' /\ [Next]_vars => OInv'
  <2> SUFFICES ASSUME OInv, CInv, CInv', (fault # "KeyError")', [Next]_vars
               PROVE  OInv'
    OBVIOUS
  <2>0. AInv /\ ThreadsPlaced /\ Unstopped /\ FramesServed'
    BY DEF CInv, Ledger
  <2>1. CalmStep \/ ThreadsChange
    BY StepCases DEF CInv, Ledger
  <2>2. ~\E j \in JobId : UpdateFails(j)
    BY DEF UpdateFails, RemoveReleasedJob
  <2>3. \A c \in BmpId : ThreadEnds(c) => bmps[c].machine = NoMachine
    BY <2>0 DEF Unstopped, ThreadEnds
  <2> QED BY <2>0, <2>1, <2>2, <2>3, CalmOInv, ThreadEndsOInv, RemovesOInv, UpdateEndsOInv
          DEF ThreadsChange
<1>3. CInv /\ OInv => OneMasterPerFrame /\ RemovedShutDownFirst
  BY RanksKeepOrder DEF CInv, Ledger
<1> QED BY <1>1, <1>2, <1>3, CInvHolds, PTL DEF Spec

\* Then a job that is ready has its boards as it asked for them.
THEOREM ReadyIsPoweredThen ==
  ASSUME AllFramesUsed
  PROVE  Spec /\ [](fault # "KeyError") => []ReadyMeansPowered
<1> QED BY OneMaster, ReadyIsPowered, PTL

-----------------------------------------------------------------------------
(* The lists the controller keeps.                                         *)

\* The parts of TypeOK that AInv does not have.
Listed ==
  /\ retired \in Seq(JobId) /\ Len(retired) <= MaxRetired
  /\ overdue \subseteq DOMAIN cjobs
  /\ sweep \in Nat
  /\ changedJobs \subseteq JobId
  /\ changedMachines \subseteq Machine
  /\ affected \subseteq Machine
  /\ powered \subseteq Board
  /\ woken \in BOOLEAN

LEMMA RetireFacts ==
  ASSUME Listed, NEW j \in JobId
  PROVE  /\ Retire(j) \in Seq(JobId) /\ Len(Retire(j)) <= MaxRetired
         /\ Len(retired) \in Nat /\ Len(Retire(j)) \in Nat
         /\ Len(Retire(j)) <= Len(retired) + 1
         /\ Len(retired) < MaxRetired => Retire(j) = Append(retired, j)
<1> DEFINE longer == Append(retired, j)
<1>1. /\ longer \in Seq(JobId) /\ Len(longer) = Len(retired) + 1 /\ Len(retired) \in Nat
      /\ longer # <<>>
  BY AppendProperties, LenProperties DEF Listed
<1>2. Retire(j) = IF Len(longer) > MaxRetired THEN Tail(longer) ELSE longer
  BY DEF Retire
<1> HIDE DEF longer
<1>3. Tail(longer) \in Seq(JobId) /\ Len(Tail(longer)) = Len(longer) - 1
  BY <1>1, HeadTailProperties
<1>4. MaxRetired \in Nat /\ Len(retired) <= MaxRetired
  BY LimitAssumption DEF Listed
<1>5. CASE Len(retired) + 1 > MaxRetired
  BY <1>1, <1>2, <1>3, <1>4, <1>5
<1>6. CASE ~(Len(retired) + 1 > MaxRetired)
  BY <1>1, <1>2, <1>3, <1>4, <1>6 DEF longer
<1> QED BY <1>5, <1>6

\* A job is retired.
LEMMA CancelLists ==
  ASSUME Listed, CJobsTyped, NEW j \in JobId, OnCancel(j)
  PROVE  /\ retired' \in Seq(JobId) /\ Len(retired') <= MaxRetired
         /\ overdue' \subseteq DOMAIN cjobs'
         /\ changedJobs' \subseteq JobId
  BY RetireFacts DEF OnCancel, Without, Listed

\* A job that runs is on a machine.
LEMMA RunsOnMachine ==
  ASSUME AInv, NEW j \in DOMAIN jobs, jobs[j].state = "running"
  PROVE  cjobs[j].machine \in Machine /\ j \in JobId
  BY RunningJob DEF AInv, QInv, QTypeOK

LEMMA DestroyLists ==
  ASSUME AInv, Listed, NEW j \in JobId, DestroyQueued(j) \/ DestroyRunning(j), sweep' \in Nat
  PROVE  Listed'
<1>1. CASE DestroyQueued(j)
  BY <1>1, CancelLists DEF DestroyQueued, AInv, Listed
<1>2. CASE DestroyRunning(j)
  BY <1>2, CancelLists, RunsOnMachine DEF DestroyRunning, OnFree, ReleaseJob, AInv, Listed
<1> QED BY <1>1, <1>2

LEMMA UsersList ==
  ASSUME AInv, Listed, Users \/ Power
  PROVE  Listed'
<1>1. ASSUME NEW r \in Request, Create(r)
      PROVE  Listed'
  BY <1>1 DEF Create, CreateJob, CanCreate, With, Listed
<1>2. ASSUME NEW r \in Request, CreateRejected(r)
      PROVE  Listed'
  BY <1>2, RetireFacts DEF CreateRejected, RejectJob, CanCreate, Listed
<1>3. ASSUME NEW j \in JobId, Destroy(j)
      PROVE  Listed'
  BY <1>3, DestroyLists DEF Destroy, Listed
<1>4. ASSUME NEW j \in JobId, Keepalive(j) \/ Lapse(j)
      PROVE  Listed'
  BY <1>4 DEF Keepalive, Lapse, Listed
<1>5. ASSUME NEW j \in JobId, NEW on \in BOOLEAN, SetPower(j, on)
      PROVE  Listed'
  BY <1>5 DEF SetPower, Listed
<1> QED BY <1>1, <1>2, <1>3, <1>4, <1>5 DEF Users, Power

LEMMA LoopLists ==
  ASSUME AInv, Listed, ServerLoop \/ Delay \/ Schedule \/ Regenerate
  PROVE  Listed'
<1>1. ASSUME StartSweep \/ EndSweep \/ ReadChanges
      PROVE  Listed'
  <2>1. CASE StartSweep \/ EndSweep
    BY <2>1 DEF StartSweep, EndSweep, Listed
  <2>2. CASE ReadChanges
    BY <2>2 DEF ReadChanges, Listed
  <2> QED BY <1>1, <2>1, <2>2
<1>2. ASSUME NEW j \in JobId, SweepJob(j)
      PROVE  Listed'
  <2>1. sweep' \in Nat
    BY <1>2, BoundAssumption DEF SweepJob, JobId
  <2> QED BY <1>2, <2>1, DestroyLists DEF SweepJob
<1>3. ASSUME UNCHANGED cvars
      PROVE  Listed'
  BY <1>3 DEF cvars, Listed
<1>4. ASSUME NEW m \in Machine, NEW j \in JobId, NEW p \in SUBSET Board, Allocate(m, j, p)
      PROVE  Listed'
  BY <1>4 DEF Allocate, Listed
<1>5. ASSUME NEW j \in JobId, CancelUnsuitable(j)
      PROVE  Listed'
  <2>1. affected' \subseteq Machine
    BY <1>5 DEF CancelUnsuitable, Listed
  <2> QED BY <1>5, <2>1, CancelLists DEF CancelUnsuitable, AInv, Listed
<1>6. ASSUME EndUpdate
      PROVE  Listed'
  BY <1>6 DEF EndUpdate, Listed
<1> QED BY <1>1, <1>2, <1>3, <1>4, <1>5, <1>6
        DEF ServerLoop, CollectFreed, Delay, Schedule, Regenerate

LEMMA BmpLists ==
  ASSUME AInv, Listed, NEW c \in BmpId, BmpThread(c)
  PROVE  Listed'
<1>1. ASSUME NEW B \in SUBSET Board, AtWork(c)
      PROVE  Switched(c, B) \subseteq Board
  BY <1>1 DEF Switched, Listed
<1>2. CASE Switch(c)
  <2>1. AtWork(c) /\ bmps[c].queue \in Seq(RequestsType) /\ bmps[c].queue # <<>>
    BY <1>2, BmpRecord DEF Switch, AtWork, AInv
  <2>2. Head(bmps[c].queue) \in RequestsType
    BY <2>1, HeadTailProperties
  <2>3. \A B \in SUBSET Head(bmps[c].queue).boards : B \in SUBSET Board
    BY <2>2 DEF RequestsType
  <2> QED BY <1>1, <1>2, <2>1, <2>3 DEF Switch, Listed
<1>3. CASE Succeed(c) \/ Fail(c)
  BY <1>1, <1>3 DEF Succeed, Fail, Listed
<1>4. CASE ReportFailure(c)
  <2>1. PICK j \in DOMAIN cjobs : j = JobOf(c)
    BY <1>4 DEF ReportFailure
  <2>2. /\ j \in JobId /\ OnFree(j) /\ j \in DOMAIN jobs /\ jobs[j].state = "running"
        /\ UNCHANGED <<sweep, affected, powered, woken>>
    BY <1>4, <2>1 DEF ReportFailure, ReleaseJob, AInv, CJobsTyped
  <2> QED BY <2>2, CancelLists, RunsOnMachine DEF OnFree, AInv, Listed
<1>5. CASE ReportProgress(c) \/ ReportFreed(c) \/ ReportForgotten(c) \/ ThreadEnds(c)
  BY <1>5 DEF ReportProgress, ReportFreed, ReportForgotten, ThreadEnds, Listed
<1>6. CASE ReportReady(c)
  <2>1. DOMAIN cjobs' = DOMAIN cjobs /\ JobOf(c) \in JobId
    BY <1>6 DEF ReportReady, AInv, CJobsTyped
  <2> QED BY <1>6, <2>1 DEF ReportReady, Listed
<1> QED BY <1>2, <1>3, <1>4, <1>5, <1>6 DEF BmpThread

LEMMA UpdateLists ==
  ASSUME AInv, Listed, Update
  PROVE  Listed'
<1>1. ASSUME NEW c \in Config, BeginUpdate(c)
      PROVE  Listed'
  <2>1. Names(c) \subseteq Machine
    <3>1. c.order \in Seq(Machine)
      BY ConfigAssumption
    <3> QED BY <3>1, ElementOfSeq DEF Names
  <2>2. Removed(c) \subseteq Machine
    BY DEF Removed, AInv, QInv, QTypeOK
  <2> QED BY <1>1, <2>1, <2>2 DEF BeginUpdate, Listed
<1>2. ASSUME NEW j \in JobId, UpdateRemovesJob(j)
      PROVE  Listed'
  <2>1. j \in DOMAIN jobs /\ jobs[j].state = "running" /\ OnFree(j)
        /\ UNCHANGED <<sweep, affected, powered, woken>>
    BY <1>2 DEF UpdateRemovesJob, RemoveJob, Removing, JobsOn
  <2> QED BY <2>1, CancelLists, RunsOnMachine DEF OnFree, AInv, Listed
<1>3. ASSUME (\E j \in JobId : UpdateFails(j))
             \/ (\E m \in Machine : UpdateRemovesMachine(m)) \/ UpdateEnds
      PROVE  Listed'
  BY <1>3 DEF UpdateFails, UpdateRemovesMachine, UpdateEnds, Listed
<1> QED BY <1>1, <1>2, <1>3 DEF Update

LEMMA NextLists ==
  ASSUME AInv, Listed, [Next]_vars
  PROVE  Listed'
<1>1. CASE UNCHANGED vars
  BY <1>1 DEF vars, cvars, Listed
<1>2. CASE Next
  BY <1>2, UsersList, LoopLists, BmpLists, UpdateLists DEF Next
<1> QED BY <1>1, <1>2

LEMMA InitListed == Init => Listed
<1> SUFFICES ASSUME Init
             PROVE  Listed
  OBVIOUS
<1>1. QTypeOK
  BY InitAInv DEF AInv, QInv
<1>2. <<>> \in Seq(JobId) /\ Len(<<>>) = 0
  BY EmptySeq
<1>3. /\ retired = <<>> /\ overdue = {} /\ sweep = 0 /\ changedJobs = {} /\ affected = {}
      /\ powered = {} /\ woken = FALSE /\ changedMachines = DOMAIN machines
  BY DEF Init
<1>4. MaxRetired \in Nat
  BY LimitAssumption
<1>5. retired \in Seq(JobId) /\ Len(retired) <= MaxRetired
  BY <1>2, <1>3, <1>4
<1>6. DOMAIN machines \subseteq Machine
  BY <1>1 DEF QTypeOK
<1> QED BY <1>3, <1>5, <1>6 DEF Listed

\* No list of the controller outgrows its limit or holds what it should not, and a
\* job whose keepalive has run out is one that the controller still has.
THEOREM TypeCorrect == Spec => []TypeOK
<1>2. AInv /\ Listed /\ [Next]_vars => Listed'
  BY NextLists
<1>3. CInv /\ Listed => TypeOK
  BY DEF CInv, Ledger, AInv, Counted, BmpTable, CJobsTyped, Listed, TypeOK
<1>4. CInv => AInv
  BY DEF CInv, Ledger
<1> QED BY <1>2, <1>3, <1>4, InitListed, CInvHolds, PTL DEF Spec

-----------------------------------------------------------------------------
(* A destroyed job is remembered until its boards are freed.               *)

\* Job j is destroyed and not freed.
Released(j) == j \in DOMAIN jobs /\ jobs[j].state = "released"

\* How the lists of jobs change: not at all, ...
Stays == retired' = retired /\ DOMAIN cjobs' = DOMAIN cjobs /\ nextId' = nextId

\* ... a job is created, ...
Joins ==
  retired' = retired /\ DOMAIN cjobs' = DOMAIN cjobs \cup {nextId} /\ nextId' = nextId + 1

\* ... it is cancelled as soon as it is created, ...
TurnedAway ==
  /\ nextId \in JobId
  /\ retired' = Retire(nextId) /\ DOMAIN cjobs' = DOMAIN cjobs /\ nextId' = nextId + 1

\* ... or job j is retired.
Leaves(j) ==
  /\ j \in DOMAIN cjobs
  /\ retired' = Retire(j) /\ DOMAIN cjobs' = DOMAIN cjobs \ {j} /\ nextId' = nextId

Moves == Stays \/ Joins \/ TurnedAway \/ \E j \in JobId : Leaves(j)

\* The last request of a destroyed job is not reported on without freeing it,
\* unless the controller has forgotten the job.
Owes(j) ==
  Released(j)' =>
    \/ /\ Released(j)
       /\ \/ count'[j] >= count[j]
          \/ count'[j] = count[j] - 1 /\ count[j] # 1
          \/ ~IsRetired(j)
    \/ Leaves(j) /\ count'[j] > 0

Owing == Moves /\ \A j \in JobId : Owes(j)

\* The jobs the controller has or remembers were all created.
Few == Len(retired) + Cardinality(DOMAIN cjobs) < nextId

\* As long as it has not had to forget any, it can free those that it destroyed.
Promise == nextId <= MaxRetired + 1 => ReleasedWillBeFreed

LEMMA FewJobs ==
  ASSUME AInv, Listed
  PROVE  /\ IsFiniteSet(DOMAIN cjobs) /\ Cardinality(DOMAIN cjobs) \in Nat
         /\ nextId \in Nat /\ Len(retired) \in Nat /\ MaxRetired \in Nat
<1>1. IsFiniteSet(JobId)
  BY FS_Interval, BoundAssumption DEF JobId
<1>2. DOMAIN cjobs \in SUBSET JobId
  BY DEF AInv, CJobsTyped
<1>3. IsFiniteSet(DOMAIN cjobs) /\ Cardinality(DOMAIN cjobs) \in Nat
  BY <1>1, <1>2, FS_Subset, FS_CardinalityType
<1>4. nextId \in Nat
  BY BoundAssumption DEF AInv, QInv, QTypeOK
<1> QED BY <1>3, <1>4, LenProperties, LimitAssumption DEF Listed

\* Nothing is forgotten while ids are at most MaxRetired.
LEMMA RetireRemembers ==
  ASSUME Listed, NEW j \in JobId, Len(retired) < MaxRetired, retired' = Retire(j)
  PROVE  IsRetired(j)' /\ \A k : IsRetired(k) => IsRetired(k)'
<1>1. retired' = Append(retired, j) /\ Len(retired) \in Nat /\ retired \in Seq(JobId)
  BY RetireFacts DEF Listed
<1>2. /\ Len(retired') = Len(retired) + 1 /\ retired'[Len(retired) + 1] = j
      /\ \A i \in 1 .. Len(retired) : retired'[i] = retired[i]
  BY <1>1, AppendProperties
<1>3. IsRetired(j)'
  BY <1>1, <1>2 DEF IsRetired
<1>4. ASSUME NEW k, IsRetired(k)
      PROVE  IsRetired(k)'
  BY <1>1, <1>2, <1>4 DEF IsRetired
<1> QED BY <1>3, <1>4

LEMMA MovesFew ==
  ASSUME AInv, AInv', Listed, Listed', Few, Moves
  PROVE  /\ Few'
         /\ nextId' <= MaxRetired + 1 =>
              /\ nextId <= MaxRetired + 1
              /\ \A j \in JobId : Leaves(j) => IsRetired(j)'
              /\ \A j : IsRetired(j) => IsRetired(j)'
<1>0. /\ IsFiniteSet(DOMAIN cjobs) /\ Cardinality(DOMAIN cjobs) \in Nat
      /\ nextId \in Nat /\ Len(retired) \in Nat /\ MaxRetired \in Nat
  BY FewJobs
<1>1. ASSUME retired' = retired
      PROVE  \A j : IsRetired(j) => IsRetired(j)'
  BY <1>1 DEF IsRetired
<1>2. CASE Stays
  <2>1. \A j \in JobId : ~Leaves(j)
    BY <1>2 DEF Stays, Leaves
  <2> QED BY <1>0, <1>1, <1>2, <2>1 DEF Stays, Few
<1>3. CASE Joins
  <2>1. nextId \notin DOMAIN cjobs
    BY <1>0 DEF AInv, IdsUsed, JobsAgree
  <2>2. Cardinality(DOMAIN cjobs') = Cardinality(DOMAIN cjobs) + 1
    BY <1>0, <1>3, <2>1, FS_AddElement DEF Joins
  <2>3. \A j \in JobId : ~Leaves(j)
    BY <1>0, <1>3 DEF Joins, Leaves
  <2>4. retired' = retired /\ nextId' = nextId + 1
    BY <1>3 DEF Joins
  <2> QED BY <1>0, <1>1, <2>2, <2>3, <2>4 DEF Few
<1>4. CASE TurnedAway
  <2>1. /\ nextId \in JobId /\ retired' = Retire(nextId) /\ nextId' = nextId + 1
        /\ DOMAIN cjobs' = DOMAIN cjobs
    BY <1>4 DEF TurnedAway
  <2>2. Len(retired') <= Len(retired) + 1 /\ Len(retired') \in Nat
    BY <2>1, RetireFacts
  <2>3. Few'
    BY <1>0, <2>1, <2>2 DEF Few
  <2>4. \A j \in JobId : ~Leaves(j)
    BY <1>0, <2>1 DEF Leaves
  <2>5. nextId' <= MaxRetired + 1 => nextId <= MaxRetired + 1 /\ Len(retired) < MaxRetired
    BY <1>0, <2>1 DEF Few
  <2> QED BY <2>1, <2>3, <2>4, <2>5, RetireRemembers
<1>5. ASSUME NEW j \in JobId, Leaves(j)
      PROVE  /\ Few'
             /\ nextId' <= MaxRetired + 1 =>
                  /\ nextId <= MaxRetired + 1
                  /\ \A k \in JobId : Leaves(k) => IsRetired(k)'
                  /\ \A k : IsRetired(k) => IsRetired(k)'
  <2>1. /\ j \in DOMAIN cjobs /\ retired' = Retire(j) /\ nextId' = nextId
        /\ DOMAIN cjobs' = DOMAIN cjobs \ {j}
    BY <1>5 DEF Leaves
  <2>2. Cardinality(DOMAIN cjobs') = Cardinality(DOMAIN cjobs) - 1
        /\ Cardinality(DOMAIN cjobs) > 0
    <3>1. Cardinality(DOMAIN cjobs) # 0
      BY <1>0, <2>1, FS_EmptySet
    <3>2. Cardinality(DOMAIN cjobs \ {j}) = Cardinality(DOMAIN cjobs) - 1
      BY <1>0, <2>1, FS_RemoveElement
    <3> QED BY <1>0, <2>1, <3>1, <3>2
  <2>3. Len(retired') <= Len(retired) + 1 /\ Len(retired') \in Nat
    BY <2>1, RetireFacts
  <2>4. Few'
    BY <1>0, <2>1, <2>2, <2>3 DEF Few
  <2>5. nextId' <= MaxRetired + 1 => Len(retired) < MaxRetired
    BY <1>0, <2>1, <2>2 DEF Few
  <2>6. \A k \in JobId : Leaves(k) => k = j
    BY <2>1 DEF Leaves
  <2> QED BY <2>1, <2>4, <2>5, <2>6, RetireRemembers
<1> QED BY <1>2, <1>3, <1>4, <1>5 DEF Moves

LEMMA PromiseKept ==
  ASSUME AInv, AInv', Listed, Listed', Counted, Counted', Few, Promise, Owing
  PROVE  Few' /\ Promise'
<1>1. /\ Few'
      /\ nextId' <= MaxRetired + 1 =>
           /\ nextId <= MaxRetired + 1
           /\ \A j \in JobId : Leaves(j) => IsRetired(j)'
           /\ \A j : IsRetired(j) => IsRetired(j)'
  BY MovesFew DEF Owing
<1>2. SUFFICES ASSUME nextId' <= MaxRetired + 1, NEW j \in JobId, Released(j)'
               PROVE  IsRetired(j)' /\ count'[j] > 0
  <2>1. DOMAIN jobs' \subseteq JobId
    BY DEF AInv, QInv, QTypeOK
  <2> QED BY <1>1, <2>1 DEF Promise, ReleasedWillBeFreed, Released
<1>3. count[j] \in Nat /\ count'[j] \in Nat
  BY DEF Counted
<1>4. CASE Released(j) /\ \/ count'[j] >= count[j]
                          \/ count'[j] = count[j] - 1 /\ count[j] # 1
                          \/ ~IsRetired(j)
  <2>1. IsRetired(j) /\ count[j] > 0
    BY <1>1, <1>2, <1>4 DEF Promise, ReleasedWillBeFreed, Released
  <2>2. IsRetired(j)'
    BY <1>1, <1>2, <2>1
  <2> QED BY <1>3, <1>4, <2>1, <2>2
<1>5. CASE Leaves(j) /\ count'[j] > 0
  BY <1>1, <1>2, <1>5
<1> QED BY <1>2, <1>4, <1>5 DEF Owing, Owes

\* What a step does that concerns no destroyed job.
LEMMA NothingOwed ==
  ASSUME Counted, Moves,
         \A j \in JobId : Released(j)' => Released(j),
         \A j \in JobId : Released(j) => count'[j] >= count[j]
  PROVE  Owing
  BY DEF Owing, Owes

LEMMA SameOwed ==
  ASSUME Counted, UNCHANGED <<jobs, count, retired, nextId>>, DOMAIN cjobs' = DOMAIN cjobs
  PROVE  Owing
<1>1. \A j \in JobId : count[j] \in Nat /\ count'[j] = count[j]
  BY DEF Counted
<1>2. \A j \in JobId : Released(j)' => Released(j)
  BY DEF Released
<1>3. Moves
  BY DEF Moves, Stays
<1> QED BY <1>1, <1>2, <1>3, NothingOwed

\* The frames of the boards of a running job are served by threads of its machine.
LEMMA RunningServed ==
  ASSUME AInv, BoardsNonEmpty, FramesServed, NEW j \in DOMAIN jobs, jobs[j].state = "running"
  PROVE  /\ Cardinality(BmpsOf(cjobs[j].machine, cjobs[j].boards)) \in Nat
         /\ Cardinality(BmpsOf(cjobs[j].machine, cjobs[j].boards)) > 0
<1> DEFINE m == cjobs[j].machine
           B == cjobs[j].boards
<1>1. m \in DOMAIN machines /\ B \subseteq machines[m].boards /\ B # {}
  BY RunningJob DEF BoardsNonEmpty
<1>2. PICK x \in B : x \in machines[m].boards
  BY <1>1
<1>3. PICK c \in DOMAIN bmps : c[1] = FrameOf[x] /\ bmps[c].machine = m
  BY <1>1, <1>2 DEF FramesServed, FramesOf
<1>4. c \in BmpsOf(m, B)
  BY <1>2, <1>3 DEF BmpsOf, FramesOf
<1>5. IsFiniteSet(BmpsOf(m, B)) /\ Cardinality(BmpsOf(m, B)) \in Nat
  BY FiniteBmps DEF AInv
<1> HIDE DEF m, B
<1>6. Cardinality(BmpsOf(m, B)) # 0
  BY <1>4, <1>5, FS_EmptySet
<1>7. Cardinality(BmpsOf(m, B)) \in Nat /\ Cardinality(BmpsOf(m, B)) > 0
  BY <1>5, <1>6
<1> QED BY <1>7 DEF m, B

\* A destroyed job that had boards owes what it asks to be switched off.
LEMMA ReleaseOwes ==
  ASSUME AInv, Counted, NEW j \in JobId, ReleaseJob(j), j \in DOMAIN cjobs,
         cjobs' = Without(cjobs, j), retired' = Retire(j),
         NEW n \in Nat, n > 0, count' = [count EXCEPT ![j] = n]
  PROVE  Owing
<1>1. /\ DOMAIN jobs' = DOMAIN jobs /\ nextId' = nextId
      /\ \A k \in DOMAIN jobs \ {j} : jobs'[k] = jobs[k]
  BY DEF ReleaseJob
<1>2. Leaves(j) /\ count'[j] > 0
  BY <1>1 DEF Leaves, Without, Counted
<1>3. \A k \in JobId \ {j} : count'[k] = count[k] /\ count[k] \in Nat
  BY DEF Counted
<1>4. \A k \in JobId \ {j} : Released(k)' => Released(k) /\ count'[k] >= count[k]
  BY <1>1, <1>3 DEF Released
<1> QED BY <1>2, <1>4 DEF Owing, Owes, Moves

\* A job leaves both the controller and the JobQueue.
LEMMA GoneOwes ==
  ASSUME AInv, Counted, NEW j \in JobId, j \in DOMAIN cjobs, jobs' = Without(jobs, j),
         cjobs' = Without(cjobs, j), retired' = Retire(j), nextId' = nextId,
         NEW n \in Nat, count' = [count EXCEPT ![j] = n]
  PROVE  Owing
<1>1. Leaves(j)
  BY DEF Leaves, Without
<1>2. \A k \in JobId : Released(k)' => Released(k) /\ k # j
  BY DEF Released, Without
<1>3. \A k \in JobId \ {j} : count'[k] = count[k] /\ count[k] \in Nat
  BY DEF Counted
<1> QED BY <1>1, <1>2, <1>3 DEF Owing, Owes, Moves

\* The boards of a job the controller has are switched.
LEMMA SwitchingOwes ==
  ASSUME AInv, Counted, NEW j \in DOMAIN cjobs, retired' = retired, nextId' = nextId,
         DOMAIN cjobs' = DOMAIN cjobs,
         \A k \in JobId : Released(k)' => Released(k),
         NEW n \in Nat, count' = [count EXCEPT ![j] = n]
  PROVE  Owing
<1>1. ~Released(j)
  BY DEF AInv, JobsAgree, Released
<1>2. \A k \in JobId \ {j} : count'[k] = count[k] /\ count[k] \in Nat
  BY DEF Counted
<1>3. Moves
  BY DEF Moves, Stays
<1>4. \A k \in JobId : Released(k) => count'[k] >= count[k]
  BY <1>1, <1>2
<1> QED BY <1>3, <1>4, NothingOwed

LEMMA DestroyOwes ==
  ASSUME Ledger, NEW j \in JobId, DestroyQueued(j) \/ DestroyRunning(j)
  PROVE  Owing
<1>0. AInv /\ Counted /\ BoardsNonEmpty /\ FramesServed /\ count[j] \in Nat
  BY DEF Ledger, Counted
<1>1. CASE DestroyQueued(j)
  <2>1. /\ j \in DOMAIN jobs /\ jobs[j].state = "pending" /\ jobs' = Without(jobs, j)
        /\ cjobs' = Without(cjobs, j) /\ retired' = Retire(j) /\ nextId' = nextId
        /\ count' = count
    BY <1>1 DEF DestroyQueued, CancelJob, Pending, OnCancel
  <2>2. j \in DOMAIN cjobs
    BY <1>0, <2>1 DEF AInv, JobsAgree
  <2>3. count' = [count EXCEPT ![j] = count[j]]
    BY <1>0, <2>1 DEF Counted
  <2> QED BY <1>0, <2>1, <2>2, <2>3, GoneOwes
<1>2. CASE DestroyRunning(j)
  <2> DEFINE n == Cardinality(BmpsOf(cjobs[j].machine, cjobs[j].boards))
  <2>1. /\ ReleaseJob(j) /\ j \in DOMAIN jobs /\ jobs[j].state = "running"
        /\ cjobs' = Without(cjobs, j) /\ retired' = Retire(j)
        /\ count' = [count EXCEPT ![j] = count[j] + n]
    BY <1>2 DEF DestroyRunning, ReleaseJob, OnFree, OnCancel, PowerDown
  <2>2. n \in Nat /\ n > 0 /\ j \in DOMAIN cjobs
    BY <1>0, <2>1, RunningServed, RunningJob
  <2> HIDE DEF n
  <2>3. count[j] + n \in Nat /\ count[j] + n > 0
    BY <1>0, <2>2
  <2> QED BY <1>0, <2>1, <2>2, <2>3, ReleaseOwes
<1> QED BY <1>1, <1>2

LEMMA UsersOwe ==
  ASSUME Ledger, Users \/ Power
  PROVE  Owing
<1>0. AInv /\ Counted
  BY DEF Ledger
<1>1. ASSUME NEW r \in Request, Create(r)
      PROVE  Owing
  <2>1. /\ cjobs' = With(cjobs, nextId, NewJob) /\ retired' = retired /\ count' = count
        /\ nextId' = nextId + 1
        /\ jobs' = With(jobs, nextId, [state |-> "pending", req |-> r,
                                       machine |-> NoMachine, boards |-> {}])
    BY <1>1 DEF Create, CreateJob
  <2>2. Joins
    BY <2>1 DEF Joins, With
  <2>3. \A k \in JobId : Released(k)' => Released(k)
    BY <2>1 DEF Released, With
  <2>4. \A k \in JobId : count'[k] >= count[k]
    BY <1>0, <2>1 DEF Counted
  <2> QED BY <1>0, <2>2, <2>3, <2>4, NothingOwed DEF Moves
<1>2. ASSUME NEW r \in Request, CreateRejected(r)
      PROVE  Owing
  <2>1. /\ UNCHANGED <<jobs, cjobs, count>> /\ TurnedAway
    BY <1>2 DEF CreateRejected, RejectJob, CanCreate, TurnedAway
  <2>2. \A k \in JobId : Released(k)' => Released(k)
    BY <2>1 DEF Released
  <2>3. \A k \in JobId : count'[k] >= count[k]
    BY <1>0, <2>1 DEF Counted
  <2> QED BY <1>0, <2>1, <2>2, <2>3, NothingOwed DEF Moves
<1>3. ASSUME NEW j \in JobId, Destroy(j)
      PROVE  Owing
  BY <1>3, DestroyOwes DEF Destroy
<1>4. ASSUME NEW j \in JobId, Keepalive(j) \/ Lapse(j)
      PROVE  Owing
  BY <1>0, <1>4, SameOwed DEF Keepalive, Lapse, qvars
<1>5. ASSUME NEW j \in JobId, NEW on \in BOOLEAN, SetPower(j, on)
      PROVE  Owing
  <2> DEFINE n == Cardinality(BmpsOf(cjobs[j].machine, cjobs[j].boards))
  <2>1. /\ j \in DOMAIN cjobs /\ retired' = retired /\ nextId' = nextId /\ jobs' = jobs
        /\ DOMAIN cjobs' = DOMAIN cjobs
        /\ count' = [count EXCEPT ![j] = count[j] + n]
    BY <1>5 DEF SetPower, qvars
  <2>2. count[j] + n \in Nat
    BY <1>0, FiniteBmps DEF AInv, Counted
  <2> HIDE DEF n
  <2> QED BY <1>0, <2>1, <2>2, SwitchingOwes DEF Released
<1> QED BY <1>1, <1>2, <1>3, <1>4, <1>5 DEF Users, Power

LEMMA LoopOwes ==
  ASSUME Ledger, ServerLoop \/ Delay \/ Schedule \/ Regenerate
  PROVE  Owing
<1>0. AInv /\ Counted
  BY DEF Ledger
<1>1. ASSUME StartSweep \/ EndSweep \/ CollectFreed \/ ReadChanges \/ Delay \/ EndUpdate
             \/ (EndPass /\ UNCHANGED cvars)
             \/ (UNCHANGED cvars /\ \E m \in Machine :
                   SkipMachine(m) \/ FindEmpty(m) \/ FindBlocked(m))
             \/ (UNCHANGED cvars /\ \E j \in JobId : VisitStarted(j) \/ VisitPending(j))
      PROVE  UNCHANGED <<jobs, count, retired, nextId, cjobs>>
  BY <1>1 DEF StartSweep, EndSweep, CollectFreed, CheckFree, ReadChanges, Delay, TimePasses,
     EndUpdate, EndRegen, EndPass, SkipMachine, FindEmpty, FindBlocked, VisitStarted,
     VisitPending, cvars, qvars
<1>2. ASSUME UNCHANGED <<jobs, count, retired, nextId, cjobs>>
      PROVE  Owing
  BY <1>0, <1>2, SameOwed
<1>3. ASSUME NEW j \in JobId, SweepJob(j)
      PROVE  Owing
  BY <1>3, DestroyOwes DEF SweepJob
<1>4. ASSUME NEW m \in Machine, NEW j \in JobId, NEW p \in SUBSET Board, Allocate(m, j, p)
      PROVE  Owing
  <2> DEFINE n == Cardinality(BmpsOf(m, p))
  <2>1. /\ Pending(j) /\ retired' = retired /\ nextId' = nextId
        /\ DOMAIN cjobs' = DOMAIN cjobs
        /\ count' = [count EXCEPT ![j] = count[j] + n]
        /\ jobs' = [jobs EXCEPT ![j] = [state |-> "running", req |-> jobs[j].req,
                                        machine |-> m, boards |-> p]]
    BY <1>4 DEF Allocate, StartJob, TakeBoards, FirstPending
  <2>2. count[j] + n \in Nat
    BY <1>0, FiniteBmps DEF AInv, Counted
  <2>3. j \in DOMAIN cjobs
    BY <1>0, <2>1 DEF Pending, AInv, JobsAgree
  <2>4. \A k \in JobId : Released(k)' => Released(k)
    BY <2>1 DEF Released, Pending
  <2> HIDE DEF n
  <2> QED BY <1>0, <2>1, <2>2, <2>3, <2>4, SwitchingOwes
<1>5. ASSUME NEW j \in JobId, CancelUnsuitable(j)
      PROVE  Owing
  <2>1. /\ Pending(j) /\ jobs' = Without(jobs, j)
        /\ cjobs' = Without(cjobs, j) /\ retired' = Retire(j) /\ nextId' = nextId
        /\ count' = count
    BY <1>5 DEF CancelUnsuitable, VisitUnsuitable, OnCancel
  <2>2. j \in DOMAIN cjobs
    BY <1>0, <2>1 DEF Pending, AInv, JobsAgree
  <2>3. count[j] \in Nat /\ count' = [count EXCEPT ![j] = count[j]]
    BY <1>0, <2>1 DEF Counted
  <2> QED BY <1>0, <2>1, <2>2, <2>3, GoneOwes
<1> QED BY <1>1, <1>2, <1>3, <1>4, <1>5 DEF ServerLoop, Schedule, Regenerate

LEMMA BmpOwes ==
  ASSUME Ledger, NEW c \in BmpId, BmpThread(c)
  PROVE  Owing
<1>0. AInv /\ Counted /\ BoardsNonEmpty /\ FramesServed /\ count \in [JobId -> Nat]
  BY DEF Ledger, Counted
<1>1. CASE Switch(c) \/ Succeed(c) \/ Fail(c) \/ ThreadEnds(c)
  BY <1>0, <1>1, SameOwed DEF Switch, Succeed, Fail, ThreadEnds, qvars
<1>2. ASSUME Reports(c)
      PROVE  JobOf(c) \in JobId /\ count[JobOf(c)] > 0 /\ count[JobOf(c)] \in Nat
  <2>1. HasWork(bmps, c)
    BY <1>0, <1>2, ReporterBusy
  <2>2. JobOf(c) \in JobId
    <3>1. bmps[c].queue \in Seq(RequestsType) /\ bmps[c].queue # <<>>
      BY <1>0, <2>1, BmpRecord DEF HasWork, AInv
    <3>2. Head(bmps[c].queue) \in RequestsType
      BY <3>1, HeadTailProperties
    <3> QED BY <3>2 DEF JobOf, RequestsType
  <2>3. PICK b : b = Finished(c)
    OBVIOUS
  <2>4. Reported(bmps, c, b)
    <3>1. b = Shortened(bmps, c)
      BY <2>3 DEF Finished, Shortened
    <3> QED BY <1>0, <2>1, <3>1, ShortenedReports DEF AInv, HasWork
  <2>5. \A d \in DOMAIN bmps : Len(bmps[d].queue) \in Nat
    BY <1>0, BmpRecord DEF AInv
  <2>6. HasRequests(bmps, JobOf(c), count[JobOf(c)]) /\ count[JobOf(c)] \in Nat
    BY <1>0, <2>2 DEF Counted
  <2> QED BY <2>2, <2>4, <2>5, <2>6, ReportedCount DEF JobOf
<1>3. CASE ReportFailure(c)
  <2> DEFINE j == JobOf(c)
             n == Cardinality(BmpsOf(cjobs[j].machine, cjobs[j].boards))
  <2>1. /\ ReleaseJob(j) /\ j \in DOMAIN jobs /\ jobs[j].state = "running" /\ j \in DOMAIN cjobs
        /\ cjobs' = Without(cjobs, j) /\ retired' = Retire(j)
        /\ count' = [count EXCEPT ![j] = count[j] + n - 1]
    BY <1>3 DEF ReportFailure, ReleaseJob, OnFree, OnCancel
  <2>2. n \in Nat /\ n > 0
    BY <1>0, <2>1, RunningServed
  <2>3. j \in JobId /\ count[j] > 0 /\ count[j] \in Nat
    BY <1>2, <1>3 DEF ReportFailure
  <2> HIDE DEF n, j
  <2>4. count[j] + n - 1 \in Nat /\ count[j] + n - 1 > 0
    BY <2>2, <2>3
  <2> QED BY <1>0, <2>1, <2>3, <2>4, ReleaseOwes
<1>4. ASSUME NEW j \in JobId, j = JobOf(c), count[j] \in Nat,
             count' = CountDown(c), retired' = retired, nextId' = nextId,
             DOMAIN cjobs' = DOMAIN cjobs,
             \A k \in JobId : Released(k)' => Released(k),
             ~LastReport(c) \/ ~IsRetired(j) \/ ~Released(j)'
      PROVE  Owing
  <2>1. \A k \in JobId : count'[k] = IF k = j THEN count[k] - 1 ELSE count[k]
    BY <1>0, <1>4 DEF CountDown
  <2>2. LastReport(c) <=> count[j] = 1
    BY <1>4 DEF LastReport
  <2>3. ASSUME NEW k \in JobId \ {j}
        PROVE  Owes(k)
    BY <1>0, <1>4, <2>1 DEF Owes
  <2>4. Owes(j)
    BY <1>4, <2>1, <2>2 DEF Owes
  <2>5. Moves
    BY <1>4 DEF Moves, Stays
  <2> QED BY <2>3, <2>4, <2>5 DEF Owing
<1>5. CASE ReportProgress(c) \/ ReportReady(c) \/ ReportFreed(c) \/ ReportForgotten(c)
  <2>1. /\ Reports(c) /\ count' = CountDown(c) /\ UNCHANGED <<retired, nextId>>
        /\ DOMAIN cjobs' = DOMAIN cjobs
    BY <1>5 DEF ReportProgress, ReportReady, ReportFreed, Free, ReportForgotten, qvars
  <2>2. PICK j \in JobId : j = JobOf(c) /\ count[j] \in Nat
    BY <1>2, <2>1
  <2>3. jobs' = jobs \/ (ReportFreed(c) /\ jobs' = Without(jobs, j))
    BY <1>5, <2>2 DEF ReportProgress, ReportReady, ReportFreed, Free, ReportForgotten, qvars
  <2>4. \A k \in JobId : Released(k)' => Released(k)
    BY <2>3 DEF Released, Without
  <2>5. ~LastReport(c) \/ ~IsRetired(j) \/ ~Released(j)'
    <3>1. CASE ReportProgress(c)
      BY <3>1 DEF ReportProgress
    <3>2. CASE ReportReady(c)
      <4>1. j \in DOMAIN cjobs
        BY <2>2, <3>2 DEF ReportReady
      <4>2. ~Released(j)
        BY <1>0, <4>1 DEF Released, AInv, JobsAgree
      <4> QED BY <2>4, <4>2
    <3>3. CASE ReportFreed(c)
      <4>1. jobs' = Without(jobs, j)
        BY <2>2, <3>3 DEF ReportFreed, Free
      <4> QED BY <4>1 DEF Released, Without
    <3>4. CASE ReportForgotten(c)
      <4>1. ~IsRetired(j) \/ ~Released(j)
        BY <2>2, <3>4 DEF ReportForgotten, Released
      <4> QED BY <2>4, <4>1
    <3> QED BY <1>5, <3>1, <3>2, <3>3, <3>4
  <2> QED BY <1>4, <2>1, <2>2, <2>4, <2>5
<1> QED BY <1>1, <1>3, <1>5 DEF BmpThread

LEMMA UpdateOwes ==
  ASSUME Ledger, Update
  PROVE  Owing
<1>0. AInv /\ Counted
  BY DEF Ledger
<1>1. ASSUME NEW c \in Config, BeginUpdate(c)
      PROVE  Owing
  BY <1>0, <1>1, SameOwed DEF BeginUpdate, StartUpdate
<1>2. ASSUME NEW j \in JobId, UpdateRemovesJob(j)
      PROVE  Owing
  <2> DEFINE n == Cardinality(BmpsOf(cjobs[j].machine, cjobs[j].boards))
  <2>1. /\ j \in DOMAIN jobs /\ jobs[j].state = "running" /\ jobs' = Without(jobs, j)
        /\ cjobs' = Without(cjobs, j) /\ retired' = Retire(j) /\ nextId' = nextId
        /\ count' = [count EXCEPT ![j] = count[j] + n]
    BY <1>2 DEF UpdateRemovesJob, RemoveJob, Removing, JobsOn, OnFree, OnCancel, PowerDown
  <2>2. count[j] + n \in Nat /\ j \in DOMAIN cjobs
    BY <1>0, <2>1, FiniteBmps, RunningJob DEF AInv, Counted
  <2> HIDE DEF n
  <2> QED BY <1>0, <2>1, <2>2, GoneOwes
<1>3. ASSUME (\E j \in JobId : UpdateFails(j))
             \/ (\E m \in Machine : UpdateRemovesMachine(m)) \/ UpdateEnds
      PROVE  Owing
  <2>1. UNCHANGED <<jobs, count, retired, nextId, cjobs>>
    BY <1>3 DEF UpdateFails, RemoveReleasedJob, UpdateRemovesMachine, RemoveMachine,
       UpdateEnds, FinishUpdate
  <2> QED BY <1>0, <2>1, SameOwed
<1> QED BY <1>1, <1>2, <1>3 DEF Update

LEMMA NextOwes ==
  ASSUME Ledger, [Next]_vars
  PROVE  Owing
<1>1. CASE UNCHANGED vars
  BY <1>1, SameOwed DEF vars, cvars, qvars, Ledger
<1>2. CASE Next
  BY <1>2, UsersOwe, LoopOwes, BmpOwes, UpdateOwes DEF Next
<1> QED BY <1>1, <1>2

LEMMA InitPromise == Init => Few /\ Promise
<1> SUFFICES ASSUME Init
             PROVE  Few /\ Promise
  OBVIOUS
<1>1. QTypeOK
  BY InitAInv DEF AInv, QInv
<1>2. /\ retired = <<>> /\ DOMAIN cjobs = {} /\ DOMAIN jobs = {} /\ nextId = 1
  BY DEF Init, QInit
<1>3. Len(retired) = 0 /\ Cardinality(DOMAIN cjobs) = 0
  BY <1>2, EmptySeq, FS_EmptySet
<1> QED BY <1>2, <1>3 DEF Few, Promise, ReleasedWillBeFreed

\* "When a job is destroyed this releases any resources consumed by the job": a
\* destroyed job is remembered, and a request of it is on its way, until its boards
\* are freed, through failures and updates of the machines; so it is until more than
\* max_retired_jobs jobs were created.
THEOREM DestroyedWillBeFreed == Spec => [](nextId <= MaxRetired + 1 => ReleasedWillBeFreed)
<1>1. Init => Listed /\ Few /\ Promise
  BY InitListed, InitPromise
<1>2. CInv /\ CInv' /\ Listed /\ Few /\ Promise /\ [Next]_vars => Listed' /\ Few' /\ Promise'
  <2> SUFFICES ASSUME CInv, CInv', Listed, Few, Promise, [Next]_vars
               PROVE  Listed' /\ Few' /\ Promise'
    OBVIOUS
  <2>1. Listed'
    BY NextLists DEF CInv, Ledger
  <2> QED BY <2>1, NextOwes, PromiseKept DEF CInv, Ledger
<1>3. Promise => (nextId <= MaxRetired + 1 => ReleasedWillBeFreed)
  BY DEF Promise
<1> QED BY <1>1, <1>2, <1>3, CInvHolds, PTL DEF Spec

-----------------------------------------------------------------------------
(* Clients are told what changes.                                          *)

\* What ChangesReported says of job j at a step.
Tells(j) ==
  View(j)' # View(j) =>
    /\ j \in changedJobs'
    /\ View(j)'.boards # View(j).boards =>
         (IF j \in DOMAIN cjobs' THEN cjobs'[j].machine ELSE cjobs[j].machine)
           \in changedMachines'

LEMMA SameTells ==
  ASSUME cjobs' = cjobs
  PROVE  \A j \in JobId : Tells(j)
  BY DEF Tells, View

\* A step changes what the controller says of job j only.
LEMMA OneTells ==
  ASSUME NEW j, DOMAIN cjobs' \ {j} = DOMAIN cjobs \ {j},
         \A k \in DOMAIN cjobs \ {j} : cjobs'[k] = cjobs[k],
         j \in changedJobs',
         \/ View(j)'.boards = View(j).boards
         \/ (IF j \in DOMAIN cjobs' THEN cjobs'[j].machine ELSE cjobs[j].machine)
              \in changedMachines'
  PROVE  \A k \in JobId : Tells(k)
<1>1. ASSUME NEW k \in JobId, k # j
      PROVE  View(k)' = View(k)
  BY <1>1 DEF View
<1> QED BY <1>1 DEF Tells

\* A queued job has no boards.
LEMMA CancelTells ==
  ASSUME AInv, NEW j, Pending(j), OnCancel(j)
  PROVE  \A k \in JobId : Tells(k)
<1>1. j \in DOMAIN cjobs /\ cjobs[j].boards = {}
  BY DEF AInv, JobsAgree, Pending, QInv, JobsPlaced, HoldsBoards
<1>2. cjobs' = Without(cjobs, j) /\ j \in changedJobs'
  BY DEF OnCancel
<1>3. View(j)'.boards = View(j).boards
  BY <1>1, <1>2 DEF View, Without
<1> QED BY <1>2, <1>3, OneTells DEF Without

LEMMA FreeTells ==
  ASSUME NEW j, OnFree(j)
  PROVE  \A k \in JobId : Tells(k)
<1>1. cjobs' = Without(cjobs, j) /\ j \in changedJobs' /\ cjobs[j].machine \in changedMachines'
  BY DEF OnFree, OnCancel
<1>2. /\ DOMAIN cjobs' = DOMAIN cjobs \ {j}
      /\ \A k \in DOMAIN cjobs \ {j} : cjobs'[k] = cjobs[k]
  BY <1>1 DEF Without
<1> QED BY <1>1, <1>2, OneTells

\* What becomes of a job that keeps its boards.
LEMMA StateTells ==
  ASSUME AInv, NEW j \in DOMAIN cjobs, j \in changedJobs', NEW r, cjobs' = [cjobs EXCEPT ![j] = r],
         r.boards = cjobs[j].boards
  PROVE  \A k \in JobId : Tells(k)
<1>1. View(j)'.boards = View(j).boards
  BY DEF View
<1> QED BY <1>1, OneTells

LEMMA DestroyTells ==
  ASSUME AInv, NEW j, DestroyQueued(j) \/ DestroyRunning(j)
  PROVE  \A k \in JobId : Tells(k)
  BY CancelTells, FreeTells DEF DestroyQueued, DestroyRunning, CancelJob

LEMMA UsersTell ==
  ASSUME AInv, Users \/ Power
  PROVE  \A k \in JobId : Tells(k)
<1>1. ASSUME NEW r \in Request, Create(r)
      PROVE  \A k \in JobId : Tells(k)
  <2>1. PICK j : j = nextId
    OBVIOUS
  <2>2. cjobs' = With(cjobs, j, NewJob) /\ j \in changedJobs'
    BY <1>1, <2>1 DEF Create
  <2>3. j \notin DOMAIN cjobs
    BY <2>1, BoundAssumption DEF AInv, JobsAgree, IdsUsed, QInv, QTypeOK
  <2>4. View(j)'.boards = View(j).boards
    BY <2>2, <2>3 DEF View, With, NewJob
  <2> QED BY <2>2, <2>4, OneTells DEF With
<1>2. ASSUME NEW r \in Request, CreateRejected(r)
      PROVE  \A k \in JobId : Tells(k)
  BY <1>2, SameTells DEF CreateRejected
<1>3. ASSUME NEW j \in JobId, Destroy(j)
      PROVE  \A k \in JobId : Tells(k)
  BY <1>3, DestroyTells DEF Destroy
<1>4. ASSUME NEW j \in JobId, Keepalive(j) \/ Lapse(j)
      PROVE  \A k \in JobId : Tells(k)
  BY <1>4, SameTells DEF Keepalive, Lapse
<1>5. ASSUME NEW j \in JobId, NEW on \in BOOLEAN, SetPower(j, on)
      PROVE  \A k \in JobId : Tells(k)
  <2>1. /\ j \in DOMAIN cjobs /\ j \in changedJobs'
        /\ cjobs' = [cjobs EXCEPT ![j].state = "power",
                                  ![j].power = IF on THEN "on" ELSE "off"]
    BY <1>5 DEF SetPower
  <2>2. cjobs[j] \in CJobType
    BY <2>1 DEF AInv, CJobsTyped
  <2>3. PICK r : r = [cjobs[j] EXCEPT !.state = "power", !.power = IF on THEN "on" ELSE "off"]
    OBVIOUS
  <2>4. cjobs' = [cjobs EXCEPT ![j] = r] /\ r.boards = cjobs[j].boards
    BY <2>1, <2>2, <2>3 DEF CJobType
  <2> QED BY <2>1, <2>4, StateTells
<1> QED BY <1>1, <1>2, <1>3, <1>4, <1>5 DEF Users, Power

LEMMA LoopTells ==
  ASSUME AInv, ServerLoop \/ Delay \/ Schedule \/ Regenerate
  PROVE  \A k \in JobId : Tells(k)
<1>1. ASSUME StartSweep \/ EndSweep \/ CollectFreed \/ ReadChanges \/ Delay \/ EndUpdate
             \/ UNCHANGED cvars
      PROVE  cjobs' = cjobs
  BY <1>1 DEF StartSweep, EndSweep, CollectFreed, ReadChanges, Delay, EndUpdate, cvars
<1>2. ASSUME NEW j \in JobId, SweepJob(j)
      PROVE  \A k \in JobId : Tells(k)
  BY <1>2, DestroyTells DEF SweepJob
<1>3. ASSUME NEW m \in Machine, NEW j \in JobId, NEW p \in SUBSET Board, Allocate(m, j, p)
      PROVE  \A k \in JobId : Tells(k)
  <2>1. /\ cjobs' = [cjobs EXCEPT ![j] = [state |-> "power", power |-> "on", machine |-> m,
                                           desc |-> Described(m), boards |-> p]]
        /\ Pending(j) /\ j \in changedJobs' /\ m \in changedMachines'
    BY <1>3 DEF Allocate, StartJob, TakeBoards, FirstPending
  <2>2. j \in DOMAIN cjobs
    BY <2>1 DEF AInv, JobsAgree, Pending
  <2>3. j \in DOMAIN cjobs' /\ cjobs'[j].machine = m
    BY <2>1, <2>2
  <2> QED BY <2>1, <2>2, <2>3, OneTells
<1>4. ASSUME NEW j \in JobId, CancelUnsuitable(j)
      PROVE  \A k \in JobId : Tells(k)
  BY <1>4, CancelTells DEF CancelUnsuitable, VisitUnsuitable
<1> QED BY <1>1, <1>2, <1>3, <1>4, SameTells DEF ServerLoop, Schedule, Regenerate

LEMMA BmpTells ==
  ASSUME AInv, NEW c \in BmpId, BmpThread(c)
  PROVE  \A k \in JobId : Tells(k)
<1>1. ASSUME ReportFailure(c)
      PROVE  \A k \in JobId : Tells(k)
  BY <1>1, FreeTells DEF ReportFailure
<1>2. ASSUME ReportReady(c)
      PROVE  \A k \in JobId : Tells(k)
  <2>1. PICK j : j = JobOf(c)
    OBVIOUS
  <2>2. /\ j \in DOMAIN cjobs /\ j \in changedJobs'
        /\ cjobs' = [cjobs EXCEPT ![j].state = "ready"]
    BY <1>2, <2>1 DEF ReportReady
  <2>3. cjobs[j] \in CJobType
    BY <2>2 DEF AInv, CJobsTyped
  <2>4. PICK r : r = [cjobs[j] EXCEPT !.state = "ready"]
    OBVIOUS
  <2>5. cjobs' = [cjobs EXCEPT ![j] = r] /\ r.boards = cjobs[j].boards
    BY <2>2, <2>3, <2>4 DEF CJobType
  <2> QED BY <2>2, <2>5, StateTells
<1>3. ASSUME Switch(c) \/ Succeed(c) \/ Fail(c) \/ ReportProgress(c) \/ ReportFreed(c)
             \/ ReportForgotten(c) \/ ThreadEnds(c)
      PROVE  cjobs' = cjobs
  BY <1>3 DEF Switch, Succeed, Fail, ReportProgress, ReportFreed, ReportForgotten, ThreadEnds
<1> QED BY <1>1, <1>2, <1>3, SameTells DEF BmpThread

LEMMA UpdateTells ==
  ASSUME AInv, Update
  PROVE  \A k \in JobId : Tells(k)
<1>1. ASSUME NEW j \in JobId, UpdateRemovesJob(j)
      PROVE  \A k \in JobId : Tells(k)
  BY <1>1, FreeTells DEF UpdateRemovesJob
<1>2. ASSUME (\E c \in Config : BeginUpdate(c)) \/ (\E j \in JobId : UpdateFails(j))
             \/ (\E m \in Machine : UpdateRemovesMachine(m)) \/ UpdateEnds
      PROVE  cjobs' = cjobs
  BY <1>2 DEF BeginUpdate, UpdateFails, UpdateRemovesMachine, UpdateEnds
<1> QED BY <1>1, <1>2, SameTells DEF Update

\* Whichever thread creates, starts, powers, finishes or destroys a job, and whatever
\* update of the machines cancels it, the job is in changed_jobs, and its machine in
\* changed_machines if boards were given or taken, before the lock is released.
THEOREM EveryChangeTold == Spec => ChangesReported
<1>1. ASSUME AInv, [Next]_vars
      PROVE  \A j \in JobId : Tells(j)
  <2>1. CASE UNCHANGED vars
    BY <2>1, SameTells DEF vars, cvars
  <2>2. CASE Next
    <3>1. CASE Users \/ Power
      BY <1>1, <3>1, UsersTell
    <3>2. CASE ServerLoop \/ Delay \/ Schedule \/ Regenerate
      BY <1>1, <3>2, LoopTells
    <3>3. CASE Update
      BY <1>1, <3>3, UpdateTells
    <3>4. CASE \E c \in BmpId : BmpThread(c)
      BY <1>1, <3>4, BmpTells
    <3> QED BY <2>2, <3>1, <3>2, <3>3, <3>4 DEF Next
  <2> QED BY <1>1, <2>1, <2>2
<1>2. AInv /\ [Next]_vars =>
        [\A j \in JobId : View(j)' # View(j) =>
           /\ j \in changedJobs'
           /\ View(j)'.boards # View(j).boards =>
                (IF j \in DOMAIN cjobs' THEN cjobs'[j].machine ELSE cjobs[j].machine)
                  \in changedMachines']_vars
  BY <1>1 DEF Tells
<1> QED BY <1>2, AInvHolds, PTL DEF Spec, ChangesReported

=============================================================================
