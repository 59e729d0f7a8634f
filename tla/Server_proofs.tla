--------------------------- MODULE Server_proofs ---------------------------
(***************************************************************************)
(* Proofs about the server thread and those it deals with, for any finite  *)
(* set of clients, any jobs and machines, and any of the bounds.           *)
(***************************************************************************)
EXTENDS Server, SequenceTheorems, FiniteSetTheorems, TLAPS

-----------------------------------------------------------------------------
(* The inductive invariant.                                                *)

\* The parts of STypeOK.
ThreadType ==
  /\ pc \in Kind \cup {"loop", "poll", "channels", "lines", "tell", "reload",
                       "read", "install", "ended", "dead", "closed"}
  /\ ready \subseteq Client \cup {Listener, Notify}
  /\ serving \in Client \cup {NoClient}
  /\ news \subseteq Item /\ todo \subseteq Client

NetType ==
  /\ socks \in [Client -> {"none", "waiting", "open", "closed"}]
  /\ peer \in [Client -> {"up", "down"}]
  /\ inbox \in [Client -> Seq(Piece)] /\ buffers \in [Client -> Seq(Piece)]
  /\ sent \in [Client -> 0 .. MaxLines] /\ done \in [Client -> 0 .. MaxLines]

WatchType == watches \in [Kind -> [Client -> (SUBSET Item) \cup {{All}}]]

ChangeType ==
  /\ quiet \subseteq changed /\ changed \subseteq Item
  /\ changes \in 0 .. MaxChanges
  /\ due \in [Client -> SUBSET Item]

FlagType ==
  /\ signals \in 0 .. MaxSignals
  /\ listening \in BOOLEAN /\ notify \in BOOLEAN /\ waking \in BOOLEAN
  /\ reload \in BOOLEAN /\ owed \in BOOLEAN /\ stopping \in BOOLEAN

\* Where the thread is, and what it keeps there: a client it serves while it is at
\* its lines, clients to be told while it tells, channels until all are handled.
Place ==
  /\ pc = "lines" <=> serving \in Open
  /\ pc # "lines" => serving = NoClient
  /\ pc \notin {"channels", "lines"} => ready = {}
  /\ pc # "tell" => todo = {}
  /\ serving \in Client => serving \notin ready

\* Who is owed something watches it still.
DueWatched ==
  \A c \in Client : \A i \in due[c] : Concerns(watches[KindOf[i]][c], {i})

\* A connection not yet made has nothing on it.
Untouched ==
  \A c \in Client : socks[c] = "none" =>
    inbox[c] = <<>> /\ buffers[c] = <<>> /\ sent[c] = 0 /\ done[c] = 0

ThreadPart == ThreadType /\ Place /\ NoGhosts /\ NothingForgotten
NetPart == NetType /\ Untouched /\ LinesInOrder
ChangePart == WatchType /\ ChangeType /\ DueWatched

SInv == ThreadPart /\ NetPart /\ ChangePart /\ FlagType

-----------------------------------------------------------------------------
(* The flags.                                                              *)

LEMMA FlagsKept ==
  ASSUME FlagType, SNext
  PROVE  FlagType'
<1>0. signals \in Nat /\ MaxSignals \in Nat
  BY ServerAssumption DEF FlagType
<1>1. ASSUME UNCHANGED <<listening, wakeVars, signalVars, stopping>>
      PROVE  FlagType'
  BY <1>1 DEF FlagType, wakeVars, signalVars
<1>2. CASE Accept \/ AcceptFails \/ (\E c \in Client : Receive(c) \/ HangUp(c))
           \/ Execute \/ BadLine \/ AnswerFails \/ LinesDone
  BY <1>1, <1>2 DEF Accept, AcceptFails, Receive, HangUp, Execute, BadLine, AnswerFails, LinesDone
<1>3. CASE Loop \/ Poll \/ Cull \/ Notifying
  BY <1>1, <1>3 DEF Loop, Poll, Cull, Notifying, ReadChanges, Tell, TellFails, AllTold
<1>4. CASE (\E c \in Client : Connect(c) \/ Close(c) \/ \E l \in Line : Send(c, l)) \/ JobFails
  BY <1>1, <1>4 DEF Connect, Close, Send, JobFails
<1>5. CASE Drain \/ Wake \/ JobReady \/ AskStop
  BY <1>5 DEF Drain, Wake, JobReady, AskStop, FlagType, wakeVars, signalVars
<1>6. CASE CheckReload \/ ReadFile
  BY <1>6 DEF CheckReload, ReadFile, FlagType, wakeVars
<1>7. CASE Install \/ BindFails \/ UpdateFails \/ CloseAll
  BY <1>7 DEF Install, BindFails, UpdateFails, CloseAll, FlagType, wakeVars, signalVars
<1>8. CASE Hup
  <2>1. signals' \in 0 .. MaxSignals
    BY <1>0, <1>8 DEF Hup
  <2> QED BY <1>8, <2>1 DEF Hup, FlagType
<1> QED BY <1>2, <1>3, <1>4, <1>5, <1>6, <1>7, <1>8
        DEF SNext, Busy, Others, Handle, Reloading

-----------------------------------------------------------------------------
(* The changes, and what clients have yet to be told of them.              *)

\* What a step does to them: nothing, a change with or without a call of wake, ...
Changing ==
  \/ UNCHANGED <<changeVars, watches>>
  \/ \E S \in SUBSET Item : Change(S, watches') \/ ChangeSilently(S, watches')
  \/ UNCHANGED watches /\ (\/ \E k \in Kind : ReadChanges(k)
                           \/ \E c \in Client : Tell(c))

\* ... while the watches of each client are kept, dropped, or obey a command.
Watching ==
  \/ UNCHANGED watches
  \/ \E D \in SUBSET Client : watches' = Forget(D)
  \/ \E l \in Line : watches' = Obeyed(l)

LEMMA RebindForgets ==
  ASSUME NEW moved \in BOOLEAN, Rebind(moved)
  PROVE  UNCHANGED watches \/ \E D \in SUBSET Client : watches' = Forget(D)
<1>1. Open \cup Waiting \in SUBSET Client
  BY DEF Open, Waiting
<1> QED BY <1>1 DEF Rebind, CloseSockets, Disconnect, sessionVars

LEMMA StepsOnChanges ==
  ASSUME SNext, ThreadType
  PROVE  Changing /\ Watching
<1>0. /\ {} \in SUBSET Item /\ Open \cup Waiting \in SUBSET Client
      /\ \A S \in (SUBSET Item) \cup {{}} : S \in SUBSET Item
      /\ \A S : S \in (SUBSET Item) \ {{}} => S \in SUBSET Item
  BY DEF Open, Waiting
<1>1. CASE Accept \/ AcceptFails \/ (\E c \in Client : Receive(c)) \/ LinesDone \/ Drain
           \/ Loop \/ Poll \/ AllTold
  <2>1. UNCHANGED <<changeVars, watches>>
    BY <1>1 DEF Accept, AcceptFails, Receive, LinesDone, Drain, Loop, Poll, AllTold, sessionVars
  <2> QED BY <2>1 DEF Changing, Watching
<1>2. CASE (\E c \in Client : Connect(c) \/ Close(c) \/ \E l \in Line : Send(c, l))
           \/ Wake \/ Hup \/ AskStop \/ CheckReload \/ ReadFile
  <2>1. UNCHANGED <<changeVars, watches>>
    BY <1>2 DEF Connect, Close, Send, Wake, Hup, AskStop, CheckReload, ReadFile, sessionVars
  <2> QED BY <2>1 DEF Changing, Watching
<1>3. CASE JobReady \/ JobFails \/ Cull
  <2>1. UNCHANGED watches
    BY <1>3 DEF JobReady, JobFails, Cull, sessionVars
  <2>2. \E S \in SUBSET Item : Change(S, watches) \/ ChangeSilently(S, watches)
    BY <1>0, <1>3 DEF JobReady, JobFails, Cull
  <2> QED BY <2>1, <2>2 DEF Changing, Watching
<1>4. CASE (\E c \in Client : HangUp(c) \/ TellFails(c)) \/ BadLine \/ BindFails \/ CloseAll
  <2>1. Change({}, watches') /\ \E D \in SUBSET Client : watches' = Forget(D)
    <3>1. CASE \E c \in Client : HangUp(c) \/ TellFails(c)
      <4>1. PICK c \in Client : HangUp(c) \/ TellFails(c)
        BY <3>1
      <4> QED BY <4>1 DEF HangUp, TellFails, Disconnect
    <3>2. CASE BadLine
      <4>1. serving \in Client \/ serving = NoClient
        BY DEF ThreadType
      <4>2. watches' = Forget({serving}) /\ Change({}, watches')
        BY <3>2 DEF BadLine, Disconnect
      <4>3. Forget({serving}) = Forget({serving} \cap Client)
        BY DEF Forget
      <4> QED BY <4>2, <4>3
    <3>3. CASE BindFails \/ CloseAll
      BY <1>0, <3>3 DEF BindFails, CloseAll, CloseSockets, Disconnect
    <3> QED BY <1>4, <3>1, <3>2, <3>3
  <2> QED BY <1>0, <2>1 DEF Changing, Watching
<1>5. CASE Execute
  BY <1>0, <1>5 DEF Execute, Effects, Changing, Watching
<1>6. CASE AnswerFails
  <2>1. \E S \in SUBSET Item : Change(S, watches')
    BY <1>0, <1>6 DEF AnswerFails, Effects
  <2>2. watches' = Forget({serving})
    BY <1>6 DEF AnswerFails, Disconnect
  <2>3. Forget({serving}) = Forget({serving} \cap Client)
    BY DEF Forget
  <2> QED BY <2>1, <2>2, <2>3 DEF Changing, Watching
<1>7. CASE Install \/ UpdateFails
  <2>1. \E S \in SUBSET Item : Change(S, watches') \/ ChangeSilently(S, watches')
    BY <1>7 DEF Install, UpdateFails
  <2>2. UNCHANGED watches \/ \E D \in SUBSET Client : watches' = Forget(D)
    BY <1>7, RebindForgets DEF Install, UpdateFails
  <2> QED BY <2>1, <2>2 DEF Changing, Watching
<1>8. CASE \E k \in Kind : ReadChanges(k)
  BY <1>8 DEF ReadChanges, Changing, Watching, sessionVars
<1>9. CASE \E c \in Client : Tell(c)
  BY <1>9 DEF Tell, Changing, Watching, sessionVars
<1> QED BY <1>1, <1>2, <1>3, <1>4, <1>5, <1>6, <1>7, <1>8, <1>9
        DEF SNext, Busy, Others, Handle, Notifying, Reloading

LEMMA WatchesTyped ==
  ASSUME WatchType, Watching, ThreadType
  PROVE  WatchType'
<1>1. \A D \in SUBSET Client : Forget(D) \in [Kind -> [Client -> (SUBSET Item) \cup {{All}}]]
  BY DEF Forget, WatchType
<1>2. ASSUME NEW l \in Line
      PROVE  Obeyed(l) \in [Kind -> [Client -> (SUBSET Item) \cup {{All}}]]
  <2>1. /\ l.op \in {"watch", "unwatch", "use", "bad"} /\ l.kind \in Kind
        /\ l.item \in Item \cup {All} /\ All \notin Item
    BY ServerAssumption
  <2>2. \A w \in (SUBSET Item) \cup {{All}} :
          /\ Register(w, l.item) \in (SUBSET Item) \cup {{All}}
          /\ Unregister(w, l.item) \in (SUBSET Item) \cup {{All}}
    BY <2>1 DEF Register, Unregister
  <2>3. watches[l.kind] \in [Client -> (SUBSET Item) \cup {{All}}]
    BY <2>1 DEF WatchType
  <2>4. CASE l.op = "watch"
    <3>1. [watches[l.kind] EXCEPT ![serving] = Register(@, l.item)]
            \in [Client -> (SUBSET Item) \cup {{All}}]
      BY <2>2, <2>3
    <3> QED BY <2>1, <2>4, <3>1 DEF Obeyed, WatchType
  <2>5. CASE l.op = "unwatch"
    <3>1. [watches[l.kind] EXCEPT ![serving] = Unregister(@, l.item)]
            \in [Client -> (SUBSET Item) \cup {{All}}]
      BY <2>2, <2>3
    <3> QED BY <2>1, <2>5, <3>1 DEF Obeyed, WatchType
  <2>6. CASE l.op \notin {"watch", "unwatch"}
    BY <2>6 DEF Obeyed, WatchType
  <2> QED BY <2>4, <2>5, <2>6
<1> QED BY <1>1, <1>2 DEF Watching, WatchType

LEMMA ChangesKept ==
  ASSUME ChangeType, DueWatched, Changing, WatchType, WatchType'
  PROVE  ChangeType' /\ DueWatched'
<1>0. /\ changes \in Nat /\ MaxChanges \in Nat
      /\ \A i \in Item : KindOf[i] \in Kind
      /\ \A c \in Client : due[c] \subseteq Item
  BY ServerAssumption DEF ChangeType
<1>1. CASE UNCHANGED <<changeVars, watches>>
  BY <1>1 DEF ChangeType, DueWatched, changeVars
<1>2. ASSUME NEW S \in SUBSET Item, changes' = IF S = {} THEN changes ELSE changes + 1,
             S # {} => changes < MaxChanges
      PROVE  changes' \in 0 .. MaxChanges
  BY <1>0, <1>2 DEF ChangeType
<1>3. ASSUME NEW S \in SUBSET Item, due' = DueWith(watches', S)
      PROVE  due' \in [Client -> SUBSET Item] /\ DueWatched'
  <2>1. due' = [c \in Client |->
                  {i \in due[c] \cup S : Concerns(watches'[KindOf[i]][c], {i})}]
    BY <1>3 DEF DueWith
  <2>2. ASSUME NEW c \in Client
        PROVE  due'[c] \subseteq Item
    <3>1. due'[c] = {i \in due[c] \cup S : Concerns(watches'[KindOf[i]][c], {i})}
      BY <2>1
    <3>2. due'[c] \subseteq due[c] \cup S
      BY <3>1
    <3> QED BY <1>0, <3>2
  <2>3. due' \in [Client -> SUBSET Item]
    BY <2>1, <2>2
  <2>4. ASSUME NEW c \in Client, NEW i \in due'[c]
        PROVE  Concerns(watches[KindOf[i]][c], {i})'
    BY <2>1, <2>4 DEF Concerns
  <2> QED BY <2>3, <2>4 DEF DueWatched
<1>4. ASSUME NEW S \in SUBSET Item, Change(S, watches')
      PROVE  ChangeType' /\ DueWatched'
  BY <1>2, <1>3, <1>4 DEF Change, ChangeType
<1>5. ASSUME NEW S \in SUBSET Item, ChangeSilently(S, watches')
      PROVE  ChangeType' /\ DueWatched'
  <2>1. due' \in [Client -> SUBSET Item] /\ DueWatched'
    BY <1>3, <1>5 DEF ChangeSilently
  <2> QED BY <1>2, <1>5, <2>1 DEF ChangeSilently, ChangeType
<1>6. ASSUME NEW k \in Kind, ReadChanges(k), UNCHANGED watches
      PROVE  ChangeType' /\ DueWatched'
  BY <1>6 DEF ReadChanges, News, ChangeType, DueWatched
<1>7. ASSUME NEW c \in Client, Tell(c), UNCHANGED watches
      PROVE  ChangeType' /\ DueWatched'
  BY <1>0, <1>7 DEF Tell, ChangeType, DueWatched
<1> QED BY <1>1, <1>4, <1>5, <1>6, <1>7 DEF Changing

-----------------------------------------------------------------------------
(* Lines and their pieces.                                                 *)

\* q is the pieces of lines number d + 1 to s.
Lines(q, d, s) ==
  /\ Len(q) = 2 * (s - d)
  /\ \A n \in 1 .. Len(q) :
       /\ q[n].nr = d + (n + 1) \div 2
       /\ (q[n].line # NoLine) = (n % 2 = 0)

LEMMA LineSent ==
  ASSUME NEW q \in Seq(Piece), NEW d \in Nat, NEW s \in Nat, Lines(q, d, s),
         NEW l \in Line, s + 1 <= MaxLines
  PROVE  /\ Pieces(s + 1, l) \in Seq(Piece)
         /\ Lines(q \o Pieces(s + 1, l), d, s + 1)
<1>1. PICK p : p = Pieces(s + 1, l)
  OBVIOUS
<1>2. s + 1 \in 1 .. MaxLines /\ l # NoLine
  BY ServerAssumption
<1>3. /\ p \in Seq(Piece) /\ Len(p) = 2
      /\ p[1].nr = s + 1 /\ p[1].line = NoLine /\ p[2].nr = s + 1 /\ p[2].line = l
  BY <1>1, <1>2 DEF Pieces, Piece
<1>4. PICK r : r = q \o p
  OBVIOUS
<1>5. PICK k \in Nat : k = Len(q)
  BY LenProperties
<1>6. /\ k = 2 * (s - d) /\ Len(r) = k + 2
      /\ \A n \in 1 .. k : r[n] = q[n]
      /\ r[k + 1] = p[1] /\ r[k + 2] = p[2]
  <2>1. Len(r) = k + 2 /\ \A n \in 1 .. k + 2 : r[n] = IF n <= k THEN q[n] ELSE p[n - k]
    <3>1. /\ Len(q \o p) = Len(q) + Len(p)
          /\ \A n \in 1 .. Len(q) + Len(p) :
               (q \o p)[n] = IF n <= Len(q) THEN q[n] ELSE p[n - Len(q)]
      BY <1>3, ConcatProperties
    <3> QED BY <1>3, <1>4, <1>5, <3>1
  <2>2. k + 1 \in 1 .. k + 2 /\ k + 2 \in 1 .. k + 2 /\ ~(k + 1 <= k) /\ ~(k + 2 <= k)
        /\ (k + 1) - k = 1 /\ (k + 2) - k = 2
    BY <1>5
  <2>3. \A n \in 1 .. k : n \in 1 .. k + 2 /\ n <= k
    BY <1>5
  <2> QED BY <1>5, <2>1, <2>2, <2>3 DEF Lines
<1>7. ASSUME NEW n \in 1 .. Len(r)
      PROVE  /\ r[n].nr = d + (n + 1) \div 2
             /\ (r[n].line # NoLine) = (n % 2 = 0)
  <2>1. n \in 1 .. k \/ n = k + 1 \/ n = k + 2
    BY <1>5, <1>6
  <2>2. CASE n \in 1 .. k
    BY <1>5, <1>6, <2>2 DEF Lines
  <2>3. CASE n = k + 1
    <3>1. d + (n + 1) \div 2 = s + 1 /\ n % 2 = 1
      BY <1>5, <1>6, <2>3
    <3> QED BY <1>3, <1>6, <2>3, <3>1
  <2>4. CASE n = k + 2
    <3>1. PICK e \in Nat : e = s - d /\ k = 2 * e
      BY <1>5, <1>6
    <3>2. (2 * e + 2 + 1) \div 2 = e + 1 /\ (2 * e + 2) % 2 = 0
      OBVIOUS
    <3>3. d + (n + 1) \div 2 = s + 1 /\ n % 2 = 0
      BY <2>4, <3>1, <3>2
    <3> QED BY <1>2, <1>3, <1>6, <2>4, <3>3
  <2> QED BY <2>1, <2>2, <2>3, <2>4
<1>8. Len(r) = 2 * (s + 1 - d)
  BY <1>5, <1>6
<1> QED BY <1>1, <1>3, <1>4, <1>7, <1>8 DEF Lines

LEMMA LineTaken ==
  ASSUME NEW q \in Seq(Piece), NEW d \in Nat, NEW s \in Nat, Lines(q, d, s), Len(q) >= 2
  PROVE  d < s /\ Lines(SubSeq(q, 3, Len(q)), d + 1, s)
<1>1. PICK k \in Nat : k = Len(q)
  BY LenProperties
<1>2. k = 2 * (s - d) /\ k >= 2
  BY <1>1 DEF Lines
<1>3. PICK r : r = SubSeq(q, 3, k)
  OBVIOUS
<1>4. Len(r) = k - 2 /\ \A n \in 1 .. k - 2 : r[n] = q[n + 2]
  <2>1. \A n \in 3 .. k : q[n] \in Piece
    BY <1>1, ElementOfSeq
  <2>2. Len(r) = (IF 3 <= k THEN k - 3 + 1 ELSE 0) /\ \A i \in 1 .. k - 3 + 1 : r[i] = q[3 + i - 1]
    BY <1>1, <1>3, <2>1, SubSeqProperties
  <2>3. k - 3 + 1 = k - 2 /\ \A i \in 1 .. k - 2 : 3 + i - 1 = i + 2
    BY <1>1
  <2> QED BY <1>2, <2>2, <2>3
<1>5. ASSUME NEW n \in 1 .. Len(r)
      PROVE  /\ r[n].nr = d + 1 + (n + 1) \div 2
             /\ (r[n].line # NoLine) = (n % 2 = 0)
  <2>1. n + 2 \in 1 .. k /\ n \in Nat
    BY <1>1, <1>4
  <2>2. r[n] = q[n + 2] /\ q[n + 2].nr = d + (n + 2 + 1) \div 2
        /\ (q[n + 2].line # NoLine) = ((n + 2) % 2 = 0)
    BY <1>1, <1>4, <2>1 DEF Lines
  <2>3. d + (n + 2 + 1) \div 2 = d + 1 + (n + 1) \div 2 /\ (n + 2) % 2 = n % 2
    BY <2>1
  <2> QED BY <2>2, <2>3
<1> QED BY <1>1, <1>2, <1>3, <1>4, <1>5 DEF Lines

\* The first line in the buffer is its first two pieces.
LEMMA FirstLineEnds ==
  ASSUME NEW c \in Client, NEW i \in Seq(Piece), NEW d \in Nat, NEW s \in Nat,
         buffers[c] \in Seq(Piece), Lines(buffers[c] \o i, d, s), LineEnd(c) # 0
  PROVE  LineEnd(c) = 2 /\ Len(buffers[c]) >= 2
<1>1. PICK b \in Seq(Piece) : b = buffers[c]
  OBVIOUS
<1>2. Len(b) \in Nat /\ Len(i) \in Nat
  BY LenProperties
<1>3. \A n \in 1 .. Len(b) : (b[n].line # NoLine) = (n % 2 = 0)
  <2>1. /\ Len(b \o i) = Len(b) + Len(i)
        /\ \A n \in 1 .. Len(b) + Len(i) : (b \o i)[n] = IF n <= Len(b) THEN b[n] ELSE i[n - Len(b)]
    BY ConcatProperties
  <2>2. \A n \in 1 .. Len(b) : n \in 1 .. Len(b) + Len(i) /\ n <= Len(b)
    BY <1>2
  <2> QED BY <1>1, <2>1, <2>2 DEF Lines
<1>4. LineEnds(c) = {n \in 1 .. Len(b) : b[n].line # NoLine}
  BY <1>1 DEF LineEnds
<1>5. PICK n \in 1 .. Len(b) : b[n].line # NoLine
  BY <1>4 DEF LineEnd
<1>6. Len(b) >= 2
  <2>1. n # 1
    BY <1>3, <1>5
  <2> QED BY <1>2, <2>1
<1>7. 2 \in LineEnds(c) /\ \A k \in LineEnds(c) : 2 <= k /\ k \in Nat
  <2>1. 2 \in 1 .. Len(b) /\ 2 % 2 = 0
    BY <1>2, <1>6
  <2>2. ASSUME NEW k \in LineEnds(c)
        PROVE  2 <= k /\ k \in Nat
    <3>1. k \in 1 .. Len(b) /\ k % 2 = 0
      BY <1>3, <1>4
    <3> QED BY <1>2, <3>1
  <2> QED BY <1>3, <1>4, <2>1, <2>2
<1>8. Min(LineEnds(c)) = 2
  <2>1. \E x \in LineEnds(c) : \A y \in LineEnds(c) : x =< y
    BY <1>7
  <2>2. PICK x : x = Min(LineEnds(c))
    OBVIOUS
  <2>3. x \in LineEnds(c) /\ \A y \in LineEnds(c) : x =< y
    BY <2>1, <2>2 DEF Min
  <2> QED BY <1>7, <2>2, <2>3
<1> QED BY <1>1, <1>6, <1>7, <1>8 DEF LineEnd

\* recv moves pieces without changing what there is.
LEMMA PiecesMoved ==
  ASSUME NEW b \in Seq(Piece), NEW i \in Seq(Piece), NEW n \in 1 .. Len(i)
  PROVE  /\ b \o SubSeq(i, 1, n) \in Seq(Piece)
         /\ SubSeq(i, n + 1, Len(i)) \in Seq(Piece)
         /\ (b \o SubSeq(i, 1, n)) \o SubSeq(i, n + 1, Len(i)) = b \o i
<1>1. PICK k \in Nat : k = Len(i)
  BY LenProperties
<1>2. PICK x : x = SubSeq(i, 1, n)
  OBVIOUS
<1>3. PICK y : y = SubSeq(i, n + 1, k)
  OBVIOUS
<1>4. \A h \in 1 .. k : i[h] \in Piece
  BY <1>1, ElementOfSeq
<1>5. x \in Seq(Piece) /\ Len(x) = n /\ \A h \in 1 .. n : x[h] = i[h]
  <2>1. \A h \in 1 .. n : h \in 1 .. k
    BY <1>1
  <2>2. x \in Seq(Piece) /\ Len(x) = (IF 1 <= n THEN n - 1 + 1 ELSE 0)
        /\ \A h \in 1 .. n - 1 + 1 : x[h] = i[1 + h - 1]
    BY <1>1, <1>2, <1>4, <2>1, SubSeqProperties
  <2>3. n - 1 + 1 = n /\ 1 <= n /\ \A h \in 1 .. n : 1 + h - 1 = h
    BY <1>1
  <2> QED BY <2>2, <2>3
<1>6. y \in Seq(Piece) /\ Len(y) = k - n /\ \A h \in 1 .. k - n : y[h] = i[n + h]
  <2>1. \A h \in n + 1 .. k : h \in 1 .. k
    BY <1>1
  <2>2. y \in Seq(Piece) /\ Len(y) = (IF n + 1 <= k THEN k - (n + 1) + 1 ELSE 0)
        /\ \A h \in 1 .. k - (n + 1) + 1 : y[h] = i[n + 1 + h - 1]
    BY <1>1, <1>3, <1>4, <2>1, SubSeqProperties
  <2>3. k - (n + 1) + 1 = k - n /\ (~(n + 1 <= k) => k - n = 0)
        /\ \A h \in 1 .. k - n : n + 1 + h - 1 = n + h
    BY <1>1
  <2> QED BY <2>2, <2>3
<1>7. x \o y = i
  <2>1. /\ x \o y \in Seq(Piece) /\ Len(x \o y) = Len(x) + Len(y)
        /\ \A h \in 1 .. Len(x) + Len(y) : (x \o y)[h] = IF h <= Len(x) THEN x[h] ELSE y[h - Len(x)]
    BY <1>5, <1>6, ConcatProperties
  <2>2. Len(x \o y) = k
    BY <1>1, <1>5, <1>6, <2>1
  <2>3. ASSUME NEW h \in 1 .. k
        PROVE  (x \o y)[h] = i[h]
    <3>1. (x \o y)[h] = IF h <= n THEN x[h] ELSE y[h - n]
      BY <1>1, <1>5, <1>6, <2>1, <2>2
    <3>2. CASE h <= n
      BY <1>5, <3>1, <3>2
    <3>3. CASE ~(h <= n)
      <4>1. h - n \in 1 .. k - n /\ n + (h - n) = h
        BY <1>1, <3>3
      <4> QED BY <1>6, <3>1, <3>3, <4>1
    <3> QED BY <3>2, <3>3
  <2> QED BY <1>1, <2>1, <2>2, <2>3, SeqEqual
<1>8. b \o x \in Seq(Piece) /\ (b \o x) \o y = b \o (x \o y)
  <2>1. b \o x \in Seq(Piece)
    BY <1>5, ConcatProperties
  <2>2. ASSUME NEW u \in Seq(Piece), NEW v \in Seq(Piece)
        PROVE  (b \o u) \o v = b \o (u \o v)
    BY ConcatAssociative
  <2> QED BY <1>5, <1>6, <2>1, <2>2
<1> QED BY <1>1, <1>2, <1>3, <1>6, <1>7, <1>8

LEMMA LineRemoved ==
  ASSUME NEW b \in Seq(Piece), NEW i \in Seq(Piece), Len(b) >= 2
  PROVE  /\ SubSeq(b, 3, Len(b)) \in Seq(Piece)
         /\ SubSeq(b, 3, Len(b)) \o i = SubSeq(b \o i, 3, Len(b \o i))
<1>1. PICK k \in Nat : k = Len(b)
  BY LenProperties
<1>2. PICK m \in Nat : m = Len(i)
  BY LenProperties
<1>3. PICK q \in Seq(Piece) : q = b \o i
  BY ConcatProperties
<1>4. Len(q) = k + m /\ \A h \in 1 .. k + m : q[h] = IF h <= k THEN b[h] ELSE i[h - k]
  BY <1>1, <1>2, <1>3, ConcatProperties
<1>5. PICK x : x = SubSeq(b, 3, k)
  OBVIOUS
<1>6. PICK y : y = SubSeq(q, 3, k + m)
  OBVIOUS
<1>7. k >= 2
  BY <1>1
<1>8. x \in Seq(Piece) /\ Len(x) = k - 2 /\ \A h \in 1 .. k - 2 : x[h] = b[h + 2]
  <2>1. \A h \in 3 .. k : b[h] \in Piece
    BY <1>1, ElementOfSeq
  <2>2. x \in Seq(Piece) /\ Len(x) = (IF 3 <= k THEN k - 3 + 1 ELSE 0)
        /\ \A h \in 1 .. k - 3 + 1 : x[h] = b[3 + h - 1]
    BY <1>1, <1>5, <2>1, SubSeqProperties
  <2>3. k - 3 + 1 = k - 2 /\ (~(3 <= k) => k - 2 = 0) /\ \A h \in 1 .. k - 2 : 3 + h - 1 = h + 2
    BY <1>1, <1>7
  <2> QED BY <2>2, <2>3
<1>9. y \in Seq(Piece) /\ Len(y) = k + m - 2 /\ \A h \in 1 .. k + m - 2 : y[h] = q[h + 2]
  <2>1. \A h \in 3 .. k + m : q[h] \in Piece
    BY <1>3, <1>4, ElementOfSeq
  <2>2. y \in Seq(Piece) /\ Len(y) = (IF 3 <= k + m THEN k + m - 3 + 1 ELSE 0)
        /\ \A h \in 1 .. k + m - 3 + 1 : y[h] = q[3 + h - 1]
    BY <1>1, <1>2, <1>6, <2>1, SubSeqProperties
  <2>3. k + m - 3 + 1 = k + m - 2 /\ (~(3 <= k + m) => k + m - 2 = 0)
        /\ \A h \in 1 .. k + m - 2 : 3 + h - 1 = h + 2
    BY <1>1, <1>2, <1>7
  <2> QED BY <2>2, <2>3
<1>10. /\ x \o i \in Seq(Piece) /\ Len(x \o i) = k - 2 + m
       /\ \A h \in 1 .. k - 2 + m : (x \o i)[h] = IF h <= k - 2 THEN x[h] ELSE i[h - (k - 2)]
  <2>1. /\ x \o i \in Seq(Piece) /\ Len(x \o i) = Len(x) + Len(i)
        /\ \A h \in 1 .. Len(x) + Len(i) :
             (x \o i)[h] = IF h <= Len(x) THEN x[h] ELSE i[h - Len(x)]
    BY <1>8, ConcatProperties
  <2> QED BY <1>2, <1>8, <2>1
<1>11. ASSUME NEW h \in 1 .. k - 2 + m
       PROVE  (x \o i)[h] = y[h]
  <2>1. h \in 1 .. k + m - 2 /\ h + 2 \in 1 .. k + m
    BY <1>1, <1>2, <1>7
  <2>2. y[h] = IF h + 2 <= k THEN b[h + 2] ELSE i[h + 2 - k]
    BY <1>4, <1>9, <2>1
  <2>3. CASE h <= k - 2
    <3>1. h + 2 <= k /\ h \in 1 .. k - 2
      BY <1>1, <1>2, <2>3
    <3> QED BY <1>8, <1>10, <2>2, <2>3, <3>1
  <2>4. CASE ~(h <= k - 2)
    <3>1. ~(h + 2 <= k) /\ h - (k - 2) = h + 2 - k
      BY <1>1, <1>2, <2>4
    <3> QED BY <1>10, <2>2, <2>4, <3>1
  <2> QED BY <2>3, <2>4
<1>12. x \o i = y
  <2>1. k - 2 + m = k + m - 2
    BY <1>1, <1>2
  <2> QED BY <1>9, <1>10, <1>11, <2>1, SeqEqual
<1> QED BY <1>1, <1>3, <1>4, <1>5, <1>6, <1>8, <1>12

\* The bound on the lines of all clients bounds those of each.
LEMMA SentBounded ==
  ASSUME NetType, Cardinality(AllSent) < MaxLines, NEW c \in Client
  PROVE  sent[c] + 1 <= MaxLines
<1>0. MaxLines \in Nat /\ IsFiniteSet(Client)
  BY ServerAssumption
<1>1. PICK s \in Nat : s = sent[c]
  BY <1>0 DEF NetType
<1>2. IsFiniteSet(Client \X (1 .. MaxLines))
  <2>1. 1 \in Int /\ MaxLines \in Int
    BY <1>0
  <2>2. IsFiniteSet(1 .. MaxLines)
    BY <2>1, FS_Interval
  <2> QED BY <1>0, <2>2, FS_Product
<1>3. AllSent \in SUBSET (Client \X (1 .. MaxLines))
  <2>1. ASSUME NEW d \in Client
        PROVE  1 .. sent[d] \subseteq 1 .. MaxLines
    <3>1. sent[d] \in 0 .. MaxLines
      BY DEF NetType
    <3> QED BY <1>0, <3>1
  <2>2. \A d \in Client : {d} \X (1 .. sent[d]) \subseteq Client \X (1 .. MaxLines)
    BY <2>1
  <2> QED BY <2>2 DEF AllSent
<1>4. IsFiniteSet(AllSent)
  BY <1>2, <1>3, FS_Subset
<1>5. PICK T : T = {c} \X (1 .. s)
  OBVIOUS
<1>6. T \in SUBSET AllSent
  BY <1>1, <1>5 DEF AllSent
<1>7. Cardinality(T) = s
  <2>1. IsFiniteSet({c}) /\ Cardinality({c}) = 1
    BY FS_Singleton
  <2>2. IsFiniteSet(1 .. s) /\ Cardinality(1 .. s) = s
    <3>1. 1 \in Int /\ s \in Int
      BY <1>1
    <3>2. IsFiniteSet(1 .. s) /\ Cardinality(1 .. s) = IF 1 > s THEN 0 ELSE s - 1 + 1
      BY <3>1, FS_Interval
    <3> QED BY <1>1, <3>2
  <2>3. Cardinality(T) = 1 * s
    BY <1>5, <2>1, <2>2, FS_Product
  <2> QED BY <2>3
<1>8. Cardinality(T) <= Cardinality(AllSent) /\ Cardinality(AllSent) \in Nat
  BY <1>4, <1>6, FS_Subset, FS_CardinalityType
<1> QED BY <1>0, <1>1, <1>7, <1>8

-----------------------------------------------------------------------------
(* The connections.                                                        *)

\* What is buffered and on its way, client by client.
InOrder ==
  \A c \in Open \cup Waiting : Lines(buffers[c] \o inbox[c], done[c], sent[c])

LEMMA OrderMeans == (LinesInOrder <=> InOrder) /\ (LinesInOrder' <=> InOrder')
BY DEF LinesInOrder, InOrder, Lines

\* A connection is made, or taken up, or lost by the client, or nothing happens to it.
ConnectionStep ==
  /\ UNCHANGED <<inbox, sent, buffers, done>>
  /\ socks' \in [Client -> {"none", "waiting", "open", "closed"}]
  /\ peer' \in [Client -> {"up", "down"}]
  /\ \A c \in Client : socks'[c] = "none" => socks[c] = "none"
  /\ \A c \in Client : socks[c] = "closed" => socks'[c] = "closed"

\* What a step does to the connections.
NetStep ==
  \/ ConnectionStep
  \/ \E c \in Client : \E l \in Line : Send(c, l)
  \/ \E c \in Client : Receive(c)
  \/ Execute /\ pc = "lines"
  \/ \E D \in SUBSET Client : Disconnect(D)

LEMMA NetSame ==
  ASSUME NetType, UNCHANGED <<socks, peer, inbox, sent, buffers, done>>
  PROVE  ConnectionStep
BY DEF NetType, ConnectionStep

LEMMA RebindOnNet ==
  ASSUME NetType, NEW moved \in BOOLEAN, Rebind(moved)
  PROVE  NetStep
<1>1. Open \cup Waiting \in SUBSET Client
  BY DEF Open, Waiting
<1>2. CASE CloseSockets
  BY <1>1, <1>2 DEF CloseSockets, NetStep
<1>3. CASE UNCHANGED <<netVars, sessionVars>>
  BY <1>3, NetSame DEF netVars, sessionVars, NetStep
<1> QED BY <1>2, <1>3 DEF Rebind

LEMMA StepsOnNet ==
  ASSUME NetType, ThreadType, Place, SNext
  PROVE  NetStep
<1>0. Open \cup Waiting \in SUBSET Client /\ \A c \in Client : {c} \in SUBSET Client
  BY DEF Open, Waiting
<1>1. CASE Accept
  <2>1. PICK c \in Client : socks[c] = "waiting" /\ socks' = [socks EXCEPT ![c] = "open"]
    BY <1>1 DEF Accept, Waiting
  <2>2. UNCHANGED <<peer, inbox, sent, buffers, done>>
    BY <1>1 DEF Accept, sessionVars
  <2> QED BY <2>1, <2>2 DEF NetStep, ConnectionStep, NetType
<1>2. CASE \E c \in Client : Connect(c)
  <2>1. PICK c \in Client : Connect(c)
    BY <1>2
  <2> QED BY <2>1 DEF Connect, sessionVars, NetStep, ConnectionStep, NetType
<1>3. CASE \E c \in Client : Close(c)
  <2>1. PICK c \in Client : Close(c)
    BY <1>3
  <2> QED BY <2>1 DEF Close, sessionVars, NetStep, ConnectionStep, NetType
<1>4. CASE AcceptFails \/ LinesDone \/ Drain \/ Loop \/ Poll \/ AllTold
  <2>1. UNCHANGED <<socks, peer, inbox, sent, buffers, done>>
    BY <1>4 DEF AcceptFails, LinesDone, Drain, Loop, Poll, AllTold, netVars, sessionVars
  <2> QED BY <2>1, NetSame DEF NetStep
<1>5. CASE JobReady \/ JobFails \/ Cull \/ Wake \/ Hup \/ AskStop \/ CheckReload \/ ReadFile
  <2>1. UNCHANGED <<socks, peer, inbox, sent, buffers, done>>
    BY <1>5 DEF JobReady, JobFails, Cull, Wake, Hup, AskStop, CheckReload, ReadFile,
       netVars, sessionVars
  <2> QED BY <2>1, NetSame DEF NetStep
<1>6. CASE (\E k \in Kind : ReadChanges(k)) \/ \E c \in Client : Tell(c)
  <2>1. UNCHANGED <<socks, peer, inbox, sent, buffers, done>>
    BY <1>6 DEF ReadChanges, Tell, netVars, sessionVars
  <2> QED BY <2>1, NetSame DEF NetStep
<1>7. CASE \E c \in Client : HangUp(c) \/ TellFails(c)
  BY <1>0, <1>7 DEF HangUp, TellFails, NetStep
<1>8. CASE BadLine \/ AnswerFails
  <2>1. pc = "lines" /\ Disconnect({serving})
    BY <1>8 DEF BadLine, AnswerFails, Runs, HasLine
  <2>2. serving \in Client
    BY <2>1 DEF Place, Open
  <2> QED BY <1>0, <2>1, <2>2 DEF NetStep
<1>9. CASE BindFails \/ CloseAll
  BY <1>0, <1>9 DEF BindFails, CloseAll, CloseSockets, NetStep
<1>10. CASE Install \/ UpdateFails
  BY <1>10, RebindOnNet DEF Install, UpdateFails
<1>11. CASE (\E c \in Client : Receive(c)) \/ \E c \in Client : \E l \in Line : Send(c, l)
  BY <1>11 DEF NetStep
<1>12. CASE Execute
  BY <1>12 DEF Execute, Runs, HasLine, NetStep
<1> QED BY <1>1, <1>2, <1>3, <1>4, <1>5, <1>6, <1>7, <1>8, <1>9, <1>10, <1>11, <1>12
        DEF SNext, Busy, Others, Handle, Notifying, Reloading

NetInv == NetType /\ Untouched /\ InOrder

LEMMA NoLines == \A d \in Nat : Lines(<<>> \o <<>>, d, d)
<1>1. <<>> \in Seq(Piece) /\ Len(<<>>) = 0
  BY EmptySeq
<1>2. <<>> \o <<>> = <<>>
  BY <1>1, ConcatEmptySeq
<1> QED BY <1>1, <1>2 DEF Lines

LEMMA ConnectionKept ==
  ASSUME NetInv, ConnectionStep
  PROVE  NetInv'
<1>0. MaxLines \in Nat
  BY ServerAssumption
<1>1. NetType' /\ Untouched'
  BY DEF NetInv, NetType, Untouched, ConnectionStep
<1>2. ASSUME NEW c \in Client, c \in (Open \cup Waiting)'
      PROVE  Lines(buffers[c] \o inbox[c], done[c], sent[c])
  <2>1. CASE c \in Open \cup Waiting
    BY <2>1 DEF NetInv, InOrder
  <2>2. CASE c \notin Open \cup Waiting
    <3>1. socks[c] = "none"
      BY <1>2, <2>2 DEF Open, Waiting, NetInv, NetType, ConnectionStep
    <3> QED BY <3>1, NoLines DEF NetInv, Untouched
  <2> QED BY <2>1, <2>2
<1>3. (Open \cup Waiting)' \subseteq Client
  BY DEF Open, Waiting
<1>4. InOrder'
  BY <1>2, <1>3 DEF InOrder, ConnectionStep
<1> QED BY <1>1, <1>4 DEF NetInv

LEMMA SendKept ==
  ASSUME NetInv, NEW c \in Client, NEW l \in Line, Send(c, l)
  PROVE  NetInv'
<1>0. MaxLines \in Nat
  BY ServerAssumption
<1>1. PICK q \in Seq(Piece), i \in Seq(Piece), b \in Seq(Piece), d \in Nat, s \in Nat :
        i = inbox[c] /\ b = buffers[c] /\ q = b \o i /\ d = done[c] /\ s = sent[c]
  <2>1. inbox[c] \in Seq(Piece) /\ buffers[c] \in Seq(Piece)
    BY DEF NetInv, NetType
  <2>2. buffers[c] \o inbox[c] \in Seq(Piece)
    BY <2>1, ConcatProperties
  <2>3. done[c] \in Nat /\ sent[c] \in Nat
    BY <1>0 DEF NetInv, NetType
  <2> QED BY <2>1, <2>2, <2>3
<1>2. c \in Open \cup Waiting
  BY DEF Send, Open, Waiting
<1>3. Lines(q, d, s)
  BY <1>1, <1>2 DEF NetInv, InOrder
<1>4. s + 1 <= MaxLines
  BY <1>1, SentBounded DEF Send, NetInv
<1>5. PICK p : p = Pieces(s + 1, l)
  OBVIOUS
<1>6. p \in Seq(Piece) /\ Lines(q \o p, d, s + 1)
  BY <1>3, <1>4, <1>5, LineSent
<1>7. i \o p \in Seq(Piece) /\ b \o (i \o p) = q \o p
  <2>1. i \o p \in Seq(Piece)
    BY <1>6, ConcatProperties
  <2>2. (b \o i) \o p = b \o (i \o p)
    BY <1>6, ConcatAssociative
  <2> QED BY <1>1, <2>1, <2>2
<1>8. /\ inbox' = [inbox EXCEPT ![c] = i \o p] /\ sent' = [sent EXCEPT ![c] = s + 1]
      /\ UNCHANGED <<socks, peer, buffers, done>>
  BY <1>1, <1>5 DEF Send, sessionVars
<1>9. s + 1 \in 0 .. MaxLines
  BY <1>0, <1>4
<1>10. NetType'
  BY <1>7, <1>8, <1>9 DEF NetInv, NetType
<1>11. Untouched'
  BY <1>2, <1>8 DEF NetInv, Untouched, Open, Waiting
<1>12. ASSUME NEW e \in Open \cup Waiting
       PROVE  Lines(buffers[e] \o inbox'[e], done[e], sent'[e])
  <2>1. CASE e = c
    BY <1>1, <1>6, <1>7, <1>8, <2>1 DEF NetInv, NetType
  <2>2. CASE e # c
    BY <1>8, <2>2 DEF NetInv, NetType, InOrder
  <2> QED BY <2>1, <2>2
<1>13. InOrder'
  BY <1>8, <1>12 DEF InOrder, Open, Waiting
<1> QED BY <1>10, <1>11, <1>13 DEF NetInv

LEMMA ReceiveKept ==
  ASSUME NetInv, NEW c \in Client, Receive(c)
  PROVE  NetInv'
<1>1. PICK i \in Seq(Piece), b \in Seq(Piece) : i = inbox[c] /\ b = buffers[c]
  BY DEF NetInv, NetType
<1>2. PICK n \in 1 .. Len(i) : Buffered(c, n)
  BY <1>1 DEF Receive
<1>3. PICK x : x = b \o SubSeq(i, 1, n)
  OBVIOUS
<1>4. PICK y : y = SubSeq(i, n + 1, Len(i))
  OBVIOUS
<1>5. x \in Seq(Piece) /\ y \in Seq(Piece) /\ x \o y = b \o i
  BY <1>3, <1>4, PiecesMoved
<1>6. /\ buffers' = [buffers EXCEPT ![c] = x] /\ inbox' = [inbox EXCEPT ![c] = y]
      /\ UNCHANGED <<socks, peer, sent, done>>
  BY <1>1, <1>2, <1>3, <1>4 DEF Buffered, Receive
<1>7. NetType'
  BY <1>5, <1>6 DEF NetInv, NetType
<1>8. socks[c] # "none"
  <2>1. i # <<>>
    BY <1>2, EmptySeq
  <2> QED BY <1>1, <2>1 DEF NetInv, Untouched
<1>9. Untouched'
  BY <1>6, <1>8 DEF NetInv, Untouched
<1>10. ASSUME NEW e \in Open \cup Waiting
       PROVE  Lines(buffers'[e] \o inbox'[e], done[e], sent[e])
  <2>1. CASE e = c
    <3>1. buffers'[c] \o inbox'[c] = buffers[c] \o inbox[c]
      BY <1>1, <1>5, <1>6 DEF NetInv, NetType
    <3> QED BY <2>1, <3>1 DEF NetInv, InOrder
  <2>2. CASE e # c
    BY <1>6, <2>2 DEF NetInv, NetType, InOrder
  <2> QED BY <2>1, <2>2
<1>11. InOrder'
  BY <1>6, <1>10 DEF InOrder, Open, Waiting
<1> QED BY <1>7, <1>9, <1>11 DEF NetInv

LEMMA ExecuteKept ==
  ASSUME NetInv, Place, pc = "lines", Execute
  PROVE  NetInv'
<1>0. MaxLines \in Nat
  BY ServerAssumption
<1>1. PICK c \in Client : c = serving /\ c \in Open
  BY DEF Place, Open
<1>2. PICK i \in Seq(Piece), b \in Seq(Piece), d \in Nat, s \in Nat :
        i = inbox[c] /\ b = buffers[c] /\ d = done[c] /\ s = sent[c] /\ s <= MaxLines
  BY <1>0 DEF NetInv, NetType
<1>3. Lines(b \o i, d, s)
  BY <1>1, <1>2 DEF NetInv, InOrder
<1>4. LineEnd(c) = 2 /\ Len(b) >= 2
  <2>1. LineEnd(c) # 0
    BY <1>1 DEF Execute, Runs, HasLine
  <2> QED BY <1>2, <1>3, <2>1, FirstLineEnds
<1>5. PICK x : x = SubSeq(b, 3, Len(b))
  OBVIOUS
<1>6. x \in Seq(Piece) /\ d < s /\ Lines(x \o i, d + 1, s)
  <2>1. x \in Seq(Piece) /\ x \o i = SubSeq(b \o i, 3, Len(b \o i))
    BY <1>4, <1>5, LineRemoved
  <2>2. b \o i \in Seq(Piece) /\ Len(b \o i) >= 2
    <3>1. b \o i \in Seq(Piece) /\ Len(b \o i) = Len(b) + Len(i)
      BY ConcatProperties
    <3>2. Len(b) \in Nat /\ Len(i) \in Nat
      BY LenProperties
    <3> QED BY <1>4, <3>1, <3>2
  <2>3. \A q \in Seq(Piece) : Lines(q, d, s) /\ Len(q) >= 2
          => d < s /\ Lines(SubSeq(q, 3, Len(q)), d + 1, s)
    BY LineTaken
  <2> QED BY <1>3, <2>1, <2>2, <2>3
<1>7. /\ buffers' = [buffers EXCEPT ![c] = x] /\ done' = [done EXCEPT ![c] = d + 1]
      /\ UNCHANGED <<socks, peer, inbox, sent>>
  BY <1>1, <1>2, <1>4, <1>5 DEF Execute, netVars
<1>8. NetType'
  <2>1. d + 1 \in 0 .. MaxLines
    BY <1>0, <1>2, <1>6
  <2> QED BY <1>6, <1>7, <2>1 DEF NetInv, NetType
<1>9. Untouched'
  BY <1>1, <1>7 DEF NetInv, Untouched, Open
<1>10. ASSUME NEW e \in Open \cup Waiting
       PROVE  Lines(buffers'[e] \o inbox[e], done'[e], sent[e])
  <2>1. CASE e = c
    BY <1>2, <1>6, <1>7, <2>1 DEF NetInv, NetType
  <2>2. CASE e # c
    BY <1>7, <2>2 DEF NetInv, NetType, InOrder
  <2> QED BY <2>1, <2>2
<1>11. InOrder'
  BY <1>7, <1>10 DEF InOrder, Open, Waiting
<1> QED BY <1>8, <1>9, <1>11 DEF NetInv

LEMMA DisconnectKept ==
  ASSUME NetInv, NEW D \in SUBSET Client, Disconnect(D)
  PROVE  NetInv'
<1>1. <<>> \in Seq(Piece)
  BY EmptySeq
<1>2. NetType' /\ Untouched'
  BY <1>1 DEF NetInv, NetType, Untouched, Disconnect
<1>3. ASSUME NEW e \in Client, e \in (Open \cup Waiting)'
      PROVE  e \in Open \cup Waiting /\ buffers'[e] = buffers[e] /\ inbox'[e] = inbox[e]
  BY <1>3 DEF Disconnect, Open, Waiting
<1>4. (Open \cup Waiting)' \subseteq Client /\ UNCHANGED <<sent, done>>
  BY DEF Open, Waiting, Disconnect
<1>5. InOrder'
  BY <1>3, <1>4 DEF NetInv, InOrder
<1> QED BY <1>2, <1>5 DEF NetInv

LEMMA NetKept ==
  ASSUME NetPart, Place, NetStep
  PROVE  NetPart'
<1>1. NetInv
  BY OrderMeans DEF NetPart, NetInv
<1>2. NetInv'
  BY <1>1, ConnectionKept, SendKept, ReceiveKept, ExecuteKept, DisconnectKept DEF NetStep
<1> QED BY <1>2, OrderMeans DEF NetPart, NetInv

-----------------------------------------------------------------------------
(* What the thread has in hand.                                            *)

\* Of those not connected nothing is kept.
Ghostless == ThreadType /\ Place /\ NoGhosts

\* Steps that move the thread on, or not, and touch nothing of the clients.
LEMMA GhostsSame ==
  ASSUME Ghostless, UNCHANGED <<threadVars, watches, buffers>>, Open' = Open
  PROVE  Ghostless'
BY DEF Ghostless, ThreadType, Place, NoGhosts, threadVars

LEMMA ThreadMoves ==
  ASSUME Ghostless,
         UNCHANGED <<serving, todo, watches, buffers>>, Open' = Open,
         ready' \subseteq ready, news' \subseteq news,
         pc' \in Kind \cup {"loop", "poll", "channels", "reload", "read", "install", "ended",
                            "dead", "closed"},
         pc # "lines", todo = {}, pc' # "channels" => ready' = {}
  PROVE  Ghostless'
BY DEF Ghostless, ThreadType, Place, NoGhosts, Kind

\* A step that ends connections, of the clients D.
LEMMA ConnectionsEnd ==
  ASSUME Ghostless, NetType, WatchType, NEW D \in SUBSET Client, Disconnect(D),
         pc' \in Kind \cup {"loop", "poll", "channels", "tell", "reload", "read", "install",
                            "ended", "dead", "closed"},
         serving' = NoClient, ready' \subseteq ready \ D, todo' \subseteq todo \ D,
         news' = news, pc' # "channels" => ready' = {}, pc' # "tell" => todo' = {}
  PROVE  Ghostless'
<1>1. Open' = Open \ D
  BY DEF Disconnect, Open, NetType
<1>2. ThreadType'
  BY DEF Ghostless, ThreadType
<1>3. NoClient \notin Client
  BY ServerAssumption
<1>4. Place'
  BY <1>1, <1>3 DEF Ghostless, Place, Open, Kind
<1>5. ASSUME NEW c \in Client, c \notin Open'
      PROVE  /\ c \notin ready' \cup todo' \cup {serving'}
             /\ buffers'[c] = <<>>
             /\ \A k \in Kind : watches'[k][c] = {}
  <2>1. CASE c \in D
    BY <1>3, <2>1 DEF Disconnect, Forget
  <2>2. CASE c \notin D
    <3>1. c \notin Open
      BY <1>1, <1>5, <2>2
    <3>2. c \notin ready \cup todo /\ buffers[c] = <<>> /\ \A k \in Kind : watches[k][c] = {}
      BY <3>1 DEF Ghostless, NoGhosts
    <3>3. buffers'[c] = <<>> /\ \A k \in Kind : watches'[k][c] = {}
      BY <2>2, <3>2 DEF Disconnect, Forget
    <3> QED BY <1>3, <3>2, <3>3
  <2> QED BY <2>1, <2>2
<1>6. NoGhosts'
  BY <1>5 DEF NoGhosts
<1> QED BY <1>2, <1>4, <1>6 DEF Ghostless

LEMMA RebindGhosts ==
  ASSUME Ghostless, NetType, WatchType, NEW moved \in BOOLEAN, Rebind(moved),
         pc = "install", pc' = "loop", UNCHANGED <<ready, serving, news, todo>>
  PROVE  Ghostless'
<1>1. ready = {} /\ serving = NoClient /\ todo = {} /\ Open \cup Waiting \in SUBSET Client
  BY DEF Ghostless, Place, Open, Waiting
<1>2. CASE CloseSockets
  BY <1>1, <1>2, ConnectionsEnd DEF CloseSockets
<1>3. CASE UNCHANGED <<netVars, sessionVars>>
  <2>1. UNCHANGED <<watches, buffers>> /\ Open' = Open
    BY <1>3 DEF netVars, sessionVars, Open
  <2> QED BY <1>1, <2>1, ThreadMoves
<1> QED BY <1>2, <1>3 DEF Rebind

LEMMA HandleKeeps ==
  ASSUME Ghostless, NetType, WatchType, Handle
  PROVE  Ghostless'
<1>0. /\ NoClient \notin Client /\ Listener \notin Client /\ Notify \notin Client
      /\ \A c \in Client : {c} \in SUBSET Client
  BY ServerAssumption
<1>1. CASE Drain \/ AcceptFails
  <2>1. /\ UNCHANGED <<pc, serving, news, todo, watches, buffers>> /\ Open' = Open
        /\ ready' \subseteq ready /\ pc = "channels"
    BY <1>1 DEF Drain, AcceptFails, netVars, sessionVars, Open
  <2>2. todo = {}
    BY <2>1 DEF Ghostless, Place
  <2> QED BY <2>1, <2>2, ThreadMoves
<1>2. CASE Accept
  <2>1. PICK c \in Client : socks[c] = "waiting" /\ socks' = [socks EXCEPT ![c] = "open"]
    BY <1>2 DEF Accept, Waiting
  <2>2. Open' = Open \cup {c}
    BY <2>1 DEF Open, NetType
  <2>3. /\ UNCHANGED <<pc, serving, news, todo, watches, buffers>>
        /\ ready' \subseteq ready /\ pc = "channels"
    BY <1>2 DEF Accept, sessionVars
  <2>4. Place'
    BY <1>0, <2>1, <2>2, <2>3 DEF Ghostless, Place, Open
  <2> QED BY <2>2, <2>3, <2>4 DEF Ghostless, ThreadType, NoGhosts
<1>3. CASE \E c \in Client : Receive(c)
  <2>1. PICK c \in Client : Receive(c)
    BY <1>3
  <2>2. /\ pc = "channels" /\ c \in ready /\ pc' = "lines" /\ serving' = c
        /\ ready' = ready \ {c} /\ UNCHANGED <<news, todo, socks, watches>>
    BY <2>1 DEF Receive
  <2>3. c \in Open /\ Open' = Open /\ todo = {}
    BY <2>2 DEF Ghostless, NoGhosts, Place, Open
  <2>4. \A d \in Client : d # c => buffers'[d] = buffers[d]
    BY <2>1 DEF Receive, Buffered, NetType
  <2>5. ThreadType' /\ Place'
    BY <2>2, <2>3 DEF Ghostless, ThreadType, Place
  <2>6. NoGhosts'
    BY <2>2, <2>3, <2>4 DEF Ghostless, NoGhosts
  <2> QED BY <2>5, <2>6 DEF Ghostless
<1>4. CASE \E c \in Client : HangUp(c)
  <2>1. PICK c \in Client : HangUp(c)
    BY <1>4
  <2>2. /\ Disconnect({c}) /\ UNCHANGED <<pc, serving, news, todo>> /\ pc = "channels"
        /\ ready' = ready \ {c}
    BY <2>1 DEF HangUp
  <2>3. serving = NoClient /\ todo = {}
    BY <2>2 DEF Ghostless, Place
  <2> QED BY <1>0, <2>2, <2>3, ConnectionsEnd
<1>5. CASE Execute
  <2>1. PICK l \in Line : Runs(l) /\ watches' = Obeyed(l)
    BY <1>5 DEF Execute
  <2>2. pc = "lines" /\ serving \in Open /\ serving \in Client
    BY <2>1 DEF Runs, HasLine, Ghostless, Place, Open
  <2>3. UNCHANGED <<threadVars, netVars>> /\ Open' = Open
    BY <1>5 DEF Execute, netVars, Open
  <2>4. \A d \in Client : d # serving =>
          buffers'[d] = buffers[d] /\ \A k \in Kind : watches'[k][d] = watches[k][d]
    <3>1. \A d \in Client : d # serving => buffers'[d] = buffers[d]
      BY <1>5 DEF Execute, NetType
    <3>2. ASSUME NEW d \in Client, d # serving, NEW k \in Kind
          PROVE  watches'[k][d] = watches[k][d]
      <4>1. watches \in [Kind -> [Client -> (SUBSET Item) \cup {{All}}]]
        BY DEF WatchType
      <4>2. CASE l.op = "watch"
        BY <2>1, <3>2, <4>1, <4>2 DEF Obeyed
      <4>3. CASE l.op = "unwatch"
        BY <2>1, <3>2, <4>1, <4>3 DEF Obeyed
      <4>4. CASE l.op \notin {"watch", "unwatch"}
        BY <2>1, <4>4 DEF Obeyed
      <4> QED BY <4>2, <4>3, <4>4
    <3> QED BY <3>1, <3>2
  <2>5. ThreadType' /\ Place'
    BY <2>3 DEF Ghostless, ThreadType, Place, threadVars
  <2>6. NoGhosts'
    BY <2>2, <2>3, <2>4 DEF Ghostless, NoGhosts, threadVars
  <2> QED BY <2>5, <2>6 DEF Ghostless
<1>6. CASE BadLine \/ AnswerFails
  <2>1. /\ Disconnect({serving}) /\ serving' = NoClient /\ UNCHANGED <<news, todo>>
        /\ pc = "lines" /\ pc' \in {"channels", "dead"}
        /\ ready' \subseteq ready /\ (pc' = "dead" => ready' = {})
    BY <1>6 DEF BadLine, AnswerFails, Runs, HasLine
  <2>2. serving \in Client /\ serving \notin ready /\ todo = {}
    BY <2>1 DEF Ghostless, Place, Open
  <2> QED BY <2>1, <2>2, ConnectionsEnd
<1>7. CASE LinesDone
  <2>1. /\ pc = "lines" /\ pc' = "channels" /\ serving' = NoClient
        /\ UNCHANGED <<ready, news, todo, socks, watches, buffers>>
    BY <1>7 DEF LinesDone, netVars, sessionVars
  <2> QED BY <1>0, <2>1 DEF Ghostless, ThreadType, Place, NoGhosts, Open
<1> QED BY <1>1, <1>2, <1>3, <1>4, <1>5, <1>6, <1>7 DEF Handle

LEMMA NotifyingKeeps ==
  ASSUME Ghostless, NetType, WatchType, ChangeType, Notifying
  PROVE  Ghostless'
<1>0. /\ NoClient \notin Client /\ \A c \in Client : {c} \in SUBSET Client
      /\ \A i \in Item : KindOf[i] \in Kind
  BY ServerAssumption
<1>1. CASE \E k \in Kind : ReadChanges(k)
  <2>1. PICK k \in Kind : ReadChanges(k)
    BY <1>1
  <2>2. /\ pc = k /\ news' = News(k)
        /\ todo' = {c \in Client : news' # {} /\ Concerns(watches[k][c], news')}
        /\ pc' = IF news' = {} THEN Following(k) ELSE "tell"
        /\ UNCHANGED <<ready, serving, socks, watches, buffers>>
    BY <2>1 DEF ReadChanges, netVars, sessionVars
  <2>3. Open' = Open /\ ready = {} /\ serving = NoClient
    BY <2>2 DEF Open, Ghostless, Place, Kind
  <2>4. /\ pc' \in Kind \cup {"reload", "tell"} /\ todo' \subseteq Client
        /\ (pc' # "tell" => todo' = {})
    BY <2>2 DEF Following, Kind
  <2>5. ThreadType'
    BY <2>2, <2>4 DEF Ghostless, ThreadType, News, ChangeType
  <2>6. Place'
    BY <1>0, <2>2, <2>3, <2>4 DEF Ghostless, Place, Kind, Open
  <2>7. ASSUME NEW c \in Client, c \notin Open
        PROVE  c \notin todo'
    <3>1. watches[k][c] = {}
      BY <2>7 DEF Ghostless, NoGhosts
    <3> QED BY <2>2, <3>1 DEF Concerns
  <2>8. NoGhosts'
    BY <2>2, <2>3, <2>7 DEF Ghostless, NoGhosts
  <2> QED BY <2>5, <2>6, <2>8 DEF Ghostless
<1>2. CASE \E c \in Client : Tell(c)
  <2>1. PICK c \in Client : Tell(c)
    BY <1>2
  <2>2. /\ pc = "tell" /\ todo' = todo \ {c}
        /\ UNCHANGED <<pc, ready, serving, news, socks, watches, buffers>>
    BY <2>1 DEF Tell, netVars, sessionVars
  <2>3. Open' = Open
    BY <2>2 DEF Open
  <2> QED BY <2>2, <2>3 DEF Ghostless, ThreadType, Place, NoGhosts
<1>3. CASE \E c \in Client : TellFails(c)
  <2>1. PICK c \in Client : TellFails(c)
    BY <1>3
  <2>2. /\ pc = "tell" /\ todo' = todo \ {c} /\ Disconnect({c})
        /\ UNCHANGED <<pc, ready, serving, news>>
    BY <2>1 DEF TellFails
  <2>3. serving = NoClient /\ ready = {}
    BY <2>2 DEF Ghostless, Place
  <2> QED BY <1>0, <2>2, <2>3, ConnectionsEnd
<1>4. CASE AllTold
  <2>1. /\ pc = "tell" /\ todo = {} /\ news' = {} /\ \E i \in news : pc' = Following(KindOf[i])
        /\ UNCHANGED <<ready, serving, todo, socks, watches, buffers>>
    BY <1>4 DEF AllTold, netVars, sessionVars
  <2>2. pc' \in {"machines", "reload"} /\ ready = {}
    BY <2>1 DEF Following, Ghostless, Place
  <2>3. Open' = Open
    BY <2>1 DEF Open
  <2> QED BY <2>1, <2>2, <2>3, ThreadMoves DEF Kind
<1> QED BY <1>1, <1>2, <1>3, <1>4 DEF Notifying

LEMMA OtherStepsKeep ==
  ASSUME Ghostless, NetType, WatchType,
         Loop \/ Poll \/ Cull \/ Reloading \/ Wake \/ CloseAll \/ Others
  PROVE  Ghostless'
<1>0. /\ NoClient \notin Client /\ Listener \notin Client /\ Notify \notin Client
      /\ Open \cup Waiting \in SUBSET Client
  BY ServerAssumption DEF Open, Waiting
<1>1. CASE Loop \/ CheckReload \/ ReadFile
  <2>1. /\ UNCHANGED <<ready, serving, news, todo, watches, buffers, socks>>
        /\ pc \in {"loop", "reload", "read"}
        /\ pc' \in {"loop", "poll", "read", "install", "ended"}
    BY <1>1 DEF Loop, CheckReload, ReadFile, netVars, sessionVars
  <2>2. ready = {} /\ todo = {} /\ Open' = Open
    BY <2>1 DEF Ghostless, Place, Open
  <2> QED BY <2>1, <2>2, ThreadMoves
<1>2. CASE Poll
  <2>1. /\ pc = "poll" /\ pc' = "channels" /\ ready' = Ready
        /\ UNCHANGED <<serving, news, todo, watches, buffers, socks>>
    BY <1>2 DEF Poll, netVars, sessionVars
  <2>2. /\ ready' \subseteq Open \cup {Listener, Notify}
        /\ Open \subseteq Client /\ serving = NoClient /\ Open' = Open
    BY <2>1 DEF Ready, Open, Ghostless, Place
  <2>3. ThreadType' /\ Place'
    BY <1>0, <2>1, <2>2 DEF Ghostless, ThreadType, Place
  <2>4. NoGhosts'
    BY <1>0, <2>1, <2>2 DEF Ghostless, NoGhosts
  <2> QED BY <2>3, <2>4 DEF Ghostless
<1>3. CASE Cull
  <2>1. /\ pc = "channels" /\ ready = {} /\ pc' = "jobs"
        /\ UNCHANGED <<ready, serving, news, todo, watches, buffers, socks>>
    BY <1>3 DEF Cull, netVars, sessionVars
  <2>2. todo = {} /\ Open' = Open
    BY <2>1 DEF Ghostless, Place, Open
  <2> QED BY <2>1, <2>2, ThreadMoves DEF Kind
<1>4. CASE Install \/ UpdateFails
  <2>1. PICK moved \in BOOLEAN : Rebind(moved)
    BY <1>4 DEF Install, UpdateFails
  <2>2. pc = "install" /\ pc' = "loop" /\ UNCHANGED <<ready, serving, news, todo>>
    BY <1>4 DEF Install, UpdateFails
  <2> QED BY <2>1, <2>2, RebindGhosts
<1>5. CASE BindFails \/ CloseAll
  <2>1. /\ pc \in {"install", "ended", "dead"} /\ pc' \in {"loop", "closed"}
        /\ Disconnect(Open \cup Waiting) /\ UNCHANGED <<ready, serving, news, todo>>
    BY <1>5 DEF BindFails, CloseAll, CloseSockets
  <2>2. serving = NoClient /\ ready = {} /\ todo = {}
    BY <2>1 DEF Ghostless, Place
  <2> QED BY <1>0, <2>1, <2>2, ConnectionsEnd
<1>6. CASE Wake \/ JobReady \/ JobFails \/ Hup \/ AskStop
  <2>1. UNCHANGED <<threadVars, watches, buffers, socks>>
    BY <1>6 DEF Wake, JobReady, JobFails, Hup, AskStop, netVars, sessionVars
  <2> QED BY <2>1, GhostsSame DEF Open
<1>7. CASE \E c \in Client : Connect(c)
  <2>1. PICK c \in Client : Connect(c)
    BY <1>7
  <2>2. /\ UNCHANGED <<threadVars, watches, buffers>> /\ socks[c] = "none"
        /\ socks' = [socks EXCEPT ![c] = "waiting"]
    BY <2>1 DEF Connect, sessionVars
  <2>3. Open' = Open
    BY <2>2 DEF Open, NetType
  <2> QED BY <2>2, <2>3, GhostsSame
<1>8. CASE \E c \in Client : Close(c) \/ \E l \in Line : Send(c, l)
  <2>1. UNCHANGED <<threadVars, watches, buffers, socks>>
    BY <1>8 DEF Close, Send, sessionVars
  <2> QED BY <2>1, GhostsSame DEF Open
<1> QED BY <1>1, <1>2, <1>3, <1>4, <1>5, <1>6, <1>7, <1>8 DEF Reloading, Others

-----------------------------------------------------------------------------
(* What clients are owed is kept for them.                                 *)

\* A change, with the news and those to be told of it as they were, ...
LEMMA ChangeForgetsNothing ==
  ASSUME NothingForgotten, NEW S \in SUBSET Item, NEW w,
         Change(S, w) \/ ChangeSilently(S, w), UNCHANGED <<news, todo>>
  PROVE  NothingForgotten'
<1>1. changed' = changed \cup S
  BY DEF Change, ChangeSilently
<1>2. \A c \in Client : due'[c] \subseteq due[c] \cup S
  BY DEF Change, ChangeSilently, DueWith
<1> QED BY <1>1, <1>2 DEF NothingForgotten

\* ... and while they stay the same.
LEMMA NothingForgottenHere ==
  ASSUME NothingForgotten, UNCHANGED <<changeVars, news, todo>>
  PROVE  NothingForgotten'
BY DEF NothingForgotten, changeVars

LEMMA NotifyingForgetsNothing ==
  ASSUME Ghostless, ChangePart, NothingForgotten, Notifying
  PROVE  NothingForgotten'
<1>0. \A c \in Client : due[c] \subseteq Item
  BY DEF ChangePart, ChangeType
<1>1. CASE \E k \in Kind : ReadChanges(k)
  <2>1. PICK k \in Kind : ReadChanges(k)
    BY <1>1
  <2>2. /\ pc = k /\ news' = News(k) /\ changed' = changed \ News(k)
        /\ todo' = {c \in Client : news' # {} /\ Concerns(watches[k][c], news')}
        /\ UNCHANGED due
    BY <2>1 DEF ReadChanges
  <2>3. todo = {}
    BY <2>2 DEF Ghostless, Place, Kind
  <2>4. ASSUME NEW c \in Client, NEW i \in due[c]
        PROVE  i \in changed' \/ (c \in todo' /\ i \in news')
    <3>1. i \in changed
      BY <2>3, <2>4 DEF NothingForgotten
    <3>2. Concerns(watches[KindOf[i]][c], {i})
      BY <2>4 DEF ChangePart, DueWatched
    <3>3. CASE i \in News(k)
      <4>1. KindOf[i] = k /\ i \in news'
        BY <2>2, <3>3 DEF News
      <4>2. Concerns(watches[k][c], news')
        BY <3>2, <4>1 DEF Concerns
      <4> QED BY <2>2, <4>1, <4>2
    <3>4. CASE i \notin News(k)
      BY <2>2, <3>1, <3>4
    <3> QED BY <3>3, <3>4
  <2> QED BY <2>2, <2>4 DEF NothingForgotten
<1>2. CASE \E c \in Client : Tell(c)
  <2>1. PICK c \in Client : Tell(c)
    BY <1>2
  <2>2. /\ todo' = todo \ {c} /\ UNCHANGED <<news, changed>>
        /\ due' = [due EXCEPT ![c] = @ \ (news \ (changed \ quiet))]
    BY <2>1 DEF Tell
  <2>3. \A d \in Client : d # c => due'[d] = due[d] /\ (d \in todo' <=> d \in todo)
    BY <2>2 DEF ChangePart, ChangeType
  <2>4. due'[c] \subseteq changed
    <3>1. due'[c] = due[c] \ (news \ (changed \ quiet))
      BY <2>2 DEF ChangePart, ChangeType
    <3> QED BY <3>1 DEF NothingForgotten
  <2> QED BY <2>2, <2>3, <2>4 DEF NothingForgotten
<1>3. CASE \E c \in Client : TellFails(c)
  <2>1. PICK c \in Client : TellFails(c)
    BY <1>3
  <2>2. /\ todo' = todo \ {c} /\ UNCHANGED news /\ changed' = changed
        /\ due' = DueWith(watches', {}) /\ watches' = Forget({c})
    BY <2>1 DEF TellFails, Disconnect, Change
  <2>3. due'[c] = {}
    <3>1. \A i \in due[c] : KindOf[i] \in Kind
      BY <1>0, ServerAssumption
    <3>2. \A k \in Kind : watches'[k][c] = {}
      BY <2>2 DEF Forget
    <3> QED BY <2>2, <3>1, <3>2 DEF DueWith, Concerns
  <2>4. \A d \in Client : due'[d] \subseteq due[d]
    BY <2>2 DEF DueWith
  <2> QED BY <2>2, <2>3, <2>4 DEF NothingForgotten
<1>4. CASE AllTold
  BY <1>4 DEF AllTold, changeVars, NothingForgotten
<1> QED BY <1>1, <1>2, <1>3, <1>4 DEF Notifying

LEMMA NothingEverForgotten ==
  ASSUME Ghostless, ChangePart, NothingForgotten, SNext
  PROVE  NothingForgotten'
<1>0. /\ {} \in SUBSET Item
      /\ \A S : S \in (SUBSET Item) \ {{}} => S \in SUBSET Item
  OBVIOUS
<1>1. CASE Accept \/ AcceptFails \/ (\E c \in Client : Receive(c)) \/ LinesDone \/ Drain
           \/ Loop \/ Poll
  <2>1. UNCHANGED <<changeVars, news, todo>>
    BY <1>1 DEF Accept, AcceptFails, Receive, LinesDone, Drain, Loop, Poll
  <2> QED BY <2>1, NothingForgottenHere
<1>2. CASE (\E c \in Client : Connect(c) \/ Close(c) \/ \E l \in Line : Send(c, l))
           \/ Wake \/ Hup \/ AskStop \/ CheckReload \/ ReadFile
  <2>1. UNCHANGED <<changeVars, news, todo>>
    BY <1>2 DEF Connect, Close, Send, Wake, Hup, AskStop, CheckReload, ReadFile, threadVars
  <2> QED BY <2>1, NothingForgottenHere
<1>3. CASE JobReady \/ JobFails \/ Cull
  <2>1. /\ UNCHANGED <<news, todo>>
        /\ \E S \in SUBSET Item : Change(S, watches) \/ ChangeSilently(S, watches)
    BY <1>0, <1>3 DEF JobReady, JobFails, Cull, threadVars
  <2> QED BY <2>1, ChangeForgetsNothing
<1>4. CASE (\E c \in Client : HangUp(c)) \/ BadLine \/ BindFails \/ CloseAll
  <2>1. UNCHANGED <<news, todo>> /\ Change({}, watches')
    BY <1>4 DEF HangUp, BadLine, BindFails, CloseAll
  <2> QED BY <1>0, <2>1, ChangeForgetsNothing
<1>5. CASE Execute \/ AnswerFails
  <2>1. UNCHANGED <<news, todo>> /\ \E S \in SUBSET Item : Change(S, watches')
    BY <1>0, <1>5 DEF Execute, AnswerFails, Effects, threadVars
  <2> QED BY <2>1, ChangeForgetsNothing
<1>6. CASE Install \/ UpdateFails
  <2>1. /\ UNCHANGED <<news, todo>>
        /\ \E S \in SUBSET Item : Change(S, watches') \/ ChangeSilently(S, watches')
    BY <1>6 DEF Install, UpdateFails
  <2> QED BY <2>1, ChangeForgetsNothing
<1>7. CASE Notifying
  BY <1>7, NotifyingForgetsNothing
<1> QED BY <1>1, <1>2, <1>3, <1>4, <1>5, <1>6, <1>7 DEF SNext, Busy, Others, Handle, Reloading

-----------------------------------------------------------------------------
LEMMA InvariantStarts == SInit => SInv
<1> SUFFICES ASSUME SInit PROVE SInv
  OBVIOUS
<1>0. MaxLines \in Nat /\ MaxChanges \in Nat /\ MaxSignals \in Nat /\ NoClient \notin Client
  BY ServerAssumption
<1>1. ThreadPart
  BY <1>0 DEF SInit, ThreadPart, ThreadType, Place, NoGhosts, NothingForgotten, Open
<1>2. NetPart
  <2>1. <<>> \in Seq(Piece)
    BY EmptySeq
  <2>2. NetType /\ Untouched
    BY <1>0, <2>1 DEF SInit, NetType, Untouched
  <2>3. LinesInOrder
    BY DEF SInit, LinesInOrder, Open, Waiting
  <2> QED BY <2>2, <2>3 DEF NetPart
<1>3. ChangePart
  <2>1. WatchType /\ ChangeType /\ DueWatched
    BY <1>0 DEF SInit, WatchType, ChangeType, DueWatched
  <2> QED BY <2>1 DEF ChangePart
<1>4. FlagType
  <2>1. signals \in 0 .. MaxSignals
    BY <1>0 DEF SInit
  <2>2. TRUE \in BOOLEAN /\ FALSE \in BOOLEAN
    OBVIOUS
  <2> QED BY <2>1, <2>2, Zenon DEF SInit, FlagType
<1> QED BY <1>1, <1>2, <1>3, <1>4 DEF SInv

LEMMA InvariantKept ==
  ASSUME SInv, [SNext]_vars
  PROVE  SInv'
<1>1. CASE SNext
  <2>1. Ghostless /\ NetType /\ WatchType /\ ChangeType /\ NothingForgotten /\ FlagType
        /\ ThreadType /\ Place /\ DueWatched /\ ChangePart /\ NetPart
    BY DEF SInv, ThreadPart, NetPart, ChangePart, Ghostless
  <2>2. Ghostless'
    BY <1>1, <2>1, HandleKeeps, NotifyingKeeps, OtherStepsKeep DEF SNext, Busy
  <2>3. NothingForgotten'
    BY <1>1, <2>1, NothingEverForgotten
  <2>4. NetPart'
    BY <1>1, <2>1, StepsOnNet, NetKept
  <2>5. ChangePart'
    <3>1. Changing /\ Watching
      BY <1>1, <2>1, StepsOnChanges
    <3>2. WatchType'
      BY <2>1, <3>1, WatchesTyped
    <3> QED BY <2>1, <3>1, <3>2, ChangesKept DEF ChangePart
  <2>6. FlagType'
    BY <1>1, <2>1, FlagsKept
  <2> QED BY <2>2, <2>3, <2>4, <2>5, <2>6 DEF SInv, ThreadPart, Ghostless
<1>2. CASE UNCHANGED vars
  <2> USE <1>2 DEF vars, threadVars, netVars, sessionVars, changeVars, wakeVars, signalVars
  <2>1. ThreadPart'
    BY DEF SInv, ThreadPart, ThreadType, Place, NoGhosts, NothingForgotten, Open
  <2>2. NetPart'
    BY DEF SInv, NetPart, NetType, Untouched, LinesInOrder, Open, Waiting
  <2>3. ChangePart' /\ FlagType'
    BY DEF SInv, ChangePart, WatchType, ChangeType, DueWatched, FlagType
  <2> QED BY <2>1, <2>2, <2>3 DEF SInv
<1> QED BY <1>1, <1>2

LEMMA InvariantHolds == SSpec => []SInv
<1>1. SInit => SInv
  BY InvariantStarts
<1>2. SInv /\ [SNext]_vars => SInv'
  BY InvariantKept
<1> QED BY <1>1, <1>2, PTL DEF SSpec

\* STypeOK, over any clients, jobs and machines.
THEOREM ServerTypes == SSpec => []STypeOK
<1>1. SInv => STypeOK
  <2> SUFFICES ASSUME SInv PROVE STypeOK
    OBVIOUS
  <2>1. ThreadType /\ Place /\ NetType /\ WatchType /\ ChangeType /\ FlagType
    BY DEF SInv, ThreadPart, NetPart, ChangePart
  <2>2. (pc = "lines") = (serving \in Open)
    BY <2>1 DEF Place
  <2>3. /\ news \subseteq Item /\ todo \subseteq Client
        /\ {listening, notify, waking, reload, owed, stopping} \subseteq BOOLEAN
    BY <2>1 DEF ThreadType, FlagType
  <2> QED BY <2>1, <2>2, <2>3
          DEF STypeOK, ThreadType, NetType, WatchType, ChangeType, FlagType
<1> QED BY <1>1, InvariantHolds, PTL

\* Of a client that was disconnected nothing is left in the server thread, whether it
\* hung up, sent nonsense, could not be answered or told, or lost its socket to a reload
\* (_disconnect_client).
THEOREM DisconnectedIsForgotten == SSpec => []NoGhosts
<1>1. SInv => NoGhosts
  BY DEF SInv, ThreadPart
<1> QED BY <1>1, InvariantHolds, PTL

\* A change is with the controller or in hand until the clients who watch the thing
\* have been told, or no longer watch it (_send_change_notifications).
THEOREM ChangesAreHandedOver == SSpec => []NothingForgotten
<1>1. SInv => NothingForgotten
  BY DEF SInv, ThreadPart
<1> QED BY <1>1, InvariantHolds, PTL

\* Commands are executed whole, once each and in the order they were sent in, however
\* recv cuts them up (_handle_commands).
THEOREM CommandsInOrder == SSpec => []LinesInOrder
<1>1. SInv => LinesInOrder
  BY DEF SInv, NetPart
<1> QED BY <1>1, InvariantHolds, PTL
=============================================================================
