------------------------------- MODULE Server -------------------------------
(***************************************************************************)
(* The server thread (server.py, polling_server_core.py,                   *)
(* configuration_reloader.py) and those it deals with: clients, BMP        *)
(* threads that change jobs in the background, signals, and the main       *)
(* thread, which stops it.  A step of the thread lies between two points   *)
(* where one of the others may matter.                                     *)
(*                                                                         *)
(* The controller is what the server sees of it: the sets of jobs and      *)
(* machines that have changed, which any of its methods may add to.  What  *)
(* a client sends comes in pieces: each line is two, the last of which has *)
(* the newline.  A socket to a client that has gone may still accept data. *)
(***************************************************************************)
EXTENDS Naturals, Sequences, FiniteSetsExt

CONSTANTS
  Client,      \* connections, each made at most once
  NoClient,
  Item,        \* jobs and machines
  KindOf,      \* "jobs" or "machines"
  All,         \* the ID None: every job, or every machine
  Line,        \* what a client may send
  NoLine,
  Listener,    \* the channel of the server socket
  Notify,      \* the channel of the socket pair
  MaxLines,    \* bound: lines sent by all clients together
  MaxChanges,  \* bound: steps that change jobs or machines
  MaxSignals   \* bound: SIGHUPs

Kind == {"jobs", "machines"}

\* "use" is any command that calls the controller, "bad" a line that is not
\* JSON or names no command.
ASSUME ServerAssumption ==
  /\ IsFiniteSet(Client) /\ KindOf \in [Item -> Kind]
  /\ All \notin Item /\ NoClient \notin Client /\ NoLine \notin Line
  /\ Listener \notin Client /\ Notify \notin Client /\ Listener # Notify
  /\ Line \subseteq [op : {"watch", "unwatch", "use", "bad"},
                     kind : Kind, item : Item \cup {All}]
  /\ MaxLines \in Nat /\ MaxChanges \in Nat /\ MaxSignals \in Nat

VARIABLES
  pc,         \* where the server thread is
  ready,      \* channels the last poll reported, not yet handled
  serving,    \* the client whose lines are being executed
  news,       \* the changes being sent out
  todo,       \* the clients they are still to be sent to
  socks,      \* each client's connection
  peer,       \* the client's end of it
  inbox,      \* pieces on their way to the server
  sent, done, \* lines sent and executed, per client
  buffers,    \* _client_buffers
  watches,    \* _client_job_watches, _client_machine_watches
  listening,  \* is there a _server_socket?
  changed,    \* changed_jobs and changed_machines of the controller
  changes,
  quiet,      \* history: those that came about without a call of wake
  due,        \* history: the others each client has yet to be told of
  notify,     \* is there data in the socket pair?
  waking,     \* is the main thread about to call wake?
  reload,     \* _reload_config
  owed,       \* history: a SIGHUP came and the file was not read since
  signals,
  stopping    \* _stop

threadVars == <<pc, ready, serving, news, todo>>
netVars    == <<socks, peer, inbox, sent>>
sessionVars == <<done, buffers, watches>>
changeVars == <<changed, changes, quiet, due>>
wakeVars   == <<notify, waking>>
signalVars == <<reload, owed, signals>>
vars == <<threadVars, netVars, sessionVars, listening, changeVars, wakeVars,
          signalVars, stopping>>

Open == {c \in Client : socks[c] = "open"}
Waiting == {c \in Client : socks[c] = "waiting"}

-----------------------------------------------------------------------------
(* Watches and changes                                                     *)

\* Mutant: the client's entry None is added to.
Register_Adds(w, x) == IF x = All THEN {All} ELSE w \cup {x}

\* No entry in the dictionary is the empty set, an entry None is {All}.
Register(w, x) ==
  IF x = All THEN {All} ELSE IF All \in w THEN w ELSE w \cup {x}

Unregister(w, x) == IF x = All THEN {} ELSE w \ {x}

Concerns(w, items) == All \in w \/ w \cap items # {}

\* What is due when S has changed too and the watches are w.
DueWith(w, S) ==
  [c \in Client |->
     {i \in due[c] \cup S : Concerns(w[KindOf[i]][c], {i})}]

\* The controller changes S and the server will be woken, or is awake; w are
\* the watches after this step.
Change(S, w) ==
  /\ S # {} => changes < MaxChanges
  /\ changes' = IF S = {} THEN changes ELSE changes + 1
  /\ changed' = changed \cup S
  /\ quiet' = quiet \ S
  /\ due' = DueWith(w, S)

\* The controller changes S and nobody wakes the server.
ChangeSilently(S, w) ==
  /\ S # {} => changes < MaxChanges
  /\ changes' = IF S = {} THEN changes ELSE changes + 1
  /\ changed' = changed \cup S
  /\ quiet' = quiet \cup (S \ changed)
  /\ due' = DueWith(w, {})

-----------------------------------------------------------------------------
(* Connections                                                             *)

\* Mutant: only the machine watches are cleared.
Forget_Machines(D) ==
  [watches EXCEPT !["machines"] = [c \in Client |-> IF c \in D THEN {} ELSE @[c]]]

\* _clear_watches
Forget(D) ==
  [k \in Kind |-> [c \in Client |-> IF c \in D THEN {} ELSE watches[k][c]]]

\* _disconnect_client, for each client of D.  Changes due and the thread's
\* place are the caller's.
Disconnect(D) ==
  /\ socks' = [c \in Client |-> IF c \in D THEN "closed" ELSE socks[c]]
  /\ inbox' = [c \in Client |-> IF c \in D THEN <<>> ELSE inbox[c]]
  /\ buffers' = [c \in Client |-> IF c \in D THEN <<>> ELSE buffers[c]]
  /\ watches' = Forget(D)
  /\ UNCHANGED <<peer, sent, done>>

Accept ==
  /\ pc = "channels" /\ Listener \in ready
  /\ \E c \in Waiting : socks' = [socks EXCEPT ![c] = "open"]
  /\ ready' = ready \ {Listener}
  /\ UNCHANGED <<pc, serving, news, todo, peer, inbox, sent, sessionVars,
                 listening, changeVars, wakeVars, signalVars, stopping>>

\* accept raises an IOError; the connection stays where it is.
AcceptFails ==
  /\ pc = "channels" /\ Listener \in ready
  /\ ready' = ready \ {Listener}
  /\ UNCHANGED <<pc, serving, news, todo, netVars, sessionVars, listening,
                 changeVars, wakeVars, signalVars, stopping>>

Connect(c) ==
  /\ listening /\ socks[c] = "none"
  /\ socks' = [socks EXCEPT ![c] = "waiting"]
  /\ UNCHANGED <<threadVars, peer, inbox, sent, sessionVars, listening,
                 changeVars, wakeVars, signalVars, stopping>>

\* The lines sent so far, which MaxLines bounds.
AllSent == UNION {{c} \X (1 .. sent[c]) : c \in Client}

Pieces(n, l) == <<[nr |-> n, line |-> NoLine], [nr |-> n, line |-> l]>>

Send(c, l) ==
  /\ socks[c] \in {"waiting", "open"} /\ peer[c] = "up"
  /\ Cardinality(AllSent) < MaxLines
  /\ sent' = [sent EXCEPT ![c] = @ + 1]
  /\ inbox' = [inbox EXCEPT ![c] = @ \o Pieces(sent[c] + 1, l)]
  /\ UNCHANGED <<threadVars, socks, peer, sessionVars, listening, changeVars,
                 wakeVars, signalVars, stopping>>

Close(c) ==
  /\ socks[c] \in {"waiting", "open"} /\ peer[c] = "up"
  /\ peer' = [peer EXCEPT ![c] = "down"]
  /\ UNCHANGED <<threadVars, socks, inbox, sent, sessionVars, listening,
                 changeVars, wakeVars, signalVars, stopping>>

-----------------------------------------------------------------------------
(* Waiting for something to do: ready_channels and wake                    *)

Ready ==
  {c \in Open : inbox[c] # <<>> \/ peer[c] = "down"}
    \cup {l \in {Listener} : listening /\ Waiting # {}}
    \cup {n \in {Notify} : notify}

Loop ==
  /\ pc = "loop"
  /\ pc' = IF stopping THEN "ended" ELSE "poll"
  /\ UNCHANGED <<ready, serving, news, todo, netVars, sessionVars, listening,
                 changeVars, wakeVars, signalVars, stopping>>

\* With nothing ready, timeout_check_interval has gone by.
Poll ==
  /\ pc = "poll"
  /\ ready' = Ready
  /\ pc' = "channels"
  /\ UNCHANGED <<serving, news, todo, netVars, sessionVars, listening,
                 changeVars, wakeVars, signalVars, stopping>>

Drain ==
  /\ pc = "channels" /\ Notify \in ready
  /\ ready' = ready \ {Notify}
  /\ notify' = FALSE
  /\ UNCHANGED <<pc, serving, news, todo, netVars, sessionVars, listening,
                 changeVars, waking, signalVars, stopping>>

Wake ==
  /\ waking
  /\ waking' = FALSE
  /\ notify' = TRUE
  /\ UNCHANGED <<threadVars, netVars, sessionVars, listening, changeVars,
                 signalVars, stopping>>

-----------------------------------------------------------------------------
(* A client's data: _handle_commands                                       *)

\* Mutant: new data takes the place of the buffer.
Buffered_Replaces(c, n) ==
  /\ buffers' = [buffers EXCEPT ![c] = SubSeq(inbox[c], 1, n)]
  /\ inbox' = [inbox EXCEPT ![c] = SubSeq(@, n + 1, Len(@))]

Buffered(c, n) ==
  /\ buffers' = [buffers EXCEPT ![c] = @ \o SubSeq(inbox[c], 1, n)]
  /\ inbox' = [inbox EXCEPT ![c] = SubSeq(@, n + 1, Len(@))]

\* recv returns any part of what has come.
Receive(c) ==
  /\ pc = "channels" /\ c \in ready
  /\ \E n \in 1 .. Len(inbox[c]) : Buffered(c, n)
  /\ pc' = "lines" /\ serving' = c /\ ready' = ready \ {c}
  /\ UNCHANGED <<news, todo, socks, peer, sent, done, watches, listening,
                 changeVars, wakeVars, signalVars, stopping>>

\* recv returns b"" at the end of the data; or it, or getpeername, raises
\* because the connection was reset.
HangUp(c) ==
  /\ pc = "channels" /\ c \in ready /\ peer[c] = "down"
  /\ Disconnect({c}) /\ Change({}, watches')
  /\ ready' = ready \ {c}
  /\ UNCHANGED <<pc, serving, news, todo, listening, wakeVars, signalVars,
                 stopping>>

LineEnds(c) == {n \in DOMAIN buffers[c] : buffers[c][n].line # NoLine}

\* Where the first line in the buffer ends, or 0.
LineEnd(c) == IF LineEnds(c) = {} THEN 0 ELSE Min(LineEnds(c))

\* The line at hand: what precedes the first newline.
HasLine(l) ==
  /\ pc = "lines" /\ LineEnd(serving) # 0
  /\ l = buffers[serving][LineEnd(serving)].line

\* The effect of a command on the watches of the client.
Obeyed(l) ==
  CASE l.op = "watch"   -> [watches EXCEPT ![l.kind][serving] =
                                             Register(@, l.item)]
    [] l.op = "unwatch" -> [watches EXCEPT ![l.kind][serving] =
                                             Unregister(@, l.item)]
    [] OTHER -> watches

\* What a command may change in the controller, whose lock it needs.
Effects(l) == IF l.op = "use" THEN SUBSET Item ELSE {{}}

Runs(l) == HasLine(l) /\ l.op # "bad"

Execute ==
  \E l \in Line : \E S \in Effects(l) :
    /\ Runs(l)
    /\ watches' = Obeyed(l) /\ Change(S, watches')
    /\ buffers' = [buffers EXCEPT
                     ![serving] = SubSeq(@, LineEnd(serving) + 1, Len(@))]
    /\ done' = [done EXCEPT ![serving] = @ + 1]
    /\ UNCHANGED <<threadVars, netVars, listening, wakeVars, signalVars,
                   stopping>>

\* _handle_command raises and the client is disconnected.
BadLine ==
  /\ \E l \in Line : HasLine(l) /\ l.op = "bad"
  /\ Disconnect({serving}) /\ Change({}, watches')
  /\ pc' = "channels" /\ serving' = NoClient
  /\ UNCHANGED <<ready, news, todo, listening, wakeVars, signalVars, stopping>>

\* The answer cannot be sent.  _msg_client disconnects the client and raises;
\* _handle_commands disconnects it again, and poll.unregister, given a closed
\* socket, raises a ValueError that ends the thread.
AnswerFails ==
  \E l \in Line : \E S \in Effects(l) :
    /\ Runs(l) /\ peer[serving] = "down"
    /\ Disconnect({serving}) /\ Change(S, watches')
    /\ pc' = "dead" /\ serving' = NoClient /\ ready' = {}
    /\ UNCHANGED <<news, todo, listening, wakeVars, signalVars, stopping>>

LinesDone ==
  /\ pc = "lines" /\ LineEnd(serving) = 0
  /\ pc' = "channels" /\ serving' = NoClient
  /\ UNCHANGED <<ready, news, todo, netVars, sessionVars, listening,
                 changeVars, wakeVars, signalVars, stopping>>

-----------------------------------------------------------------------------
(* Culling and notifications                                               *)

\* destroy_timed_out_jobs and check_free
Cull ==
  /\ pc = "channels" /\ ready = {}
  /\ \E S \in SUBSET Item : Change(S, watches)
  /\ pc' = "jobs"
  /\ UNCHANGED <<ready, serving, news, todo, netVars, sessionVars, listening,
                 wakeVars, signalVars, stopping>>

Following(k) == IF k = "jobs" THEN "machines" ELSE "reload"

\* Mutant: jobs and machines are read as one.
News_All(k) == IF k \in Kind THEN changed ELSE {}

News(k) == {i \in changed : KindOf[i] = k}

\* changed_jobs and changed_machines return the set and start a new one.
ReadChanges(k) ==
  /\ pc = k
  /\ news' = News(k)
  /\ changed' = changed \ News(k) /\ quiet' = quiet \ News(k)
  /\ todo' = {c \in Client : news' # {} /\ Concerns(watches[k][c], news')}
  /\ pc' = IF news' = {} THEN Following(k) ELSE "tell"
  /\ UNCHANGED <<ready, serving, netVars, sessionVars, listening, changes,
                 due, wakeVars, signalVars, stopping>>

Tell(c) ==
  /\ pc = "tell" /\ c \in todo
  /\ todo' = todo \ {c}
  /\ due' = [due EXCEPT ![c] = @ \ (news \ (changed \ quiet))]
  /\ UNCHANGED <<pc, ready, serving, news, netVars, sessionVars, listening,
                 changed, changes, quiet, wakeVars, signalVars, stopping>>

\* _msg_client disconnects the client; its exception is logged.
TellFails(c) ==
  /\ pc = "tell" /\ c \in todo /\ peer[c] = "down"
  /\ todo' = todo \ {c}
  /\ Disconnect({c}) /\ Change({}, watches')
  /\ UNCHANGED <<pc, ready, serving, news, listening, wakeVars, signalVars,
                 stopping>>

AllTold ==
  /\ pc = "tell" /\ todo = {}
  /\ \E i \in news : pc' = Following(KindOf[i])
  /\ news' = {}
  /\ UNCHANGED <<ready, serving, todo, netVars, sessionVars, listening,
                 changeVars, wakeVars, signalVars, stopping>>

-----------------------------------------------------------------------------
(* Reloading the configuration: read_config_file, _load_valid_config       *)

\* The flag is cleared before the file is read.
CheckReload ==
  /\ pc = "reload"
  /\ pc' = IF reload THEN "read" ELSE "loop"
  /\ reload' = FALSE
  /\ UNCHANGED <<ready, serving, news, todo, netVars, sessionVars, listening,
                 changeVars, wakeVars, owed, signals, stopping>>

\* The file cannot be read, is no Python or defines no configuration; or it
\* is to be installed.
ReadFile ==
  /\ pc = "read"
  /\ owed' = FALSE
  /\ pc' \in {"loop", "install"}
  /\ UNCHANGED <<ready, serving, news, todo, netVars, sessionVars, listening,
                 changeVars, wakeVars, reload, signals, stopping>>

\* _close: the server socket, the connections made and those waiting for it.
\* The clients of both are gone.
CloseSockets == Disconnect(Open \cup Waiting)

\* If the address is new, or there is no server socket, everything is closed
\* and a new server socket opened.
Rebind(moved) ==
  IF moved \/ ~listening
    THEN CloseSockets
    ELSE UNCHANGED <<netVars, sessionVars>>

\* Mutant: the server is not woken to tell of what was changed.
Install_NoWake ==
  /\ pc = "install"
  /\ \E moved \in BOOLEAN : Rebind(moved)
  /\ \E S \in SUBSET Item : Change(S, watches')
  /\ listening' = TRUE
  /\ pc' = "loop"
  /\ UNCHANGED <<ready, serving, news, todo, wakeVars, signalVars, stopping>>

\* Mutant: the flag is cleared when the configuration is in use.
Install_ClearsFlag ==
  /\ pc = "install"
  /\ \E moved \in BOOLEAN : Rebind(moved)
  /\ \E S \in SUBSET Item : Change(S, watches')
  /\ listening' = TRUE
  /\ notify' = TRUE /\ reload' = FALSE
  /\ pc' = "loop"
  /\ UNCHANGED <<ready, serving, news, todo, waking, owed, signals, stopping>>

Install ==
  /\ pc = "install"
  /\ \E moved \in BOOLEAN : Rebind(moved)
  /\ \E S \in SUBSET Item : Change(S, watches')
  /\ listening' = TRUE
  /\ notify' = TRUE
  /\ pc' = "loop"
  /\ UNCHANGED <<ready, serving, news, todo, waking, signalVars, stopping>>

\* The new address cannot be had: the old socket is closed all the same.
\* read_config_file logs the exception.
BindFails ==
  /\ pc = "install"
  /\ CloseSockets /\ Change({}, watches')
  /\ listening' = FALSE
  /\ pc' = "loop"
  /\ UNCHANGED <<ready, serving, news, todo, wakeVars, signalVars, stopping>>

\* The machines setter raises with part of its work done; read_config_file
\* logs that too, and the call of wake was not reached.
UpdateFails ==
  /\ pc = "install"
  /\ \E moved \in BOOLEAN : Rebind(moved)
  /\ \E S \in SUBSET Item : ChangeSilently(S, watches')
  /\ listening' = TRUE
  /\ pc' = "loop"
  /\ UNCHANGED <<ready, serving, news, todo, wakeVars, signalVars, stopping>>

-----------------------------------------------------------------------------
(* The other threads                                                       *)

\* A job becomes ready: _bmp_on_request_complete records the change and calls
\* wake before it gives the lock back, so that the server cannot see the one
\* without the other.
JobReady ==
  /\ \E S \in (SUBSET Item) \ {{}} : Change(S, watches)
  /\ notify' = TRUE
  /\ UNCHANGED <<threadVars, netVars, sessionVars, listening, waking,
                 signalVars, stopping>>

\* A BMP fails and its job is destroyed: nobody is woken.
JobFails ==
  /\ \E S \in (SUBSET Item) \ {{}} : ChangeSilently(S, watches)
  /\ UNCHANGED <<threadVars, netVars, sessionVars, listening, wakeVars,
                 signalVars, stopping>>

\* The signal handler runs in the main thread.
Hup ==
  /\ signals < MaxSignals
  /\ signals' = signals + 1
  /\ reload' = TRUE /\ owed' = TRUE
  /\ waking' = TRUE
  /\ UNCHANGED <<threadVars, netVars, sessionVars, listening, changeVars,
                 notify, stopping>>

\* Mutant: the thread is left to time out.
AskStop_NoWake ==
  /\ ~stopping
  /\ stopping' = TRUE
  /\ UNCHANGED <<threadVars, netVars, sessionVars, listening, changeVars,
                 wakeVars, signalVars>>

\* stop_and_join, up to its wait for the thread
AskStop ==
  /\ ~stopping
  /\ stopping' = TRUE
  /\ waking' = TRUE
  /\ UNCHANGED <<threadVars, netVars, sessionVars, listening, changeVars,
                 notify, signalVars>>

\* stop_and_join, once the thread has ended
CloseAll ==
  /\ stopping /\ ~waking /\ pc \in {"ended", "dead"}
  /\ CloseSockets /\ Change({}, watches')
  /\ listening' = FALSE
  /\ pc' = "closed"
  /\ UNCHANGED <<ready, serving, news, todo, wakeVars, signalVars, stopping>>

-----------------------------------------------------------------------------
SInit ==
  /\ pc = "loop" /\ ready = {} /\ serving = NoClient
  /\ news = {} /\ todo = {}
  /\ socks = [c \in Client |-> "none"] /\ peer = [c \in Client |-> "up"]
  /\ inbox = [c \in Client |-> <<>>] /\ buffers = [c \in Client |-> <<>>]
  /\ sent = [c \in Client |-> 0] /\ done = [c \in Client |-> 0]
  /\ watches = [k \in Kind |-> [c \in Client |-> {}]]
  /\ listening = TRUE
  /\ changed = {i \in Item : KindOf[i] = "machines"}
  /\ changes = 0 /\ quiet = {} /\ due = [c \in Client |-> {}]
  /\ notify = TRUE /\ waking = FALSE
  /\ reload = FALSE /\ owed = FALSE /\ signals = 0
  /\ stopping = FALSE

Handle ==
  \/ Drain \/ Accept \/ AcceptFails
  \/ \E c \in Client : Receive(c) \/ HangUp(c)
  \/ Execute \/ BadLine \/ AnswerFails \/ LinesDone

Notifying ==
  \/ \E k \in Kind : ReadChanges(k)
  \/ \E c \in Client : Tell(c) \/ TellFails(c)
  \/ AllTold

Reloading == CheckReload \/ ReadFile \/ Install \/ BindFails \/ UpdateFails

\* What the thread does while it has something to do.
Busy ==
  \/ Loop \/ (Poll /\ Ready # {})
  \/ Handle \/ Cull \/ Notifying \/ Reloading

Others ==
  \/ \E c \in Client : Connect(c) \/ Close(c) \/ \E l \in Line : Send(c, l)
  \/ JobReady \/ JobFails \/ Hup \/ AskStop

SNext ==
  \/ Busy \/ Poll
  \/ Wake \/ CloseAll
  \/ Others

\* Running threads run, and a poll returns when there is something to report.
\* Nothing is assumed of timeouts of the poll, of clients or of signals.
SFairness ==
  /\ WF_vars(Busy)
  /\ WF_vars(Wake) /\ WF_vars(CloseAll)

SSpec == SInit /\ [][SNext]_vars /\ SFairness

-----------------------------------------------------------------------------
(* Properties                                                              *)

Piece == [nr : 1 .. MaxLines, line : Line \cup {NoLine}]

\* Types.  A client watches single jobs (machines) or all, never both.
STypeOK ==
  /\ pc \in Kind \cup {"loop", "poll", "channels", "lines", "tell", "reload",
                       "read", "install", "ended", "dead", "closed"}
  /\ ready \subseteq Client \cup {Listener, Notify}
  /\ serving \in Client \cup {NoClient} /\ (pc = "lines") = (serving \in Open)
  /\ news \subseteq Item /\ todo \subseteq Client
  /\ socks \in [Client -> {"none", "waiting", "open", "closed"}]
  /\ peer \in [Client -> {"up", "down"}]
  /\ inbox \in [Client -> Seq(Piece)] /\ buffers \in [Client -> Seq(Piece)]
  /\ sent \in [Client -> 0 .. MaxLines] /\ done \in [Client -> 0 .. MaxLines]
  /\ watches \in [Kind -> [Client -> (SUBSET Item) \cup {{All}}]]
  /\ quiet \subseteq changed /\ changed \subseteq Item
  /\ changes \in 0 .. MaxChanges
  /\ due \in [Client -> SUBSET Item]
  /\ signals \in 0 .. MaxSignals
  /\ {listening, notify, waking, reload, owed, stopping} \subseteq BOOLEAN

\* Nothing is kept of a client that has been disconnected, however that came
\* about: no buffer, no watch, no place in the lists being worked through
\* (_disconnect_client and its four callers).
NoGhosts ==
  \A c \in Client \ Open :
    /\ c \notin ready \cup todo \cup {serving}
    /\ buffers[c] = <<>>
    /\ \A k \in Kind : watches[k][c] = {}

\* A change to something a client watches stays with the controller until it
\* is read, and with the server until it has been sent to that client, though
\* other clients fail, BMP threads make further changes and the clients
\* change their watches in the meantime (_send_change_notifications,
\* changed_jobs, changed_machines).
NothingForgotten ==
  \A c \in Client :
    due[c] \subseteq changed \cup (IF c \in todo THEN news ELSE {})

\* However the data was cut up, what is buffered and on its way is the lines
\* not yet executed, each once, whole and in order (_handle_commands).
LinesInOrder ==
  \A c \in Open \cup Waiting :
    LET q == buffers[c] \o inbox[c] IN
      /\ Len(q) = 2 * (sent[c] - done[c])
      /\ \A n \in 1 .. Len(q) :
           /\ q[n].nr = done[c] + (n + 1) \div 2
           /\ (q[n].line # NoLine) = (n % 2 = 0)

\* Who watches something is told of a change without waiting for the poll to
\* time out, if the server made the change or was woken for it, unless the
\* watch ends first (wake, ready_channels, _run).
PromptlyTold ==
  \A c \in Client : \A i \in Item :
    i \in due[c] ~> (i \notin due[c] \/ pc = "dead")

\* A SIGHUP is followed by a reading of the file, be it sent while another is
\* being obeyed (_sighup_handler, read_config_file).
SignalObeyed == owed ~> (~owed \/ stopping \/ pc = "dead")

\* stop_and_join returns, with every socket closed, wherever the thread was.
StopsCleanly ==
  stopping ~> (pc = "closed" /\ ~listening /\ Open \cup Waiting = {})

\* "If any of the above fails for any reason (e.g. invalid JSON, unrecognised
\* command, command crashes, etc.), just disconnect the client."
\* (_handle_commands): the thread outlives every client.
ServerSurvives == pc # "dead"
=============================================================================
