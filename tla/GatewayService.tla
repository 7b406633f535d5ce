---------------------------- MODULE GatewayService ----------------------------
(***************************************************************************)
(* The gateway as a service of the process (gateway.py, server.py): how    *)
(* ensure_started brings up the SSH listener in a thread of its own, how   *)
(* tools and WebSocket dial-ins share the threads of asyncio's default     *)
(* executor, and how a dial-in is bridged to the listener's port.          *)
(*                                                                         *)
(* A job is a tool call or a dial-in.  It runs on the event loop between   *)
(* its awaits; asyncio.to_thread and run_in_executor put a piece of work   *)
(* in the executor's FIFO queue, and the job goes on when a thread has     *)
(* done it.  A thread stays with its work while it waits for the lock, for *)
(* the listener, for a session to connect or for a push.  What sessions    *)
(* are and who may use them is the business of BoardSessions.              *)
(***************************************************************************)
EXTENDS Naturals, Sequences, FiniteSets

CONSTANTS
  Open,        \* calls of open_board_session
  Console,     \* those with console=True
  Plain,       \* calls of the other tools that need the gateway
  Dial,        \* WebSocket connections of agents
  Threads,     \* size of the default executor
  Attempt,     \* listener threads ensure_started may start
  Foreign,     \* another process
  None,
  MaxSlow,     \* how often a listener takes longer than ready.wait allows
  MaxStops     \* how often stop is called

ASSUME ConsolesAreOpens == Console \subseteq Open
ASSUME JobsDisjoint == Open \cap Plain = {} /\ (Open \cup Plain) \cap Dial = {}
\* A session of an open: the board's, or its console's.
Part == {"board", "console"}

ASSUME StrangersAreNobody ==
  /\ None \notin Attempt \cup {Foreign} \cup Open \cup Plain \cup Dial \cup (Open \X Part)
  /\ Foreign \notin Attempt
ASSUME BoundsAreNat == Threads \in Nat \ {0} /\ MaxSlow \in Nat /\ MaxStops \in Nat

VARIABLES
  queue,       \* the executor's work queue
  pc, work,    \* job -> progress, and the piece of work it gave the executor
  lock,        \* the job whose thread holds Gateway._lock
  trying,      \* the listener that thread waits for
  loop,        \* Gateway._loop: the listener ensure_started recorded
  listener,    \* listener threads
  port,        \* who listens on gateway_port
  sessions,    \* opens that created their sessions and submitted the job
  connected,   \* <<open, part>> whose _connected event is set
  aim,         \* dial-in -> the <<open, part>> whose agent dials
  reached,     \* dial-in -> whom the bridge connected it to
  told,        \* history: opens that reported connected=True
  met,         \* history: who had the port when a listener failed to bind it
  slow, stops  \* counters of the two bounds

exec == <<queue, pc, work>>
gate == <<lock, trying, loop, listener, port, slow, stops>>
ends == <<sessions, connected, aim, reached, told>>
vars == <<exec, gate, ends, met>>

Tool == Open \cup Plain
Job  == Tool \cup Dial
Work == {"start", "board", "console", "wire"}

TypeOK ==
  /\ queue \in Seq(Job)
  /\ pc \in [Job -> {"idle", "queued", "locking", "holding", "blocked", "resumed",
                     "bridged", "done", "error"}]
  /\ work \in [Job -> Work]
  /\ lock \in Job \cup {None}
  /\ trying \in Attempt \cup {None}
  /\ loop \in Attempt \cup {None}
  /\ listener \in [Attempt -> {"none", "starting", "listening", "failed", "stopped"}]
  /\ port \in Attempt \cup {None, Foreign}
  /\ sessions \subseteq Open
  /\ connected \subseteq Open \X Part
  /\ aim \in [Dial -> (Open \X Part) \cup {None}]
  /\ reached \in [Dial -> Attempt \cup {None, Foreign}]
  /\ told \subseteq Open
  /\ met \subseteq Attempt \cup {Foreign}
  /\ slow \in 0..MaxSlow
  /\ stops \in 0..MaxStops

\* Another process may have the port when the server starts.
Init ==
  /\ queue = <<>>
  /\ pc = [j \in Job |-> "idle"]
  /\ work = [j \in Job |-> "start"]
  /\ lock = None /\ trying = None /\ loop = None
  /\ listener = [n \in Attempt |-> "none"]
  /\ port \in {None, Foreign}
  /\ sessions = {} /\ connected = {}
  /\ aim = [d \in Dial |-> None]
  /\ reached = [d \in Dial |-> None]
  /\ told = {} /\ met = {} /\ slow = 0 /\ stops = 0

-----------------------------------------------------------------------------
(* The executor.                                                           *)

OnThread == {j \in Job : pc[j] \in {"locking", "holding", "blocked"}}

\* The event loop hands the executor the piece of work w of job j.
Submit(j, w) ==
  /\ queue' = Append(queue, j)
  /\ pc' = [pc EXCEPT ![j] = "queued"]
  /\ work' = [work EXCEPT ![j] = w]

Goes(j, to) == pc' = [pc EXCEPT ![j] = to] /\ UNCHANGED <<queue, work>>

\* A free thread takes the next piece of work.
Take ==
  /\ queue # <<>>
  /\ Cardinality(OnThread) < Threads
  /\ queue' = Tail(queue)
  /\ pc' = [pc EXCEPT ![Head(queue)] =
              IF work[Head(queue)] = "start" THEN "locking" ELSE "blocked"]
  /\ UNCHANGED <<work, gate, ends, met>>

-----------------------------------------------------------------------------
(* ensure_started, in a thread, and the listener thread it starts.         *)

\* The test of _loop under the lock.
MutStarted == FALSE
Started == loop # None

AlreadyStarted(j) ==
  /\ pc[j] = "locking"
  /\ lock = None
  /\ Started
  /\ Goes(j, "resumed")
  /\ UNCHANGED <<gate, ends, met>>

\* A new listener thread; ids of failed ones are used again.
StartListener(j, n) ==
  /\ pc[j] = "locking"
  /\ lock = None
  /\ ~Started
  /\ listener[n] \in {"none", "failed"}
  /\ listener' = [listener EXCEPT ![n] = "starting"]
  /\ trying' = n
  /\ lock' = j
  /\ Goes(j, "holding")
  /\ UNCHANGED <<loop, port, slow, stops, ends, met>>

\* _start_server binds the port, or fails because it is taken.
StartServer(n) ==
  /\ listener[n] = "starting"
  /\ IF port = None
     THEN /\ port' = n
          /\ listener' = [listener EXCEPT ![n] = "listening"]
          /\ UNCHANGED met
     ELSE /\ listener' = [listener EXCEPT ![n] = "failed"]
          /\ met' = met \cup {port}
          /\ UNCHANGED port
  /\ UNCHANGED <<lock, trying, loop, slow, stops, exec, ends>>

Ready(j) ==
  /\ pc[j] = "holding"
  /\ listener[trying] = "listening"
  /\ loop' = trying
  /\ lock' = None /\ trying' = None
  /\ Goes(j, "resumed")
  /\ UNCHANGED <<listener, port, slow, stops, ends, met>>

\* How ensure_started ends when the listener reported an error.
MutSurfaced == "resumed"
Surfaced == "error"

StartFails(j) ==
  /\ pc[j] = "holding"
  /\ listener[trying] = "failed"
  /\ lock' = None /\ trying' = None
  /\ Goes(j, Surfaced)
  /\ UNCHANGED <<loop, listener, port, slow, stops, ends, met>>

\* What is recorded of a listener that was not ready in time.
MutRecorded == trying
Recorded == loop

\* ready.wait gives up; the listener thread is left to itself.
StartTimesOut(j) ==
  /\ slow < MaxSlow
  /\ pc[j] = "holding"
  /\ listener[trying] = "starting"
  /\ slow' = slow + 1
  /\ loop' = Recorded
  /\ lock' = None /\ trying' = None
  /\ Goes(j, "error")
  /\ UNCHANGED <<listener, port, stops, ends, met>>

\* stop ends the loop; the listening socket stays open.
Stop ==
  /\ stops < MaxStops
  /\ loop # None
  /\ stops' = stops + 1
  /\ listener' = [listener EXCEPT ![loop] = "stopped"]
  /\ loop' = None
  /\ UNCHANGED <<lock, trying, port, slow, exec, ends, met>>

-----------------------------------------------------------------------------
(* Tool calls.                                                             *)

Call(t) ==
  /\ pc[t] = "idle"
  /\ Submit(t, "start")
  /\ UNCHANGED <<gate, ends, met>>

\* The tools that use the gateway once it runs; _submit needs its loop.
UseGateway(t) ==
  /\ t \in Plain
  /\ pc[t] = "resumed"
  /\ Goes(t, IF loop = None THEN "error" ELSE "done")
  /\ UNCHANGED <<gate, ends, met>>

\* open_board_session creates its sessions and submits the job (which may
\* fail), then waits for the board in a thread.
CreateAndSubmit(t) ==
  /\ t \in Open
  /\ pc[t] = "resumed"
  /\ work[t] = "start"
  /\ \/ /\ sessions' = sessions \cup {t}
        /\ Submit(t, "board")
     \/ /\ Goes(t, "error")
        /\ UNCHANGED sessions
  /\ UNCHANGED <<gate, connected, aim, reached, told, met>>

\* A thread in _connected.wait: the event, or the timeout.
Connected(t) == <<t, work[t]>> \in connected

WaitReturns(t) ==
  /\ pc[t] = "blocked"
  /\ work[t] \in Part
  /\ Connected(t)
  /\ Goes(t, "resumed")
  /\ told' = IF work[t] = "board" THEN told \cup {t} ELSE told
  /\ UNCHANGED <<gate, sessions, connected, aim, reached, met>>

MutTimesOut(t) == FALSE
TimesOut(t) == ~Connected(t)

WaitTimesOut(t) ==
  /\ pc[t] = "blocked"
  /\ work[t] \in Part
  /\ TimesOut(t)
  /\ Goes(t, "resumed")
  /\ UNCHANGED <<gate, ends, met>>

\* What open_board_session does after the wait for the board.
Report(t) ==
  /\ pc[t] = "resumed"
  /\ work[t] = "board"
  /\ IF t \in Console /\ t \in told THEN Submit(t, "console") ELSE Goes(t, "done")
  /\ UNCHANGED <<gate, ends, met>>

\* _wire_console after its wait, whatever the wait said: the endpoint is
\* discovered and pushed in a thread, for as long as its timeouts allow.
WireConsole(t) ==
  /\ pc[t] = "resumed"
  /\ work[t] = "console"
  /\ Submit(t, "wire")
  /\ UNCHANGED <<gate, ends, met>>

Wired(t) ==
  /\ work[t] = "wire"
  /\ \/ pc[t] = "blocked" /\ Goes(t, "resumed")
     \/ pc[t] = "resumed" /\ Goes(t, "done")
  /\ UNCHANGED <<gate, ends, met>>

-----------------------------------------------------------------------------
(* Dial-ins: the WebSocket route.                                          *)

\* An agent of a submitted job dials; it dials again when it has to.
DialIn(d, t, part) ==
  /\ pc[d] = "idle"
  /\ t \in sessions
  /\ part = "console" => t \in Console
  /\ aim' = [aim EXCEPT ![d] = <<t, part>>]
  /\ Submit(d, "start")
  /\ UNCHANGED <<gate, sessions, connected, reached, told, met>>

\* bridge_websocket connects to whoever listens on the port.
BridgeWebsocket(d) ==
  /\ pc[d] = "resumed"
  /\ IF port = None
     THEN Goes(d, "error") /\ UNCHANGED reached
     ELSE Goes(d, "bridged") /\ reached' = [reached EXCEPT ![d] = port]
  /\ UNCHANGED <<gate, sessions, connected, aim, told, met>>

\* server_requested on the bridged stream, while the listener's loop runs.
Register(d) ==
  /\ pc[d] = "bridged"
  /\ reached[d] \in Attempt
  /\ listener[reached[d]] = "listening"
  /\ connected' = connected \cup {aim[d]}
  /\ UNCHANGED <<exec, gate, sessions, aim, reached, told, met>>

Hangup(d) ==
  /\ pc[d] = "bridged"
  /\ Goes(d, "done")
  /\ UNCHANGED <<gate, ends, met>>

\* The other process lets go of the port.
ForeignLeaves ==
  /\ port = Foreign
  /\ port' = None
  /\ UNCHANGED <<lock, trying, loop, listener, slow, stops, exec, ends, met>>

-----------------------------------------------------------------------------
EnsureStarted(j) ==
  \/ AlreadyStarted(j)
  \/ \E n \in Attempt : StartListener(j, n)
  \/ Ready(j)
  \/ StartFails(j)

ToolGoesOn(t) ==
  \/ UseGateway(t) \/ CreateAndSubmit(t) \/ Report(t) \/ WireConsole(t) \/ Wired(t)
  \/ WaitReturns(t) \/ WaitTimesOut(t)

Next ==
  \/ Take
  \/ \E j \in Job : EnsureStarted(j) \/ StartTimesOut(j)
  \/ \E n \in Attempt : StartServer(n)
  \/ Stop
  \/ \E t \in Tool : Call(t) \/ ToolGoesOn(t)
  \/ \E d \in Dial : BridgeWebsocket(d) \/ Register(d) \/ Hangup(d)
  \/ \E d \in Dial, t \in Open, part \in Part : DialIn(d, t, part)
  \/ ForeignLeaves

Spec == Init /\ [][Next]_vars

(***************************************************************************)
(* Fairness.  Threads and the event loop run, a wait ends at its timeout;  *)
(* no agent has to dial, and nobody has to call.                           *)
(***************************************************************************)
FairSpec ==
  /\ Spec
  /\ WF_vars(Take)
  /\ \A n \in Attempt : WF_vars(StartServer(n))
  /\ \A j \in Job : WF_vars(EnsureStarted(j))
  /\ \A t \in Tool : WF_vars(ToolGoesOn(t))
  /\ \A d \in Dial : WF_vars(BridgeWebsocket(d))

-----------------------------------------------------------------------------
(* Properties.                                                             *)

\* The recorded loop belongs to the listener that has the port: what _submit
\* gives the loop and what a dial-in reaches are one SSH server.
LoopListens == loop # None => port = loop /\ listener[loop] = "listening"

\* An agent's stream is relayed to a listener of this process only, also when
\* another process has the port ("surface bind errors to the caller").
BridgedToOwn == \A d \in Dial : reached[d] # Foreign

\* "(idempotent)" (gateway.py): concurrent first calls and calls while the
\* gateway runs start no second listener; a start meets a listener of this
\* process on the port only if that one was slow or the gateway was stopped.
NoSecondListener == met \cap Attempt # {} => slow > 0 \/ stops > 0

\* Threads whose work ends by itself: a wait with a timeout, the lock while
\* nobody has it, the wait for a listener that is starting or has answered.
Answers(n) == listener[n] \in {"starting", "listening", "failed"}
GoesOn(j) ==
  \/ pc[j] = "blocked" /\ work[j] = "wire"
  \/ pc[j] = "blocked" /\ work[j] \in Part /\ (Connected(j) \/ TimesOut(j))
  \/ pc[j] = "locking" /\ lock = None
  \/ pc[j] = "holding" /\ lock = j /\ Answers(trying)
InQueue(j) == \E i \in 1..Len(queue) : queue[i] = j

\* Opens may hold every thread while the dial-ins they wait for are in the queue
\* behind them, and one thread has the lock: no queued job is ever forgotten, and
\* behind a full pool some thread goes on without anything from the queue.
PoolGoesOn ==
  /\ Cardinality(OnThread) <= Threads
  /\ \A j \in Job : pc[j] = "queued" => InQueue(j)
  /\ queue # <<>> => Cardinality(OnThread) < Threads \/ \E j \in OnThread : GoesOn(j)

\* However many opens hold the executor's threads while their own agents wait
\* in its queue, every call returns and every dial-in is bridged or turned away.
EveryJobServed ==
  \A j \in Job : pc[j] = "queued" ~> pc[j] \in {"bridged", "done", "error"}
=============================================================================
