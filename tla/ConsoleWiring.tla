---------------------------- MODULE ConsoleWiring ----------------------------
(***************************************************************************)
(* The serial console of a console session, end to end: the server learns  *)
(* which board LAVA assigned and pushes its ser2net endpoint through the   *)
(* reverse tunnel (server.py, gateway.py), and the proxy that runs inside  *)
(* the job connects, relays and waits for the sentinel before it lets      *)
(* input through (console-proxy.py).                                       *)
(*                                                                         *)
(* There is one console session, open and looked up.  Either it stands     *)
(* alone: its owner submits jobs that carry its environment, every job has *)
(* a proxy of its own, and the board echoes the sentinel in two chunks,    *)
(* once, at the end of the boot.  Or it is the one open_board_session      *)
(* pairs with a board session: the tool submits the job and wires the      *)
(* console itself, nothing boots the board, and the proxy's sentinel is    *)
(* empty.                                                                  *)
(* Who may attach and the session's end are the business of BoardSessions. *)
(***************************************************************************)
EXTENDS Naturals, Sequences, FiniteSets

CONSTANTS
  Job,         \* LAVA jobs that carry the session's proxy
  Board,       \* boards a job may be assigned
  Proxyable,   \* boards whose console is ser2net
  Call,        \* concurrent calls of check_console_ready and attach_console
  None,
  MaxLosses    \* how often a tunnel or a console connection may drop

ASSUME NoneIsNoMember == None \notin Job \cup Board \cup Call
ASSUME ProxyableAreBoards == Proxyable \subseteq Board
ASSUME LossesAreNat == MaxLosses \in Nat

VARIABLES
  paired,      \* the session came with a board session
  job_id, console_target, connected,  \* the session: job, cached endpoint, status
  tunnel,      \* the job whose proxy listens on the session's port, or None
  jpc, board,  \* LAVA jobs: progress, actual_device
  echoed,      \* job -> chunks of the sentinel its board has echoed
  endpoint,    \* job -> console["host"], console["port"] of its proxy
  link,        \* job -> the board its console connection leads to, or None
  inbox,       \* job -> chunks echoed and not yet read from that connection
  tail,        \* job -> whether the tail kept ends with the first chunk
  writable,    \* job -> console["writable"]
  tpc, tool, tjob, found,  \* calls: progress, tool, job asked for, endpoint
  told,        \* jobs check_console_ready reported ready
  attached,    \* a call of attach_console returned a key
  typed,       \* history: <<board, chunks it had echoed>> of human input
  present,     \* history: job -> its proxy has been connected since before the echo
  losses

session == <<paired, job_id, console_target, connected>>
lava    == <<jpc, board, echoed>>
proxy   == <<endpoint, link, inbox, tail, writable>>
calls   == <<tpc, tool, tjob, found, told, attached>>
vars    == <<session, tunnel, lava, proxy, calls, typed, present, losses>>

Maybe(S) == S \cup {None}

TypeOK ==
  /\ paired \in BOOLEAN
  /\ job_id \in Maybe(Job) /\ console_target \in Maybe(Proxyable) /\ connected \in BOOLEAN
  /\ tunnel \in Maybe(Job)
  /\ jpc \in [Job -> {"none", "queued", "booting", "ready", "ended"}]
  /\ board \in [Job -> Maybe(Board)]
  /\ echoed \in [Job -> 0..2]
  /\ endpoint \in [Job -> Maybe(Proxyable)]
  /\ link \in [Job -> Maybe(Proxyable)]
  /\ inbox \in [Job -> Seq({1, 2})]
  /\ {tail, writable, present} \subseteq [Job -> BOOLEAN]
  /\ tpc \in [Call -> {"idle", "opening", "wiring", "discovering", "pushing", "pushed"}]
  /\ tool \in [Call -> {"open", "check", "attach"}]
  /\ tjob \in [Call -> Maybe(Job)]
  /\ found \in [Call -> Maybe(Proxyable)]
  /\ told \subseteq Job
  /\ attached \in BOOLEAN
  /\ typed \subseteq Board \X (0..2)
  /\ losses \in 0..MaxLosses

Init ==
  /\ paired \in BOOLEAN
  /\ job_id = None /\ console_target = None /\ connected = FALSE
  /\ tunnel = None
  /\ jpc = [j \in Job |-> "none"]
  /\ board = [j \in Job |-> None]
  /\ echoed = [j \in Job |-> 0]
  /\ endpoint = [j \in Job |-> None]
  /\ link = [j \in Job |-> None]
  /\ inbox = [j \in Job |-> <<>>]
  /\ tail = [j \in Job |-> FALSE]
  /\ writable = [j \in Job |-> paired]
  /\ present = [j \in Job |-> FALSE]
  /\ tpc = [c \in Call |-> "idle"]
  /\ tool = [c \in Call |-> "check"]
  /\ tjob = [c \in Call |-> None]
  /\ found = [c \in Call |-> None]
  /\ told = {} /\ attached = FALSE /\ typed = {} /\ losses = 0

Running(j) == jpc[j] \in {"booting", "ready"}

-----------------------------------------------------------------------------
(* check_console_ready and attach_console.                                 *)

\* What check_console_ready reports: the job's log has the sentinel.
Reported(j) == IF echoed[j] = 2 THEN told \cup {j} ELSE told

\* check_console_ready without a session_id, its default: it wires nothing.
CheckJobLog(c, j) ==
  /\ tpc[c] = "idle"
  /\ jpc[j] # "none"
  /\ told' = Reported(j)
  /\ UNCHANGED <<session, tunnel, lava, proxy, tpc, tool, tjob, found, attached, typed,
                 present, losses>>

\* check_console_ready with one, up to the wiring: the job's log is read first.
CheckConsoleReady(c, j) ==
  /\ tpc[c] = "idle"
  /\ jpc[j] # "none"
  /\ told' = Reported(j)
  /\ job_id' = IF job_id = None THEN j ELSE job_id
  /\ tool' = [tool EXCEPT ![c] = "check"]
  /\ tjob' = [tjob EXCEPT ![c] = j]
  /\ tpc' = [tpc EXCEPT ![c] = "wiring"]
  /\ UNCHANGED <<paired, console_target, connected, tunnel, lava, proxy, found, attached,
                 typed, present, losses>>

\* attach_console up to the wiring, with or without a job_id.
AttachConsole(c, j) ==
  /\ tpc[c] = "idle"
  /\ j # None => jpc[j] # "none"
  /\ job_id' = IF job_id = None THEN j ELSE job_id
  /\ tool' = [tool EXCEPT ![c] = "attach"]
  /\ tjob' = [tjob EXCEPT ![c] = job_id']
  /\ tpc' = [tpc EXCEPT ![c] = "wiring"]
  /\ UNCHANGED <<paired, console_target, connected, tunnel, lava, proxy, found, told,
                 attached, typed, present, losses>>

\* What _ensure_console_target does with an endpoint it knows: push it again.
MutRepush == "pushed"
Repush == "pushing"

\* _ensure_console_target: the cached endpoint, or a discovery.
EnsureConsoleTarget(c) ==
  /\ tpc[c] = "wiring"
  /\ tpc' = [tpc EXCEPT ![c] = IF console_target # None THEN Repush ELSE "discovering"]
  /\ found' = [found EXCEPT ![c] = console_target]
  /\ UNCHANGED <<session, tunnel, lava, proxy, tool, tjob, told, attached, typed,
                 present, losses>>

\* ser2net_endpoint: whether the board's console command can be proxied.
MutSer2net(b) == b \in Board
Ser2net(b) == b \in Proxyable

\* The board whose console is meant: the one the job was assigned to.
MutAssigned(j) == Board
Assigned(j) == {board[j]} \ {None}

(***************************************************************************)
(* _discover_console_target: the endpoint of the board the job is on;      *)
(* "pending" when LAVA does not know it or does not answer (nothing is     *)
(* pushed); "unsupported" ends the call, without a key.                    *)
(***************************************************************************)
Discover(c) ==
  /\ tpc[c] = "discovering"
  /\ \/ /\ tjob[c] # None
        /\ \E b \in Assigned(tjob[c]) :
             /\ Ser2net(b)
             /\ console_target' = b
             /\ found' = [found EXCEPT ![c] = b]
        /\ tpc' = [tpc EXCEPT ![c] = "pushing"]
     \/ /\ tpc' = [tpc EXCEPT ![c] = "pushed"]
        /\ UNCHANGED <<console_target, found>>
     \/ /\ tjob[c] # None
        /\ \E b \in Assigned(tjob[c]) : ~Ser2net(b)
        /\ tpc' = [tpc EXCEPT ![c] = "idle"]
        /\ UNCHANGED <<console_target, found>>
  /\ UNCHANGED <<paired, job_id, connected, tunnel, lava, proxy, tool, tjob, told,
                 attached, typed, present, losses>>

(***************************************************************************)
(* set_console_target, and handle_watcher in the proxy the tunnel leads    *)
(* to.  Without a tunnel the push is lost, and the caller does not look.   *)
(* A control line that arrives after _read_control_prefix gave up is taken *)
(* for a watcher's input: the endpoint stays what it was.                  *)
(***************************************************************************)
SetConsoleTarget(c) ==
  /\ tpc[c] = "pushing"
  /\ console_target' = found[c]
  /\ \/ connected /\ tunnel # None /\ endpoint' = [endpoint EXCEPT ![tunnel] = found[c]]
     \/ UNCHANGED endpoint
  /\ tpc' = [tpc EXCEPT ![c] = "pushed"]
  /\ UNCHANGED <<paired, job_id, connected, tunnel, lava, link, inbox, tail, writable, tool,
                 tjob, found, told, attached, typed, present, losses>>

\* The call returns; attach_console mints a key whatever became of the push.
Return(c) ==
  /\ tpc[c] = "pushed"
  /\ tpc' = [tpc EXCEPT ![c] = "idle"]
  /\ attached' = (attached \/ tool[c] = "attach")
  /\ tjob' = [tjob EXCEPT ![c] = None]
  /\ found' = [found EXCEPT ![c] = None]
  /\ UNCHANGED <<session, tunnel, lava, proxy, tool, told, typed, present, losses>>

-----------------------------------------------------------------------------
(* open_board_session with a console: it wires the console it opened.      *)

\* From the submission of the job, which LAVA may answer without an id, to
\* wait_connected.
OpenBoardConsole(c, j) ==
  /\ paired
  /\ tpc[c] = "idle"
  /\ \A i \in Job : jpc[i] = "none"
  /\ jpc' = [jpc EXCEPT ![j] = "queued"]
  /\ job_id' \in {j, None}
  /\ tool' = [tool EXCEPT ![c] = "open"]
  /\ tjob' = [tjob EXCEPT ![c] = job_id']
  /\ tpc' = [tpc EXCEPT ![c] = "opening"]
  /\ UNCHANGED <<paired, console_target, connected, tunnel, board, echoed, proxy, found,
                 told, attached, typed, present, losses>>

\* What _wire_console does unless the board session has not connected in time.
WireConsole(c) ==
  /\ tpc[c] = "opening"
  /\ \/ (\E j \in Job : Running(j)) /\ tpc' = [tpc EXCEPT ![c] = "wiring"]
     \/ tpc' = [tpc EXCEPT ![c] = "pushed"]
  /\ UNCHANGED <<session, tunnel, lava, proxy, tool, tjob, found, told, attached, typed,
                 present, losses>>

-----------------------------------------------------------------------------
(* The proxy of a job.                                                     *)

\* console-connect.sh: the reverse tunnel, on the port if it is free.
Dial(j) ==
  /\ Running(j)
  /\ tunnel = None
  /\ tunnel' = j
  /\ connected' = TRUE
  /\ UNCHANGED <<paired, job_id, console_target, lava, proxy, calls, typed, present, losses>>

\* console_reader connects to the endpoint it knows.
Connect(j) ==
  /\ Running(j)
  /\ endpoint[j] # None
  /\ link[j] = None
  /\ link' = [link EXCEPT ![j] = endpoint[j]]
  /\ present' = [present EXCEPT ![j] = endpoint[j] = board[j] /\ echoed[j] = 0]
  /\ UNCHANGED <<session, tunnel, lava, endpoint, inbox, tail, writable, calls, typed,
                 losses>>

\* The tail of what was read before a chunk.
MutKept(j) == FALSE
Kept(j) == tail[j]

\* console_reader reads a chunk and looks for the sentinel in the tail.
ReadConsole(j) ==
  /\ inbox[j] # <<>>
  /\ LET chunk == Head(inbox[j]) IN
     /\ writable' = [writable EXCEPT ![j] = @ \/ (chunk = 2 /\ Kept(j))]
     /\ tail' = [tail EXCEPT ![j] = chunk = 1]
  /\ inbox' = [inbox EXCEPT ![j] = Tail(@)]
  /\ UNCHANGED <<session, tunnel, lava, endpoint, link, calls, typed, present, losses>>

\* The human's keystrokes reach _to_board through the tunnel.
MutMayType(j) == link[j] # None
MayType(j) == writable[j] /\ link[j] # None

\* _to_board with the console's writer.
Type(j) ==
  /\ attached
  /\ tunnel = j
  /\ MayType(j)
  /\ \E i \in {i \in Job : Running(i) /\ board[i] = link[j]} :
       typed' = typed \cup {<<link[j], echoed[i]>>}
  /\ UNCHANGED <<session, tunnel, lava, proxy, calls, present, losses>>

-----------------------------------------------------------------------------
(* LAVA and the network.                                                   *)

Submit(j) ==
  /\ ~paired
  /\ jpc[j] = "none"
  /\ jpc' = [jpc EXCEPT ![j] = "queued"]
  /\ UNCHANGED <<session, tunnel, board, echoed, proxy, calls, typed, present, losses>>

Schedule(j, b) ==
  /\ jpc[j] = "queued"
  /\ \A i \in Job : Running(i) => board[i] # b
  /\ jpc' = [jpc EXCEPT ![j] = IF paired THEN "ready" ELSE "booting"]
  /\ board' = [board EXCEPT ![j] = b]
  /\ UNCHANGED <<session, tunnel, echoed, proxy, calls, typed, present, losses>>

\* The board echoes a chunk to whoever is connected to its console.
Echo(j) ==
  /\ jpc[j] = "booting"
  /\ echoed' = [echoed EXCEPT ![j] = @ + 1]
  /\ inbox' = [i \in Job |-> IF link[i] = board[j] THEN Append(inbox[i], echoed'[j])
                             ELSE inbox[i]]
  /\ jpc' = IF echoed'[j] = 2 THEN [jpc EXCEPT ![j] = "ready"] ELSE jpc
  /\ UNCHANGED <<session, tunnel, board, endpoint, link, tail, writable, calls, typed,
                 present, losses>>

\* The job ends, and its proxy with it.
JobEnds(j) ==
  /\ jpc[j] = "queued" \/ Running(j)
  /\ jpc' = [jpc EXCEPT ![j] = "ended"]
  /\ tunnel' = IF tunnel = j THEN None ELSE tunnel
  /\ endpoint' = [endpoint EXCEPT ![j] = None]
  /\ link' = [link EXCEPT ![j] = None]
  /\ inbox' = [inbox EXCEPT ![j] = <<>>]
  /\ tail' = [tail EXCEPT ![j] = FALSE]
  /\ writable' = [writable EXCEPT ![j] = FALSE]
  /\ present' = [present EXCEPT ![j] = FALSE]
  /\ UNCHANGED <<session, board, echoed, calls, typed, losses>>

TunnelDrops ==
  /\ losses < MaxLosses
  /\ tunnel # None
  /\ losses' = losses + 1
  /\ tunnel' = None
  /\ UNCHANGED <<session, lava, proxy, calls, typed, present>>

\* ser2net closes the console connection; the tail is kept.
ConsoleDrops(j) ==
  /\ losses < MaxLosses
  /\ link[j] # None
  /\ losses' = losses + 1
  /\ link' = [link EXCEPT ![j] = None]
  /\ inbox' = [inbox EXCEPT ![j] = <<>>]
  /\ present' = [present EXCEPT ![j] = FALSE]
  /\ UNCHANGED <<session, tunnel, lava, endpoint, tail, writable, calls, typed>>

-----------------------------------------------------------------------------
Tool(c) == WireConsole(c) \/ EnsureConsoleTarget(c) \/ Discover(c) \/ SetConsoleTarget(c) \/ Return(c)

Next ==
  \/ \E c \in Call : Tool(c) \/
       \E j \in Job : CheckJobLog(c, j) \/ CheckConsoleReady(c, j) \/ OpenBoardConsole(c, j)
  \/ \E c \in Call, j \in Maybe(Job) : AttachConsole(c, j)
  \/ \E j \in Job : \/ Dial(j) \/ Connect(j) \/ ReadConsole(j) \/ Type(j)
                    \/ Submit(j) \/ Echo(j) \/ JobEnds(j) \/ ConsoleDrops(j)
  \/ \E j \in Job, b \in Board : Schedule(j, b)
  \/ TunnelDrops

Spec == Init /\ [][Next]_vars

(***************************************************************************)
(* Fairness.  The proxy dials (autossh retries), connects and reads; a     *)
(* call goes on, since its awaits have timeouts, and a discovery or a push *)
(* tried again and again succeeds (the push arrives within the 0.3 s).     *)
(* The user calls again and again while the job runs, with the session_id  *)
(* (without it nothing is wired, CheckJobLog), as the notes of             *)
(* open_console_session and _wire_console say.                             *)
(***************************************************************************)
DiscoverOk(c) == Discover(c) /\ tpc'[c] = "pushing"

PushOk(c) == SetConsoleTarget(c) /\ (tunnel # None => endpoint'[tunnel] = found[c])

Poll(j) ==
  /\ Running(j)
  /\ \E c \in Call : CheckConsoleReady(c, j) \/ AttachConsole(c, j)

FairSpec ==
  /\ Spec
  /\ \A j \in Job : WF_vars(Dial(j)) /\ WF_vars(Connect(j)) /\ WF_vars(ReadConsole(j))
  /\ \A c \in Call : WF_vars(Tool(c)) /\ SF_vars(DiscoverOk(c)) /\ SF_vars(PushOk(c))
  /\ \A j \in Job : SF_vars(Poll(j))

-----------------------------------------------------------------------------
(* Properties.                                                             *)

Sole(j) == \A i \in Job \ {j} : jpc[i] = "none"

\* While LAVA boots the board of a session's only job, no human input reaches it
\* before its own sentinel, whatever drops, reconnects or arrives late (_to_board's
\* gate, console_reader).  A second job's proxy may have read the first one's.
InputOnlyWhenReady ==
  ~paired => \A j \in Job : Sole(j) => \A t \in typed : t[2] = 2

\* A session used for one job shows the console of that job's board.
OwnConsole == \A j \in Job : link[j] # None /\ Sole(j) => link[j] = board[j]

\* A proxy connected to its board's console before the echo does not miss the
\* sentinel, wherever the reads cut it (console_reader's tail).
SentinelSeen ==
  \A j \in Job : present[j] /\ echoed[j] = 2 /\ inbox[j] = <<>> => writable[j]

\* Polling with the session_id connects the console of a session's only running job,
\* whatever pushes were lost (with a second job the user may ask for the other one for ever).
PollingConnects ==
  \A j \in Job : Running(j) /\ board[j] \in Proxyable /\ tunnel = j
    ~> link[j] # None \/ ~Running(j) \/ tunnel # j \/ ~Sole(j)

\* check_console_ready (server.py): "when ready is true, attach_console gives a
\* writable console", once the proxy has connected and read all there is.
ReadyMeansWritable ==
  \A j \in Job : j \in told /\ attached /\ tunnel = j /\ link[j] = board[j]
    /\ inbox[j] = <<>> => writable[j]
=============================================================================
