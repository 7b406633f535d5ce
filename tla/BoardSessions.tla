---------------------------- MODULE BoardSessions ----------------------------
(***************************************************************************)
(* Interactive board sessions: the session registry and SSH gateway of     *)
(* gateway.py and the session tools of server.py.                          *)
(*                                                                         *)
(* Tools run on the MCP event loop and interleave at their awaits; the     *)
(* gateway's SSH callbacks run on a second thread.  A tool call is split   *)
(* at the awaits after which it uses a session it looked up before.  A     *)
(* session's agent (the container of a board session, the ser2net proxy of *)
(* a console session) runs inside a LAVA job, dials the gateway and asks   *)
(* for a reverse forward of the session's port; commands and humans reach  *)
(* the session through whatever listens on that port.                      *)
(*                                                                         *)
(* The console endpoint that attach_console, check_console_ready and       *)
(* open_board_session discover and push is no part of this state.          *)
(***************************************************************************)
EXTENDS Naturals, FiniteSets

CONSTANTS
  Session,     \* session ids that may ever be created
  User,        \* LAVA users
  Port,        \* loopback TCP ports the kernel hands out
  Conn,        \* SSH connections to the gateway
  Call,        \* tool calls; a human key is named by the call that minted it
  Answer,      \* outcomes of the LAVA calls to explore: "ok", "no_id",
               \* "refused" and "lost" (applied, but the answer never came)
  None,
  MaxRestarts  \* how often the server may be restarted

ASSUME NoneIsNoMember == None \notin Session \cup User \cup Port \cup Conn \cup Call
ASSUME AnswersKnown == Answer \subseteq {"ok", "no_id", "refused", "lost"}
ASSUME RestartsAreNat == MaxRestarts \in Nat

VARIABLES
  registry,    \* ids in SessionManager.sessions
  kind, owner, port, status,  \* fields of the BoardSession objects
  pair,        \* console_session_id
  hasJob,      \* job_id is not None
  keys,        \* human_keys, the expired ones dropped
  host,        \* the board or console session whose LAVA job runs the agent
  job,         \* the LAVA job of a session, as LAVA sees it
  cancelled,   \* sessions whose job LAVA was told to cancel
  bound,       \* port -> the connection whose reverse forward listens on it
  cpc, cses, crole,   \* SSH connections: progress, _session, _role
  reached,     \* human connection -> the session its last forward arrived at
  tpc, ttool, tses,   \* tool calls: progress, tool, session looked up
  ran,         \* tool call -> the session whose container ran its command
  restarts

objects == <<kind, owner, port, pair, host>>
lavaJob == <<job, cancelled>>
conns   == <<bound, cpc, cses, crole, reached>>
calls   == <<tpc, ttool, tses, ran>>
vars    == <<registry, objects, status, hasJob, keys, lavaJob, conns, calls, restarts>>

Kind == {"container", "console"}
Tool == {"run", "shell", "console", "check", "close"}

TypeOK ==
  /\ registry \subseteq Session
  /\ kind \in [Session -> Kind]
  /\ owner \in [Session -> User \cup {None}]
  /\ port \in [Session -> Port \cup {None}]
  /\ status \in [Session -> {"pending", "connected", "closed"}]
  /\ pair \in [Session -> Session \cup {None}]
  /\ hasJob \in [Session -> BOOLEAN]
  /\ keys \in [Session -> SUBSET Call]
  /\ host \in [Session -> Session]
  /\ job \in [Session -> {"none", "queued", "running", "ended"}]
  /\ cancelled \subseteq Session
  /\ bound \in [Port -> Conn \cup {None}]
  /\ cpc \in [Conn -> {"idle", "authenticated", "binding", "tunnel", "refused", "closed"}]
  /\ cses \in [Conn -> Session \cup {None}]
  /\ crole \in [Conn -> {"agent", "human"}]
  /\ reached \in [Conn -> Session \cup {None}]
  /\ tpc \in [Call -> {"idle", "awaiting", "connecting", "inside", "done", "error"}]
  /\ ttool \in [Call -> Tool]
  /\ tses \in [Call -> Session \cup {None}]
  /\ ran \in [Call -> Session \cup {None}]
  /\ restarts \in 0..MaxRestarts

Init ==
  /\ registry = {}
  /\ kind = [s \in Session |-> "container"]
  /\ owner = [s \in Session |-> None]
  /\ port = [s \in Session |-> None]
  /\ status = [s \in Session |-> "pending"]
  /\ pair = [s \in Session |-> None]
  /\ hasJob = [s \in Session |-> FALSE]
  /\ keys = [s \in Session |-> {}]
  /\ host = [s \in Session |-> s]
  /\ job = [s \in Session |-> "none"]
  /\ cancelled = {}
  /\ bound = [p \in Port |-> None]
  /\ cpc = [k \in Conn |-> "idle"]
  /\ cses = [k \in Conn |-> None]
  /\ crole = [k \in Conn |-> "agent"]
  /\ reached = [k \in Conn |-> None]
  /\ tpc = [c \in Call |-> "idle"]
  /\ ttool = [c \in Call |-> "run"]
  /\ tses = [c \in Call |-> None]
  /\ ran = [c \in Call |-> None]
  /\ restarts = 0

-----------------------------------------------------------------------------
(* The registry.                                                           *)

Unused == {s \in Session : owner[s] = None}

\* free_port: a port nothing listens on now; a session whose tunnel is not up
\* holds no claim on the port it was given.
FreePort(p) == bound[p] = None

\* _require_owner on the session the registry holds under s.
Owned(u, s) == s \in registry /\ owner[s] = u

\* A tool call begins and reaches its await, or returns.
Begin(c, tool, s, pc) ==
  /\ tpc[c] = "idle"
  /\ tpc' = [tpc EXCEPT ![c] = pc]
  /\ ttool' = [ttool EXCEPT ![c] = tool]
  /\ tses' = [tses EXCEPT ![c] = s]
  /\ UNCHANGED ran

Return(c, pc) ==
  /\ tpc' = [tpc EXCEPT ![c] = pc]
  /\ UNCHANGED <<ttool, tses, ran>>

\* A call that has begun and not returned.
Pending == {"awaiting", "connecting", "inside"}

Awaiting(c, tool) == tpc[c] = "awaiting" /\ ttool[c] = tool

-----------------------------------------------------------------------------
(* Opening sessions.                                                       *)

(***************************************************************************)
(* open_board_session up to its wait, after which it changes nothing here: *)
(* create the sessions, submit the job.  k = s: no console.  "no_id" is a  *)
(* job LAVA does not name; after a LavaError ("refused", "lost") nothing   *)
(* takes the sessions back.                                                *)
(***************************************************************************)
OpenBoardSession(u, s, k, p, q, answer) ==
  LET S == {s, k} IN
  /\ S \subseteq Unused
  /\ FreePort(p) /\ FreePort(q)
  /\ registry' = registry \cup S
  /\ owner' = [x \in Session |-> IF x \in S THEN u ELSE owner[x]]
  /\ port' = [port EXCEPT ![k] = q, ![s] = p]
  /\ kind' = [kind EXCEPT ![k] = "console", ![s] = "container"]
  /\ host' = [host EXCEPT ![k] = s]
  /\ pair' = IF k # s THEN [pair EXCEPT ![s] = k] ELSE pair
  /\ hasJob' = [x \in Session |-> IF x \in S THEN answer = "ok" ELSE hasJob[x]]
  /\ job' = [job EXCEPT ![s] = IF answer = "refused" THEN "none" ELSE "queued"]
  /\ UNCHANGED <<status, keys, cancelled, conns, calls, restarts>>

\* open_console_session; the user submits the job that carries the proxy.
OpenConsoleSession(u, s, p) ==
  /\ s \in Unused
  /\ FreePort(p)
  /\ registry' = registry \cup {s}
  /\ owner' = [owner EXCEPT ![s] = u]
  /\ port' = [port EXCEPT ![s] = p]
  /\ kind' = [kind EXCEPT ![s] = "console"]
  /\ job' = [job EXCEPT ![s] = "queued"]
  /\ UNCHANGED <<host, pair, status, hasJob, keys, cancelled, conns, calls, restarts>>

-----------------------------------------------------------------------------
(* Using sessions.                                                         *)

\* run_in_session and run_device_command up to gateway.run.
RunInSession(c, u, s) ==
  /\ Owned(u, s)
  /\ kind[s] = "container"
  /\ Begin(c, "run", s, "awaiting")
  /\ UNCHANGED <<registry, objects, status, hasJob, keys, lavaJob, conns, restarts>>

\* attach_shell up to gateway.run: attach_human authorises the new key.
AttachShell(c, u, s) ==
  /\ Owned(u, s)
  /\ kind[s] = "container"
  /\ status[s] = "connected"
  /\ keys' = [keys EXCEPT ![s] = @ \cup {c}]
  /\ Begin(c, "shell", s, "awaiting")
  /\ UNCHANGED <<registry, objects, status, hasJob, lavaJob, conns, restarts>>

\* What _run tests before it connects: the session, looked up again.
MutRunnable(s) == TRUE
Runnable(s) == s \in registry /\ status[s] = "connected"

\* The session whose agent listens on port p, if any.
MutAt(p) == bound[p]
At(p) == IF bound[p] = None THEN None ELSE cses[bound[p]]

\* Gateway._run up to the await of asyncssh.connect; the gateway may not start.
GatewayCheck(c) ==
  /\ Awaiting(c, "run") \/ Awaiting(c, "shell")
  /\ \/ Runnable(tses[c]) /\ Return(c, "connecting")
     \/ Return(c, "error")
  /\ UNCHANGED <<registry, objects, status, hasJob, keys, lavaJob, conns, restarts>>

\* The connection to the session's port is up, or it failed: only the session's
\* own container knows the session key.  The session is not looked at again.
GatewayConnect(c) ==
  /\ tpc[c] = "connecting"
  /\ \/ At(port[tses[c]]) = tses[c] /\ Return(c, "inside")
     \/ Return(c, "error")
  /\ UNCHANGED <<registry, objects, status, hasJob, keys, lavaJob, conns, restarts>>

\* conn.run: the command runs, though the call may time out; or it does not.
GatewayStart(c) ==
  /\ tpc[c] = "inside"
  /\ \E pc \in {"done", "error"} : tpc' = [tpc EXCEPT ![c] = pc]
  /\ \/ ran' = [ran EXCEPT ![c] = tses[c]]
     \/ tpc'[c] = "error" /\ UNCHANGED ran
  /\ UNCHANGED <<registry, objects, status, hasJob, keys, lavaJob, conns,
                 ttool, tses, restarts>>

\* attach_console up to the push of the console endpoint.
AttachConsole(c, u, s, jobGiven) ==
  /\ Owned(u, s)
  /\ kind[s] = "console"
  /\ hasJob' = [hasJob EXCEPT ![s] = @ \/ jobGiven]
  /\ Begin(c, "console", s, "awaiting")
  /\ UNCHANGED <<registry, objects, status, keys, lavaJob, conns, restarts>>

\* attach_human looks the session up again.
MutAttachable(s) == TRUE
Attachable(s) == s \in registry

\* attach_console after the push: the console cannot be proxied, or
\* attach_human authorises the new key.
AttachConsoleReturns(c) ==
  LET s == tses[c] IN
  /\ Awaiting(c, "console")
  /\ \/ /\ Attachable(s)
        /\ keys' = [keys EXCEPT ![s] = @ \cup {c}]
        /\ Return(c, "done")
     \/ /\ Return(c, "error")
        /\ UNCHANGED keys
  /\ UNCHANGED <<registry, objects, status, hasJob, lavaJob, conns, restarts>>

\* check_console_ready with a session id: the lookup, and after the await what
\* it does to the session it holds.
CheckConsoleReady(c, s) ==
  /\ s \in registry
  /\ kind[s] = "console"
  /\ Begin(c, "check", s, "awaiting")
  /\ UNCHANGED <<registry, objects, status, hasJob, keys, lavaJob, conns, restarts>>

CheckReturns(c) ==
  /\ Awaiting(c, "check")
  /\ hasJob' = [hasJob EXCEPT ![tses[c]] = TRUE]
  /\ Return(c, "done")
  /\ UNCHANGED <<registry, objects, status, keys, lavaJob, conns, restarts>>

-----------------------------------------------------------------------------
(* Closing sessions.                                                       *)

\* close_board_session up to its await.
CloseBoardSession(c, u, s) ==
  /\ Owned(u, s)
  /\ Begin(c, "close", s, "awaiting")
  /\ UNCHANGED <<registry, objects, status, hasJob, keys, lavaJob, conns, restarts>>

\* What close_board_session drops from the registry, with its keys.
Dropped(s) == {s} \cup (IF pair[s] \in registry THEN {pair[s]} ELSE {})

\* Whether the cancellation reached LAVA, per outcome of cancel_job.
MutCancels(answer) == FALSE
Cancels(answer) == answer # "refused"

(***************************************************************************)
(* close_board_session after its await: drop the session and its console,  *)
(* revoke their keys, cancel the job.  A LavaError (the request was        *)
(* refused, or applied and the answer lost) leaves the tool here.          *)
(***************************************************************************)
CloseReturns(c, answer) ==
  LET s == tses[c]
      failed == hasJob[s] /\ answer # "ok"
  IN  /\ Awaiting(c, "close")
      /\ registry' = registry \ Dropped(s)
      /\ keys' = [x \in Session |-> IF x \in Dropped(s) THEN {} ELSE keys[x]]
      /\ cancelled' = IF hasJob[s] /\ Cancels(answer)
                      THEN cancelled \cup {host[s]} ELSE cancelled
      /\ status' = [x \in Session |->
                      IF x \in Dropped(s) \ {s} \/ (x = s /\ ~failed)
                      THEN "closed" ELSE status[x]]
      /\ Return(c, IF failed THEN "error" ELSE "done")
      /\ UNCHANGED <<objects, hasJob, job, conns, restarts>>

\* close_console_session: one step, whatever the session's kind.
CloseConsoleSession(u, s) ==
  /\ Owned(u, s)
  /\ registry' = registry \ {s}
  /\ keys' = [keys EXCEPT ![s] = {}]
  /\ status' = [status EXCEPT ![s] = "closed"]
  /\ UNCHANGED <<objects, hasJob, lavaJob, conns, calls, restarts>>
-----------------------------------------------------------------------------
(* The gateway's SSH server (its own thread).                              *)

\* validate_public_key for the agent, which holds the session key.
AgentAuth(k, s) ==
  /\ cpc[k] = "idle"
  /\ s \in registry
  /\ job[host[s]] = "running"
  /\ cpc' = [cpc EXCEPT ![k] = "authenticated"]
  /\ cses' = [cses EXCEPT ![k] = s]
  /\ crole' = [crole EXCEPT ![k] = "agent"]
  /\ UNCHANGED <<registry, objects, status, hasJob, keys, lavaJob, bound,
                 reached, calls, restarts>>

\* validate_public_key for a human, who knows the key once the call returned.
HumanAuth(k, s, c) ==
  /\ cpc[k] = "idle"
  /\ s \in registry
  /\ c \in keys[s]
  /\ tpc[c] = "done"
  /\ cpc' = [cpc EXCEPT ![k] = "authenticated"]
  /\ cses' = [cses EXCEPT ![k] = s]
  /\ crole' = [crole EXCEPT ![k] = "human"]
  /\ UNCHANGED <<registry, objects, status, hasJob, keys, lavaJob, bound,
                 reached, calls, restarts>>

\* The port a forward of connection k may name: that of its session.
MutOwnPort(k, p) == TRUE
OwnPort(k, p) == p = port[cses[k]]

\* server_requested: the agent asks to listen on p.  The session counts as
\* connected before asyncssh has bound the port.
ServerRequested(k, p) ==
  /\ cpc[k] = "authenticated"
  /\ crole[k] = "agent"
  /\ OwnPort(k, p)
  /\ status' = [status EXCEPT ![cses[k]] = "connected"]
  /\ cpc' = [cpc EXCEPT ![k] = "binding"]
  /\ UNCHANGED <<registry, objects, hasJob, keys, lavaJob, bound, cses, crole,
                 reached, calls, restarts>>

\* asyncssh binds the port or fails; the agent's ssh then gives up
\* (ExitOnForwardFailure=yes).
Bind(k, p) ==
  /\ cpc[k] = "binding"
  /\ OwnPort(k, p)
  /\ IF bound[p] = None
     THEN /\ bound' = [bound EXCEPT ![p] = k]
          /\ cpc' = [cpc EXCEPT ![k] = "tunnel"]
     ELSE /\ cpc' = [cpc EXCEPT ![k] = "refused"]
          /\ UNCHANGED bound
  /\ UNCHANGED <<registry, objects, status, hasJob, keys, lavaJob, cses, crole,
                 reached, calls, restarts>>

\* connection_requested: a human's `ssh -W` arrives at whatever listens on p
\* (or at nothing), also when the session was closed after the human was let in.
ConnectionRequested(k, p) ==
  /\ cpc[k] = "authenticated"
  /\ crole[k] = "human"
  /\ OwnPort(k, p)
  /\ At(p) # None
  /\ reached' = [reached EXCEPT ![k] = At(p)]
  /\ UNCHANGED <<registry, objects, status, hasJob, keys, lavaJob, bound, cpc,
                 cses, crole, calls, restarts>>

\* The calls whose SSH connection rides the tunnel of k.
Riding(k) == {c \in Call : tpc[c] = "inside" /\ bound[port[tses[c]]] = k}

\* A connection ends; its reverse forward is gone, and what rode it is broken,
\* the session's status stays.
Disconnect(k) ==
  /\ cpc[k] \in {"authenticated", "binding", "tunnel"}
  /\ cpc' = [cpc EXCEPT ![k] = "closed"]
  /\ bound' = [p \in Port |-> IF bound[p] = k THEN None ELSE bound[p]]
  /\ tpc' = [c \in Call |-> IF c \in Riding(k) THEN "error" ELSE tpc[c]]
  /\ UNCHANGED <<registry, objects, status, hasJob, keys, lavaJob, cses, crole,
                 reached, ttool, tses, ran, restarts>>

-----------------------------------------------------------------------------
(* LAVA, time, and a restart of the server.                                *)

JobStarts(s) ==
  /\ job[s] = "queued"
  /\ s \notin cancelled
  /\ job' = [job EXCEPT ![s] = "running"]
  /\ UNCHANGED <<registry, objects, status, hasJob, keys, cancelled, conns,
                 calls, restarts>>

JobEnds(s) ==
  /\ job[s] \in {"queued", "running"}
  /\ job' = [job EXCEPT ![s] = "ended"]
  /\ UNCHANGED <<registry, objects, status, hasJob, keys, cancelled, conns,
                 calls, restarts>>

KeyExpires(s, c) ==
  /\ c \in keys[s]
  /\ keys' = [keys EXCEPT ![s] = @ \ {c}]
  /\ UNCHANGED <<registry, objects, status, hasJob, lavaJob, conns, calls, restarts>>

\* The registry is memory only: sessions, connections and calls are lost, the
\* LAVA jobs go on.
Restart ==
  /\ restarts < MaxRestarts
  /\ restarts' = restarts + 1
  /\ registry' = {}
  /\ keys' = [s \in Session |-> {}]
  /\ bound' = [p \in Port |-> None]
  /\ cpc' = [k \in Conn |-> IF cpc[k] \in {"idle", "refused"} THEN cpc[k] ELSE "closed"]
  /\ tpc' = [c \in Call |-> IF tpc[c] \in Pending THEN "error" ELSE tpc[c]]
  /\ UNCHANGED <<objects, status, hasJob, lavaJob, cses, crole, reached, ttool,
                 tses, ran>>

-----------------------------------------------------------------------------
Open == \E u \in User, s \in Session :
  \/ \E k \in Session, p, q \in Port, answer \in Answer :
       (k = s => p = q) /\ OpenBoardSession(u, s, k, p, q, answer)
  \/ \E p \in Port : OpenConsoleSession(u, s, p)

Use == \E u \in User, s \in Session, c \in Call :
  \/ RunInSession(c, u, s)
  \/ AttachShell(c, u, s)
  \/ \E jobGiven \in BOOLEAN : AttachConsole(c, u, s, jobGiven)
  \/ CheckConsoleReady(c, s)
  \/ CloseBoardSession(c, u, s)

Close == \E u \in User, s \in Session : CloseConsoleSession(u, s)

ToolReturn(c) ==
  \/ GatewayCheck(c)
  \/ GatewayConnect(c)
  \/ GatewayStart(c)
  \/ AttachConsoleReturns(c)
  \/ CheckReturns(c)
  \/ \E answer \in Answer \ {"no_id"} : CloseReturns(c, answer)

Gateway == \E k \in Conn :
  \/ \E s \in Session : AgentAuth(k, s) \/ \E c \in Call : HumanAuth(k, s, c)
  \/ \E p \in Port : ServerRequested(k, p) \/ Bind(k, p) \/ ConnectionRequested(k, p)
  \/ Disconnect(k)

Outside == \E s \in Session :
  JobStarts(s) \/ JobEnds(s) \/ \E c \in Call : KeyExpires(s, c)

Next == Open \/ Use \/ Close \/ (\E c \in Call : ToolReturn(c)) \/ Gateway \/ Outside \/ Restart

Spec == Init /\ [][Next]_vars

(***************************************************************************)
(* Fairness.  Every await of a tool has a timeout, so an awaiting call     *)
(* goes on; LAVA ends a job it was told to cancel, and the connections of  *)
(* an ended job's agent break.                                             *)
(***************************************************************************)
AgentLost(k) ==
  /\ crole[k] = "agent"
  /\ cses[k] # None
  /\ job[host[cses[k]]] = "ended"
  /\ Disconnect(k)

FairSpec ==
  /\ Spec
  /\ \A c \in Call : WF_vars(ToolReturn(c))
  /\ \A s \in Session : WF_vars(s \in cancelled /\ JobEnds(s))
  /\ \A k \in Conn : WF_vars(AgentLost(k))

-----------------------------------------------------------------------------
(* Properties.                                                             *)

Listening(s) == \E p \in Port : At(p) = s

\* A session that was closed admits no human: it has no authorised key, and no
\* attach_* call that was on its way when the session closed adds one
\* (docs/security.md: close_* revokes all of a session's keys).
RemovedHasNoKeys == \A s \in Session \ registry : keys[s] = {}

\* Only a session's own agent listens on a port, and only on the port that was
\* allocated to the session (server_requested).
BoundByOwnAgent ==
  \A p \in Port : bound[p] # None =>
    LET k == bound[p] IN
    cpc[k] = "tunnel" /\ crole[k] = "agent" /\ port[cses[k]] = p

\* A human's forward arrives at another session only if both were allocated the
\* same port (free_port may hand out a port twice).
RoutedUnlessShared ==
  \A k \in Conn : reached[k] \notin {None, cses[k]} =>
    port[reached[k]] = port[cses[k]]

\* The session a call has passed the check of _run for and is still to use.
Entered == [c \in Call |-> IF tpc[c] \in {"connecting", "inside"} THEN tses[c] ELSE None]

\* In a session that left the registry no human key is authorised and no call
\* passes the check of _run any more; a command still starts there only in a
\* call that had passed the check before (_run does not look again after its await).
NoEntryAfterClose ==
  [][\A s \in Session \ registry :
       /\ keys'[s] \subseteq keys[s]
       /\ \A c \in Call : /\ Entered'[c] = s => Entered[c] = s
                          /\ ran'[c] = s => s \in {ran[c], Entered[c]}]_vars

(***************************************************************************)
(* The tools and the gateway keep the contract about access: a session is  *)
(* open as long as the registry has it.                                    *)
(***************************************************************************)
Life == [s \in Session |-> IF owner[s] = None THEN "absent"
                           ELSE IF s \in registry THEN "open" ELSE "closed"]

Admitted == [k \in Conn |-> IF crole[k] = "human" THEN cses[k] ELSE None]

Forwarded == {k \in Conn : reached[k] # None}

Contract == INSTANCE SessionContract
              WITH life <- Life, granted <- keys, entered <- Entered, started <- ran,
                   admitted <- Admitted, forwarded <- Forwarded

\* Nobody is let into a session after it was closed or a restart forgot it: no
\* key is granted, no human authenticates and no call passes the check of _run.
\* What was let in before may still start its one command or open forwards
\* (_run after its await, connection_requested), until the tunnel goes down.
AccessContract == Contract!Spec

\* A close_board_session that succeeds on a board session with a job frees the
\* board: the job ends and the tunnel goes down.
CloseFreesBoard ==
  \A s \in Session :
    /\ \E c \in Call : tses[c] = s /\ ttool[c] = "close" /\ tpc[c] = "done"
    /\ kind[s] = "container" /\ hasJob[s]
    ~> job[s] = "ended" /\ ~Listening(s)
=============================================================================
