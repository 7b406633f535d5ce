----------------------------- MODULE DeviceRelay -----------------------------
(***************************************************************************)
(* The device-command relay of interactive/lava-session-supervisor.        *)
(*                                                                         *)
(* Each `lava-device-command` connects to the relay's socket and is served *)
(* by a thread of its own (_handle_client, device_command); _stdin_reader  *)
(* is the thread that reads the dispatcher's acks; run_tunnel is the main  *)
(* thread, whose return ends the process.  The dispatcher reads markers    *)
(* from the pty, runs the device command and acks it by NAME: the markers, *)
(* its queue and its acks are modelled from the protocol the code expects. *)
(*                                                                         *)
(* A command is a request's or a raw one, whose marker `lava-signal` sent: *)
(* nobody waits for that.  Every marker and ack carries, as history, the   *)
(* command it belongs to; no guard reads it.                               *)
(***************************************************************************)
EXTENDS Naturals, Sequences, FiniteSets

CONSTANTS
  Request,     \* lava-device-command invocations
  Raw,         \* DEVICECMD markers that `lava-signal` may send
  Name,        \* device command names
  None,
  Attempts     \* --attempts of run_tunnel

Command == Request \cup Raw

ASSUME NoneIsNoMember == None \notin Command \cup Name \cup {"zero", "nonzero", "left"}
ASSUME RawIsNoRequest == Request \cap Raw = {}
ASSUME AttemptsArePositive == Attempts \in Nat \ {0}

VARIABLES
  pc,          \* request -> progress of its handler thread
  name,        \* command -> device command asked for
  dev_lock,    \* the request that holds _dev_lock, or None
  pending_name,
  pending_rc,  \* the ack that set _pending_rc, or None
  pty,         \* markers emitted, not yet read by the dispatcher
  running,     \* the marker the dispatcher is running, or None
  acks,        \* acks written to the pty, not yet read by _stdin_reader
  outcome,     \* command -> its exit status, once it ran
  told,        \* request -> what lava-device-command exits with
  source,      \* history: request -> the command whose ack answered it
  signals,     \* the raw markers sent
  attempt      \* tunnel attempts begun; the supervisor is gone at Attempts + 1

handlers   == <<pc, name, dev_lock, told, source>>
pending    == <<pending_name, pending_rc>>
dispatcher == <<pty, running, acks, outcome>>
vars == <<handlers, pending, dispatcher, signals, attempt>>

Status == {"zero", "nonzero"}
Marker == [of : Command, name : Name]
Ack    == [of : Command, name : Name, rc : Status]

TypeOK ==
  /\ pc \in [Request -> {"idle", "queued", "prepared", "waiting", "answered"}]
  /\ name \in [Command -> Name]
  /\ dev_lock \in Request \cup {None}
  /\ pending_name \in Name \cup {None}
  /\ pending_rc \in Ack \cup {None}
  /\ pty \in Seq(Marker)
  /\ running \in Marker \cup {None}
  /\ acks \in Seq(Ack)
  /\ outcome \in [Command -> Status \cup {None}]
  /\ told \in [Request -> Status \cup {None, "left"}]
  /\ source \in [Request -> Command \cup {None}]
  /\ signals \subseteq Raw
  /\ attempt \in 1..(Attempts + 1)

Init ==
  /\ pc = [r \in Request |-> "idle"]
  /\ name \in [Command -> Name]
  /\ dev_lock = None
  /\ pending_name = None /\ pending_rc = None
  /\ pty = <<>> /\ running = None /\ acks = <<>>
  /\ outcome = [c \in Command |-> None]
  /\ told = [r \in Request |-> None]
  /\ source = [r \in Request |-> None]
  /\ signals = {}
  /\ attempt = 1

Alive == attempt <= Attempts

-----------------------------------------------------------------------------
(* A request and its handler thread.                                       *)

\* A client connects; its handler thread asks for _dev_lock.
Accept(r) ==
  /\ Alive
  /\ pc[r] = "idle"
  /\ pc' = [pc EXCEPT ![r] = "queued"]
  /\ UNCHANGED <<name, dev_lock, told, source, pending, dispatcher, signals, attempt>>

\* What a new request finds in _pending_rc.
MutFreshRc == pending_rc
FreshRc == None

\* device_command with _dev_lock: announce the name, forget the last answer.
Prepare(r) ==
  /\ Alive
  /\ pc[r] = "queued"
  /\ dev_lock = None
  /\ dev_lock' = r
  /\ pending_name' = name[r]
  /\ pending_rc' = FreshRc
  /\ pc' = [pc EXCEPT ![r] = "prepared"]
  /\ UNCHANGED <<name, told, source, dispatcher, signals, attempt>>

Emit(r) ==
  /\ Alive
  /\ pc[r] = "prepared"
  /\ pty' = Append(pty, [of |-> r, name |-> name[r]])
  /\ pc' = [pc EXCEPT ![r] = "waiting"]
  /\ UNCHANGED <<name, dev_lock, told, source, pending, running, acks, outcome,
                 signals, attempt>>

(***************************************************************************)
(* The rest of device_command: close the window for acks, release the      *)
(* lock, answer the client if it is still there.                           *)
(***************************************************************************)
Reply(r, rc, of) ==
  /\ Alive
  /\ pc[r] = "waiting"
  /\ pc' = [pc EXCEPT ![r] = "answered"]
  /\ told' = IF told[r] = None THEN [told EXCEPT ![r] = rc] ELSE told
  /\ source' = [source EXCEPT ![r] = of]
  /\ pending_name' = None
  /\ dev_lock' = None
  /\ UNCHANGED <<name, pending_rc, dispatcher, signals, attempt>>

\* wait_for finds an ack.
Acked(r) == pending_rc # None /\ Reply(r, pending_rc.rc, pending_rc.of)

\* wait_for gives up after DEVICECMD_TIMEOUT: the status is 1.
MutTimesOut(r) == FALSE
TimesOut(r) == pending_rc = None /\ Reply(r, "nonzero", None)

\* lava-device-command or the gateway.run that started it times out; the
\* handler thread goes on.
ClientLeaves(r) ==
  /\ pc[r] \in {"queued", "prepared", "waiting"}
  /\ told[r] = None
  /\ told' = [told EXCEPT ![r] = "left"]
  /\ UNCHANGED <<pc, name, dev_lock, source, pending, dispatcher, signals, attempt>>

\* `lava-signal 'DEVICECMD <name>'`: a marker without lock and without waiting.
Signal(x) ==
  /\ Alive
  /\ x \notin signals
  /\ signals' = signals \cup {x}
  /\ pty' = Append(pty, [of |-> x, name |-> name[x]])
  /\ UNCHANGED <<handlers, pending, running, acks, outcome, attempt>>

-----------------------------------------------------------------------------
(* The reader thread and the tunnel.                                       *)

\* Which acks _pending_rc takes: those of the name announced.
MutMatches(ack) == pending_name # None
Matches(ack) == pending_name # None /\ ack.name = pending_name

\* _stdin_reader: one ack line.
ReadAck ==
  /\ Alive
  /\ acks # <<>>
  /\ acks' = Tail(acks)
  /\ IF Matches(Head(acks))
     THEN pending_rc' = Head(acks)
     ELSE UNCHANGED pending_rc
  /\ UNCHANGED <<handlers, pending_name, pty, running, outcome, signals, attempt>>

\* run_tunnel: autossh exits; another attempt, or the supervisor exits and its
\* clients find the connection closed.
TunnelExits ==
  /\ Alive
  /\ attempt' = attempt + 1
  /\ told' = IF attempt < Attempts THEN told
             ELSE [r \in Request |->
                     IF told[r] = None /\ pc[r] # "idle" THEN "nonzero" ELSE told[r]]
  /\ UNCHANGED <<pc, name, dev_lock, source, pending, dispatcher, signals>>

-----------------------------------------------------------------------------
(* The dispatcher.                                                         *)

\* The test action, and with it the dispatcher's reading, ends with the
\* supervisor.
ReadMarker ==
  /\ Alive
  /\ pty # <<>>
  /\ running = None
  /\ pty' = Tail(pty)
  /\ running' = Head(pty)
  /\ UNCHANGED <<handlers, pending, acks, outcome, signals, attempt>>

\* The command ends with rc and is acked.
RunCommand(rc) ==
  /\ running # None
  /\ running' = None
  /\ acks' = Append(acks, [of |-> running.of, name |-> running.name, rc |-> rc])
  /\ outcome' = [outcome EXCEPT ![running.of] = rc]
  /\ UNCHANGED <<handlers, pending, pty, signals, attempt>>

\* An instance without DEVICECMD, or one that lost the marker.
IgnoreMarker ==
  /\ running # None
  /\ running' = None
  /\ UNCHANGED <<handlers, pending, pty, acks, outcome, signals, attempt>>

-----------------------------------------------------------------------------
Handler(r) == Prepare(r) \/ Emit(r) \/ Acked(r) \/ TimesOut(r)

Next ==
  \/ \E r \in Request : Accept(r) \/ Handler(r) \/ ClientLeaves(r)
  \/ \E x \in Raw : Signal(x)
  \/ ReadAck
  \/ TunnelExits
  \/ ReadMarker
  \/ \E rc \in Status : RunCommand(rc)
  \/ IgnoreMarker

Spec == Init /\ [][Next]_vars

\* Threads run; a wait ends after DEVICECMD_TIMEOUT at the latest.  The
\* dispatcher owes nothing.
FairSpec == Spec /\ \A r \in Request : WF_vars(Handler(r))

-----------------------------------------------------------------------------
(* Properties.                                                             *)

Phase == [c \in Command |->
  IF c \in Raw THEN (IF c \in signals THEN "open" ELSE "new")
  ELSE IF pc[c] = "idle" THEN "new" ELSE IF pc[c] = "answered" THEN "closed" ELSE "open"]

Contract == INSTANCE RelayContract WITH phase <- Phase

\* Whatever acks come late, and whoever leaves or signals: a command runs once at the
\* most, and answers one request at the most, of its own name, which was told nothing
\* before (device_command, _stdin_reader).
AnswersOnce == Contract!Spec

\* A request told 0 ran with status 0, or was answered by another command of its
\* name that did: a raw one, or that of a request which went without its own ack
\* (_stdin_reader matches by name).
ZeroIsAccounted ==
  \A r \in Request : told[r] = "zero" /\ outcome[r] # "zero" =>
    \E q \in Command \ {r} :
      /\ source[r] = q
      /\ name[q] = name[r] /\ outcome[q] = "zero"
      /\ q \in Request => source[q] # q

\* A request is answered although the dispatcher never acks, unless the
\* supervisor exits.
EveryRequestAnswered ==
  \A r \in Request : pc[r] = "queued" ~> pc[r] = "answered" \/ ~Alive

\* docs/board-sessions.md: "It returns the command's exit status (0 = ran)."
ZeroMeansRan == \A r \in Request : told[r] = "zero" => outcome[r] = "zero"
=============================================================================
