---------------------------- MODULE RelayContract ----------------------------
(***************************************************************************)
(* What `lava-device-command` promises, without pty, threads or locks.  A  *)
(* request is closed once, by the status of a command of its name that has *)
(* run and has answered nobody else, or without one; a command runs once   *)
(* at the most, and a request's client is told one thing only.  A raw      *)
(* command is one that nobody waits for.                                   *)
(***************************************************************************)
CONSTANTS Request, Raw, Name, None

VARIABLES
  name,        \* command -> device command asked for
  phase,       \* command -> "new", "open" or "closed"
  outcome,     \* command -> its exit status, once it ran
  told,        \* request -> what its client was told
  source       \* request -> the command that answered it

vars == <<name, phase, outcome, told, source>>

Command == Request \cup Raw
Status == {"zero", "nonzero"}

Init ==
  /\ name \in [Command -> Name]
  /\ phase = [c \in Command |-> "new"]
  /\ outcome = [c \in Command |-> None]
  /\ told = [r \in Request |-> None]
  /\ source = [r \in Request |-> None]

Ask(c) ==
  /\ phase[c] = "new"
  /\ phase' = [phase EXCEPT ![c] = "open"]
  /\ UNCHANGED <<name, outcome, told, source>>

\* A command runs, that of a request maybe after the request was closed.
Run(c, rc) ==
  /\ phase[c] # "new"
  /\ outcome[c] = None
  /\ outcome' = [outcome EXCEPT ![c] = rc]
  /\ UNCHANGED <<name, phase, told, source>>

Close(r, status) ==
  /\ phase[r] = "open"
  /\ phase' = [phase EXCEPT ![r] = "closed"]
  /\ told' = IF told[r] = None THEN [told EXCEPT ![r] = status] ELSE told
  /\ UNCHANGED <<name, outcome>>

\* The request is closed by the command q, which may be another one.
Answer(r, q) ==
  /\ outcome[q] # None
  /\ name[q] = name[r]
  /\ \A s \in Request : source[s] # q
  /\ source' = [source EXCEPT ![r] = q]
  /\ Close(r, outcome[q])

GiveUp(r) == UNCHANGED source /\ Close(r, "nonzero")

\* The client does not wait for the answer.
Leave(r) ==
  /\ phase[r] = "open"
  /\ told[r] = None
  /\ told' = [told EXCEPT ![r] = "left"]
  /\ UNCHANGED <<name, phase, outcome, source>>

\* The supervisor exits: whoever waits is told so.
Exit ==
  /\ told' = [r \in Request |->
                IF told[r] = None /\ phase[r] # "new" THEN "nonzero" ELSE told[r]]
  /\ UNCHANGED <<name, phase, outcome, source>>

Next ==
  \/ \E c \in Command : Ask(c) \/ \E rc \in Status : Run(c, rc)
  \/ \E r \in Request : GiveUp(r) \/ Leave(r) \/ \E q \in Command : Answer(r, q)
  \/ Exit

Spec == Init /\ [][Next]_vars
=============================================================================
