--------------------------- MODULE SessionContract ---------------------------
(***************************************************************************)
(* What the session tools promise about access, without awaits, threads or *)
(* SSH.  A session is opened once and closed once.  While it is open, and  *)
(* never after, keys are granted, and calls and humans with a granted key  *)
(* are let in; closing revokes all keys.  Closing turns nobody out: a call *)
(* that was let in may start its command later, a human open forwards.     *)
(***************************************************************************)
CONSTANTS Session, Conn, Call, None

VARIABLES
  life,        \* session -> "absent", "open" or "closed"
  granted,     \* session -> calls whose human key is authorised
  entered,     \* call -> the session it was let into, its command to start
  started,     \* call -> the session its command was started in
  admitted,    \* connection -> the session a human was let into
  forwarded    \* connections through which a forward was opened

vars == <<life, granted, entered, started, admitted, forwarded>>

Init ==
  /\ life = [s \in Session |-> "absent"]
  /\ granted = [s \in Session |-> {}]
  /\ entered = [c \in Call |-> None]
  /\ started = [c \in Call |-> None]
  /\ admitted = [k \in Conn |-> None]
  /\ forwarded = {}

\* A session, or a board session and its console.
Open(S) ==
  /\ \A s \in S : life[s] = "absent"
  /\ life' = [s \in Session |-> IF s \in S THEN "open" ELSE life[s]]
  /\ UNCHANGED <<granted, entered, started, admitted, forwarded>>

Grant(s, c) ==
  /\ life[s] = "open"
  /\ granted' = [granted EXCEPT ![s] = @ \cup {c}]
  /\ UNCHANGED <<life, entered, started, admitted, forwarded>>

\* A key expires.
Revoke(s, c) ==
  /\ granted' = [granted EXCEPT ![s] = @ \ {c}]
  /\ UNCHANGED <<life, entered, started, admitted, forwarded>>

Enter(s, c) ==
  /\ life[s] = "open"
  /\ entered' = [entered EXCEPT ![c] = s]
  /\ UNCHANGED <<life, granted, started, admitted, forwarded>>

\* The command of a call that was let in starts, once.
Start(c) ==
  /\ entered[c] # None
  /\ started' = [started EXCEPT ![c] = entered[c]]
  /\ entered' = [entered EXCEPT ![c] = None]
  /\ UNCHANGED <<life, granted, admitted, forwarded>>

\* Calls give up, as when the tunnel they use goes down.
Leave(C) ==
  /\ entered' = [c \in Call |-> IF c \in C THEN None ELSE entered[c]]
  /\ UNCHANGED <<life, granted, started, admitted, forwarded>>

Admit(s, c, k) ==
  /\ life[s] = "open"
  /\ c \in granted[s]
  /\ admitted' = [admitted EXCEPT ![k] = s]
  /\ UNCHANGED <<life, granted, entered, started, forwarded>>

Forward(k) ==
  /\ admitted[k] # None
  /\ forwarded' = forwarded \cup {k}
  /\ UNCHANGED <<life, granted, entered, started, admitted>>

\* A session is closed, maybe with its console.
Close(S) ==
  /\ \A s \in S : life[s] = "open"
  /\ life' = [s \in Session |-> IF s \in S THEN "closed" ELSE life[s]]
  /\ granted' = [s \in Session |-> IF s \in S THEN {} ELSE granted[s]]
  /\ UNCHANGED <<entered, started, admitted, forwarded>>

\* A restart closes every session and ends every call.
Forget ==
  /\ life' = [s \in Session |-> IF life[s] = "open" THEN "closed" ELSE life[s]]
  /\ granted' = [s \in Session |-> {}]
  /\ entered' = [c \in Call |-> None]
  /\ UNCHANGED <<started, admitted, forwarded>>

Next ==
  \/ \E S \in SUBSET Session : Open(S) \/ Close(S)
  \/ \E s \in Session, c \in Call :
       Grant(s, c) \/ Revoke(s, c) \/ Enter(s, c) \/ \E k \in Conn : Admit(s, c, k)
  \/ \E c \in Call : Start(c)
  \/ \E C \in SUBSET Call : Leave(C)
  \/ \E k \in Conn : Forward(k)
  \/ Forget

Spec == Init /\ [][Next]_vars
=============================================================================
