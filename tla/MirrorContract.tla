---------------------------- MODULE MirrorContract ----------------------------
(***************************************************************************)
(* What read_lava_docs promises, without git, threads or a lock: the       *)
(* mirror serves one version, goes over to another in one step, and a call *)
(* sees the version that is served at one moment.  A checkout that broke   *)
(* off leaves a mixture, which is served as the version before it, and may *)
(* mix with the next one.                                                  *)
(***************************************************************************)
CONSTANTS Ref, File, Tracked, None

VARIABLES
  gate,        \* "closed" before the first version, then "whole" or "mixed"
  ref,         \* the version that is served
  call, op,    \* the call: "idle", "begun" or "unlocked"; what it asks for
  listed,      \* what a listing found
  result       \* what the last call returned

vars == <<gate, ref, call, op, listed, result>>

Init ==
  /\ gate = "closed" /\ ref = None
  /\ call = "idle" /\ op = "read" /\ listed = {} /\ result = None

Serve(v) ==
  /\ gate' \in (IF gate = "whole" THEN {"whole"} ELSE {"whole", "mixed"})
  /\ ref' = v
  /\ UNCHANGED <<call, op, listed, result>>

BreakOff ==
  /\ gate = "whole"
  /\ gate' = "mixed"
  /\ UNCHANGED <<ref, call, op, listed, result>>

Begin(o) ==
  /\ call = "idle"
  /\ gate # "closed"
  /\ call' = "begun" /\ op' = o /\ result' = None
  /\ UNCHANGED <<gate, ref, listed>>

\* The versions file f may be read of; None is no such file.
Texts(f) ==
  IF gate = "mixed" THEN Ref \cup {None} ELSE {IF f \in Tracked[ref] THEN ref ELSE None}

Read(f, text) ==
  /\ call = "begun" /\ op = "read"
  /\ text \in Texts(f)
  /\ result' = IF text = None THEN None ELSE [op |-> "read", ref |-> ref, text |-> text]
  /\ call' = "idle"
  /\ UNCHANGED <<gate, ref, op, listed>>

List(files) ==
  /\ call = "begun" /\ op = "list"
  /\ gate = "whole" => files = Tracked[ref]
  /\ listed' = files
  /\ call' = "unlocked"
  /\ UNCHANGED <<gate, ref, op, result>>

\* A listing names the version that is served when it returns.
Return ==
  /\ call = "unlocked"
  /\ result' = [op |-> "list", ref |-> ref, files |-> listed]
  /\ call' = "idle"
  /\ UNCHANGED <<gate, ref, op, listed>>

\* The server restarts, and its call with it.
Restart ==
  /\ gate' = "closed" /\ ref' = None
  /\ call' = "idle" /\ listed' = {} /\ result' = None
  /\ UNCHANGED op

Next ==
  \/ \E v \in Ref : Serve(v)
  \/ BreakOff \/ Return \/ Restart
  \/ \E o \in {"read", "list"} : Begin(o)
  \/ \E f \in File, text \in Ref \cup {None} : Read(f, text)
  \/ \E files \in SUBSET File : List(files)

Spec == Init /\ [][Next]_vars
=============================================================================
