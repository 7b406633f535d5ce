--------------------------- MODULE ArtifactContract ---------------------------
(***************************************************************************)
(* What the artifact store promises to those who use it, without files,    *)
(* memory or restarts: an artifact is reserved, at most one upload of it   *)
(* is ever accepted, and then it is stored until it is removed, for good.  *)
(* Only a crash in the middle of a change loses one, and never one whose   *)
(* upload was accepted.                                                    *)
(***************************************************************************)
CONSTANTS Artifact, Upload

VARIABLES
  status,      \* artifact -> where it is in its life
  accepted     \* artifact -> its uploads that were answered 200

vars == <<status, accepted>>

Init ==
  /\ status = [a \in Artifact |-> "none"]
  /\ accepted = [a \in Artifact |-> {}]

Live == {a \in Artifact : status[a] \in {"reserved", "stored"}}

\* The artifacts R are deleted, or found to have expired.
Without(R) == [a \in Artifact |-> IF a \in R THEN "removed" ELSE status[a]]

Remove(R) ==
  /\ status' = Without(R)
  /\ UNCHANGED accepted

\* A reservation, with the artifacts R that were found expired.
Reserve(a, R) ==
  /\ status[a] = "none"
  /\ status' = [Without(R) EXCEPT ![a] = "reserved"]
  /\ UNCHANGED accepted

Accept(a, u) ==
  /\ status[a] = "reserved"
  /\ accepted[a] = {}
  /\ status' = [status EXCEPT ![a] = "stored"]
  /\ accepted' = [accepted EXCEPT ![a] = {u}]

\* A crash while the artifact is being reserved or its upload accepted.
Lose(a) ==
  /\ status[a] \in {"none", "reserved"}
  /\ accepted[a] = {}
  /\ status' = [status EXCEPT ![a] = "lost"]
  /\ UNCHANGED accepted

Next ==
  \/ \E R \in SUBSET Live : Remove(R) \/ \E a \in Artifact : Reserve(a, R)
  \/ \E a \in Artifact : Lose(a) \/ \E u \in Upload : Accept(a, u)

Spec == Init /\ [][Next]_vars
=============================================================================
