----------------------------- MODULE ArtifactDisk -----------------------------
(***************************************************************************)
(* The free space under the artifact store (artifacts.py): admission       *)
(* against the per-artifact cap and the free-space floor, and the re-check *)
(* of the floor in the course of an upload.                                *)
(*                                                                         *)
(* Sizes count units of data, chunks of at most MaxChunk units arrive one  *)
(* by one, and other uploads and other programs use the disk in between.   *)
(* Space is measured from the floor: free is negative when the floor has   *)
(* been crossed.  An upload is an artifact with its PUT; two PUTs of one   *)
(* artifact, and what becomes of its metadata, are in ArtifactStore.       *)
(***************************************************************************)
EXTENDS Integers, FiniteSets

CONSTANTS
  Upload,      \* artifacts
  None,        \* no Content-Length
  MaxBytes,    \* the per-artifact cap
  MaxChunk,    \* the largest chunk of a body
  Interval,    \* the floor is checked again after so much (64 MiB)
  InitialFree, \* free space above the floor at the start
  Floor,       \* the free-space floor
  MaxTaken     \* how much other programs may take

ASSUME SizesAreNat ==
  /\ MaxBytes \in Nat /\ MaxChunk \in Nat \ {0} /\ Interval \in Nat \ {0}
  /\ InitialFree \in Nat /\ Floor \in Nat /\ MaxTaken \in Nat
ASSUME NoneIsNoLength == None \notin Nat

VARIABLES
  free,        \* free space above the floor
  pc,          \* an artifact: progress
  length,      \* Content-Length of its PUT
  written,     \* size of its file
  checkpoint,  \* written at the last check, the chunk at hand included
  passed,      \* history: size of the file when its last check passed
  excused,     \* history: an upload gave no true length, or met another user
  taken        \* how much other programs took

vars == <<free, pc, length, written, checkpoint, passed, excused, taken>>

Length == 0..MaxBytes

TypeOK ==
  /\ free \in Int
  /\ pc \in [Upload -> {"none", "await_upload", "streaming", "unlinked", "stored"}]
  /\ length \in [Upload -> Nat \cup {None}]
  /\ written \in [Upload -> 0..MaxBytes]
  /\ checkpoint \in [Upload -> Nat]
  /\ passed \in [Upload -> Nat]
  /\ excused \in BOOLEAN
  /\ taken \in 0..MaxTaken

Init ==
  /\ free = InitialFree
  /\ pc = [u \in Upload |-> "none"]
  /\ length = [u \in Upload |-> None]
  /\ written = [u \in Upload |-> 0]
  /\ checkpoint = [u \in Upload |-> 0]
  /\ passed = [u \in Upload |-> 0]
  /\ excused = FALSE
  /\ taken = 0

\* The PUTs under way; that of an artifact removed meanwhile goes on ("unlinked").
Streaming == {u \in Upload : pc[u] \in {"streaming", "unlinked"}}

\* _headroom_bytes.
Headroom == IF free > 0 THEN free ELSE 0

\* check_admission: nothing is reserved.
MutAdmissible(n) == n <= MaxBytes
Admissible(n) == n <= MaxBytes /\ n <= Headroom

\* create, with the size the caller announces.
Create(u, n) ==
  /\ pc[u] = "none"
  /\ Admissible(n)
  /\ pc' = [pc EXCEPT ![u] = "await_upload"]
  /\ UNCHANGED <<free, length, written, checkpoint, passed, excused, taken>>

\* write_stream up to the first chunk; without a length nothing is checked.
PutOpen(u, n) ==
  /\ pc[u] = "await_upload"
  /\ n # None => Admissible(n)
  /\ pc' = [pc EXCEPT ![u] = "streaming"]
  /\ length' = [length EXCEPT ![u] = n]
  /\ checkpoint' = [checkpoint EXCEPT ![u] = 0]
  /\ passed' = [passed EXCEPT ![u] = 0]
  /\ excused' = (excused \/ n = None \/ Streaming # {})
  /\ UNCHANGED <<free, written, taken>>

\* Whether the floor is checked before a chunk of n units is written.
MutDue(u, n) == FALSE
Due(u, n) == written[u] + n - checkpoint[u] >= Interval

Honest(u, n) == length[u] # None /\ written[u] + n <= length[u]

\* The cap, with the chunk at hand.
MutUnderCap(u, n) == written[u] <= MaxBytes
UnderCap(u, n) == written[u] + n <= MaxBytes

\* A chunk that is written: under the cap, and the floor not reached if it is
\* checked now.
PutChunk(u, n) ==
  /\ u \in Streaming
  /\ UnderCap(u, n)
  /\ Due(u, n) => Headroom > 0
  /\ n <= free + Floor
  /\ written' = [written EXCEPT ![u] = @ + n]
  /\ free' = free - n
  /\ checkpoint' = IF Due(u, n) THEN [checkpoint EXCEPT ![u] = written[u] + n]
                   ELSE checkpoint
  /\ passed' = IF Due(u, n) THEN [passed EXCEPT ![u] = written[u]] ELSE passed
  /\ excused' = (excused \/ ~Honest(u, n))
  /\ UNCHANGED <<pc, length, taken>>

\* The PUT breaks off, at the cap, at the floor, at a full disk, because the client
\* left, or for want of <id>.part to rename: the file goes, the artifact awaits its
\* upload again if it still is there.
Returned(u) == written[u]

PutAbort(u) ==
  /\ u \in Streaming
  /\ pc' = [pc EXCEPT ![u] = IF @ = "streaming" THEN "await_upload" ELSE "none"]
  /\ free' = free + Returned(u)
  /\ written' = [written EXCEPT ![u] = 0]
  /\ checkpoint' = [checkpoint EXCEPT ![u] = 0]
  /\ passed' = [passed EXCEPT ![u] = 0]
  /\ UNCHANGED <<length, excused, taken>>

PutFinish(u) ==
  /\ pc[u] = "streaming"
  /\ pc' = [pc EXCEPT ![u] = "stored"]
  /\ UNCHANGED <<free, length, written, checkpoint, passed, excused, taken>>

\* The artifact is deleted or reaped; its id may stand for another one.
Remove(u) ==
  /\ pc[u] \in {"await_upload", "stored"}
  /\ pc' = [pc EXCEPT ![u] = "none"]
  /\ free' = free + written[u]
  /\ written' = [written EXCEPT ![u] = 0]
  /\ checkpoint' = [checkpoint EXCEPT ![u] = 0]
  /\ passed' = [passed EXCEPT ![u] = 0]
  /\ UNCHANGED <<length, excused, taken>>

\* The same under a PUT: its file has no name any more, but keeps its space and
\* grows until the stream ends.
Unlink(u) ==
  /\ pc[u] = "streaming"
  /\ pc' = [pc EXCEPT ![u] = "unlinked"]
  /\ UNCHANGED <<free, length, written, checkpoint, passed, excused, taken>>

\* Another program writes to the volume.
OtherTakes(n) ==
  /\ taken + n <= MaxTaken
  /\ n <= free + Floor
  /\ free' = free - n
  /\ taken' = taken + n
  /\ excused' = TRUE
  /\ UNCHANGED <<pc, length, written, checkpoint, passed>>

Next ==
  \/ \E u \in Upload, n \in Length : Create(u, n)
  \/ \E u \in Upload, n \in Length \cup {None} : PutOpen(u, n)
  \/ \E u \in Upload, n \in 1..MaxChunk : PutChunk(u, n)
  \/ \E u \in Upload : PutAbort(u) \/ PutFinish(u) \/ Remove(u) \/ Unlink(u)
  \/ \E n \in 1..MaxTaken : OtherTakes(n)

Spec == Init /\ [][Next]_vars

-----------------------------------------------------------------------------
(* Properties.                                                             *)

\* What an upload wrote since the floor was last found not reached.
Unchecked(u) == written[u] - passed[u]

\* The re-check bounds what an upload adds after the floor is reached: less than
\* an interval and a chunk, whatever length it gave.
UncheckedBounded == \A u \in Upload : Unchecked(u) < Interval + MaxChunk

\* The floor is crossed by no more than that for every artifact there is, and
\* what other programs take: uploads admitted at the same time each count on the
\* whole headroom, and one without a length is not checked at all at first.
FloorCrossing ==
  LET Held == {u \in Upload : written[u] > 0}
  IN  free + taken >= -(Cardinality(Held) * (Interval + MaxChunk - 1))

\* One upload at a time that gives its true length never crosses the floor, if
\* no other program takes space (check_admission).
FloorHeldAlone == ~excused => free >= 0
=============================================================================
