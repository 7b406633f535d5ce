-------------------------- MODULE ArtifactDiskProofs --------------------------
(***************************************************************************)
(* Proofs about ArtifactDisk, for any uploads, sizes and intervals.        *)
(***************************************************************************)
EXTENDS ArtifactDisk, FiniteSetTheorems, TLAPS

(***************************************************************************)
(* The inductive invariant.  While nothing is excused, at most one upload  *)
(* streams, and what it may still send fits above the floor (Fits).  What  *)
(* is on disk runs less than an interval ahead of the last check, and that *)
(* check at most a chunk ahead of what was on disk when it passed (Ahead). *)
(***************************************************************************)
Fits ==
  ~excused =>
    /\ free >= 0
    /\ \A u, v \in Streaming : u = v
    /\ \A u \in Streaming : length[u] \in Nat /\ written[u] <= length[u]
                              /\ length[u] - written[u] <= free

Ahead ==
  \A u \in Upload : /\ written[u] - checkpoint[u] < Interval
                    /\ checkpoint[u] - passed[u] <= MaxChunk

NotBegun == \A u \in Upload : pc[u] \in {"none", "await_upload"} => written[u] = 0

IInv == TypeOK /\ NotBegun /\ Fits /\ Ahead

\* A step that only gives space back, and starts no upload, keeps Fits.
LEMMA FitsLater ==
  ASSUME TypeOK, Fits, ~excused, free' \in Int, free' >= free,
         \A v \in Streaming' : /\ v \in Streaming
                              /\ written'[v] = written[v] /\ length'[v] = length[v]
  PROVE  Fits'
<1>1. \A v \in Streaming : written[v] \in Nat
  BY SizesAreNat DEF Streaming, TypeOK
<1>2. ASSUME NEW v \in Streaming'
      PROVE  length'[v] \in Nat /\ written'[v] <= length'[v]
             /\ length'[v] - written'[v] <= free'
  BY <1>1 DEF Fits, TypeOK
<1> QED
  BY <1>2 DEF Fits, TypeOK

\* Every step keeps the invariant.
LEMMA StepInv == IInv /\ [Next]_vars => IInv'
<1> SUFFICES ASSUME IInv, [Next]_vars PROVE IInv'
  OBVIOUS
<1> USE SizesAreNat, NoneIsNoLength DEF IInv, TypeOK, Length
<1>1. ASSUME NEW u \in Upload, NEW n \in Length, Create(u, n) PROVE IInv'
  <2> USE <1>1 DEF Create
  <2>1. TypeOK' /\ NotBegun' /\ Ahead'
    BY DEF NotBegun, Ahead
  <2>2. Streaming' = Streaming
    BY DEF Streaming
  <2> QED
    BY <2>1, <2>2 DEF Fits
<1>2. ASSUME NEW u \in Upload, NEW n \in Length \cup {None}, PutOpen(u, n) PROVE IInv'
  <2> USE <1>2 DEF PutOpen
  <2>0. written[u] = 0
    BY DEF NotBegun
  <2>1. TypeOK'
    OBVIOUS
  <2>2. NotBegun' /\ Ahead'
    BY <2>0 DEF NotBegun, Ahead
  <2>3. ASSUME ~excused' PROVE Fits'
    <3>1. ~excused /\ n # None /\ Streaming = {}
      BY <1>2, <2>3 DEF PutOpen
    <3>2. Streaming' = {u}
      BY <3>1 DEF Streaming
    <3>3. n <= free
      BY <3>1 DEF Admissible, Headroom, Fits
    <3> QED
      BY <2>0, <3>1, <3>2, <3>3 DEF Fits
  <2> QED
    BY <2>1, <2>2, <2>3 DEF Fits
<1>3. ASSUME NEW u \in Upload, NEW n \in 1..MaxChunk, PutChunk(u, n) PROVE IInv'
  <2> USE <1>3 DEF PutChunk
  <2>0. n \in Nat /\ written[u] + n \in 0..MaxBytes /\ Streaming' = Streaming /\ u \in Streaming
    BY DEF UnderCap, Streaming
  <2>1. written' \in [Upload -> 0..MaxBytes]
    BY <2>0
  <2>2. checkpoint' \in [Upload -> Nat] /\ passed' \in [Upload -> Nat]
    BY <2>0
  <2>3. TypeOK' /\ NotBegun'
    <3>1. pc[u] \notin {"none", "await_upload"} /\ \A v \in Upload \ {u} : written'[v] = written[v]
      BY <2>0 DEF Streaming
    <3> QED
      BY <2>0, <2>1, <2>2, <3>1 DEF NotBegun
  <2>4. Ahead'
    <3>1. CASE Due(u, n)
      BY <2>0, <3>1 DEF Ahead
    <3>2. CASE ~Due(u, n)
      BY <2>0, <3>2 DEF Ahead, Due
    <3> QED
      BY <3>1, <3>2
  <2>5. ASSUME ~excused' PROVE Fits'
    <3>1. ~excused /\ length[u] \in Nat /\ written[u] + n <= length[u]
      BY <2>5 DEF Honest, Fits, Streaming
    <3>2. \A v \in Streaming : v = u
      BY <2>0, <3>1 DEF Fits
    <3>3. length[u] - written[u] <= free
      BY <2>0, <3>1 DEF Fits
    <3> QED
      BY <2>0, <3>1, <3>2, <3>3 DEF Fits
  <2> QED
    BY <2>3, <2>4, <2>5 DEF Fits
<1>4. ASSUME NEW u \in Upload, PutAbort(u) PROVE IInv'
  <2> USE <1>4 DEF PutAbort, Returned
  <2>1. TypeOK' /\ NotBegun' /\ Ahead'
    BY DEF NotBegun, Ahead
  <2>2. Streaming' = Streaming \ {u} /\ free' >= free
    BY DEF Streaming
  <2>3. \A v \in Streaming' : /\ v \in Streaming
                              /\ written'[v] = written[v] /\ length'[v] = length[v]
    BY <2>2 DEF Streaming
  <2>4. ASSUME ~excused' PROVE Fits'
    BY <2>2, <2>3, <2>4, FitsLater
  <2> QED
    BY <2>1, <2>4 DEF Fits
<1>5. ASSUME NEW u \in Upload, PutFinish(u) PROVE IInv'
  <2> USE <1>5 DEF PutFinish
  <2>1. TypeOK' /\ NotBegun' /\ Ahead'
    BY DEF NotBegun, Ahead
  <2>2. Streaming' = Streaming \ {u}
    BY DEF Streaming
  <2> QED
    BY <2>1, <2>2 DEF Fits
<1>6. ASSUME NEW u \in Upload, Remove(u) PROVE IInv'
  <2> USE <1>6 DEF Remove
  <2>1. TypeOK' /\ NotBegun' /\ Ahead'
    BY DEF NotBegun, Ahead
  <2>2. Streaming' = Streaming /\ u \notin Streaming /\ free' >= free
    BY DEF Streaming
  <2>3. \A v \in Streaming' : /\ v \in Streaming
                              /\ written'[v] = written[v] /\ length'[v] = length[v]
    BY <2>2 DEF Streaming
  <2>4. ASSUME ~excused' PROVE Fits'
    BY <2>2, <2>3, <2>4, FitsLater
  <2> QED
    BY <2>1, <2>4 DEF Fits
<1>7. ASSUME NEW n \in 1..MaxTaken, OtherTakes(n) PROVE IInv'
  <2> USE <1>7 DEF OtherTakes
  <2>1. TypeOK' /\ NotBegun' /\ Ahead'
    BY DEF NotBegun, Ahead
  <2> QED
    BY <2>1 DEF Fits
<1>8. ASSUME NEW u \in Upload, Unlink(u) PROVE IInv'
  <2> USE <1>8 DEF Unlink
  <2>1. TypeOK' /\ NotBegun' /\ Ahead'
    BY DEF NotBegun, Ahead
  <2>2. Streaming' = Streaming
    BY DEF Streaming
  <2> QED
    BY <2>1, <2>2 DEF Fits
<1>9. CASE UNCHANGED vars
  BY <1>9 DEF vars, NotBegun, Fits, Ahead, Streaming
<1> QED
  BY <1>1, <1>2, <1>3, <1>4, <1>5, <1>6, <1>7, <1>8, <1>9 DEF Next

LEMMA Invariance == Spec => []IInv
<1>1. Init => IInv
  <2> SUFFICES ASSUME Init PROVE IInv
    OBVIOUS
  <2> USE SizesAreNat DEF Init
  <2>1. TypeOK
    <3>1. 0 \in 0..MaxBytes /\ 0 \in 0..MaxTaken /\ free \in Int
      OBVIOUS
    <3>2. written \in [Upload -> 0..MaxBytes] /\ length \in [Upload -> Nat \cup {None}]
      BY <3>1
    <3> QED
      BY <3>1, <3>2 DEF TypeOK
  <2>2. Streaming = {}
    BY DEF Streaming
  <2>3. NotBegun /\ Fits /\ Ahead
    BY <2>2 DEF NotBegun, Fits, Ahead
  <2> QED
    BY <2>1, <2>3 DEF IInv
<1> QED
  BY <1>1, StepInv, PTL DEF Spec

\* The sizes stay in range, the cap among them.
THEOREM TypeCorrect == Spec => []TypeOK
BY Invariance, PTL DEF IInv

\* One honest upload at a time never crosses the floor.
THEOREM FloorKept == Spec => []FloorHeldAlone
<1>1. IInv => FloorHeldAlone
  BY DEF IInv, Fits, FloorHeldAlone
<1> QED
  BY <1>1, Invariance, PTL

\* No upload writes more than an interval and a chunk past its last check.
THEOREM RecheckBounds == Spec => []UncheckedBounded
<1>1. IInv => UncheckedBounded
  BY SizesAreNat DEF IInv, TypeOK, Ahead, UncheckedBounded, Unchecked
<1> QED
  BY <1>1, Invariance, PTL

-----------------------------------------------------------------------------
(***************************************************************************)
(* The floor is crossed by what went unchecked (FloorCrossing).  A sum     *)
(* over the uploads is out of reach without induction; what went unchecked *)
(* is counted as a set instead, Debt, which has a pair <<u, i>> for every  *)
(* unchecked unit i of upload u.  Space is owed to nobody else: what is    *)
(* missing above the floor is in Debt, or another program took it (Owed).  *)
(***************************************************************************)
Room == 1..(Interval + MaxChunk - 1)
Debt == {p \in Upload \X Room : p[2] <= Unchecked(p[1])}
Held == {u \in Upload : written[u] > 0}

Owed ==
  /\ IsFiniteSet(Held)
  /\ \A u \in Upload : passed[u] <= written[u]
  /\ IsFiniteSet(Debt)
  /\ free + taken + Cardinality(Debt) >= 0

\* The units a..b of one upload.
LEMMA StripSize ==
  ASSUME NEW u, NEW a \in Int, NEW b \in Int, a <= b + 1
  PROVE  IsFiniteSet({u} \X (a..b)) /\ Cardinality({u} \X (a..b)) = b - a + 1
<1>1. IsFiniteSet(a..b) /\ Cardinality(a..b) = b - a + 1
  BY FS_Interval
<1>2. IsFiniteSet({u}) /\ Cardinality({u}) = 1
  BY FS_Singleton
<1>3. Cardinality({u} \X (a..b)) = Cardinality({u}) * Cardinality(a..b)
  BY <1>1, <1>2, FS_Product
<1>4. IsFiniteSet({u} \X (a..b))
  BY <1>1, <1>2, FS_Product
<1>5. 1 * (b - a + 1) = b - a + 1
  OBVIOUS
<1> QED
  BY <1>1, <1>2, <1>3, <1>4, <1>5

\* A step that moves no byte and passes no check owes what was owed.
LEMMA OwedKept ==
  ASSUME Owed, UNCHANGED <<written, passed>>, free' + taken' = free + taken
  PROVE  Owed'
<1>1. Debt' = Debt /\ Held' = Held
  BY DEF Debt, Held, Unchecked
<1> QED
  BY <1>1 DEF Owed

\* A chunk that was not preceded by a check adds its units to the debt.
LEMMA UncheckedChunk ==
  ASSUME IInv, Owed, NEW u \in Upload, NEW n \in 1..MaxChunk, PutChunk(u, n), ~Due(u, n)
  PROVE  IsFiniteSet(Debt') /\ free' + taken' + Cardinality(Debt') >= 0
<1> DEFINE old == Unchecked(u)
           strip == {u} \X ((old + 1)..(old + n))
<1>1. /\ written[u] \in Nat /\ passed[u] \in Nat /\ checkpoint[u] \in Nat
      /\ n \in Nat /\ free \in Int /\ taken \in Int
      /\ written \in [Upload -> 0..MaxBytes] /\ passed' = passed
      /\ written' = [written EXCEPT ![u] = @ + n] /\ free' = free - n /\ taken' = taken
  BY SizesAreNat DEF IInv, TypeOK, PutChunk
<1>2. old \in Nat /\ old + n <= Interval + MaxChunk - 1
  BY <1>1, SizesAreNat DEF Owed, Unchecked, Due, IInv, Ahead
<1>3. IsFiniteSet(strip) /\ Cardinality(strip) = n
  <2>1. old + 1 \in Int /\ old + n \in Int /\ old + 1 <= (old + n) + 1
        /\ (old + n) - (old + 1) + 1 = n
    BY <1>1, <1>2
  <2> HIDE DEF old
  <2> QED
    BY <2>1, StripSize
<1>4. /\ Unchecked(u)' = old + n
      /\ \A v \in Upload : v # u => Unchecked(v)' = Unchecked(v)
  BY <1>1 DEF Unchecked
<1>5. Debt' = Debt \cup strip
  <2>1. ASSUME NEW v \in Upload, NEW i \in Room
        PROVE  <<v, i>> \in Debt' <=> <<v, i>> \in Debt \cup strip
    <3>1. CASE v = u
      BY <1>1, <1>2, <1>4, <3>1, SizesAreNat DEF Debt, Room
    <3>2. CASE v # u
      BY <1>4, <3>2 DEF Debt
    <3> QED
      BY <3>1, <3>2
  <2>2. strip \subseteq Upload \X Room
    BY <1>1, <1>2, SizesAreNat DEF Room
  <2>3. Debt \subseteq Upload \X Room /\ Debt' \subseteq Upload \X Room
    BY DEF Debt, Room
  <2> QED
    BY <2>1, <2>2, <2>3
<1>6. Debt \cap strip = {}
  BY <1>2 DEF Debt, Unchecked
<1>7. IsFiniteSet(Debt \cup strip)
      /\ Cardinality(Debt \cup strip) = Cardinality(Debt) + Cardinality(strip) - Cardinality({})
  <2>1. IsFiniteSet(Debt)
    BY DEF Owed
  <2> HIDE DEF strip
  <2>2. IsFiniteSet(Debt \cup strip)
        /\ Cardinality(Debt \cup strip)
             = Cardinality(Debt) + Cardinality(strip) - Cardinality(Debt \cap strip)
    BY <1>3, <2>1, FS_Union
  <2> QED
    BY <1>6, <2>2
<1>8. Cardinality(Debt) \in Nat /\ Cardinality({}) = 0
  BY FS_CardinalityType, FS_EmptySet DEF Owed
<1> HIDE DEF strip
<1> QED
  BY <1>1, <1>3, <1>5, <1>7, <1>8 DEF Owed

\* One that was: its units are all that is unchecked of its upload, and there was
\* space above the floor.
LEMMA CheckedChunk ==
  ASSUME IInv, Owed, NEW u \in Upload, NEW n \in 1..MaxChunk, PutChunk(u, n), Due(u, n)
  PROVE  IsFiniteSet(Debt') /\ free' + taken' + Cardinality(Debt') >= 0
<1> DEFINE strip == {u} \X (1..n)
<1>1. /\ written[u] \in Nat /\ n \in Nat /\ free \in Int /\ taken \in Nat
      /\ written \in [Upload -> 0..MaxBytes] /\ passed \in [Upload -> Nat]
      /\ passed' = [passed EXCEPT ![u] = written[u]]
      /\ written' = [written EXCEPT ![u] = @ + n] /\ free' = free - n /\ taken' = taken
      /\ free > 0 /\ n <= Interval + MaxChunk - 1
  BY SizesAreNat DEF IInv, TypeOK, PutChunk, Headroom
<1>2. IsFiniteSet(strip) /\ Cardinality(strip) = n
  <2>1. 1 \in Int /\ n \in Int /\ 1 <= n + 1 /\ n - 1 + 1 = n
    BY <1>1
  <2>2. IsFiniteSet({u} \X (1..n)) /\ Cardinality({u} \X (1..n)) = n - 1 + 1
    BY <2>1, StripSize
  <2> QED
    BY <2>1, <2>2
<1>3. /\ Unchecked(u)' = n
      /\ \A v \in Upload : v # u => Unchecked(v)' = Unchecked(v)
  BY <1>1 DEF Unchecked
<1>4. strip \subseteq Debt'
  BY <1>1, <1>3, SizesAreNat DEF Debt, Room
<1>5. Debt' \subseteq Debt \cup strip
  BY <1>1, <1>3, SizesAreNat DEF Debt, Room
<1>6. IsFiniteSet(Debt \cup strip)
  BY <1>2, FS_Union DEF Owed
<1>7. IsFiniteSet(Debt')
  BY <1>5, <1>6, FS_Subset
<1>8. Cardinality(Debt') \in Nat /\ n <= Cardinality(Debt')
  BY <1>2, <1>4, <1>7, FS_Subset, FS_CardinalityType
<1> QED
  BY <1>1, <1>7, <1>8

\* The file of an upload goes: it gives back at least what was unchecked of it.
LEMMA OwedGiven ==
  ASSUME IInv, Owed, NEW u \in Upload,
         free' = free + written[u], taken' = taken,
         written' = [written EXCEPT ![u] = 0], passed' = [passed EXCEPT ![u] = 0]
  PROVE  Owed'
<1> DEFINE strip == {u} \X (1..Unchecked(u))
<1>1. /\ written[u] \in Nat /\ passed[u] \in Nat /\ free \in Int /\ taken \in Nat
      /\ written \in [Upload -> 0..MaxBytes] /\ passed \in [Upload -> Nat]
  BY SizesAreNat DEF IInv, TypeOK
<1>2. Unchecked(u) \in Nat /\ Unchecked(u) <= written[u]
  BY <1>1 DEF Owed, Unchecked
<1>3. IsFiniteSet(strip) /\ Cardinality(strip) = Unchecked(u)
  <2>1. Unchecked(u) \in Int /\ 1 <= Unchecked(u) + 1 /\ Unchecked(u) - 1 + 1 = Unchecked(u)
    BY <1>2
  <2>2. IsFiniteSet(strip) /\ Cardinality(strip) = Unchecked(u) - 1 + 1
    <3> DEFINE k == Unchecked(u)
    <3> HIDE DEF k
    <3>1. 1 \in Int /\ k \in Int /\ 1 <= k + 1
      BY <2>1 DEF k
    <3>2. IsFiniteSet({u} \X (1..k)) /\ Cardinality({u} \X (1..k)) = k - 1 + 1
      BY <3>1, StripSize
    <3> QED
      BY <3>2 DEF k
  <2> QED
    BY <2>1, <2>2
<1>4. \A v \in Upload : v # u => Unchecked(v)' = Unchecked(v)
  BY <1>1 DEF Unchecked
<1>5. Unchecked(u)' = 0
  BY <1>1 DEF Unchecked
<1>6. Debt' \subseteq Debt /\ Debt \subseteq Debt' \cup strip
  BY <1>2, <1>4, <1>5, SizesAreNat DEF Debt, Room
<1>7. IsFiniteSet(Debt') /\ Cardinality(Debt') \in Nat
  BY <1>6, FS_Subset, FS_CardinalityType DEF Owed
<1>8. IsFiniteSet(Debt' \cup strip)
      /\ Cardinality(Debt' \cup strip) =
           Cardinality(Debt') + Cardinality(strip) - Cardinality(Debt' \cap strip)
  BY <1>3, <1>7, FS_Union
<1>9. IsFiniteSet(Debt' \cap strip) /\ Cardinality(Debt' \cap strip) \in Nat
  BY <1>7, FS_Intersection, FS_CardinalityType
<1>10. Cardinality(Debt) \in Nat /\ Cardinality(Debt) <= Cardinality(Debt' \cup strip)
  BY <1>6, <1>8, FS_Subset, FS_CardinalityType DEF Owed
<1>11. free' + taken' + Cardinality(Debt') >= 0
  <2> HIDE DEF strip
  <2> QED
    BY <1>1, <1>2, <1>3, <1>7, <1>8, <1>9, <1>10 DEF Owed
<1>12. IsFiniteSet(Held')
  <2>1. Held' \subseteq Held
    BY <1>1 DEF Held
  <2> QED
    BY <2>1, FS_Subset DEF Owed
<1>13. \A v \in Upload : passed'[v] <= written'[v]
  BY <1>1 DEF Owed
<1> QED
  BY <1>7, <1>11, <1>12, <1>13 DEF Owed

LEMMA OwedStep == IInv /\ Owed /\ [Next]_vars => Owed'
<1> SUFFICES ASSUME IInv, Owed, [Next]_vars PROVE Owed'
  OBVIOUS
<1>1. ASSUME NEW u \in Upload, NEW n \in Length, Create(u, n) PROVE Owed'
  BY <1>1, OwedKept DEF Create
<1>2. ASSUME NEW u \in Upload, NEW n \in Length \cup {None}, PutOpen(u, n) PROVE Owed'
  <2>1. written[u] = 0
    BY <1>2 DEF PutOpen, IInv, NotBegun
  <2>2. passed[u] \in Nat /\ passed[u] <= 0 /\ passed \in [Upload -> Nat]
    BY <2>1 DEF IInv, TypeOK, Owed
  <2>3. passed' = passed
    BY <1>2, <2>2 DEF PutOpen
  <2> QED
    BY <1>2, <2>3, OwedKept DEF PutOpen
<1>3. ASSUME NEW u \in Upload, NEW n \in 1..MaxChunk, PutChunk(u, n) PROVE Owed'
  <2>1. IsFiniteSet(Debt') /\ free' + taken' + Cardinality(Debt') >= 0
    BY <1>3, UncheckedChunk, CheckedChunk
  <2>2. /\ written \in [Upload -> Nat] /\ passed \in [Upload -> Nat] /\ n \in Nat
        /\ written' = [written EXCEPT ![u] = @ + n]
        /\ passed' = passed \/ passed' = [passed EXCEPT ![u] = written[u]]
    BY <1>3, SizesAreNat DEF PutChunk, IInv, TypeOK
  <2>3. \A v \in Upload : passed'[v] <= written'[v]
    BY <2>2 DEF Owed
  <2>4. IsFiniteSet(Held')
    <3>1. Held' \subseteq Held \cup {u}
      BY <2>2 DEF Held
    <3>2. IsFiniteSet(Held \cup {u})
      BY FS_AddElement DEF Owed
    <3> QED
      BY <3>1, <3>2, FS_Subset
  <2> QED
    BY <2>1, <2>3, <2>4 DEF Owed
<1>4. ASSUME NEW u \in Upload, PutAbort(u) PROVE Owed'
  BY <1>4, OwedGiven DEF PutAbort, Returned
<1>5. ASSUME NEW u \in Upload, PutFinish(u) PROVE Owed'
  BY <1>5, OwedKept DEF PutFinish
<1>6. ASSUME NEW u \in Upload, Remove(u) PROVE Owed'
  BY <1>6, OwedGiven DEF Remove
<1>7. ASSUME NEW n \in 1..MaxTaken, OtherTakes(n) PROVE Owed'
  <2>1. free' + taken' = free + taken
    BY <1>7, SizesAreNat DEF OtherTakes, IInv, TypeOK
  <2> QED
    BY <1>7, <2>1, OwedKept DEF OtherTakes
<1>8. ASSUME NEW u \in Upload, Unlink(u) PROVE Owed'
  BY <1>8, OwedKept DEF Unlink
<1>9. CASE UNCHANGED vars
  BY <1>9, OwedKept DEF vars
<1> QED
  BY <1>1, <1>2, <1>3, <1>4, <1>5, <1>6, <1>7, <1>8, <1>9 DEF Next

LEMMA OwedInit == Init => Owed
<1> SUFFICES ASSUME Init PROVE Owed
  OBVIOUS
<1>1. Held = {} /\ \A u \in Upload : passed[u] <= written[u]
  BY DEF Init, Held
<1>2. Debt = {}
  BY SizesAreNat DEF Init, Debt, Room, Unchecked
<1> QED
  BY <1>1, <1>2, FS_EmptySet, SizesAreNat DEF Owed, Init

\* However many uploads are admitted on the same headroom, and however many of them
\* give no length, each takes the volume below the floor by less than an interval
\* and a chunk.
THEOREM FloorCrossedAtMost == Spec => []FloorCrossing
<1>1. IInv /\ Owed => FloorCrossing
  <2> SUFFICES ASSUME IInv, Owed PROVE FloorCrossing
    OBVIOUS
  <2>1. Room = 1..(Interval + MaxChunk - 1) /\ IsFiniteSet(Room)
        /\ Cardinality(Room) = Interval + MaxChunk - 1
    BY SizesAreNat, FS_Interval DEF Room
  <2>2. Debt \subseteq Held \X Room
    BY SizesAreNat DEF Debt, Held, Room, Unchecked, IInv, TypeOK
  <2>3. IsFiniteSet(Held \X Room) /\ Cardinality(Held \X Room) = Cardinality(Held) * Cardinality(Room)
    BY <2>1, FS_Product DEF Owed
  <2>4. Cardinality(Debt) <= Cardinality(Held \X Room)
    BY <2>2, <2>3, FS_Subset
  <2>5. Cardinality(Debt) \in Nat /\ Cardinality(Held) \in Nat
    BY FS_CardinalityType DEF Owed
  <2> DEFINE bound == Cardinality(Held) * (Interval + MaxChunk - 1)
  <2>6. bound \in Int /\ Cardinality(Debt) <= bound
    BY <2>1, <2>3, <2>4, <2>5, SizesAreNat
  <2>7. free + taken >= -bound
    <3> HIDE DEF bound
    <3> QED
      BY <2>5, <2>6, SizesAreNat DEF Owed, IInv, TypeOK
  <2> QED
    BY <2>7 DEF FloorCrossing, Held
<1>2. Spec => []Owed
  BY Invariance, OwedInit, OwedStep, PTL DEF Spec
<1> QED
  BY <1>1, <1>2, Invariance, PTL
=============================================================================
