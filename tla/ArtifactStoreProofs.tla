------------------------- MODULE ArtifactStoreProofs -------------------------
(***************************************************************************)
(* Proofs about ArtifactStore, for any number of artifacts, uploads,       *)
(* downloads, users and crashes.                                           *)
(***************************************************************************)
EXTENDS ArtifactStore, TLAPS

(***************************************************************************)
(* The inductive invariant.  NoResurrection fails to be inductive because  *)
(* a PUT that is streaming when its artifact is removed persists metadata  *)
(* if its rename succeeds: it cannot, as a removed artifact that is still  *)
(* being streamed has no <id>.part (Streams).  AckedIsDurable rests on the *)
(* agreement of memory and disk (Agree): the state _put tests is the state *)
(* on disk, so no PUT opens <id>.part of an acknowledged artifact (Acked)  *)
(* and no crash catches its metadata being rewritten.                      *)
(***************************************************************************)
Fresh == \A a \in Artifact \ Minted :
           a \notin index /\ a \notin gone /\ meta[a] = "none"

Streams == \A u \in Upload : upc[u] = "streaming" =>
             /\ up
             /\ uart[u] \in Minted
             /\ uart[u] \in gone => part[uart[u]] = None

Acked == \A u \in Upload : upc[u] = "stored" =>
           /\ uart[u] \in Minted
           /\ part[uart[u]] = None
           /\ uart[u] \notin gone => meta[uart[u]] = "stored"

Agree == \A a \in index : meta[a] = state[a]

OnDisk == \A a \in Artifact : meta[a] = "stored" => blob[a] # None

Down == ~up => index = {}

\* A PUT or GET under way has its artifact, and a PUT its inode.
Busy ==
  /\ \A u \in Upload : upc[u] = "streaming" => uart[u] \in Artifact /\ ufd[u] \in Upload
  /\ \A g \in Fetch : fpc[g] = "admitted" => fart[g] \in Artifact

Core == NoResurrection /\ Fresh /\ Streams /\ Acked /\ Agree /\ OnDisk /\ Down

IInv == TypeOK /\ Busy /\ Core

\* A crash keeps what it does to the memory, the PUTs and the GETs well typed.
LEMMA DieTypes ==
  ASSUME TypeOK, NEW D \in SUBSET Artifact, NEW L \in SUBSET Artifact, Die(D, L)
  PROVE  /\ up' \in BOOLEAN /\ index' \subseteq Artifact /\ pending' \subseteq Artifact
         /\ state' = state /\ named' = named /\ expired' = expired
         /\ uart' = uart /\ ufd' = ufd /\ sent' = sent /\ fart' = fart /\ fino' = fino
         /\ handed' = handed /\ raced' = raced
         /\ upc' \in [Upload -> {"idle", "streaming", "stored", "failed"}]
         /\ fpc' \in [Fetch -> {"idle", "admitted", "served", "failed"}]
         /\ crashes' \in 0..MaxCrashes
         /\ damaged' \subseteq Artifact /\ leaked' \subseteq Artifact
<1>1. crashes' \in 0..MaxCrashes
  BY BoundsAreNat DEF TypeOK, Die
<1>2. upc' \in [Upload -> {"idle", "streaming", "stored", "failed"}]
  BY DEF TypeOK, Die
<1>3. fpc' \in [Fetch -> {"idle", "admitted", "served", "failed"}]
  BY DEF TypeOK, Die
<1>4. damaged' \subseteq Artifact /\ leaked' \subseteq Artifact
  BY DEF TypeOK, Die
<1> QED
  BY <1>1, <1>2, <1>3, <1>4 DEF Die

\* A crash keeps every variable well typed when it keeps the files, the ids and
\* LAVA's tokens well typed.
LEMMA DieTypeOK ==
  ASSUME TypeOK, NEW D \in SUBSET Artifact, NEW L \in SUBSET Artifact, Die(D, L),
         owner' \in [Artifact -> User \cup {None}],
         job' \in [Artifact -> {"unbound", "running", "finished"}],
         meta' \in [Artifact -> States \cup {"none", "torn"}],
         metaNamed' \in [Artifact -> BOOLEAN],
         part' \in [Artifact -> Upload \cup {None}],
         blob' \in [Artifact -> Upload \cup {None}],
         content' \in [Upload -> [Position -> Upload \cup {None}]],
         lava' \subseteq Artifact,
         gone' \subseteq Artifact
  PROVE  TypeOK'
<1>1. /\ up' \in BOOLEAN /\ index' \subseteq Artifact /\ pending' \subseteq Artifact
      /\ upc' \in [Upload -> {"idle", "streaming", "stored", "failed"}]
      /\ fpc' \in [Fetch -> {"idle", "admitted", "served", "failed"}]
      /\ crashes' \in 0..MaxCrashes
      /\ damaged' \subseteq Artifact /\ leaked' \subseteq Artifact
  BY DieTypes, Zenon
<1>2. /\ state' = state /\ named' = named /\ expired' = expired
      /\ uart' = uart /\ ufd' = ufd /\ sent' = sent /\ fart' = fart /\ fino' = fino
      /\ handed' = handed /\ raced' = raced
  BY DieTypes, Zenon
<1>3. /\ state' \in [Artifact -> States] /\ named' \in [Artifact -> BOOLEAN]
      /\ expired' \subseteq Artifact
      /\ handed' \subseteq Artifact /\ raced' \subseteq Artifact
  BY <1>2, Zenon DEF TypeOK
<1>4. /\ uart' \in [Upload -> Artifact \cup {None}]
      /\ ufd' \in [Upload -> Upload \cup {None}]
      /\ sent' \in [Upload -> 0..MaxBytes]
      /\ fart' \in [Fetch -> Artifact \cup {None}]
      /\ fino' \in [Fetch -> Upload \cup {None}]
  BY <1>2, Zenon DEF TypeOK
<1> QED
  BY <1>1, <1>3, <1>4, Zenon DEF TypeOK

\* Every step of the store keeps its variables well typed.
LEMMA TypeStep == TypeOK /\ Busy /\ [Next]_vars => TypeOK'
<1> SUFFICES ASSUME TypeOK, Busy, [Next]_vars PROVE TypeOK'
  OBVIOUS
<1>1. ASSUME NEW o \in User, NEW a \in Artifact, NEW answer \in {"ok", "refused", "lost"},
            NEW binding \in {"unbound", "running"}, NEW D \in SUBSET Artifact,
            CreateArtifactUpload(o, a, answer, binding, D)
      PROVE  TypeOK'
  BY <1>1 DEF CreateArtifactUpload, MetaWithout, BlobWithout, PartWithout, Reaped,
       Expired, Queued, TakenFrom, Forgotten, Recorded, TypeOK, States, mem, ids,
       disk, puts, gets, hist
<1>2. ASSUME NEW o \in User, NEW D \in SUBSET Artifact,
            ListArtifacts(o, D)
      PROVE  TypeOK'
  BY <1>2 DEF ListArtifacts, Remove, MetaWithout, BlobWithout, PartWithout, Reaped,
       Expired, Queued, TakenFrom, Forgotten, TypeOK, States, mem, ids, disk, puts,
       gets, hist
<1>3. ASSUME NEW o \in User, NEW a \in Artifact, NEW D \in SUBSET Artifact,
            DeleteArtifact(o, a, D)
      PROVE  TypeOK'
  BY <1>3 DEF DeleteArtifact, Remove, MetaWithout, BlobWithout, PartWithout, Queued,
       TakenFrom, Forgotten, TypeOK, States, mem, ids, disk, puts, gets, hist
<1>4. ASSUME NEW a \in Artifact,
            RequestExpired(a)
      PROVE  TypeOK'
  BY <1>4 DEF RequestExpired, Remove, MetaWithout, BlobWithout, PartWithout, Queued,
       Expired, TypeOK, States, mem, ids, disk, puts, gets, hist
<1>5. ASSUME NEW u \in Upload, NEW a \in Artifact,
            PutOpen(u, a)
      PROVE  TypeOK'
  BY <1>5 DEF PutOpen, Position, Awaiting, Truncated, Empty, Streaming, TypeOK,
       States, mem, ids, disk, puts, gets, hist
<1>6. ASSUME NEW u \in Upload,
            PutChunk(u)
      PROVE  TypeOK'
  <2>1. content' \in [Upload -> [Position -> Upload \cup {None}]]
    BY <1>6 DEF PutChunk, TypeOK
  <2>2. sent' \in [Upload -> 0..MaxBytes]
    <3>1. sent[u] + 1 \in 0..MaxBytes
      BY <1>6, BoundsAreNat DEF PutChunk, UnderCap, TypeOK
    <3> QED
      BY <1>6, <3>1 DEF PutChunk, TypeOK
  <2> QED
    BY <1>6, <2>1, <2>2 DEF PutChunk, TypeOK, States, mem, ids, disk, puts, gets, hist
<1>7. ASSUME NEW u \in Upload,
            PutAbort(u)
      PROVE  TypeOK'
  BY <1>7 DEF PutAbort, TypeOK, States, mem, ids, disk, puts, gets, hist
<1>8. ASSUME NEW u \in Upload,
            PutFinish(u)
      PROVE  TypeOK'
  <2>1. uart[u] \in Artifact
    BY <1>8 DEF PutFinish, Busy
  <2>2. CASE part[uart[u]] # None
    <3>1. blob' \in [Artifact -> Upload \cup {None}] /\ part' \in [Artifact -> Upload \cup {None}]
      BY <1>8, <2>1, <2>2 DEF PutFinish, TypeOK
    <3>2. state' \in [Artifact -> States] /\ meta' \in [Artifact -> States \cup {"none", "torn"}]
      BY <1>8, <2>1, <2>2 DEF PutFinish, PersistedState, States, TypeOK
    <3>3. metaNamed' \in [Artifact -> BOOLEAN]
      <4>1. named[uart[u]] \in BOOLEAN
        BY <2>1, Zenon DEF TypeOK
      <4>2. metaNamed' = [metaNamed EXCEPT ![uart[u]] = named[uart[u]]]
        BY <1>8, <2>2 DEF PutFinish
      <4> QED
        BY <4>1, <4>2 DEF TypeOK
    <3>4. upc' \in [Upload -> {"idle", "streaming", "stored", "failed"}]
      BY <1>8, <2>2 DEF PutFinish, TypeOK
    <3> QED
      BY <1>8, <3>1, <3>2, <3>3, <3>4 DEF PutFinish, TypeOK, ids, gets, hist
  <2>3. CASE part[uart[u]] = None
    BY <1>8, <2>3 DEF PutFinish, TypeOK, States, mem, ids, disk, puts, gets, hist
  <2> QED
    BY <2>2, <2>3
<1>9. ASSUME NEW g \in Fetch, NEW a \in Artifact,
            GetAdmit(g, a)
      PROVE  TypeOK'
  BY <1>9 DEF GetAdmit, Servable, TypeOK, States, mem, ids, disk, puts, gets, hist
<1>10. ASSUME NEW g \in Fetch, NEW a \in Artifact,
            GetBoundJobDone(g, a)
      PROVE  TypeOK'
  BY <1>10 DEF GetBoundJobDone, Servable, Remove, MetaWithout, BlobWithout,
       PartWithout, Queued, TypeOK, States, mem, ids, disk, puts, gets, hist
<1>11. ASSUME NEW g \in Fetch,
            GetServe(g)
      PROVE  TypeOK'
  <2>1. fpc' \in [Fetch -> {"idle", "admitted", "served", "failed"}]
    BY <1>11 DEF GetServe, TypeOK
  <2>2. blob[fart[g]] \in Upload \cup {None}
    BY <1>11 DEF GetServe, Busy, TypeOK
  <2> QED
    BY <1>11, <2>1, <2>2 DEF GetServe, TypeOK, States, mem, ids, disk, puts, gets, hist
<1>12. ASSUME NEW a \in Artifact,
            Expire(a)
      PROVE  TypeOK'
  BY <1>12 DEF Expire, TypeOK, States, mem, ids, disk, puts, gets, hist
<1>13. ASSUME NEW a \in Artifact,
            JobFinishes(a)
      PROVE  TypeOK'
  BY <1>13 DEF JobFinishes, TypeOK, States, mem, ids, disk, puts, gets, hist
<1>14. ASSUME Crash
      PROVE  TypeOK'
  <2>1. Die({}, {})
    BY <1>14 DEF Crash
  <2>2. /\ owner' \in [Artifact -> User \cup {None}]
        /\ job' \in [Artifact -> {"unbound", "running", "finished"}]
        /\ meta' \in [Artifact -> States \cup {"none", "torn"}]
        /\ metaNamed' \in [Artifact -> BOOLEAN]
        /\ part' \in [Artifact -> Upload \cup {None}]
        /\ blob' \in [Artifact -> Upload \cup {None}]
        /\ content' \in [Upload -> [Position -> Upload \cup {None}]]
        /\ lava' \subseteq Artifact
        /\ gone' \subseteq Artifact
    BY <1>14 DEF Crash, TypeOK, disk
  <2> QED
    BY <2>1, <2>2, DieTypeOK
<1>15. ASSUME NEW a \in Artifact, NEW n \in 1..2,
            CrashInRemove(a, n)
      PROVE  TypeOK'
  <2>1. Die({a}, {a})
    BY <1>15 DEF CrashInRemove
  <2>2. /\ owner' \in [Artifact -> User \cup {None}]
        /\ job' \in [Artifact -> {"unbound", "running", "finished"}]
        /\ metaNamed' \in [Artifact -> BOOLEAN]
        /\ part' \in [Artifact -> Upload \cup {None}]
        /\ content' \in [Upload -> [Position -> Upload \cup {None}]]
        /\ lava' \subseteq Artifact
    BY <1>15, Zenon DEF CrashInRemove, TypeOK
  <2>3. meta' \in [Artifact -> States \cup {"none", "torn"}]
    BY <1>15 DEF CrashInRemove, MetaUnlinked, MetaWithout, TypeOK
  <2>4. blob' \in [Artifact -> Upload \cup {None}]
    BY <1>15 DEF CrashInRemove, BlobUnlinked, BlobWithout, TypeOK
  <2>5. gone' \subseteq Artifact
    BY <1>15 DEF CrashInRemove, TypeOK
  <2> QED
    BY <2>1, <2>2, <2>3, <2>4, <2>5, DieTypeOK
<1>16. ASSUME NEW o \in User, NEW a \in Artifact, NEW torn \in BOOLEAN,
            NEW registered \in BOOLEAN,
            CrashInCreate(o, a, torn, registered)
      PROVE  TypeOK'
  <2>1. PICK D, L \in SUBSET Artifact : Die(D, L)
    BY <1>16 DEF CrashInCreate
  <2>2. /\ job' \in [Artifact -> {"unbound", "running", "finished"}]
        /\ metaNamed' \in [Artifact -> BOOLEAN]
        /\ part' \in [Artifact -> Upload \cup {None}]
        /\ blob' \in [Artifact -> Upload \cup {None}]
        /\ content' \in [Upload -> [Position -> Upload \cup {None}]]
        /\ gone' \subseteq Artifact
    BY <1>16, Zenon DEF CrashInCreate, TypeOK
  <2>3. owner' \in [Artifact -> User \cup {None}]
    BY <1>16 DEF CrashInCreate, TypeOK
  <2>4. meta' \in [Artifact -> States \cup {"none", "torn"}]
    BY <1>16 DEF CrashInCreate, TypeOK, States
  <2>5. lava' \subseteq Artifact
    BY <1>16 DEF CrashInCreate, TypeOK
  <2> QED
    BY <2>1, <2>2, <2>3, <2>4, <2>5, DieTypeOK
<1>17. ASSUME NEW u \in Upload, NEW torn \in BOOLEAN,
            CrashInStore(u, torn)
      PROVE  TypeOK'
  <2>1. PICK D, L \in SUBSET Artifact : Die(D, L)
    BY <1>17 DEF CrashInStore, Busy
  <2>2. /\ owner' \in [Artifact -> User \cup {None}]
        /\ job' \in [Artifact -> {"unbound", "running", "finished"}]
        /\ metaNamed' \in [Artifact -> BOOLEAN]
        /\ content' \in [Upload -> [Position -> Upload \cup {None}]]
        /\ lava' \subseteq Artifact
        /\ gone' \subseteq Artifact
    BY <1>17, Zenon DEF CrashInStore, TypeOK
  <2>3. meta' \in [Artifact -> States \cup {"none", "torn"}]
    BY <1>17 DEF CrashInStore, TypeOK
  <2>4. part' \in [Artifact -> Upload \cup {None}]
    BY <1>17 DEF CrashInStore, TypeOK
  <2>5. blob' \in [Artifact -> Upload \cup {None}]
    BY <1>17 DEF CrashInStore, Busy, TypeOK
  <2> QED
    BY <2>1, <2>2, <2>3, <2>4, <2>5, DieTypeOK
<1>18. ASSUME Restart PROVE TypeOK'
  BY <1>18 DEF Restart, Loaded, TypeOK, States, mem, ids, disk, puts, gets, hist
<1>19. CASE UNCHANGED vars
  BY <1>19 DEF vars, TypeOK, States, mem, ids, disk, puts, gets, hist
<1> QED
  BY <1>1, <1>2, <1>3, <1>4, <1>5, <1>6, <1>7, <1>8, <1>9, <1>10, <1>11, <1>12,
       <1>13, <1>14, <1>15, <1>16, <1>17, <1>18, <1>19
  DEF Next, Tool, Put, Get, Environment, CrashInHandler

\* Every step keeps the requests under way in possession of what they hold.
LEMMA BusyStep == TypeOK /\ Busy /\ [Next]_vars => Busy'
<1> SUFFICES ASSUME TypeOK, Busy, [Next]_vars PROVE Busy'
  OBVIOUS
<1>1. ASSUME NEW o \in User, NEW a \in Artifact, NEW answer \in {"ok", "refused", "lost"},
            NEW binding \in {"unbound", "running"}, NEW D \in SUBSET Artifact,
            CreateArtifactUpload(o, a, answer, binding, D)
      PROVE  Busy'
  BY <1>1 DEF CreateArtifactUpload, Busy, mem, ids, disk, puts, gets, hist
<1>2. ASSUME NEW o \in User, NEW D \in SUBSET Artifact,
            ListArtifacts(o, D)
      PROVE  Busy'
  BY <1>2 DEF ListArtifacts, Remove, Busy, mem, ids, disk, puts, gets, hist
<1>3. ASSUME NEW o \in User, NEW a \in Artifact, NEW D \in SUBSET Artifact,
            DeleteArtifact(o, a, D)
      PROVE  Busy'
  BY <1>3 DEF DeleteArtifact, Remove, Busy, mem, ids, disk, puts, gets, hist
<1>4. ASSUME NEW a \in Artifact,
            RequestExpired(a)
      PROVE  Busy'
  BY <1>4 DEF RequestExpired, Remove, Busy, mem, ids, disk, puts, gets, hist
<1>5. ASSUME NEW u \in Upload, NEW a \in Artifact,
            PutOpen(u, a)
      PROVE  Busy'
  BY <1>5 DEF PutOpen, TypeOK, Busy, mem, ids, disk, puts, gets, hist
<1>6. ASSUME NEW u \in Upload,
            PutChunk(u)
      PROVE  Busy'
  BY <1>6 DEF PutChunk, Busy, mem, ids, disk, puts, gets, hist
<1>7. ASSUME NEW u \in Upload,
            PutAbort(u)
      PROVE  Busy'
  BY <1>7 DEF PutAbort, TypeOK, Busy, mem, ids, disk, puts, gets, hist
<1>8. ASSUME NEW u \in Upload,
            PutFinish(u)
      PROVE  Busy'
  BY <1>8 DEF PutFinish, TypeOK, Busy, mem, ids, disk, puts, gets, hist
<1>9. ASSUME NEW g \in Fetch, NEW a \in Artifact,
            GetAdmit(g, a)
      PROVE  Busy'
  BY <1>9 DEF GetAdmit, TypeOK, Busy, mem, ids, disk, puts, gets, hist
<1>10. ASSUME NEW g \in Fetch, NEW a \in Artifact,
            GetBoundJobDone(g, a)
      PROVE  Busy'
  BY <1>10 DEF GetBoundJobDone, Remove, TypeOK, Busy, mem, ids, disk, puts, gets, hist
<1>11. ASSUME NEW g \in Fetch,
            GetServe(g)
      PROVE  Busy'
  BY <1>11 DEF GetServe, TypeOK, Busy, mem, ids, disk, puts, gets, hist
<1>12. ASSUME NEW a \in Artifact,
            Expire(a)
      PROVE  Busy'
  BY <1>12 DEF Expire, Busy, mem, ids, disk, puts, gets, hist
<1>13. ASSUME NEW a \in Artifact,
            JobFinishes(a)
      PROVE  Busy'
  BY <1>13 DEF JobFinishes, Busy, mem, ids, disk, puts, gets, hist
<1>14. ASSUME Crash PROVE Busy'
  BY <1>14 DEF Crash, Die, Busy, mem, ids, disk, puts, gets, hist
<1>15. ASSUME NEW a \in Artifact, NEW n \in 1..2,
            CrashInRemove(a, n)
      PROVE  Busy'
  BY <1>15 DEF CrashInRemove, Die, Busy, mem, ids, disk, puts, gets, hist
<1>16. ASSUME NEW o \in User, NEW a \in Artifact, NEW torn \in BOOLEAN,
            NEW registered \in BOOLEAN,
            CrashInCreate(o, a, torn, registered)
      PROVE  Busy'
  BY <1>16 DEF CrashInCreate, Die, Busy, mem, ids, disk, puts, gets, hist
<1>17. ASSUME NEW u \in Upload, NEW torn \in BOOLEAN,
            CrashInStore(u, torn)
      PROVE  Busy'
  BY <1>17 DEF CrashInStore, Die, Busy, mem, ids, disk, puts, gets, hist
<1>18. ASSUME Restart PROVE Busy'
  BY <1>18 DEF Restart, Busy, mem, ids, disk, puts, gets, hist
<1>19. CASE UNCHANGED vars
  BY <1>19 DEF vars, Busy, mem, ids, disk, puts, gets, hist
<1> QED
  BY <1>1, <1>2, <1>3, <1>4, <1>5, <1>6, <1>7, <1>8, <1>9, <1>10, <1>11, <1>12,
       <1>13, <1>14, <1>15, <1>16, <1>17, <1>18, <1>19
  DEF Next, Tool, Put, Get, Environment, CrashInHandler

\* A removal of artifacts of the index keeps the core of the invariant.
LEMMA RemoveKeepsCore ==
  ASSUME TypeOK, Busy, Core, up, NEW S \in SUBSET index, Remove(S)
  PROVE  Core'
<1> USE DEF Remove, MetaWithout, BlobWithout, PartWithout, ids, puts, Minted
<1>1. S \subseteq Artifact /\ up' = up /\ uart' = uart /\ upc' = upc
  BY DEF TypeOK
<1>2. NoResurrection'
  BY <1>1 DEF Core, NoResurrection, TypeOK
<1>3. Fresh'
  BY <1>1 DEF Core, Fresh, TypeOK
<1>4. Streams'
  BY <1>1 DEF Core, Streams, Busy, TypeOK
<1>5. Acked'
  BY <1>1 DEF Core, Acked, TypeOK
<1>6. Agree' /\ Down'
  BY <1>1 DEF Core, Agree, Down, TypeOK
<1>7. OnDisk'
  BY <1>1 DEF Core, OnDisk, TypeOK
<1> QED
  BY <1>2, <1>3, <1>4, <1>5, <1>6, <1>7 DEF Core

\* Every step keeps the core of the invariant.
LEMMA CoreStep == TypeOK /\ Busy /\ Core /\ [Next]_vars => Core'
<1> SUFFICES ASSUME TypeOK, Busy, Core, [Next]_vars PROVE Core'
  OBVIOUS
<1>1. ASSUME NEW o \in User, NEW a \in Artifact, NEW answer \in {"ok", "refused", "lost"},
            NEW binding \in {"unbound", "running"}, NEW D \in SUBSET Artifact,
            CreateArtifactUpload(o, a, answer, binding, D)
      PROVE  Core'
  <2>1. NoResurrection'
    BY <1>1 DEF CreateArtifactUpload, MetaWithout, BlobWithout, PartWithout, Reaped,
         Expired, Core, Fresh, NoResurrection, Minted, TypeOK, ids, puts, hist, mem
  <2>2. Fresh'
    BY <1>1, NoneIsNoId DEF CreateArtifactUpload, MetaWithout, BlobWithout,
         PartWithout, Reaped, Expired, Core, Fresh, Minted, TypeOK, ids, puts, hist, mem
  <2>3. Streams'
    BY <1>1 DEF CreateArtifactUpload, MetaWithout, BlobWithout, PartWithout, Reaped,
         Expired, Core, Streams, Minted, TypeOK, ids, puts, hist, mem
  <2>4. Acked'
    BY <1>1 DEF CreateArtifactUpload, MetaWithout, BlobWithout, PartWithout, Reaped,
         Expired, Core, Acked, Minted, TypeOK, ids, puts, hist, mem
  <2>5. Agree'
    BY <1>1 DEF CreateArtifactUpload, MetaWithout, BlobWithout, PartWithout, Reaped,
         Expired, Core, Agree, Minted, TypeOK, ids, puts, hist, mem
  <2>6. OnDisk'
    BY <1>1 DEF CreateArtifactUpload, MetaWithout, BlobWithout, PartWithout, Reaped,
         Expired, Core, OnDisk, Minted, TypeOK, ids, puts, hist, mem
  <2>7. Down'
    BY <1>1 DEF CreateArtifactUpload, MetaWithout, BlobWithout, PartWithout, Reaped,
         Expired, Core, Down, Minted, TypeOK, ids, puts, hist, mem
  <2> QED
    BY <2>1, <2>2, <2>3, <2>4, <2>5, <2>6, <2>7 DEF Core
<1>2. ASSUME NEW o \in User, NEW D \in SUBSET Artifact,
            ListArtifacts(o, D)
      PROVE  Core'
  <2>1. up /\ Remove(Reaped) /\ Reaped \subseteq index
    BY <1>2 DEF ListArtifacts, Reaped, Expired
  <2> QED
    BY <2>1, RemoveKeepsCore
<1>3. ASSUME NEW o \in User, NEW a \in Artifact, NEW D \in SUBSET Artifact,
            DeleteArtifact(o, a, D)
      PROVE  Core'
  <2>1. PICK S \in SUBSET index : up /\ Remove(S)
    BY <1>3 DEF DeleteArtifact
  <2> QED
    BY <2>1, RemoveKeepsCore
<1>4. ASSUME NEW a \in Artifact,
            RequestExpired(a)
      PROVE  Core'
  <2>1. up /\ Remove({a}) /\ {a} \subseteq index
    BY <1>4 DEF RequestExpired, Expired
  <2> QED
    BY <2>1, RemoveKeepsCore
<1>5. ASSUME NEW u \in Upload, NEW a \in Artifact,
            PutOpen(u, a)
      PROVE  Core'
  BY <1>5 DEF PutOpen, Awaiting, Core, NoResurrection, Fresh, Streams, Acked, Agree,
       OnDisk, Down, Minted, Busy, TypeOK, mem, ids, disk, puts, gets, hist
<1>6. ASSUME NEW u \in Upload,
            PutChunk(u)
      PROVE  Core'
  BY <1>6 DEF PutChunk, Core, NoResurrection, Fresh, Streams, Acked, Agree, OnDisk,
       Down, Minted, Busy, TypeOK, mem, ids, disk, puts, gets, hist
<1>7. ASSUME NEW u \in Upload,
            PutAbort(u)
      PROVE  Core'
  BY <1>7 DEF PutAbort, Core, NoResurrection, Fresh, Streams, Acked, Agree, OnDisk,
       Down, Minted, Busy, TypeOK, mem, ids, disk, puts, gets, hist
<1>8. ASSUME NEW u \in Upload,
            PutFinish(u)
      PROVE  Core'
  <2>1. NoResurrection'
    BY <1>8 DEF PutFinish, PersistedState, Busy, Streams, Core, NoResurrection,
         Minted, TypeOK, ids, puts, hist, mem
  <2>2. Fresh'
    BY <1>8 DEF PutFinish, PersistedState, Busy, Streams, Core, Fresh, Minted,
         TypeOK, ids, puts, hist, mem
  <2>3. Streams'
    BY <1>8 DEF PutFinish, PersistedState, Busy, Streams, Core, Streams, Minted,
         TypeOK, ids, puts, hist, mem
  <2>4. Acked'
    BY <1>8 DEF PutFinish, PersistedState, Busy, Streams, Core, Acked, Minted,
         TypeOK, ids, puts, hist, mem
  <2>5. Agree'
    BY <1>8 DEF PutFinish, PersistedState, Busy, Streams, Core, Agree, Minted,
         TypeOK, ids, puts, hist, mem
  <2>6. OnDisk'
    BY <1>8 DEF PutFinish, PersistedState, Busy, Streams, Core, OnDisk, Minted,
         TypeOK, ids, puts, hist, mem
  <2>7. Down'
    BY <1>8 DEF PutFinish, PersistedState, Busy, Streams, Core, Down, Minted, TypeOK,
         ids, puts, hist, mem
  <2> QED
    BY <2>1, <2>2, <2>3, <2>4, <2>5, <2>6, <2>7 DEF Core
<1>9. ASSUME NEW g \in Fetch, NEW a \in Artifact,
            GetAdmit(g, a)
      PROVE  Core'
  BY <1>9 DEF GetAdmit, Core, NoResurrection, Fresh, Streams, Acked, Agree, OnDisk,
       Down, Minted, Busy, TypeOK, mem, ids, disk, puts, gets, hist
<1>10. ASSUME NEW g \in Fetch, NEW a \in Artifact,
            GetBoundJobDone(g, a)
      PROVE  Core'
  <2>1. up /\ Remove({a}) /\ {a} \subseteq index
    BY <1>10 DEF GetBoundJobDone, Servable
  <2> QED
    BY <2>1, RemoveKeepsCore
<1>11. ASSUME NEW g \in Fetch,
            GetServe(g)
      PROVE  Core'
  BY <1>11 DEF GetServe, Core, NoResurrection, Fresh, Streams, Acked, Agree, OnDisk,
       Down, Minted, Busy, TypeOK, mem, ids, disk, puts, gets, hist
<1>12. ASSUME NEW a \in Artifact,
            Expire(a)
      PROVE  Core'
  BY <1>12 DEF Expire, Core, NoResurrection, Fresh, Streams, Acked, Agree, OnDisk,
       Down, Minted, Busy, TypeOK, mem, ids, disk, puts, gets, hist
<1>13. ASSUME NEW a \in Artifact,
            JobFinishes(a)
      PROVE  Core'
  BY <1>13 DEF JobFinishes, Core, NoResurrection, Fresh, Streams, Acked, Agree,
       OnDisk, Down, Minted, Busy, TypeOK, mem, ids, disk, puts, gets, hist
<1>14. ASSUME Crash PROVE Core'
  BY <1>14 DEF Crash, Die, Core, NoResurrection, Fresh, Streams, Acked, Agree,
       OnDisk, Down, Minted, Busy, TypeOK, mem, ids, disk, puts, gets, hist
<1>15. ASSUME NEW a \in Artifact, NEW n \in 1..2,
            CrashInRemove(a, n)
      PROVE  Core'
  BY <1>15 DEF CrashInRemove, Die, MetaUnlinked, BlobUnlinked, MetaWithout,
       BlobWithout, Core, NoResurrection, Fresh, Streams, Acked, Agree, OnDisk, Down,
       Minted, Busy, TypeOK, mem, ids, disk, puts, gets, hist
<1>16. ASSUME NEW o \in User, NEW a \in Artifact, NEW torn \in BOOLEAN,
            NEW registered \in BOOLEAN,
            CrashInCreate(o, a, torn, registered)
      PROVE  Core'
  <2>1. NoResurrection'
    BY <1>16 DEF CrashInCreate, Die, Core, Fresh, NoResurrection, Minted, TypeOK,
         ids, puts, hist, mem
  <2>2. Fresh'
    BY <1>16, NoneIsNoId DEF CrashInCreate, Die, Core, Fresh, Minted, TypeOK, ids,
         puts, hist, mem
  <2>3. Streams'
    BY <1>16 DEF CrashInCreate, Die, Core, Streams, Minted, TypeOK, ids, puts, hist, mem
  <2>4. Acked'
    BY <1>16 DEF CrashInCreate, Die, Core, Acked, Minted, TypeOK, ids, puts, hist, mem
  <2>5. Agree'
    BY <1>16 DEF CrashInCreate, Die, Core, Agree, Minted, TypeOK, ids, puts, hist, mem
  <2>6. OnDisk'
    BY <1>16 DEF CrashInCreate, Die, Core, OnDisk, Minted, TypeOK, ids, puts, hist, mem
  <2>7. Down'
    BY <1>16 DEF CrashInCreate, Die, Core, Down, Minted, TypeOK, ids, puts, hist, mem
  <2> QED
    BY <2>1, <2>2, <2>3, <2>4, <2>5, <2>6, <2>7 DEF Core
<1>17. ASSUME NEW u \in Upload, NEW torn \in BOOLEAN,
            CrashInStore(u, torn)
      PROVE  Core'
  BY <1>17 DEF CrashInStore, Die, Core, NoResurrection, Fresh, Streams, Acked, Agree,
       OnDisk, Down, Minted, Busy, TypeOK, mem, ids, disk, puts, gets, hist
<1>18. ASSUME Restart PROVE Core'
  BY <1>18 DEF Restart, Loaded, States, Core, NoResurrection, Fresh, Streams, Acked,
       Agree, OnDisk, Down, Minted, Busy, TypeOK, mem, ids, disk, puts, gets, hist
<1>19. CASE UNCHANGED vars
  BY <1>19 DEF vars, Core, NoResurrection, Fresh, Streams, Acked, Agree, OnDisk,
       Down, Minted, Busy, TypeOK, mem, ids, disk, puts, gets, hist
<1> QED
  BY <1>1, <1>2, <1>3, <1>4, <1>5, <1>6, <1>7, <1>8, <1>9, <1>10, <1>11, <1>12,
       <1>13, <1>14, <1>15, <1>16, <1>17, <1>18, <1>19
  DEF Next, Tool, Put, Get, Environment, CrashInHandler

\* The inductive invariant holds initially and is kept by every step.
LEMMA IInvInit == Init => IInv
<1> SUFFICES ASSUME Init PROVE IInv
  OBVIOUS
<1>1. TypeOK
  BY BoundsAreNat DEF Init, TypeOK, States, Empty, Position
<1>2. Busy /\ Core
  BY DEF Init, Busy, Core, NoResurrection, Fresh, Streams, Acked, Agree, OnDisk, Down
<1> QED
  BY <1>1, <1>2 DEF IInv

\* TypeOK, Busy and Core hold in every reachable state.
THEOREM StoreInvariant == Spec => []IInv
<1>1. IInv /\ [Next]_vars => IInv'
  BY TypeStep, BusyStep, CoreStep DEF IInv
<1> QED
  BY IInvInit, <1>1, PTL DEF Spec

\* Type correctness of the store.
THEOREM StoreTypeOK == Spec => []TypeOK
<1>1. IInv => TypeOK
  BY DEF IInv
<1> QED
  BY StoreInvariant, <1>1, PTL

\* A removed artifact never returns, whatever uploads were under way when it was
\* removed and wherever the process crashed (ArtifactStore.delete, _reap_one,
\* write_stream).
THEOREM RemovedStaysRemoved == Spec => []NoResurrection
<1>1. IInv => NoResurrection
  BY DEF IInv, Core
<1> QED
  BY StoreInvariant, <1>1, PTL

\* A PUT that was answered 200 is on disk until its artifact is removed, across
\* any number of crashes and restarts (write_stream's rename and _persist).
THEOREM AcknowledgedIsDurable == Spec => []AckedIsDurable
<1>1. IInv => AckedIsDurable
  BY DEF IInv, Core, Acked, AckedIsDurable, Acknowledged
<1> QED
  BY StoreInvariant, <1>1, PTL

\* A stored artifact has a blob, also after a crash in the middle of its removal
\* (_remove_files unlinks the metadata first).
THEOREM StoredArtifactHasBlob == Spec => []StoredHasBlob
<1>1. IInv => StoredHasBlob
  BY DEF IInv, Core, Agree, OnDisk, StoredHasBlob, TypeOK
<1> QED
  BY StoreInvariant, <1>1, PTL
-----------------------------------------------------------------------------
(***************************************************************************)
(* ArtifactStore implements ArtifactContract.                              *)
(*                                                                         *)
(* What the invariant of the store lacks for the refinement: an upload     *)
(* under way is one of an artifact the process still has, or that was      *)
(* removed (Held), and a stored artifact has no partial file (Whole).  So  *)
(* the artifact of an upload whose rename succeeds is a reserved one.      *)
(***************************************************************************)
Held == \A u \in Upload : upc[u] = "streaming" => uart[u] \in index \cup gone

Whole == \A a \in Artifact : meta[a] = "stored" => part[a] = None

Inv == IInv /\ Held /\ Whole

\* Removing artifacts keeps both.
LEMMA RemoveHolds ==
  ASSUME Held, Whole, NEW S, Remove(S)
  PROVE  Held' /\ Whole' /\ UNCHANGED puts
<1>1. UNCHANGED puts /\ index' \cup gone' = (index \cup gone) \cup S
  BY DEF Remove
<1>2. Held'
  BY <1>1 DEF Held, puts
<1>3. Whole'
  BY DEF Remove, Whole, MetaWithout, PartWithout
<1> QED
  BY <1>1, <1>2, <1>3

LEMMA CrashHolds ==
  ASSUME NEW D, NEW L, Die(D, L) PROVE Held'
BY DEF Die, Held

LEMMA ToolHolds ==
  ASSUME IInv, Held, Whole, Tool PROVE Held' /\ Whole' /\ UNCHANGED puts
<1>1. ASSUME NEW o \in User, NEW a \in Artifact, NEW answer \in {"ok", "refused", "lost"},
             NEW binding \in {"unbound", "running"}, NEW D \in SUBSET Artifact,
             CreateArtifactUpload(o, a, answer, binding, D)
      PROVE  Held' /\ Whole' /\ UNCHANGED puts
  <2>1. /\ UNCHANGED puts /\ index' = (index \ Reaped) \cup {a} /\ gone' = gone \cup Reaped
        /\ meta' = [MetaWithout(Reaped) EXCEPT ![a] = "await_upload"]
        /\ part' = PartWithout(Reaped)
    BY <1>1 DEF CreateArtifactUpload
  <2>2. index \cup gone \subseteq index' \cup gone'
    BY <2>1
  <2>3. Held'
    BY <2>1, <2>2 DEF Held, puts
  <2>4. Whole'
    BY <2>1 DEF Whole, MetaWithout, PartWithout
  <2> QED
    BY <2>1, <2>3, <2>4
<1>2. ASSUME NEW o \in User, NEW D \in SUBSET Artifact, ListArtifacts(o, D)
      PROVE  Held' /\ Whole' /\ UNCHANGED puts
  BY <1>2, RemoveHolds DEF ListArtifacts
<1>3. ASSUME NEW o \in User, NEW a \in Artifact, NEW D \in SUBSET Artifact,
             DeleteArtifact(o, a, D)
      PROVE  Held' /\ Whole' /\ UNCHANGED puts
  BY <1>3, RemoveHolds DEF DeleteArtifact
<1> QED
  BY <1>1, <1>2, <1>3 DEF Tool

LEMMA HeldStep == IInv /\ Held /\ Whole /\ [Next]_vars => Held'
<1> SUFFICES ASSUME IInv, Held, Whole, [Next]_vars PROVE Held'
  OBVIOUS
<1>1. ASSUME Tool PROVE Held'
  BY <1>1, ToolHolds
<1> USE DEF Held, IInv, TypeOK
<1>2. ASSUME Put PROVE Held'
  BY <1>2 DEF Put, PutOpen, PutChunk, PutAbort, PutFinish, mem, hist
<1>3. ASSUME Get \/ Environment PROVE Held'
  BY <1>3 DEF Get, GetAdmit, GetBoundJobDone, GetServe, Environment, RequestExpired, Expire,
              JobFinishes, Remove, mem, hist, puts
<1>4. ASSUME Crash \/ CrashInHandler PROVE Held'
  BY <1>4, CrashHolds DEF Crash, CrashInHandler, CrashInRemove, CrashInCreate, CrashInStore
<1>5. ASSUME Restart PROVE Held'
  BY <1>5 DEF Restart, puts, hist, Core, Streams
<1>6. CASE UNCHANGED vars
  BY <1>6 DEF vars, mem, puts, hist
<1> QED
  BY <1>1, <1>2, <1>3, <1>4, <1>5, <1>6 DEF Next

LEMMA WholeStep == IInv /\ Held /\ Whole /\ [Next]_vars => Whole'
<1> SUFFICES ASSUME IInv, Held, Whole, [Next]_vars PROVE Whole'
  OBVIOUS
<1>1. ASSUME Tool PROVE Whole'
  BY <1>1, ToolHolds
<1>3. ASSUME Get \/ Environment PROVE Whole'
  <2>1. ASSUME NEW g \in Fetch, NEW a \in Artifact, GetBoundJobDone(g, a) PROVE Whole'
    BY <2>1, RemoveHolds DEF GetBoundJobDone
  <2>2. ASSUME NEW a \in Artifact, RequestExpired(a) PROVE Whole'
    BY <2>2, RemoveHolds DEF RequestExpired
  <2>3. ASSUME UNCHANGED disk PROVE Whole'
    BY <2>3 DEF disk, Whole
  <2> QED
    BY <1>3, <2>1, <2>2, <2>3 DEF Get, GetAdmit, GetServe, Environment, Expire, JobFinishes
<1> USE DEF Whole, IInv, TypeOK, MetaWithout, PartWithout
<1>2. ASSUME Put PROVE Whole'
  <2>1. ASSUME NEW u \in Upload, NEW a \in Artifact, PutOpen(u, a) PROVE Whole'
    BY <2>1 DEF PutOpen, Awaiting, Core, Agree
  <2>2. ASSUME NEW u \in Upload, PutChunk(u) \/ PutAbort(u) PROVE Whole'
    BY <2>2 DEF PutChunk, PutAbort
  <2>3. ASSUME NEW u \in Upload, PutFinish(u) PROVE Whole'
    BY <2>3 DEF PutFinish
  <2> QED
    BY <1>2, <2>1, <2>2, <2>3 DEF Put
<1>4. ASSUME Crash \/ CrashInHandler PROVE Whole'
  <2>1. ASSUME Crash PROVE Whole'
    BY <2>1 DEF Crash, disk
  <2>2. ASSUME NEW a \in Artifact, NEW n \in 1..2, CrashInRemove(a, n) PROVE Whole'
    BY <2>2 DEF CrashInRemove, MetaUnlinked
  <2>3. ASSUME NEW o \in User, NEW a \in Artifact, NEW torn \in BOOLEAN,
               NEW registered \in BOOLEAN, CrashInCreate(o, a, torn, registered)
        PROVE  Whole'
    BY <2>3 DEF CrashInCreate
  <2>4. ASSUME NEW u \in Upload, NEW torn \in BOOLEAN, CrashInStore(u, torn) PROVE Whole'
    BY <2>4 DEF CrashInStore
  <2> QED
    BY <1>4, <2>1, <2>2, <2>3, <2>4 DEF CrashInHandler
<1>5. ASSUME Restart PROVE Whole'
  BY <1>5 DEF Restart, disk
<1>6. CASE UNCHANGED vars
  BY <1>6 DEF vars, disk
<1> QED
  BY <1>1, <1>2, <1>3, <1>4, <1>5, <1>6 DEF Next

\* The invariant of the store and both of these hold in every reachable state.
LEMMA InvAlways == Spec => []Inv
<1>1. Init => Held /\ Whole
  BY DEF Init, Held, Whole
<1>2. IInv /\ Held /\ Whole /\ [Next]_vars => Held' /\ Whole'
  BY HeldStep, WholeStep
<1>3. Spec => [](Held /\ Whole)
  BY <1>1, <1>2, StoreInvariant, PTL DEF Spec
<1> QED
  BY <1>3, StoreInvariant, PTL DEF Inv

-----------------------------------------------------------------------------
(* Every step of the store is one of the contract, or none.                *)

Step == Contract!Next \/ UNCHANGED <<Status, Accepted>>

\* Uploads under way are not accepted, wherever they go on from there.
LEMMA AcceptedKept ==
  ASSUME \A u \in Upload : upc'[u] = "stored" <=> upc[u] = "stored",
         \A u \in Upload : upc[u] = "stored" => uart'[u] = uart[u]
  PROVE  Accepted' = Accepted
BY DEF Accepted, Acknowledged

LEMMA StatusKept == ASSUME UNCHANGED <<meta, owner>> PROVE Status' = Status
BY DEF Status

LEMMA CrashAccepts ==
  ASSUME TypeOK, NEW D, NEW L, Die(D, L) PROVE Accepted' = Accepted
<1>1. \A u \in Upload : (upc'[u] = "stored" <=> upc[u] = "stored") /\ uart'[u] = uart[u]
  BY DEF Die
<1> QED
  BY <1>1, AcceptedKept

\* What the process has is live, and was minted.
LEMMA IndexIsLive ==
  ASSUME IInv, NEW a \in index
  PROVE  a \in Artifact /\ a \in Contract!Live /\ owner[a] # None
<1>1. a \in Artifact /\ meta[a] \in {"stored", "await_upload"}
  BY DEF IInv, Core, Agree, TypeOK, States
<1>2. Status[a] \in {"stored", "reserved"}
  BY <1>1 DEF Status
<1>3. owner[a] # None
  BY <1>1 DEF IInv, Core, Fresh, Minted
<1> QED
  BY <1>1, <1>2, <1>3 DEF Contract!Live

\* Removing artifacts of the index removes them in the contract.
LEMMA RemoveSteps ==
  ASSUME IInv, NEW S \in SUBSET index, meta' = MetaWithout(S), owner' = owner,
         Accepted' = Accepted
  PROVE  Step
<1>1. S \in SUBSET Contract!Live
  BY IndexIsLive
<1>2. Status' = Contract!Without(S)
  BY IndexIsLive DEF Status, MetaWithout, Contract!Without, IInv, TypeOK
<1> QED
  BY <1>1, <1>2 DEF Step, Contract!Next, Contract!Remove

LEMMA ToolSteps == ASSUME Inv, Tool PROVE Step
<1> USE DEF Inv
<1>1. Accepted' = Accepted
  BY ToolHolds, AcceptedKept DEF puts
<1>2. ASSUME NEW o \in User, NEW a \in Artifact, NEW answer \in {"ok", "refused", "lost"},
             NEW binding \in {"unbound", "running"}, NEW D \in SUBSET Artifact,
             CreateArtifactUpload(o, a, answer, binding, D)
      PROVE  Step
  <2> USE <1>2 DEF CreateArtifactUpload
  <2>1. Reaped \in SUBSET index /\ Reaped \in SUBSET Contract!Live
    BY IndexIsLive DEF Reaped, Expired
  <2>2. a \notin index /\ meta[a] = "none" /\ owner[a] = None
    BY DEF IInv, Core, Fresh, Minted
  <2>3. o # None
    BY NoneIsNoId
  <2>4. Status[a] = "none"
    BY <2>2 DEF Status
  <2>5. Status' = [Contract!Without(Reaped) EXCEPT ![a] = "reserved"]
    <3>1. ASSUME NEW b \in Artifact
          PROVE  Status'[b] = IF b = a THEN "reserved" ELSE Contract!Without(Reaped)[b]
      <4>1. CASE b = a
        BY <4>1 DEF Status, MetaWithout, IInv, TypeOK
      <4>2. CASE b # a /\ b \in Reaped
        <5>1. owner[b] # None
          BY <4>2, <2>1, IndexIsLive
        <5> QED
          BY <4>2, <5>1 DEF Status, MetaWithout, IInv, TypeOK, Contract!Without
      <4>3. CASE b # a /\ b \notin Reaped
        BY <4>3 DEF Status, MetaWithout, IInv, TypeOK, Contract!Without
      <4> QED
        BY <4>1, <4>2, <4>3
    <3>2. Status' = [b \in Artifact |-> Status'[b]]
      BY DEF Status
    <3> QED
      BY <3>1, <3>2 DEF Contract!Without
  <2> QED
    BY <1>1, <2>1, <2>4, <2>5 DEF Step, Contract!Next, Contract!Reserve
<1>3. ASSUME NEW o \in User, NEW D \in SUBSET Artifact, ListArtifacts(o, D) PROVE Step
  BY <1>1, <1>3, RemoveSteps DEF ListArtifacts, Remove, Reaped, Expired, ids
<1>4. ASSUME NEW o \in User, NEW a \in Artifact, NEW D \in SUBSET Artifact,
             DeleteArtifact(o, a, D)
      PROVE  Step
  <2> DEFINE S == {b \in index : b = a /\ owner[b] = o}
  <2>1. meta' = MetaWithout(S) /\ owner' = owner
    BY <1>4 DEF DeleteArtifact, Remove, ids
  <2> QED
    BY <1>1, <2>1, RemoveSteps
<1> QED
  BY <1>2, <1>3, <1>4 DEF Tool

LEMMA PutSteps == ASSUME Inv, Put PROVE Step
<1> USE DEF Inv
<1>1. ASSUME NEW u \in Upload, NEW a \in Artifact, PutOpen(u, a) PROVE Step
  <2>1. Accepted' = Accepted
    BY <1>1, AcceptedKept DEF PutOpen, IInv, TypeOK
  <2> QED
    BY <1>1, <2>1, StatusKept DEF PutOpen, ids, Step
<1>2. ASSUME NEW u \in Upload, PutChunk(u) PROVE Step
  <2>1. Accepted' = Accepted
    BY <1>2, AcceptedKept DEF PutChunk
  <2> QED
    BY <1>2, <2>1, StatusKept DEF PutChunk, ids, Step
<1>3. ASSUME NEW u \in Upload, PutAbort(u) PROVE Step
  <2>1. Accepted' = Accepted
    BY <1>3, AcceptedKept DEF PutAbort, IInv, TypeOK
  <2> QED
    BY <1>3, <2>1, StatusKept DEF PutAbort, ids, Step
<1>4. ASSUME NEW u \in Upload, PutFinish(u), part[uart[u]] = None PROVE Step
  <2>1. Accepted' = Accepted
    BY <1>4, AcceptedKept DEF PutFinish, IInv, TypeOK
  <2> QED
    BY <1>4, <2>1, StatusKept DEF PutFinish, ids, Step
<1>5. ASSUME NEW u \in Upload, PutFinish(u), part[uart[u]] # None PROVE Step
  <2> DEFINE a == uart[u]
  <2> USE <1>5 DEF PutFinish
  <2>1. a \in Artifact /\ a \in index /\ owner' = owner /\ uart' = uart
    BY DEF IInv, Busy, Core, Streams, Held, ids
  <2>2. meta[a] = "await_upload"
    BY <2>1 DEF IInv, Core, Agree, TypeOK, States, Whole
  <2>3. Accepted[a] = {}
    BY <2>1 DEF Accepted, Acknowledged, IInv, Core, Acked
  <2>4. Status[a] = "reserved" /\ Status' = [Status EXCEPT ![a] = "stored"]
    <3>1. meta' = [meta EXCEPT ![a] = "stored"] /\ meta'[a] = "stored"
      BY <2>1 DEF PersistedState, IInv, TypeOK
    <3> QED
      BY <2>1, <2>2, <3>1 DEF Status, IInv, TypeOK
  <2>5. Accepted' = [Accepted EXCEPT ![a] = {u}]
    <3>1. ASSUME NEW b \in Artifact PROVE Acknowledged(b)' = IF b = a THEN {u} ELSE Acknowledged(b)
      BY <2>1, <2>3 DEF Accepted, Acknowledged, IInv, TypeOK
    <3> QED
      BY <3>1 DEF Accepted
  <2> QED
    BY <2>1, <2>3, <2>4, <2>5 DEF Step, Contract!Next, Contract!Accept
<1> QED
  BY <1>1, <1>2, <1>3, <1>4, <1>5 DEF Put

LEMMA OtherSteps == ASSUME Inv, Get \/ Environment \/ Restart PROVE Step
<1> USE DEF Inv
<1>1. Accepted' = Accepted
  BY AcceptedKept DEF Get, GetAdmit, GetBoundJobDone, GetServe, Environment, RequestExpired,
                      Expire, JobFinishes, Remove, Restart, puts
<1>2. ASSUME NEW g \in Fetch, NEW a \in Artifact, GetBoundJobDone(g, a) PROVE Step
  <2>1. {a} \in SUBSET index /\ meta' = MetaWithout({a}) /\ owner' = owner
    BY <1>2 DEF GetBoundJobDone, Servable, Remove, ids
  <2> QED
    BY <1>1, <2>1, RemoveSteps
<1>3. ASSUME NEW a \in Artifact, RequestExpired(a) PROVE Step
  <2>1. {a} \in SUBSET index /\ meta' = MetaWithout({a}) /\ owner' = owner
    BY <1>3 DEF RequestExpired, Expired, Remove, ids
  <2> QED
    BY <1>1, <2>1, RemoveSteps
<1>4. ASSUME UNCHANGED <<meta, owner>> PROVE Step
  BY <1>1, <1>4, StatusKept DEF Step
<1> QED
  BY <1>2, <1>3, <1>4 DEF Get, GetAdmit, GetServe, Environment, Expire, JobFinishes, Restart,
                          disk, ids

LEMMA CrashSteps == ASSUME Inv, Crash \/ CrashInHandler PROVE Step
<1> USE DEF Inv, IInv
<1>1. ASSUME Crash PROVE Step
  BY <1>1, CrashAccepts, StatusKept DEF Crash, disk, Step
<1>2. ASSUME NEW a \in Artifact, NEW n \in 1..2, CrashInRemove(a, n) PROVE Step
  <2>1. /\ {a} \in SUBSET index /\ meta' = MetaWithout({a}) /\ owner' = owner
        /\ Accepted' = Accepted
    BY <1>2, CrashAccepts DEF CrashInRemove, MetaUnlinked
  <2> QED
    BY <2>1, RemoveSteps
<1>3. ASSUME NEW o \in User, NEW a \in Artifact, NEW torn \in BOOLEAN,
             NEW registered \in BOOLEAN, CrashInCreate(o, a, torn, registered)
      PROVE  Step
  <2> USE <1>3 DEF CrashInCreate
  <2>1. owner[a] = None /\ meta[a] = "none" /\ Accepted' = Accepted /\ o # None
    BY CrashAccepts, NoneIsNoId DEF Core, Fresh, Minted
  <2>2. Status[a] = "none" /\ Accepted[a] = {}
    BY <2>1 DEF Status, Accepted, Acknowledged, Core, Acked, Minted
  <2>3. Status' = [Status EXCEPT ![a] = IF torn THEN "lost" ELSE "reserved"]
    BY <2>1 DEF Status, TypeOK
  <2>4. CASE torn
    BY <2>1, <2>2, <2>3, <2>4 DEF Step, Contract!Next, Contract!Lose
  <2>5. CASE ~torn
    <3>1. Contract!Without({}) = Status
      BY DEF Contract!Without, Status
    <3> QED
      BY <2>1, <2>2, <2>3, <2>5, <3>1 DEF Step, Contract!Next, Contract!Reserve
  <2> QED
    BY <2>4, <2>5
<1>4. ASSUME NEW u \in Upload, NEW torn \in BOOLEAN, CrashInStore(u, torn) PROVE Step
  <2> DEFINE a == uart[u]
  <2> USE <1>4 DEF CrashInStore
  <2>1. a \in Artifact /\ a \in index /\ owner' = owner /\ Accepted' = Accepted
    BY CrashAccepts DEF Busy, Core, Streams, Held
  <2>2. meta[a] = "await_upload"
    BY <2>1 DEF Core, Agree, TypeOK, States, Whole
  <2>3. Status[a] = "reserved" /\ Accepted[a] = {}
    BY <2>1, <2>2 DEF Status, Accepted, Acknowledged, Core, Acked
  <2>4. CASE torn
    <3>1. Status' = [Status EXCEPT ![a] = "lost"]
      BY <2>1, <2>4 DEF Status, TypeOK
    <3> QED
      BY <2>1, <2>3, <3>1 DEF Step, Contract!Next, Contract!Lose
  <2>5. CASE ~torn
    BY <2>1, <2>5, StatusKept DEF Step
  <2> QED
    BY <2>4, <2>5
<1> QED
  BY <1>1, <1>2, <1>3, <1>4 DEF CrashInHandler

\* The store implements the contract.
THEOREM StoreImplementsContract == Spec => StoreContract
<1>1. Init => Contract!Init
  BY DEF Init, Contract!Init, Status, Accepted, Acknowledged
<1>2. Inv /\ [Next]_vars => [Contract!Next]_<<Status, Accepted>>
  <2> SUFFICES ASSUME Inv, [Next]_vars PROVE Step
    BY DEF Step
  <2>1. CASE UNCHANGED vars
    BY <2>1, AcceptedKept, StatusKept DEF vars, disk, ids, puts, Step
  <2> QED
    BY <2>1, ToolSteps, PutSteps, OtherSteps, CrashSteps DEF Next
<1> QED
  BY <1>1, <1>2, InvAlways, PTL DEF Spec, StoreContract, Contract!Spec, Contract!vars

(***************************************************************************)
(* Files and tokens.  What the disk records is in the index while the      *)
(* process runs (Indexed); artifacts without metadata have no other file,  *)
(* unless a crash caught them (Tidy).  A token that is named, in memory or *)
(* on disk, is registered and nobody has queued it (Named); every other    *)
(* one is queued, or was leaked (Accounted).                               *)
(***************************************************************************)
Indexed == up => \A a \in Artifact : meta[a] \in States => a \in index

Tidy ==
  \A a \in Artifact \ damaged : /\ meta[a] # "torn"
                                /\ meta[a] = "none" => blob[a] = None /\ part[a] = None

Named ==
  /\ \A a \in index : named[a] = metaNamed[a]
  /\ \A a \in Artifact : meta[a] \in States /\ metaNamed[a] => a \in lava
  /\ \A a \in pending : up /\ a \in Minted /\ meta[a] \notin States
  /\ \A a \in Artifact \ Minted : ~metaNamed[a] /\ a \notin lava

Accounted ==
  \A a \in lava \ leaked : (meta[a] \in States /\ metaNamed[a]) \/ a \in pending

Files == Indexed /\ Tidy /\ Named /\ Accounted

\* What is on disk is in the index.
LEMMA IndexedStep == Inv /\ Files /\ [Next]_vars => Indexed'
<1> SUFFICES ASSUME Inv, Files, [Next]_vars PROVE Indexed'
  OBVIOUS
<1>1. ASSUME NEW o \in User, NEW a \in Artifact, NEW answer \in {"ok", "refused", "lost"},
             NEW binding \in {"unbound", "running"}, NEW D \in SUBSET Artifact,
             CreateArtifactUpload(o, a, answer, binding, D)
      PROVE  Indexed'
  BY <1>1 DEF CreateArtifactUpload, MetaWithout, Inv, IInv, Core, Fresh, Files, Indexed
<1>2. ASSUME NEW o \in User, NEW D \in SUBSET Artifact, ListArtifacts(o, D)
      PROVE  Indexed'
  BY <1>2 DEF ListArtifacts, Remove, MetaWithout, Files, States, Indexed
<1>3. ASSUME NEW o \in User, NEW a \in Artifact, NEW D \in SUBSET Artifact,
     DeleteArtifact(o, a, D)
      PROVE  Indexed'
  BY <1>3 DEF DeleteArtifact, Remove, MetaWithout, Files, States, Indexed
<1>4. ASSUME NEW a \in Artifact, RequestExpired(a)
      PROVE  Indexed'
  BY <1>4 DEF RequestExpired, Remove, MetaWithout, Files, States, Indexed
<1>5. ASSUME NEW g \in Fetch, NEW a \in Artifact, GetBoundJobDone(g, a)
      PROVE  Indexed'
  BY <1>5 DEF GetBoundJobDone, Remove, MetaWithout, Files, States, Indexed
<1>6. ASSUME NEW u \in Upload, PutFinish(u)
      PROVE  Indexed'
  BY <1>6 DEF PutFinish, Inv, IInv, Core, Streams, Held, Files, TypeOK, States, Indexed
<1>7. CASE Crash
  BY <1>7 DEF Crash, Die, Indexed
<1>8. ASSUME NEW a \in Artifact, NEW n \in 1..2, CrashInRemove(a, n)
      PROVE  Indexed'
  BY <1>8 DEF CrashInRemove, Die, Indexed
<1>9. ASSUME NEW o \in User, NEW a \in Artifact, NEW torn \in BOOLEAN,
             NEW registered \in BOOLEAN, CrashInCreate(o, a, torn, registered)
      PROVE  Indexed'
  BY <1>9 DEF CrashInCreate, Die, Indexed
<1>10. ASSUME NEW u \in Upload, NEW torn \in BOOLEAN, CrashInStore(u, torn)
      PROVE  Indexed'
  BY <1>10 DEF CrashInStore, Die, Indexed
<1>11. CASE Restart
  BY <1>11 DEF Restart, Loaded, Indexed, disk
<1>12. ASSUME UNCHANGED <<up, meta, index>> PROVE Indexed'
  BY <1>12 DEF Files, Indexed
<1>13. CASE UNCHANGED vars
  BY <1>13, <1>12 DEF vars, mem, disk
<1> QED
  BY <1>1, <1>2, <1>3, <1>4, <1>5, <1>6, <1>7, <1>8, <1>9, <1>10, <1>11, <1>12, <1>13
  DEF Next, Tool, Put, Get, Environment, CrashInHandler, PutOpen, PutChunk, PutAbort,
       GetAdmit, GetServe, Expire, JobFinishes, mem, ids, disk, puts, gets, hist

\* No file without metadata, but after a crash.
LEMMA TidyStep == Inv /\ Files /\ [Next]_vars => Tidy'
<1> SUFFICES ASSUME Inv, Files, [Next]_vars PROVE Tidy'
  OBVIOUS
<1>1. ASSUME NEW o \in User, NEW a \in Artifact, NEW answer \in {"ok", "refused", "lost"},
             NEW binding \in {"unbound", "running"}, NEW D \in SUBSET Artifact,
             CreateArtifactUpload(o, a, answer, binding, D)
      PROVE  Tidy'
  BY <1>1 DEF CreateArtifactUpload, MetaWithout, BlobWithout, PartWithout, Files, Tidy
<1>2. ASSUME NEW o \in User, NEW D \in SUBSET Artifact, ListArtifacts(o, D)
      PROVE  Tidy'
  BY <1>2 DEF ListArtifacts, Remove, MetaWithout, BlobWithout, PartWithout, Files, Tidy
<1>3. ASSUME NEW o \in User, NEW a \in Artifact, NEW D \in SUBSET Artifact,
     DeleteArtifact(o, a, D)
      PROVE  Tidy'
  BY <1>3 DEF DeleteArtifact, Remove, MetaWithout, BlobWithout, PartWithout, Files, Tidy
<1>4. ASSUME NEW a \in Artifact, RequestExpired(a)
      PROVE  Tidy'
  BY <1>4 DEF RequestExpired, Remove, MetaWithout, BlobWithout, PartWithout, Files, Tidy
<1>5. ASSUME NEW g \in Fetch, NEW a \in Artifact, GetBoundJobDone(g, a)
      PROVE  Tidy'
  BY <1>5 DEF GetBoundJobDone, Remove, MetaWithout, BlobWithout, PartWithout, Files,
       Tidy
<1>6. ASSUME NEW u \in Upload, NEW a \in Artifact, PutOpen(u, a)
      PROVE  Tidy'
  BY <1>6 DEF PutOpen, Awaiting, Inv, IInv, Core, Agree, Files, Tidy
<1>7. ASSUME NEW u \in Upload, PutAbort(u)
      PROVE  Tidy'
  BY <1>7 DEF PutAbort, Files, Tidy, hist
<1>8. ASSUME NEW u \in Upload, PutFinish(u)
      PROVE  Tidy'
  BY <1>8 DEF PutFinish, PersistedState, Inv, IInv, Files, TypeOK, Tidy, hist
<1>9. CASE Crash
  BY <1>9 DEF Crash, Die, Files, Tidy, disk
<1>10. ASSUME NEW a \in Artifact, NEW n \in 1..2, CrashInRemove(a, n)
      PROVE  Tidy'
  BY <1>10 DEF CrashInRemove, Die, MetaUnlinked, BlobUnlinked, MetaWithout, BlobWithout,
       Files, Tidy
<1>11. ASSUME NEW o \in User, NEW a \in Artifact, NEW torn \in BOOLEAN,
             NEW registered \in BOOLEAN, CrashInCreate(o, a, torn, registered)
      PROVE  Tidy'
  BY <1>11 DEF CrashInCreate, Die, Files, Tidy
<1>12. ASSUME NEW u \in Upload, NEW torn \in BOOLEAN, CrashInStore(u, torn)
      PROVE  Tidy'
  BY <1>12 DEF CrashInStore, Die, Files, Tidy
<1>13. ASSUME UNCHANGED <<meta, blob, part, damaged>> PROVE Tidy'
  BY <1>13 DEF Files, Tidy
<1>14. CASE UNCHANGED vars
  BY <1>14, <1>13 DEF vars, disk, hist
<1> QED
  BY <1>1, <1>2, <1>3, <1>4, <1>5, <1>6, <1>7, <1>8, <1>9, <1>10, <1>11, <1>12, <1>13,
       <1>14
  DEF Next, Tool, Put, Get, Environment, CrashInHandler, PutChunk, GetAdmit, GetServe,
       Expire, JobFinishes, Restart, mem, ids, disk, puts, gets, hist

\* Names and registrations stay in step.
LEMMA NamedStep == Inv /\ Files /\ [Next]_vars => Named'
<1> SUFFICES ASSUME Inv, Files, [Next]_vars PROVE Named'
  OBVIOUS
<1>1. ASSUME NEW o \in User, NEW a \in Artifact, NEW answer \in {"ok", "refused", "lost"},
             NEW binding \in {"unbound", "running"}, NEW D \in SUBSET Artifact,
             CreateArtifactUpload(o, a, answer, binding, D)
      PROVE  Named'
  <2>1. /\ index' = (index \ Reaped) \cup {a} /\ Reaped \subseteq index /\ up /\ up' = up
        /\ a \notin Minted /\ Minted' = Minted \cup {a}
        /\ a \notin index /\ meta[a] = "none" /\ a \notin lava /\ a \notin pending /\ o # None
    BY <1>1, NoneIsNoId DEF CreateArtifactUpload, Inv, IInv, Core, Fresh, Files, Named,
         Minted, TypeOK, Reaped, Expired
  <2>2. /\ pending' = (pending \ TakenFrom(pending, o)) \cup {b \in Reaped : named[b]}
        /\ TakenFrom(pending, o) \subseteq pending /\ D \subseteq TakenFrom(pending, o)
        /\ lava' = (lava \ D) \cup (IF answer = "refused" THEN {} ELSE {a})
        /\ leaked' = leaked \cup ((TakenFrom(pending, o) \cap lava) \ D)
                            \cup (IF answer = "lost" THEN {a} ELSE {})
    BY <1>1 DEF CreateArtifactUpload, Queued, TakenFrom, Forgotten
  <2>3. \A b \in Artifact :
          /\ meta'[b] = IF b = a THEN "await_upload" ELSE IF b \in Reaped THEN "none" ELSE meta[b]
          /\ named'[b] = IF b = a THEN answer = "ok" ELSE named[b]
          /\ metaNamed'[b] = IF b = a THEN answer = "ok" ELSE metaNamed[b]
    BY <1>1 DEF CreateArtifactUpload, MetaWithout, Recorded, Inv, IInv, TypeOK
  <2>4. \A b \in index' : b \in Artifact /\ named'[b] = metaNamed'[b]
    BY <2>1, <2>3 DEF Inv, IInv, TypeOK, Files, Named
  <2>5. \A b \in Artifact : meta'[b] \in States /\ metaNamed'[b] => b \in lava'
    BY <2>1, <2>2, <2>3 DEF Files, Named, States
  <2>6. \A b \in pending' : up' /\ b \in Minted' /\ meta'[b] \notin States
    BY <2>1, <2>2, <2>3 DEF Inv, IInv, TypeOK, Files, Named, States
  <2>7. \A b \in Artifact \ Minted' : ~metaNamed'[b] /\ b \notin lava'
    BY <2>1, <2>2, <2>3 DEF Files, Named
  <2> QED
    BY <2>4, <2>5, <2>6, <2>7 DEF Named
<1>2. ASSUME NEW o \in User, NEW D \in SUBSET Artifact, ListArtifacts(o, D)
      PROVE  Named'
  BY <1>2 DEF ListArtifacts, Remove, MetaWithout, Reaped, Expired, Queued, TakenFrom,
       Inv, IInv, Files, TypeOK, Minted, States, Named, ids
<1>3. ASSUME NEW o \in User, NEW a \in Artifact, NEW D \in SUBSET Artifact,
     DeleteArtifact(o, a, D)
      PROVE  Named'
  BY <1>3 DEF DeleteArtifact, Remove, MetaWithout, Queued, TakenFrom, Files, Minted,
       States, Named, ids
<1>4. ASSUME NEW a \in Artifact, RequestExpired(a)
      PROVE  Named'
  BY <1>4 DEF RequestExpired, Remove, MetaWithout, Expired, Queued, Files, Minted,
       States, Named, ids
<1>5. ASSUME NEW g \in Fetch, NEW a \in Artifact, GetBoundJobDone(g, a)
      PROVE  Named'
  BY <1>5 DEF GetBoundJobDone, Remove, MetaWithout, Servable, Queued, Files, Minted,
       States, Named, ids
<1>6. ASSUME NEW u \in Upload, PutFinish(u)
      PROVE  Named'
  BY <1>6 DEF PutFinish, Inv, IInv, Core, Agree, Streams, Held, Files, TypeOK, Minted,
       States, Named, ids
<1>7. CASE Crash
  BY <1>7 DEF Crash, Die, Files, Minted, Named, disk
<1>8. ASSUME NEW a \in Artifact, NEW n \in 1..2, CrashInRemove(a, n)
      PROVE  Named'
  BY <1>8 DEF CrashInRemove, Die, MetaUnlinked, MetaWithout, Inv, IInv, Core, Agree,
       Files, TypeOK, Minted, Named
<1>9. ASSUME NEW o \in User, NEW a \in Artifact, NEW torn \in BOOLEAN,
             NEW registered \in BOOLEAN, CrashInCreate(o, a, torn, registered)
      PROVE  Named'
  <2>1. a \notin lava /\ ~metaNamed[a] /\ Minted' = Minted \cup {a}
    BY <1>9, NoneIsNoId DEF CrashInCreate, Files, Named, Minted, Inv, IInv, TypeOK
  <2>2. index' = {} /\ pending' = {} /\ metaNamed' = metaNamed /\ lava \subseteq lava' /\ lava' \subseteq lava \cup {a}
    BY <1>9 DEF CrashInCreate, Die
  <2>3. \A b \in Artifact \ {a} : meta'[b] = meta[b]
    BY <1>9 DEF CrashInCreate
  <2> QED
    BY <2>1, <2>2, <2>3 DEF Files, Named
<1>10. ASSUME NEW u \in Upload, NEW torn \in BOOLEAN, CrashInStore(u, torn)
      PROVE  Named'
  BY <1>10 DEF CrashInStore, Die, Inv, IInv, Core, Agree, Streams, Held, Files, TypeOK,
       Minted, Named
<1>11. CASE Restart
  BY <1>11 DEF Restart, Loaded, Files, Minted, Named, ids, disk
<1>12. ASSUME UNCHANGED <<index, named, metaNamed, meta, lava, pending, up, owner>> PROVE Named'
  BY <1>12 DEF Files, Named, Minted
<1>13. CASE UNCHANGED vars
  BY <1>13, <1>12 DEF vars, mem, ids, disk
<1> QED
  BY <1>1, <1>2, <1>3, <1>4, <1>5, <1>6, <1>7, <1>8, <1>9, <1>10, <1>11, <1>12, <1>13
  DEF Next, Tool, Put, Get, Environment, CrashInHandler, PutOpen, PutChunk, PutAbort,
       GetAdmit, GetServe, Expire, JobFinishes, mem, ids, disk, puts, gets, hist

\* Every other token is queued or leaked.
LEMMA AccountedStep == Inv /\ Files /\ [Next]_vars => Accounted'
<1> SUFFICES ASSUME Inv, Files, [Next]_vars PROVE Accounted'
  OBVIOUS
<1>1. ASSUME NEW o \in User, NEW a \in Artifact, NEW answer \in {"ok", "refused", "lost"},
             NEW binding \in {"unbound", "running"}, NEW D \in SUBSET Artifact,
             CreateArtifactUpload(o, a, answer, binding, D)
      PROVE  Accounted'
  <2>1. /\ index' = (index \ Reaped) \cup {a} /\ Reaped \subseteq index /\ up /\ up' = up
        /\ a \notin Minted /\ Minted' = Minted \cup {a}
        /\ a \notin index /\ meta[a] = "none" /\ a \notin lava /\ a \notin pending /\ o # None
    BY <1>1, NoneIsNoId DEF CreateArtifactUpload, Inv, IInv, Core, Fresh, Files, Named,
         Minted, TypeOK, Reaped, Expired
  <2>2. /\ pending' = (pending \ TakenFrom(pending, o)) \cup {b \in Reaped : named[b]}
        /\ TakenFrom(pending, o) \subseteq pending /\ D \subseteq TakenFrom(pending, o)
        /\ lava' = (lava \ D) \cup (IF answer = "refused" THEN {} ELSE {a})
        /\ leaked' = leaked \cup ((TakenFrom(pending, o) \cap lava) \ D)
                            \cup (IF answer = "lost" THEN {a} ELSE {})
    BY <1>1 DEF CreateArtifactUpload, Queued, TakenFrom, Forgotten
  <2>3. \A b \in Artifact :
          /\ meta'[b] = IF b = a THEN "await_upload" ELSE IF b \in Reaped THEN "none" ELSE meta[b]
          /\ named'[b] = IF b = a THEN answer = "ok" ELSE named[b]
          /\ metaNamed'[b] = IF b = a THEN answer = "ok" ELSE metaNamed[b]
    BY <1>1 DEF CreateArtifactUpload, MetaWithout, Recorded, Inv, IInv, TypeOK
  <2>4. ASSUME NEW b \in lava' \ leaked'
        PROVE  (meta'[b] \in States /\ metaNamed'[b]) \/ b \in pending'
    <3>1. CASE b = a
      BY <2>1, <2>2, <2>3, <3>1 DEF States
    <3>2. CASE b # a
      <4>1. b \in Artifact /\ b \in lava /\ b \notin leaked /\ b \notin TakenFrom(pending, o)
        BY <2>2, <3>2 DEF Inv, IInv, TypeOK
      <4>2. b \in Reaped /\ b \notin pending => named[b]
        BY <2>1, <4>1 DEF Files, Named, Accounted
      <4> QED
        BY <2>2, <2>3, <3>2, <4>1, <4>2 DEF Files, Accounted
    <3> QED
      BY <3>1, <3>2
  <2> QED
    BY <2>4 DEF Accounted
<1>2. ASSUME NEW o \in User, NEW D \in SUBSET Artifact, ListArtifacts(o, D)
      PROVE  Accounted'
  BY <1>2 DEF ListArtifacts, Remove, MetaWithout, Reaped, Expired, Queued, Forgotten,
       Inv, IInv, Files, TypeOK, Named, Accounted
<1>3. ASSUME NEW o \in User, NEW a \in Artifact, NEW D \in SUBSET Artifact,
     DeleteArtifact(o, a, D)
      PROVE  Accounted'
  BY <1>3 DEF DeleteArtifact, Remove, MetaWithout, Queued, Forgotten, Inv, IInv, Files,
       TypeOK, Named, Accounted
<1>4. ASSUME NEW a \in Artifact, RequestExpired(a)
      PROVE  Accounted'
  BY <1>4 DEF RequestExpired, Remove, MetaWithout, Expired, Queued, Inv, IInv, Files,
       TypeOK, Named, Accounted
<1>5. ASSUME NEW g \in Fetch, NEW a \in Artifact, GetBoundJobDone(g, a)
      PROVE  Accounted'
  BY <1>5 DEF GetBoundJobDone, Remove, MetaWithout, Servable, Queued, Inv, IInv, Files,
       TypeOK, Named, Accounted
<1>6. ASSUME NEW u \in Upload, PutFinish(u)
      PROVE  Accounted'
  BY <1>6 DEF PutFinish, PersistedState, Inv, IInv, Core, Streams, Held, Files, TypeOK,
       States, Named, Accounted, hist
<1>7. CASE Crash
  BY <1>7 DEF Crash, Die, Files, Accounted, disk
<1>8. ASSUME NEW a \in Artifact, NEW n \in 1..2, CrashInRemove(a, n)
      PROVE  Accounted'
  BY <1>8 DEF CrashInRemove, Die, MetaUnlinked, MetaWithout, Inv, IInv, Files, TypeOK,
       Accounted
<1>9. ASSUME NEW o \in User, NEW a \in Artifact, NEW torn \in BOOLEAN,
             NEW registered \in BOOLEAN, CrashInCreate(o, a, torn, registered)
      PROVE  Accounted'
  BY <1>9 DEF CrashInCreate, Die, Inv, IInv, Core, Fresh, Files, States, Accounted
<1>10. ASSUME NEW u \in Upload, NEW torn \in BOOLEAN, CrashInStore(u, torn)
      PROVE  Accounted'
  BY <1>10 DEF CrashInStore, Die, Files, Accounted
<1>11. ASSUME UNCHANGED <<lava, leaked, meta, metaNamed, pending>> PROVE Accounted'
  BY <1>11 DEF Files, Accounted
<1>12. CASE UNCHANGED vars
  BY <1>12, <1>11 DEF vars, mem, disk, hist
<1> QED
  BY <1>1, <1>2, <1>3, <1>4, <1>5, <1>6, <1>7, <1>8, <1>9, <1>10, <1>11, <1>12
  DEF Next, Tool, Put, Get, Environment, CrashInHandler, PutOpen, PutChunk, PutAbort,
       GetAdmit, GetServe, Expire, JobFinishes, Restart, mem, ids, disk, puts, gets,
       hist

\* The initial files and tokens.
LEMMA FilesInit == Init => Files
BY DEF Init, Files, Indexed, Tidy, Named, Accounted, States

\* Files and tokens stay accounted for.
LEMMA FilesAlways == Spec => [](Inv /\ Files)
<1>1. Inv /\ Files /\ [Next]_vars => Files'
  BY IndexedStep, TidyStep, NamedStep, AccountedStep DEF Files
<1> QED
  BY <1>1, FilesInit, InvAlways, PTL DEF Spec

\* No flush of a user's queue revokes the token of a live artifact.
THEOREM LiveNamesResolve == Spec => []NameResolves
<1>1. Inv /\ Files => NameResolves
  BY DEF Inv, IInv, Core, Agree, TypeOK, Files, Named, NameResolves
<1> QED
  BY <1>1, FilesAlways, PTL

\* Every token registered at LAVA is an artifact's, queued, or was lost to a LAVA
\* call that failed or to a crash.
THEOREM TokensAccounted == Spec => []TokenAccounted
<1>1. Inv /\ Files => TokenAccounted
  BY DEF Inv, IInv, TypeOK, Files, Indexed, Named, Accounted, TokenAccounted
<1> QED
  BY <1>1, FilesAlways, PTL

\* Every file belongs to an artifact of the index, but for what a crash left of one.
THEOREM NoFileLeftBehind == Spec => []NoOrphanFiles
<1>1. Inv /\ Files => NoOrphanFiles
  BY DEF Inv, IInv, TypeOK, Files, Indexed, Tidy, NoOrphanFiles
<1> QED
  BY <1>1, FilesAlways, PTL

-----------------------------------------------------------------------------
(***************************************************************************)
(* The bytes of an upload.  An inode belongs to the artifact of the PUT    *)
(* that created it (Inodes).  As long as no two PUTs of an artifact        *)
(* streamed at the same time, the one that streams is alone (Alone), none  *)
(* streams once one was acknowledged (Settled), and what it wrote so far   *)
(* is its body (Written).  So the blob of an acknowledged upload is its    *)
(* body (Intact), and the inode a GET opened keeps it (Opened).            *)
(***************************************************************************)
Inodes ==
  /\ \A a \in Artifact : \A i \in {part[a], blob[a]} \ {None} : upc[i] # "idle" /\ uart[i] = a
  /\ \A u \in Upload : /\ upc[u] = "idle" => sent[u] = 0
                       /\ upc[u] # "idle" => /\ ufd[u] \in Upload
                                             /\ upc[ufd[u]] # "idle" /\ uart[ufd[u]] = uart[u]

Alone ==
  \A u, v \in Upload : upc[u] = "streaming" /\ upc[v] = "streaming" /\ uart[u] = uart[v] =>
    u = v \/ uart[u] \in raced

Settled ==
  \A u, v \in Upload : upc[u] = "stored" /\ upc[v] = "streaming" /\ uart[u] = uart[v] =>
    uart[u] \in raced

Written ==
  \A u \in Upload : upc[u] = "streaming" /\ uart[u] \notin raced =>
    part[uart[u]] \in {None, ufd[u]} /\ content[ufd[u]] = Body(u)

Intact ==
  /\ \A a \in Artifact : meta[a] = "stored" => Acknowledged(a) # {}
  /\ \A u \in Upload : upc[u] = "stored" /\ uart[u] \notin raced \cup gone =>
       blob[uart[u]] # None /\ content[blob[uart[u]]] = Body(u)

\* What a download of a that was admitted will find: the blob, or nothing.
Readable(a) ==
  \/ meta[a] = "stored" /\ a \notin gone
  \/ a \in gone /\ blob[a] = None

Opened ==
  \A g \in Fetch :
    /\ fpc[g] = "admitted" => Readable(fart[g])
    /\ fpc[g] = "served" /\ fart[g] \notin raced =>
         /\ fino[g] \in Upload /\ upc[fino[g]] # "idle" /\ uart[fino[g]] = fart[g]
         /\ \E u \in Acknowledged(fart[g]) : content[fino[g]] = Body(u)

Bytes == Inodes /\ Alone /\ Settled /\ Written /\ Intact /\ Opened

\* An inode is named by paths of its own artifact only.
LEMMA InodesStep == Inv /\ Bytes /\ [Next]_vars => Inodes'
<1> SUFFICES ASSUME Inv, Bytes, [Next]_vars PROVE Inodes'
  OBVIOUS
<1>1. ASSUME NEW o \in User, NEW a \in Artifact, NEW answer \in {"ok", "refused", "lost"},
             NEW binding \in {"unbound", "running"}, NEW D \in SUBSET Artifact,
             CreateArtifactUpload(o, a, answer, binding, D)
      PROVE  Inodes'
  BY <1>1 DEF CreateArtifactUpload, BlobWithout, PartWithout, Bytes, Inodes, puts
<1>2. ASSUME NEW o \in User, NEW D \in SUBSET Artifact, ListArtifacts(o, D)
      PROVE  Inodes'
  BY <1>2 DEF ListArtifacts, Remove, BlobWithout, PartWithout, Bytes, Inodes, puts
<1>3. ASSUME NEW o \in User, NEW a \in Artifact, NEW D \in SUBSET Artifact,
     DeleteArtifact(o, a, D)
      PROVE  Inodes'
  BY <1>3 DEF DeleteArtifact, Remove, BlobWithout, PartWithout, Bytes, Inodes, puts
<1>4. ASSUME NEW a \in Artifact, RequestExpired(a)
      PROVE  Inodes'
  BY <1>4 DEF RequestExpired, Remove, BlobWithout, PartWithout, Bytes, Inodes, puts
<1>5. ASSUME NEW g \in Fetch, NEW a \in Artifact, GetBoundJobDone(g, a)
      PROVE  Inodes'
  BY <1>5 DEF GetBoundJobDone, Remove, BlobWithout, PartWithout, Bytes, Inodes, puts
<1>6. ASSUME NEW u \in Upload, NEW a \in Artifact, PutOpen(u, a)
      PROVE  Inodes'
  BY <1>6 DEF PutOpen, Inv, IInv, TypeOK, Bytes, Inodes
<1>7. ASSUME NEW u \in Upload, PutChunk(u)
      PROVE  Inodes'
  BY <1>7 DEF PutChunk, Bytes, Inodes
<1>8. ASSUME NEW u \in Upload, PutAbort(u)
      PROVE  Inodes'
  BY <1>8 DEF PutAbort, Bytes, Inodes
<1>9. ASSUME NEW u \in Upload, PutFinish(u)
      PROVE  Inodes'
  BY <1>9 DEF PutFinish, Inv, IInv, TypeOK, Bytes, Inodes, gets
<1>10. CASE Crash
  BY <1>10 DEF Crash, Die, Inv, IInv, TypeOK, Bytes, Inodes, disk
<1>11. ASSUME NEW a \in Artifact, NEW n \in 1..2, CrashInRemove(a, n)
      PROVE  Inodes'
  BY <1>11 DEF CrashInRemove, Die, BlobUnlinked, BlobWithout, Inv, IInv, TypeOK, Bytes,
       Inodes
<1>12. ASSUME NEW o \in User, NEW a \in Artifact, NEW torn \in BOOLEAN,
             NEW registered \in BOOLEAN, CrashInCreate(o, a, torn, registered)
      PROVE  Inodes'
  BY <1>12 DEF CrashInCreate, Die, Inv, IInv, TypeOK, Bytes, Inodes
<1>13. ASSUME NEW u \in Upload, NEW torn \in BOOLEAN, CrashInStore(u, torn)
      PROVE  Inodes'
  BY <1>13 DEF CrashInStore, Die, Inv, IInv, TypeOK, Bytes, Inodes
<1>14. ASSUME UNCHANGED <<part, blob, puts>> PROVE Inodes'
  BY <1>14 DEF Bytes, Inodes, puts
<1>15. CASE UNCHANGED vars
  BY <1>15, <1>14 DEF vars, disk
<1> QED
  BY <1>1, <1>2, <1>3, <1>4, <1>5, <1>6, <1>7, <1>8, <1>9, <1>10, <1>11, <1>12, <1>13,
       <1>14, <1>15
  DEF Next, Tool, Put, Get, Environment, CrashInHandler, GetAdmit, GetServe, Expire,
       JobFinishes, Restart, mem, ids, disk, puts, gets, hist

\* Only uploads and crashes move an upload.
LEMMA OthersKeepPuts ==
  ASSUME Tool \/ Get \/ Environment \/ Restart PROVE UNCHANGED <<upc, uart, raced>>
<1> USE DEF puts, hist
<1>1. CASE Tool
  <2>1. ASSUME NEW o \in User, NEW a \in Artifact, NEW answer \in {"ok", "refused", "lost"},
               NEW binding \in {"unbound", "running"}, NEW D \in SUBSET Artifact,
               CreateArtifactUpload(o, a, answer, binding, D)
        PROVE  UNCHANGED <<upc, uart, raced>>
    BY <2>1 DEF CreateArtifactUpload
  <2>2. ASSUME NEW S, Remove(S) PROVE UNCHANGED <<upc, uart, raced>>
    BY <2>2 DEF Remove
  <2>3. ASSUME NEW o \in User, NEW D \in SUBSET Artifact, ListArtifacts(o, D)
        PROVE  UNCHANGED <<upc, uart, raced>>
    BY <2>2, <2>3 DEF ListArtifacts
  <2>4. ASSUME NEW o \in User, NEW a \in Artifact, NEW D \in SUBSET Artifact,
               DeleteArtifact(o, a, D)
        PROVE  UNCHANGED <<upc, uart, raced>>
    BY <2>2, <2>4 DEF DeleteArtifact
  <2> QED
    BY <1>1, <2>1, <2>2, <2>3, <2>4 DEF Tool
<1>2. CASE Get
  BY <1>2 DEF Get, GetAdmit, GetBoundJobDone, GetServe, Remove
<1>3. CASE Environment
  BY <1>3 DEF Environment, RequestExpired, Expire, JobFinishes, Remove
<1>4. CASE Restart
  BY <1>4 DEF Restart
<1> QED
  BY <1>1, <1>2, <1>3, <1>4

\* Two uploads of one artifact stream at once only if it was raced.
LEMMA AloneStep == Inv /\ Bytes /\ [Next]_vars => Alone'
<1> SUFFICES ASSUME Inv, Bytes, [Next]_vars PROVE Alone'
  OBVIOUS
<1>1. ASSUME NEW u \in Upload, NEW a \in Artifact, PutOpen(u, a)
      PROVE  Alone'
  BY <1>1 DEF PutOpen, Streaming, Inv, IInv, TypeOK, Bytes, Alone
<1>2. ASSUME NEW u \in Upload, PutAbort(u)
      PROVE  Alone'
  BY <1>2 DEF PutAbort, Bytes, Alone, hist
<1>3. ASSUME NEW u \in Upload, PutFinish(u)
      PROVE  Alone'
  <2>1. \A v \in Upload : upc'[v] = "streaming" => upc[v] = "streaming"
    BY <1>3 DEF PutFinish, Inv, IInv, TypeOK
  <2> QED
    BY <1>3, <2>1 DEF PutFinish, Bytes, Alone, hist
<1>4. CASE Crash
  BY <1>4 DEF Crash, Die, Alone
<1>5. ASSUME NEW a \in Artifact, NEW n \in 1..2, CrashInRemove(a, n)
      PROVE  Alone'
  BY <1>5 DEF CrashInRemove, Die, Alone
<1>6. ASSUME NEW o \in User, NEW a \in Artifact, NEW torn \in BOOLEAN,
             NEW registered \in BOOLEAN, CrashInCreate(o, a, torn, registered)
      PROVE  Alone'
  BY <1>6 DEF CrashInCreate, Die, Alone
<1>7. ASSUME NEW u \in Upload, NEW torn \in BOOLEAN, CrashInStore(u, torn)
      PROVE  Alone'
  BY <1>7 DEF CrashInStore, Die, Alone
<1>8. ASSUME UNCHANGED <<upc, uart, raced>> PROVE Alone'
  BY <1>8 DEF Bytes, Alone
<1>9. CASE UNCHANGED vars
  BY <1>9, <1>8 DEF vars, puts, hist
<1>10. CASE Tool \/ Get \/ Environment \/ Restart
  BY <1>10, <1>8, OthersKeepPuts
<1> QED
  BY <1>1, <1>2, <1>3, <1>4, <1>5, <1>6, <1>7, <1>8, <1>9, <1>10 DEF Next, Put,
       CrashInHandler, PutChunk, hist

\* No upload streams next to an accepted one.
LEMMA SettledStep == Inv /\ Bytes /\ [Next]_vars => Settled'
<1> SUFFICES ASSUME Inv, Bytes, [Next]_vars PROVE Settled'
  OBVIOUS
<1>1. ASSUME NEW u \in Upload, NEW a \in Artifact, PutOpen(u, a)
      PROVE  Settled'
  <2>1. PICK i \in Upload :
          /\ i = u \/ (i = part[a] /\ uart[i] = a)
          /\ part' = [part EXCEPT ![a] = i] /\ content' = [content EXCEPT ![i] = Empty]
          /\ ufd' = [ufd EXCEPT ![u] = i]
    <3>1. CASE part[a] = None
      BY <1>1, <3>1 DEF PutOpen, Truncated
    <3>2. CASE part[a] # None
      <4>1. part[a] \in Upload /\ uart[part[a]] = a
        BY <3>2 DEF Inv, IInv, TypeOK, Bytes, Inodes
      <4>2. /\ part' = [part EXCEPT ![a] = part[a]] /\ content' = [content EXCEPT ![part[a]] = Empty]
            /\ ufd' = [ufd EXCEPT ![u] = part[a]]
        BY <1>1, <3>2 DEF PutOpen, Truncated
      <4> QED
        BY <4>1, <4>2
    <3> QED
      BY <3>1, <3>2
  <2>2. /\ upc[u] = "idle" /\ upc' = [upc EXCEPT ![u] = "streaming"]
        /\ uart' = [uart EXCEPT ![u] = a]
        /\ sent' = sent /\ meta' = meta /\ blob' = blob /\ gone' = gone /\ raced \subseteq raced'
        /\ fpc' = fpc /\ fart' = fart /\ fino' = fino
        /\ \A v \in Upload : upc[v] = "streaming" /\ uart[v] = a => a \in raced'
    BY <1>1 DEF PutOpen, Streaming, gets
  <2>3. \A v \in Upload : upc[v] = "stored" => uart[v] # a
    BY <1>1 DEF PutOpen, Awaiting, Inv, IInv, Core, Acked, Agree, NoResurrection
  <2> QED
    BY <2>2, <2>3 DEF Bytes, Settled, Inv, IInv, TypeOK
<1>2. ASSUME NEW u \in Upload, PutAbort(u)
      PROVE  Settled'
  BY <1>2 DEF PutAbort, Bytes, Settled, hist
<1>3. ASSUME NEW u \in Upload, PutFinish(u)
      PROVE  Settled'
  BY <1>3 DEF PutFinish, Inv, IInv, Core, TypeOK, Busy, Bytes, Alone, Settled, Acked,
       Agree, hist
<1>4. CASE Crash
  BY <1>4 DEF Crash, Die, Settled
<1>5. ASSUME NEW a \in Artifact, NEW n \in 1..2, CrashInRemove(a, n)
      PROVE  Settled'
  BY <1>5 DEF CrashInRemove, Die, Settled
<1>6. ASSUME NEW o \in User, NEW a \in Artifact, NEW torn \in BOOLEAN,
             NEW registered \in BOOLEAN, CrashInCreate(o, a, torn, registered)
      PROVE  Settled'
  BY <1>6 DEF CrashInCreate, Die, Settled
<1>7. ASSUME NEW u \in Upload, NEW torn \in BOOLEAN, CrashInStore(u, torn)
      PROVE  Settled'
  BY <1>7 DEF CrashInStore, Die, Settled
<1>8. ASSUME UNCHANGED <<upc, uart, raced>> PROVE Settled'
  BY <1>8 DEF Bytes, Settled
<1>9. CASE UNCHANGED vars
  BY <1>9, <1>8 DEF vars, puts, hist
<1>10. CASE Tool \/ Get \/ Environment \/ Restart
  BY <1>10, <1>8, OthersKeepPuts
<1> QED
  BY <1>1, <1>2, <1>3, <1>4, <1>5, <1>6, <1>7, <1>8, <1>9, <1>10 DEF Next, Put,
       CrashInHandler, PutChunk, hist

\* What an upload wrote so far is its body.
LEMMA WrittenStep == Inv /\ Bytes /\ [Next]_vars => Written'
<1> SUFFICES ASSUME Inv, Bytes, [Next]_vars PROVE Written'
  OBVIOUS
<1>1. ASSUME NEW o \in User, NEW a \in Artifact, NEW answer \in {"ok", "refused", "lost"},
             NEW binding \in {"unbound", "running"}, NEW D \in SUBSET Artifact,
             CreateArtifactUpload(o, a, answer, binding, D)
      PROVE  Written'
  BY <1>1 DEF CreateArtifactUpload, PartWithout, Inv, IInv, Busy, Bytes, Written, Body,
       puts
<1>2. ASSUME NEW o \in User, NEW D \in SUBSET Artifact, ListArtifacts(o, D)
      PROVE  Written'
  BY <1>2 DEF ListArtifacts, Remove, PartWithout, Inv, IInv, Busy, Bytes, Written, Body,
       puts
<1>3. ASSUME NEW o \in User, NEW a \in Artifact, NEW D \in SUBSET Artifact,
     DeleteArtifact(o, a, D)
      PROVE  Written'
  BY <1>3 DEF DeleteArtifact, Remove, PartWithout, Inv, IInv, Busy, Bytes, Written,
       Body, puts
<1>4. ASSUME NEW a \in Artifact, RequestExpired(a)
      PROVE  Written'
  BY <1>4 DEF RequestExpired, Remove, PartWithout, Inv, IInv, Busy, Bytes, Written,
       Body, puts
<1>5. ASSUME NEW g \in Fetch, NEW a \in Artifact, GetBoundJobDone(g, a)
      PROVE  Written'
  BY <1>5 DEF GetBoundJobDone, Remove, PartWithout, Inv, IInv, Busy, Bytes, Written,
       Body, puts
<1>6. ASSUME NEW u \in Upload, NEW a \in Artifact, PutOpen(u, a)
      PROVE  Written'
  <2>1. PICK i \in Upload :
          /\ i = u \/ (i = part[a] /\ uart[i] = a)
          /\ part' = [part EXCEPT ![a] = i] /\ content' = [content EXCEPT ![i] = Empty]
          /\ ufd' = [ufd EXCEPT ![u] = i]
    <3>1. CASE part[a] = None
      BY <1>6, <3>1 DEF PutOpen, Truncated
    <3>2. CASE part[a] # None
      <4>1. part[a] \in Upload /\ uart[part[a]] = a
        BY <3>2 DEF Inv, IInv, TypeOK, Bytes, Inodes
      <4>2. /\ part' = [part EXCEPT ![a] = part[a]] /\ content' = [content EXCEPT ![part[a]] = Empty]
            /\ ufd' = [ufd EXCEPT ![u] = part[a]]
        BY <1>6, <3>2 DEF PutOpen, Truncated
      <4> QED
        BY <4>1, <4>2
    <3> QED
      BY <3>1, <3>2
  <2>2. /\ upc[u] = "idle" /\ upc' = [upc EXCEPT ![u] = "streaming"]
        /\ uart' = [uart EXCEPT ![u] = a]
        /\ sent' = sent /\ meta' = meta /\ blob' = blob /\ gone' = gone /\ raced \subseteq raced'
        /\ fpc' = fpc /\ fart' = fart /\ fino' = fino
        /\ \A v \in Upload : upc[v] = "streaming" /\ uart[v] = a => a \in raced'
    BY <1>6 DEF PutOpen, Streaming, gets
  <2>3. \A v \in Upload : upc[v] = "stored" => uart[v] # a
    BY <1>6 DEF PutOpen, Awaiting, Inv, IInv, Core, Acked, Agree, NoResurrection
  <2>4. ASSUME NEW v \in Upload, upc'[v] = "streaming", uart'[v] \notin raced'
        PROVE  part'[uart'[v]] \in {None, ufd'[v]} /\ content'[ufd'[v]] = Body(v)'
    <3>1. CASE v = u
      <4>1. sent[u] = 0
        BY <2>2 DEF Bytes, Inodes
      <4>2. Body(u)' = Empty
        BY <2>2, <4>1 DEF Body, Empty, Position
      <4> QED
        BY <2>1, <2>2, <3>1, <4>2 DEF Inv, IInv, TypeOK
    <3>2. CASE v # u
      <4>1. upc[v] = "streaming" /\ uart'[v] = uart[v] /\ ufd'[v] = ufd[v] /\ uart[v] # a
        BY <2>1, <2>2, <2>4, <3>2
      <4>2. ufd[v] \in Upload /\ ufd[v] # i
        BY <2>1, <2>2, <4>1 DEF Bytes, Inodes
      <4>3. Body(v)' = Body(v)
        BY <2>2 DEF Body
      <4> QED
        BY <2>1, <2>2, <2>4, <4>1, <4>2, <4>3 DEF Bytes, Written
    <3> QED
      BY <3>1, <3>2
  <2> QED
    BY <2>4 DEF Written
<1>7. ASSUME NEW u \in Upload, PutChunk(u)
      PROVE  Written'
  <2>1. /\ content' = [content EXCEPT ![ufd[u]][sent[u] + 1] = u]
        /\ sent' = [sent EXCEPT ![u] = sent[u] + 1] /\ sent[u] \in 0..MaxBytes /\ sent[u] < MaxBytes
        /\ part' = part /\ upc' = upc /\ uart' = uart /\ ufd' = ufd /\ raced' = raced
        /\ upc[u] = "streaming"
    BY <1>7 DEF PutChunk, UnderCap, hist, Inv, IInv, TypeOK
  <2>2. ASSUME NEW v \in Upload, upc[v] = "streaming", uart[v] \notin raced
        PROVE  content'[ufd[v]] = Body(v)'
    <3>1. content[ufd[v]] = Body(v) /\ ufd[v] \in Upload
      BY <2>2 DEF Bytes, Written, Inodes
    <3>2. CASE v = u
      <4>1. content'[ufd[u]] = [content[ufd[u]] EXCEPT ![sent[u] + 1] = u]
        BY <2>1, <3>1, <3>2 DEF Inv, IInv, TypeOK
      <4>2. sent[u] \in Nat /\ sent'[u] = sent[u] + 1 /\ sent[u] + 1 \in Position
        BY <2>1, BoundsAreNat DEF Position, Inv, IInv, TypeOK
      <4>3. \A p \in Position : p <= sent'[u] <=> p <= sent[u] \/ p = sent[u] + 1
        BY <4>2 DEF Position
      <4>4. Body(u)' = [Body(u) EXCEPT ![sent[u] + 1] = u]
        BY <4>2, <4>3 DEF Body
      <4> QED
        BY <3>1, <3>2, <4>1, <4>4
    <3>3. CASE v # u
      <4>1. ufd[v] # ufd[u]
        BY <2>1, <2>2, <3>3 DEF Bytes, Inodes, Alone
      <4>2. Body(v)' = Body(v)
        BY <2>1, <3>3 DEF Body
      <4> QED
        BY <2>1, <3>1, <4>1, <4>2
    <3> QED
      BY <3>2, <3>3
  <2> QED
    BY <2>1, <2>2 DEF Bytes, Written
<1>8. ASSUME NEW u \in Upload, PutAbort(u)
      PROVE  Written'
  BY <1>8 DEF PutAbort, Bytes, Written, Body, hist
<1>9. ASSUME NEW u \in Upload, PutFinish(u)
      PROVE  Written'
  BY <1>9 DEF PutFinish, Inv, IInv, TypeOK, Busy, Bytes, Alone, Written, Body, hist
<1>10. CASE Crash
  BY <1>10 DEF Crash, Die, Written
<1>11. ASSUME NEW a \in Artifact, NEW n \in 1..2, CrashInRemove(a, n)
      PROVE  Written'
  BY <1>11 DEF CrashInRemove, Die, Written
<1>12. ASSUME NEW o \in User, NEW a \in Artifact, NEW torn \in BOOLEAN,
             NEW registered \in BOOLEAN, CrashInCreate(o, a, torn, registered)
      PROVE  Written'
  BY <1>12 DEF CrashInCreate, Die, Written
<1>13. ASSUME NEW u \in Upload, NEW torn \in BOOLEAN, CrashInStore(u, torn)
      PROVE  Written'
  BY <1>13 DEF CrashInStore, Die, Written
<1>14. ASSUME UNCHANGED <<part, content, puts, raced>> PROVE Written'
  BY <1>14 DEF Bytes, Written, Body, puts
<1>15. CASE UNCHANGED vars
  BY <1>15, <1>14 DEF vars, disk, hist
<1> QED
  BY <1>1, <1>2, <1>3, <1>4, <1>5, <1>6, <1>7, <1>8, <1>9, <1>10, <1>11, <1>12, <1>13,
       <1>14, <1>15
  DEF Next, Tool, Put, Get, Environment, CrashInHandler, GetAdmit, GetServe, Expire,
       JobFinishes, Restart, mem, ids, disk, puts, gets, hist

\* Steps that neither write nor accept an upload keep the bodies and who was accepted.
LEMMA BodiesKept ==
  ASSUME UNCHANGED <<content, uart, sent>>,
         \A u \in Upload : upc'[u] = "stored" <=> upc[u] = "stored"
  PROVE  /\ \A u \in Upload : Body(u)' = Body(u)
         /\ \A a : Acknowledged(a)' = Acknowledged(a)
BY DEF Body, Acknowledged

\* They keep the blobs of what was accepted if they replace none and remove all.
LEMMA KeepsIntact ==
  ASSUME Acked, Intact, UNCHANGED <<content, uart, sent, raced>>,
         \A u \in Upload : upc'[u] = "stored" <=> upc[u] = "stored",
         \A a \in Artifact : meta'[a] = "stored" => meta[a] = "stored",
         gone \subseteq gone',
         \A u \in Upload : upc[u] = "stored" /\ uart[u] \in Artifact \ gone' =>
           blob'[uart[u]] = blob[uart[u]]
  PROVE  Intact'
<1>1. \A u \in Upload : upc[u] = "stored" => uart[u] \in Artifact
  BY DEF Acked, Minted
<1> QED
  BY <1>1, BodiesKept DEF Intact

\* A removal keeps them.
LEMMA RemoveKeepsIntact ==
  ASSUME TypeOK, Acked, Intact, NEW S, Remove(S) PROVE Intact'
<1>1. /\ UNCHANGED <<content, uart, sent, raced, upc>> /\ gone' = gone \cup S
      /\ meta' = MetaWithout(S) /\ blob' = BlobWithout(S)
  BY DEF Remove, puts
<1>2. \A a \in Artifact : /\ meta'[a] = "stored" => meta[a] = "stored"
                          /\ a \notin gone' => blob'[a] = blob[a]
  BY <1>1 DEF MetaWithout, BlobWithout
<1> QED
  BY <1>1, <1>2, KeepsIntact

\* They keep the inodes downloads opened, and what those will find that were admitted.
LEMMA KeepsOpened ==
  ASSUME Busy, Opened, UNCHANGED <<content, uart, sent, raced, fart>>,
         \A u \in Upload : /\ upc'[u] = "stored" <=> upc[u] = "stored"
                           /\ upc[u] # "idle" => upc'[u] # "idle",
         \A g \in Fetch :
           /\ fpc'[g] = "admitted" =>
                fpc[g] = "admitted" /\ (Readable(fart[g]) => Readable(fart[g])')
           /\ fpc'[g] = "served" => fpc[g] = "served" /\ fino'[g] = fino[g]
  PROVE  Opened'
<1>1. ASSUME NEW g \in Fetch, fpc'[g] = "admitted" PROVE Readable(fart[g])'
  BY <1>1 DEF Opened
<1>2. ASSUME NEW g \in Fetch, fpc'[g] = "served", fart'[g] \notin raced'
      PROVE  /\ fino'[g] \in Upload /\ upc'[fino'[g]] # "idle" /\ uart'[fino'[g]] = fart'[g]
             /\ \E u \in Acknowledged(fart[g])' : content'[fino'[g]] = Body(u)'
  <2>1. PICK u \in Acknowledged(fart[g]) : content[fino[g]] = Body(u)
    BY <1>2 DEF Opened
  <2>2. u \in Upload /\ u \in Acknowledged(fart[g])' /\ Body(u)' = Body(u)
    BY <2>1, BodiesKept DEF Acknowledged
  <2> QED
    BY <1>2, <2>1, <2>2 DEF Opened
<1> QED
  BY <1>1, <1>2 DEF Opened

\* The blob of an accepted upload is its body.
LEMMA IntactStep == Inv /\ Bytes /\ [Next]_vars => Intact'
<1> SUFFICES ASSUME Inv, Bytes, [Next]_vars PROVE Intact'
  OBVIOUS
<1>1. ASSUME NEW o \in User, NEW a \in Artifact, NEW answer \in {"ok", "refused", "lost"},
             NEW binding \in {"unbound", "running"}, NEW D \in SUBSET Artifact,
             CreateArtifactUpload(o, a, answer, binding, D)
      PROVE  Intact'
  <2>1. /\ UNCHANGED <<content, uart, sent, raced, upc>> /\ gone' = gone \cup Reaped
        /\ meta' = [MetaWithout(Reaped) EXCEPT ![a] = "await_upload"]
        /\ blob' = BlobWithout(Reaped)
    BY <1>1 DEF CreateArtifactUpload, puts
  <2>2. \A b \in Artifact : /\ meta'[b] = "stored" => meta[b] = "stored"
                            /\ b \notin gone' => blob'[b] = blob[b]
    BY <2>1 DEF MetaWithout, BlobWithout
  <2> QED
    BY <2>1, <2>2, KeepsIntact DEF Inv, IInv, Core, Bytes
<1>2. ASSUME NEW o \in User, NEW D \in SUBSET Artifact, ListArtifacts(o, D)
      PROVE  Intact'
  BY <1>2, RemoveKeepsIntact DEF ListArtifacts, Inv, IInv, Core, Bytes
<1>3. ASSUME NEW o \in User, NEW a \in Artifact, NEW D \in SUBSET Artifact,
     DeleteArtifact(o, a, D)
      PROVE  Intact'
  BY <1>3, RemoveKeepsIntact DEF DeleteArtifact, Inv, IInv, Core, Bytes
<1>4. ASSUME NEW a \in Artifact, RequestExpired(a)
      PROVE  Intact'
  BY <1>4, RemoveKeepsIntact DEF RequestExpired, Inv, IInv, Core, Bytes
<1>5. ASSUME NEW g \in Fetch, NEW a \in Artifact, GetBoundJobDone(g, a)
      PROVE  Intact'
  BY <1>5, RemoveKeepsIntact DEF GetBoundJobDone, Inv, IInv, Core, Bytes
<1>6. ASSUME NEW u \in Upload, NEW a \in Artifact, PutOpen(u, a)
      PROVE  Intact'
  <2>1. PICK i \in Upload :
          /\ i = u \/ (i = part[a] /\ uart[i] = a)
          /\ part' = [part EXCEPT ![a] = i] /\ content' = [content EXCEPT ![i] = Empty]
          /\ ufd' = [ufd EXCEPT ![u] = i]
    <3>1. CASE part[a] = None
      BY <1>6, <3>1 DEF PutOpen, Truncated
    <3>2. CASE part[a] # None
      <4>1. part[a] \in Upload /\ uart[part[a]] = a
        BY <3>2 DEF Inv, IInv, TypeOK, Bytes, Inodes
      <4>2. /\ part' = [part EXCEPT ![a] = part[a]] /\ content' = [content EXCEPT ![part[a]] = Empty]
            /\ ufd' = [ufd EXCEPT ![u] = part[a]]
        BY <1>6, <3>2 DEF PutOpen, Truncated
      <4> QED
        BY <4>1, <4>2
    <3> QED
      BY <3>1, <3>2
  <2>2. /\ upc[u] = "idle" /\ upc' = [upc EXCEPT ![u] = "streaming"]
        /\ uart' = [uart EXCEPT ![u] = a]
        /\ sent' = sent /\ meta' = meta /\ blob' = blob /\ gone' = gone /\ raced \subseteq raced'
        /\ fpc' = fpc /\ fart' = fart /\ fino' = fino
        /\ \A v \in Upload : upc[v] = "streaming" /\ uart[v] = a => a \in raced'
    BY <1>6 DEF PutOpen, Streaming, gets
  <2>3. \A v \in Upload : upc[v] = "stored" => uart[v] # a
    BY <1>6 DEF PutOpen, Awaiting, Inv, IInv, Core, Acked, Agree, NoResurrection
  <2>4. ASSUME NEW v \in Upload, upc'[v] = "stored", uart'[v] \notin raced' \cup gone'
        PROVE  blob'[uart'[v]] # None /\ content'[blob'[uart'[v]]] = Body(v)'
    <3>1. upc[v] = "stored" /\ uart'[v] = uart[v] /\ uart[v] # a /\ Body(v)' = Body(v)
      BY <2>2, <2>3, <2>4 DEF Body
    <3>2. blob[uart[v]] # None /\ content[blob[uart[v]]] = Body(v)
      BY <2>2, <2>4, <3>1 DEF Bytes, Intact
    <3>3. uart[v] \in Artifact
      BY <3>1, NoneIsNoId DEF Inv, IInv, Core, Acked, Minted
    <3>4. blob[uart[v]] \in Upload /\ blob[uart[v]] # i
      BY <2>1, <2>2, <3>1, <3>2, <3>3 DEF Bytes, Inodes, Inv, IInv, TypeOK
    <3> QED
      BY <2>1, <2>2, <3>1, <3>2, <3>4
  <2>5. \A b \in Artifact : meta'[b] = "stored" => Acknowledged(b)' # {}
    BY <2>2 DEF Bytes, Intact, Acknowledged
  <2> QED
    BY <2>4, <2>5 DEF Intact
<1>7. ASSUME NEW u \in Upload, PutChunk(u)
      PROVE  Intact'
  <2>1. /\ content' = [content EXCEPT ![ufd[u]][sent[u] + 1] = u]
        /\ sent' = [sent EXCEPT ![u] = sent[u] + 1]
        /\ upc' = upc /\ uart' = uart /\ raced' = raced /\ gone' = gone
        /\ meta' = meta /\ blob' = blob /\ upc[u] = "streaming"
    BY <1>7 DEF PutChunk, hist
  <2>2. ASSUME NEW v \in Upload, upc[v] = "stored", uart[v] \notin raced \cup gone
        PROVE  blob[uart[v]] # None /\ content'[blob[uart[v]]] = Body(v)'
    <3>1. blob[uart[v]] # None /\ content[blob[uart[v]]] = Body(v) /\ v # u
      BY <2>1, <2>2 DEF Bytes, Intact
    <3>2. uart[v] \in Artifact
      BY <2>2, NoneIsNoId DEF Inv, IInv, Core, Acked, Minted
    <3>3. blob[uart[v]] \in Upload /\ blob[uart[v]] # ufd[u]
      BY <2>1, <2>2, <3>1, <3>2 DEF Bytes, Inodes, Settled, Inv, IInv, TypeOK
    <3>4. Body(v)' = Body(v)
      BY <2>1, <3>1 DEF Body
    <3> QED
      BY <2>1, <3>1, <3>3, <3>4
  <2> QED
    BY <2>1, <2>2 DEF Bytes, Intact, Acknowledged
<1>8. ASSUME NEW u \in Upload, PutAbort(u)
      PROVE  Intact'
  BY <1>8, KeepsIntact DEF PutAbort, Inv, IInv, Core, Bytes, hist
<1>9. ASSUME NEW u \in Upload, PutFinish(u)
      PROVE  Intact'
  <2> DEFINE a == uart[u]
  <2>1. CASE part[a] = None
    <3>1. UNCHANGED <<content, uart, sent, raced, gone, meta, blob>>
      BY <1>9, <2>1 DEF PutFinish, hist
    <3>2. \A v \in Upload : upc'[v] = "stored" <=> upc[v] = "stored"
      BY <1>9, <2>1 DEF PutFinish, Inv, IInv, TypeOK
    <3> QED
      BY <3>1, <3>2, KeepsIntact DEF Inv, IInv, Core, Bytes
  <2>2. CASE part[a] # None
    <3>1. /\ a \in Artifact /\ upc[u] = "streaming" /\ upc' = [upc EXCEPT ![u] = "stored"]
          /\ blob' = [blob EXCEPT ![a] = part[a]] /\ meta' = [meta EXCEPT ![a] = "stored"]
          /\ UNCHANGED <<content, uart, sent, raced, gone>>
      BY <1>9, <2>2 DEF PutFinish, PersistedState, hist, Inv, IInv, Busy
    <3>2. \A v \in Upload : Body(v)' = Body(v)
      BY <3>1 DEF Body
    <3>3. ASSUME NEW v \in Upload, upc'[v] = "stored", uart[v] \notin raced \cup gone
          PROVE  blob'[uart[v]] # None /\ content[blob'[uart[v]]] = Body(v)
      <4>1. CASE v = u
        <5>1. part[a] = ufd[u] /\ content[ufd[u]] = Body(u)
          BY <2>2, <3>1, <3>3, <4>1 DEF Bytes, Written
        <5> QED
          BY <2>2, <3>1, <4>1, <5>1 DEF Inv, IInv, TypeOK
      <4>2. CASE v # u
        <5>1. upc[v] = "stored" /\ uart[v] # a
          BY <3>1, <3>3, <4>2 DEF Bytes, Settled
        <5> QED
          BY <3>1, <3>3, <5>1 DEF Bytes, Intact
      <4> QED
        BY <4>1, <4>2
    <3>4. ASSUME NEW b \in Artifact, meta'[b] = "stored" PROVE Acknowledged(b)' # {}
      <4>1. CASE b = a
        BY <3>1, <4>1 DEF Acknowledged, Inv, IInv, TypeOK
      <4>2. CASE b # a
        <5>1. PICK v \in Acknowledged(b) : TRUE
          BY <3>1, <3>4, <4>2 DEF Bytes, Intact
        <5> QED
          BY <3>1, <5>1 DEF Acknowledged
      <4> QED
        BY <4>1, <4>2
    <3> QED
      BY <3>1, <3>2, <3>3, <3>4 DEF Intact
  <2> QED
    BY <2>1, <2>2
<1>10. CASE Crash
  BY <1>10, KeepsIntact DEF Crash, Die, Inv, IInv, Core, Bytes, disk
<1>11. ASSUME NEW a \in Artifact, NEW n \in 1..2, CrashInRemove(a, n)
      PROVE  Intact'
  <2>1. /\ UNCHANGED <<content, uart, sent, raced>> /\ gone' = gone \cup {a}
        /\ meta' = MetaWithout({a}) /\ (blob' = blob \/ blob' = BlobWithout({a}))
        /\ \A u \in Upload : upc'[u] = "stored" <=> upc[u] = "stored"
    BY <1>11 DEF CrashInRemove, Die, MetaUnlinked, BlobUnlinked
  <2>2. \A b \in Artifact : /\ meta'[b] = "stored" => meta[b] = "stored"
                            /\ b \notin gone' => blob'[b] = blob[b]
    BY <2>1 DEF MetaWithout, BlobWithout
  <2> QED
    BY <2>1, <2>2, KeepsIntact DEF Inv, IInv, Core, Bytes
<1>12. ASSUME NEW o \in User, NEW a \in Artifact, NEW torn \in BOOLEAN,
             NEW registered \in BOOLEAN, CrashInCreate(o, a, torn, registered)
      PROVE  Intact'
  BY <1>12, KeepsIntact DEF CrashInCreate, Die, Inv, IInv, Core, Bytes
<1>13. ASSUME NEW u \in Upload, NEW torn \in BOOLEAN, CrashInStore(u, torn)
      PROVE  Intact'
  BY <1>13, KeepsIntact DEF CrashInStore, Die, Inv, IInv, Core, Acked, Bytes
<1>14. ASSUME UNCHANGED <<meta, blob, content, puts, raced, gone>> PROVE Intact'
  BY <1>14 DEF Bytes, Intact, Body, Acknowledged, puts
<1>15. CASE UNCHANGED vars
  BY <1>15, <1>14 DEF vars, disk, hist
<1> QED
  BY <1>1, <1>2, <1>3, <1>4, <1>5, <1>6, <1>7, <1>8, <1>9, <1>10, <1>11, <1>12, <1>13,
       <1>14, <1>15
  DEF Next, Tool, Put, Get, Environment, CrashInHandler, GetAdmit, GetServe, Expire,
       JobFinishes, Restart, mem, ids, disk, puts, gets, hist

\* What a download opened is the body of an accepted upload.
LEMMA OpenedStep == Inv /\ Bytes /\ [Next]_vars => Opened'
<1> SUFFICES ASSUME Inv, Bytes, [Next]_vars PROVE Opened'
  OBVIOUS
<1>1. ASSUME NEW o \in User, NEW a \in Artifact, NEW answer \in {"ok", "refused", "lost"},
             NEW binding \in {"unbound", "running"}, NEW D \in SUBSET Artifact,
             CreateArtifactUpload(o, a, answer, binding, D)
      PROVE  Opened'
  <2>1. /\ UNCHANGED <<content, uart, sent, raced, upc, fpc, fart, fino>>
        /\ gone' = gone \cup Reaped /\ a \notin Minted
        /\ meta' = [MetaWithout(Reaped) EXCEPT ![a] = "await_upload"]
        /\ blob' = BlobWithout(Reaped)
    BY <1>1 DEF CreateArtifactUpload, puts, gets
  <2>2. meta[a] = "none" /\ a \notin gone
    BY <2>1 DEF Inv, IInv, Core, Fresh
  <2>3. \A b \in Artifact : Readable(b) => Readable(b)'
    BY <2>1, <2>2 DEF Readable, MetaWithout, BlobWithout
  <2>4. \A h \in Fetch : fpc[h] = "admitted" => fart[h] \in Artifact
    BY DEF Inv, IInv, Busy
  <2>5. \A h \in Fetch : fpc'[h] = "admitted" =>
          fpc[h] = "admitted" /\ (Readable(fart[h]) => Readable(fart[h])')
    BY <2>1, <2>3, <2>4 DEF Readable
  <2> QED
    BY <2>1, <2>5, KeepsOpened DEF Inv, IInv, Bytes
<1>2. ASSUME NEW o \in User, NEW D \in SUBSET Artifact, ListArtifacts(o, D)
      PROVE  Opened'
  BY <1>2, KeepsOpened DEF ListArtifacts, Remove, MetaWithout, BlobWithout, Readable,
       Inv, IInv, Busy, Bytes, puts, gets
<1>3. ASSUME NEW o \in User, NEW a \in Artifact, NEW D \in SUBSET Artifact,
     DeleteArtifact(o, a, D)
      PROVE  Opened'
  BY <1>3, KeepsOpened DEF DeleteArtifact, Remove, MetaWithout, BlobWithout, Readable,
       Inv, IInv, Busy, Bytes, puts, gets
<1>4. ASSUME NEW a \in Artifact, RequestExpired(a)
      PROVE  Opened'
  BY <1>4, KeepsOpened DEF RequestExpired, Remove, MetaWithout, BlobWithout, Readable,
       Inv, IInv, Busy, Bytes, puts, gets
<1>5. ASSUME NEW g \in Fetch, NEW a \in Artifact, GetBoundJobDone(g, a)
      PROVE  Opened'
  BY <1>5, KeepsOpened DEF GetBoundJobDone, Remove, MetaWithout, BlobWithout, Readable,
       Inv, IInv, Busy, Bytes, puts
<1>6. ASSUME NEW u \in Upload, NEW a \in Artifact, PutOpen(u, a)
      PROVE  Opened'
  <2>1. PICK i \in Upload :
          /\ i = u \/ (i = part[a] /\ uart[i] = a)
          /\ part' = [part EXCEPT ![a] = i] /\ content' = [content EXCEPT ![i] = Empty]
          /\ ufd' = [ufd EXCEPT ![u] = i]
    <3>1. CASE part[a] = None
      BY <1>6, <3>1 DEF PutOpen, Truncated
    <3>2. CASE part[a] # None
      <4>1. part[a] \in Upload /\ uart[part[a]] = a
        BY <3>2 DEF Inv, IInv, TypeOK, Bytes, Inodes
      <4>2. /\ part' = [part EXCEPT ![a] = part[a]] /\ content' = [content EXCEPT ![part[a]] = Empty]
            /\ ufd' = [ufd EXCEPT ![u] = part[a]]
        BY <1>6, <3>2 DEF PutOpen, Truncated
      <4> QED
        BY <4>1, <4>2
    <3> QED
      BY <3>1, <3>2
  <2>2. /\ upc[u] = "idle" /\ upc' = [upc EXCEPT ![u] = "streaming"]
        /\ uart' = [uart EXCEPT ![u] = a]
        /\ sent' = sent /\ meta' = meta /\ blob' = blob /\ gone' = gone /\ raced \subseteq raced'
        /\ fpc' = fpc /\ fart' = fart /\ fino' = fino
        /\ \A v \in Upload : upc[v] = "streaming" /\ uart[v] = a => a \in raced'
    BY <1>6 DEF PutOpen, Streaming, gets
  <2>3. \A v \in Upload : upc[v] = "stored" => uart[v] # a
    BY <1>6 DEF PutOpen, Awaiting, Inv, IInv, Core, Acked, Agree, NoResurrection
  <2>4. ASSUME NEW h \in Fetch, fpc'[h] = "served", fart'[h] \notin raced'
        PROVE  /\ fino'[h] \in Upload /\ upc'[fino'[h]] # "idle" /\ uart'[fino'[h]] = fart'[h]
               /\ \E v \in Acknowledged(fart[h])' : content'[fino'[h]] = Body(v)'
    <3>1. PICK v \in Acknowledged(fart[h]) :
            /\ content[fino[h]] = Body(v)
            /\ fino[h] \in Upload /\ upc[fino[h]] # "idle" /\ uart[fino[h]] = fart[h]
      BY <2>2, <2>4 DEF Bytes, Opened
    <3>2. v \in Upload /\ upc[v] = "stored" /\ uart[v] = fart[h] /\ fart[h] # a
      BY <2>3, <3>1 DEF Acknowledged
    <3>3. fino[h] # i /\ fino[h] # u /\ v # u
      BY <2>1, <2>2, <3>1, <3>2
    <3>4. v \in Acknowledged(fart[h])' /\ Body(v)' = Body(v) /\ content'[fino[h]] = content[fino[h]]
      BY <2>1, <2>2, <3>1, <3>2, <3>3 DEF Acknowledged, Body
    <3> QED
      BY <2>2, <3>1, <3>3, <3>4
  <2>5. \A h \in Fetch : fpc'[h] = "admitted" => Readable(fart[h])'
    BY <2>2 DEF Bytes, Opened, Readable
  <2> QED
    BY <2>2, <2>4, <2>5 DEF Opened, Acknowledged
<1>7. ASSUME NEW u \in Upload, PutChunk(u)
      PROVE  Opened'
  <2>1. /\ content' = [content EXCEPT ![ufd[u]][sent[u] + 1] = u]
        /\ sent' = [sent EXCEPT ![u] = sent[u] + 1] /\ upc[u] = "streaming"
        /\ UNCHANGED <<upc, uart, raced, gone, meta, blob, fpc, fart, fino>>
    BY <1>7 DEF PutChunk, hist, gets
  <2>2. ASSUME NEW h \in Fetch, fpc[h] = "served", fart[h] \notin raced
        PROVE  /\ fino[h] \in Upload /\ upc[fino[h]] # "idle" /\ uart[fino[h]] = fart[h]
               /\ \E v \in Acknowledged(fart[h]) : content'[fino[h]] = Body(v)'
    <3>1. PICK v \in Acknowledged(fart[h]) :
            /\ content[fino[h]] = Body(v)
            /\ fino[h] \in Upload /\ upc[fino[h]] # "idle" /\ uart[fino[h]] = fart[h]
      BY <2>2 DEF Bytes, Opened
    <3>2. v \in Upload /\ upc[v] = "stored" /\ uart[v] = fart[h] /\ v # u
      BY <2>1, <3>1 DEF Acknowledged
    <3>3. fino[h] # ufd[u]
      BY <2>1, <2>2, <3>1, <3>2 DEF Bytes, Settled, Inodes
    <3>4. Body(v)' = Body(v) /\ content'[fino[h]] = content[fino[h]]
      BY <2>1, <3>1, <3>2, <3>3 DEF Body
    <3> QED
      BY <3>1, <3>4
  <2>3. \A h \in Fetch : fpc[h] = "admitted" => Readable(fart[h])'
    BY <2>1 DEF Bytes, Opened, Readable
  <2> QED
    BY <2>1, <2>2, <2>3 DEF Opened, Acknowledged
<1>8. ASSUME NEW u \in Upload, PutAbort(u)
      PROVE  Opened'
  BY <1>8, KeepsOpened DEF PutAbort, Readable, Inv, IInv, Bytes, gets, hist
<1>9. ASSUME NEW u \in Upload, PutFinish(u)
      PROVE  Opened'
  <2>1. /\ UNCHANGED <<content, uart, sent, raced, gone, fpc, fart, fino>>
        /\ uart[u] \in Artifact
    BY <1>9 DEF PutFinish, hist, gets, Inv, IInv, Busy
  <2>2. \A v \in Upload : /\ upc[v] = "stored" => upc'[v] = "stored"
                          /\ upc[v] # "idle" => upc'[v] # "idle"
    BY <1>9 DEF PutFinish, Inv, IInv, TypeOK
  <2>3. ASSUME NEW b \in Artifact, Readable(b) PROVE Readable(b)'
    <3>1. CASE part[uart[u]] = None
      BY <1>9, <2>3, <3>1 DEF PutFinish, Readable, hist
    <3>2. CASE part[uart[u]] # None
      <4>1. uart[u] \notin gone
        BY <1>9, <3>2 DEF PutFinish, Inv, IInv, Core, Streams
      <4> QED
        BY <1>9, <2>1, <2>3, <3>2, <4>1 DEF PutFinish, PersistedState, Readable, Inv,
             IInv, TypeOK
    <3> QED
      BY <3>1, <3>2
  <2>4. \A h \in Fetch : fpc[h] = "admitted" => Readable(fart[h])'
    BY <2>1, <2>3 DEF Bytes, Opened, Inv, IInv, Busy
  <2>5. ASSUME NEW h \in Fetch, fpc[h] = "served", fart[h] \notin raced
        PROVE  /\ fino[h] \in Upload /\ upc'[fino[h]] # "idle" /\ uart[fino[h]] = fart[h]
               /\ \E v \in Acknowledged(fart[h])' : content[fino[h]] = Body(v)'
    <3>1. PICK v \in Acknowledged(fart[h]) :
            /\ content[fino[h]] = Body(v)
            /\ fino[h] \in Upload /\ upc[fino[h]] # "idle" /\ uart[fino[h]] = fart[h]
      BY <2>5 DEF Bytes, Opened
    <3>2. v \in Acknowledged(fart[h])' /\ Body(v)' = Body(v)
      BY <2>1, <2>2, <3>1 DEF Acknowledged, Body
    <3> QED
      BY <2>2, <3>1, <3>2
  <2> QED
    BY <2>1, <2>4, <2>5 DEF Opened, Acknowledged
<1>10. ASSUME NEW g \in Fetch, NEW a \in Artifact, GetAdmit(g, a)
      PROVE  Opened'
  <2>1. Readable(a)
    BY <1>10 DEF GetAdmit, Servable, Readable, Inv, IInv, Core, Agree, NoResurrection
  <2>2. /\ fpc' = [fpc EXCEPT ![g] = "admitted"] /\ fart' = [fart EXCEPT ![g] = a]
        /\ fino' = fino /\ fpc[g] = "idle" /\ raced' = raced
        /\ UNCHANGED <<meta, blob, gone, content, upc, uart, sent>>
    BY <1>10 DEF GetAdmit, disk, puts, hist
  <2>3. ASSUME NEW h \in Fetch, fpc'[h] = "admitted" PROVE Readable(fart'[h])
    BY <2>1, <2>2, <2>3 DEF Bytes, Opened, Inv, IInv, TypeOK
  <2>4. ASSUME NEW h \in Fetch, fpc'[h] = "served"
        PROVE  fpc[h] = "served" /\ fart'[h] = fart[h]
    BY <2>2, <2>4
  <2>5. /\ \A b : Readable(b)' <=> Readable(b)
        /\ \A b : Acknowledged(b)' = Acknowledged(b)
        /\ \A v \in Upload : Body(v)' = Body(v)
    BY <2>2 DEF Readable, Acknowledged, Body
  <2>6. \A h \in Fetch : fpc'[h] = "admitted" => Readable(fart[h])'
    BY <2>3, <2>5 DEF Readable
  <2> QED
    BY <2>2, <2>4, <2>5, <2>6 DEF Bytes, Opened, Acknowledged
<1>11. ASSUME NEW g \in Fetch, GetServe(g)
      PROVE  Opened'
  <2>1. /\ fpc[g] = "admitted" /\ fart[g] \in Artifact /\ fart' = fart /\ raced' = raced
        /\ fpc' = [fpc EXCEPT ![g] = IF blob[fart[g]] = None THEN "failed" ELSE "served"]
        /\ fino' = [fino EXCEPT ![g] = blob[fart[g]]]
        /\ UNCHANGED <<meta, blob, gone, content, upc, uart, sent>>
    BY <1>11 DEF GetServe, disk, puts, hist, Inv, IInv, Busy
  <2>2. /\ \A b : Readable(b)' <=> Readable(b)
        /\ \A b : Acknowledged(b)' = Acknowledged(b)
        /\ \A v \in Upload : Body(v)' = Body(v)
    BY <2>1 DEF Readable, Acknowledged, Body
  <2>3. ASSUME NEW h \in Fetch, fpc'[h] = "admitted" PROVE Readable(fart[h])'
    <3>1. fpc[h] = "admitted"
      BY <2>1, <2>3
    <3>2. Readable(fart[h])
      BY <3>1 DEF Bytes, Opened
    <3> QED
      BY <2>1, <3>2 DEF Readable
  <2>4. ASSUME NEW h \in Fetch, fpc'[h] = "served", fart[h] \notin raced
        PROVE  /\ fino'[h] \in Upload /\ upc[fino'[h]] # "idle" /\ uart[fino'[h]] = fart[h]
               /\ \E v \in Acknowledged(fart[h]) : content[fino'[h]] = Body(v)
    <3>1. CASE h = g
      <4>1. blob[fart[g]] # None /\ fino'[g] = blob[fart[g]]
        BY <2>1, <2>4, <3>1 DEF Inv, IInv, TypeOK
      <4>2. meta[fart[g]] = "stored" /\ fart[g] \notin gone
        BY <2>1, <4>1 DEF Bytes, Opened, Readable
      <4>3. PICK v \in Acknowledged(fart[g]) : TRUE
        BY <2>1, <4>2 DEF Bytes, Intact
      <4>4. v \in Upload /\ content[blob[fart[g]]] = Body(v)
        BY <2>4, <3>1, <4>2, <4>3 DEF Bytes, Intact, Acknowledged
      <4>5. blob[fart[g]] \in Upload
        BY <2>1, <4>1 DEF Inv, IInv, TypeOK
      <4> QED
        BY <2>1, <3>1, <4>1, <4>3, <4>4, <4>5 DEF Bytes, Inodes
    <3>2. CASE h # g
      <4>1. fpc[h] = "served" /\ fino'[h] = fino[h]
        BY <2>1, <2>4, <3>2
      <4> QED
        BY <2>4, <4>1 DEF Bytes, Opened
    <3> QED
      BY <3>1, <3>2
  <2> QED
    BY <2>1, <2>2, <2>3, <2>4 DEF Opened, Acknowledged
<1>12. CASE Crash
  BY <1>12, KeepsOpened DEF Crash, Die, Inv, IInv, Bytes, disk
<1>13. ASSUME NEW a \in Artifact, NEW n \in 1..2, CrashInRemove(a, n)
      PROVE  Opened'
  BY <1>13, KeepsOpened DEF CrashInRemove, Die, Inv, IInv, Bytes
<1>14. ASSUME NEW o \in User, NEW a \in Artifact, NEW torn \in BOOLEAN,
             NEW registered \in BOOLEAN, CrashInCreate(o, a, torn, registered)
      PROVE  Opened'
  BY <1>14, KeepsOpened DEF CrashInCreate, Die, Inv, IInv, Bytes
<1>15. ASSUME NEW u \in Upload, NEW torn \in BOOLEAN, CrashInStore(u, torn)
      PROVE  Opened'
  BY <1>15, KeepsOpened DEF CrashInStore, Die, Inv, IInv, Bytes
<1>16. ASSUME UNCHANGED <<meta, blob, content, puts, gets, raced, gone>> PROVE Opened'
  BY <1>16 DEF Bytes, Opened, Readable, Body, Acknowledged, puts, gets
<1>17. CASE UNCHANGED vars
  BY <1>17, <1>16 DEF vars, disk, hist
<1> QED
  BY <1>1, <1>2, <1>3, <1>4, <1>5, <1>6, <1>7, <1>8, <1>9, <1>10, <1>11, <1>12, <1>13,
       <1>14, <1>15, <1>16, <1>17
  DEF Next, Tool, Put, Get, Environment, CrashInHandler, Expire, JobFinishes, Restart,
       mem, ids, disk, puts, gets, hist

\* No upload has begun.
LEMMA BytesInit == Init => Bytes
BY NoneIsNoId DEF Init, Bytes, Inodes, Alone, Settled, Written, Intact, Opened

\* What the uploads wrote stays as described.
LEMMA BytesAlways == Spec => [](Inv /\ Bytes)
<1>1. Inv /\ Bytes /\ [Next]_vars => Bytes'
  BY InodesStep, AloneStep, SettledStep, WrittenStep, IntactStep, OpenedStep DEF Bytes
<1> QED
  BY <1>1, BytesInit, InvAlways, PTL DEF Spec

\* The blob of a stored artifact is the body of the PUT answered 200, whatever other
\* PUTs of it came before or after, unless two were streaming at the same time.
THEOREM AcceptedIsIntact == Spec => []IntactUnlessRaced
<1>1. Inv /\ Bytes => IntactUnlessRaced
  BY DEF Inv, IInv, Core, NoResurrection, Bytes, Intact, Acknowledged, IntactUnlessRaced
<1> QED
  BY <1>1, BytesAlways, PTL

\* A GET is answered with the body of an acknowledged PUT, although the file is opened
\* after the handler returned.
THEOREM ServesAccepted == Spec => []ServedIsComplete
<1>1. Inv /\ Bytes => ServedIsComplete
  BY DEF Bytes, Opened, ServedIsComplete
<1> QED
  BY <1>1, BytesAlways, PTL
=============================================================================
