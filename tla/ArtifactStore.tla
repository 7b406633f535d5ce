---------------------------- MODULE ArtifactStore ----------------------------
(***************************************************************************)
(* The temporary artifact store of lava_mcp: artifacts.py and the tools    *)
(* and HTTP routes of server.py that drive it.                             *)
(*                                                                         *)
(* An artifact has an entry in the in-memory index, a metadata file        *)
(* (<id>.json), a blob (<id>.blob), a partial upload (<id>.part) and a     *)
(* remote-artifact token registered at LAVA under its name.  Handlers run  *)
(* on one event loop: a handler is one action, except a PUT (which         *)
(* awaits every chunk of its body) and a GET (whose file response opens    *)
(* the file after the handler returned).  The process may crash between    *)
(* two file or LAVA operations of a handler, and be restarted.             *)
(*                                                                         *)
(* Files are inodes: opening <id>.part for writing truncates the inode the *)
(* path already names, a rename moves the name, an unlink drops the name,  *)
(* and open file descriptors keep writing to their inode.  An inode is     *)
(* named by the upload that created it.                                    *)
(***************************************************************************)
EXTENDS Naturals, FiniteSets

CONSTANTS
  Artifact,    \* artifact ids that may ever be minted
  Upload,      \* PUT requests
  Fetch,       \* GET requests
  User,        \* LAVA users
  None,        \* "no file", "no user", "no byte"
  MaxBytes,    \* per-artifact cap, in chunks
  MaxCrashes   \* how often the process may crash

ASSUME NoneIsNoId == None \notin Artifact \cup Upload \cup Fetch \cup User
ASSUME BoundsAreNat == MaxBytes \in Nat \ {0} /\ MaxCrashes \in Nat

VARIABLES
  up,          \* the process is running
  index,       \* ids in ArtifactStore._artifacts
  state,       \* Artifact.state of the in-memory object
  named,       \* whether Artifact.lava_token_name of the object is set
  pending,     \* _pending_token_deletions (the owner follows from the id)
  owner,       \* Artifact.owner; None: the id has not been minted
  job,         \* what is known of Artifact.bind_job_id at LAVA
  expired,     \* ids whose Artifact.expires lies in the past
  meta,        \* <id>.json: absent, unreadable, or the state it records
  metaNamed,   \* whether <id>.json records the token name
  part,        \* the inode <id>.part names
  blob,        \* the inode <id>.blob names
  content,     \* inode -> position -> the upload whose chunk is there
  lava,        \* ids whose token is registered at LAVA
  upc, uart, ufd, sent,  \* a PUT: progress, artifact, inode, chunks written
  fpc, fart, fino,       \* a GET: progress, artifact, inode served
  handed,      \* ids whose token create_artifact_upload returned
  crashes,
  gone,        \* history: ids that were removed
  raced,       \* history: ids two PUTs were streaming at the same time
  damaged,     \* history: ids a crash caught half way through a file change
  leaked       \* history: ids whose token revocation failed or was forgotten

mem   == <<index, state, named, pending>>
ids   == <<owner, job, expired>>
disk  == <<meta, metaNamed, part, blob, content>>
puts  == <<upc, uart, ufd, sent>>
gets  == <<fpc, fart, fino>>
hist  == <<gone, raced, damaged, leaked>>
vars  == <<up, mem, ids, disk, lava, puts, gets, handed, crashes, hist>>

States == {"await_upload", "stored"}
Position == 1..MaxBytes
Empty == [p \in Position |-> None]

TypeOK ==
  /\ up \in BOOLEAN
  /\ index \subseteq Artifact
  /\ state \in [Artifact -> States]
  /\ named \in [Artifact -> BOOLEAN]
  /\ pending \subseteq Artifact
  /\ owner \in [Artifact -> User \cup {None}]
  /\ job \in [Artifact -> {"unbound", "running", "finished"}]
  /\ expired \subseteq Artifact
  /\ meta \in [Artifact -> States \cup {"none", "torn"}]
  /\ metaNamed \in [Artifact -> BOOLEAN]
  /\ part \in [Artifact -> Upload \cup {None}]
  /\ blob \in [Artifact -> Upload \cup {None}]
  /\ content \in [Upload -> [Position -> Upload \cup {None}]]
  /\ lava \subseteq Artifact
  /\ upc \in [Upload -> {"idle", "streaming", "stored", "failed"}]
  /\ uart \in [Upload -> Artifact \cup {None}]
  /\ ufd \in [Upload -> Upload \cup {None}]
  /\ sent \in [Upload -> 0..MaxBytes]
  /\ fpc \in [Fetch -> {"idle", "admitted", "served", "failed"}]
  /\ fart \in [Fetch -> Artifact \cup {None}]
  /\ fino \in [Fetch -> Upload \cup {None}]
  /\ handed \subseteq Artifact
  /\ crashes \in 0..MaxCrashes
  /\ gone \subseteq Artifact
  /\ raced \subseteq Artifact
  /\ damaged \subseteq Artifact
  /\ leaked \subseteq Artifact

Init ==
  /\ up = TRUE
  /\ index = {}
  /\ state = [a \in Artifact |-> "await_upload"]
  /\ named = [a \in Artifact |-> FALSE]
  /\ pending = {}
  /\ owner = [a \in Artifact |-> None]
  /\ job = [a \in Artifact |-> "unbound"]
  /\ expired = {}
  /\ meta = [a \in Artifact |-> "none"]
  /\ metaNamed = [a \in Artifact |-> FALSE]
  /\ part = [a \in Artifact |-> None]
  /\ blob = [a \in Artifact |-> None]
  /\ content = [u \in Upload |-> Empty]
  /\ lava = {}
  /\ upc = [u \in Upload |-> "idle"]
  /\ uart = [u \in Upload |-> None]
  /\ ufd = [u \in Upload |-> None]
  /\ sent = [u \in Upload |-> 0]
  /\ fpc = [g \in Fetch |-> "idle"]
  /\ fart = [g \in Fetch |-> None]
  /\ fino = [g \in Fetch |-> None]
  /\ handed = {}
  /\ crashes = 0
  /\ gone = {} /\ raced = {} /\ damaged = {} /\ leaked = {}

-----------------------------------------------------------------------------
(* Pieces of the store.                                                    *)

Minted == {a \in Artifact : owner[a] # None}
Expired == index \cap expired

\* The artifacts reap removes.
Reaped == Expired

Streaming(a) == {u \in Upload : upc[u] = "streaming" /\ uart[u] = a}

\* _remove_files: the three files of every artifact of S are unlinked.
MetaWithout(S) == [a \in Artifact |-> IF a \in S THEN "none" ELSE meta[a]]
BlobWithout(S) == [a \in Artifact |-> IF a \in S THEN None ELSE blob[a]]

MutPartWithout(S) == part
PartWithout(S) == [a \in Artifact |-> IF a \in S THEN None ELSE part[a]]

\* What _reap_one and delete put in _pending_token_deletions.
MutQueued(S) == {}
Queued(S) == {a \in S : named[a]}

\* take_pending_token_deletions, of the queue q.
TakenFrom(q, o) == {a \in q : owner[a] = o}

(***************************************************************************)
(* _flush_pending_tokens(c, o) takes the user's entries out of the queue q *)
(* whatever LAVA answers: D is what LAVA deleted, an error for any other   *)
(* entry is swallowed and the entry is forgotten.                          *)
(***************************************************************************)
Forgotten(q, o, D) == (TakenFrom(q, o) \cap lava) \ D

-----------------------------------------------------------------------------
(* The tools.                                                              *)

\* Whether add_remote_artifact_token returned, so that its name is recorded.
MutRecorded(answer) == answer # "lost"
Recorded(answer) == answer = "ok"

(***************************************************************************)
(* create_artifact_upload: flush, reap, reserve and persist, register the  *)
(* token at LAVA, record its name.  LAVA may refuse the token, or apply    *)
(* the request and lose the answer; both are a LavaError to the tool.      *)
(***************************************************************************)
CreateArtifactUpload(o, a, answer, binding, D) ==
  /\ up
  /\ a \notin Minted
  /\ D \subseteq TakenFrom(pending, o)
  /\ owner' = [owner EXCEPT ![a] = o]
  /\ job' = [job EXCEPT ![a] = binding]
  /\ index' = (index \ Reaped) \cup {a}
  /\ pending' = (pending \ TakenFrom(pending, o)) \cup Queued(Reaped)
  /\ lava' = (lava \ D) \cup (IF answer = "refused" THEN {} ELSE {a})
  /\ leaked' = leaked \cup Forgotten(pending, o, D)
                      \cup (IF answer = "lost" THEN {a} ELSE {})
  /\ state' = [state EXCEPT ![a] = "await_upload"]
  /\ named' = [named EXCEPT ![a] = Recorded(answer)]
  /\ meta' = [MetaWithout(Reaped) EXCEPT ![a] = "await_upload"]
  /\ metaNamed' = [metaNamed EXCEPT ![a] = Recorded(answer)]
  /\ blob' = BlobWithout(Reaped)
  /\ part' = PartWithout(Reaped)
  /\ handed' = handed \cup {a}
  /\ gone' = gone \cup Reaped
  /\ UNCHANGED <<up, expired, content, puts, gets, crashes, raced, damaged>>

\* The removal of the artifacts S from the index and the disk.
Remove(S) ==
  /\ index' = index \ S
  /\ meta' = MetaWithout(S)
  /\ blob' = BlobWithout(S)
  /\ part' = PartWithout(S)
  /\ gone' = gone \cup S
  /\ UNCHANGED <<up, state, named, ids, metaNamed, content, puts, handed, crashes,
                 raced, damaged>>

\* list_artifacts, and create_artifact_upload refused at admission: flush, reap.
ListArtifacts(o, D) ==
  /\ up
  /\ D \subseteq TakenFrom(pending, o)
  /\ lava' = lava \ D
  /\ leaked' = leaked \cup Forgotten(pending, o, D)
  /\ pending' = (pending \ TakenFrom(pending, o)) \cup Queued(Reaped)
  /\ Remove(Reaped)
  /\ UNCHANGED gets

\* delete_artifact: delete if the caller owns it, then flush the caller's queue.
DeleteArtifact(o, a, D) ==
  LET S == {b \in index : b = a /\ owner[b] = o}
      q == pending \cup Queued(S)
  IN  /\ up
      /\ D \subseteq TakenFrom(q, o)
      /\ lava' = lava \ D
      /\ leaked' = leaked \cup Forgotten(q, o, D)
      /\ pending' = q \ TakenFrom(q, o)
      /\ Remove(S)
      /\ UNCHANGED gets

-----------------------------------------------------------------------------
(* The PUT and GET routes.                                                 *)

\* _authorized on an expired id: ArtifactStore.get reaps it, whoever asks.
RequestExpired(a) ==
  /\ up
  /\ a \in Expired
  /\ pending' = pending \cup Queued({a})
  /\ Remove({a})
  /\ UNCHANGED <<lava, leaked, gets>>

\* The test of art.state in _put and in write_stream.
MutAwaiting(a) == TRUE
Awaiting(a) == state[a] = "await_upload"

\* open(part, "wb") truncates the inode it opens.
MutTruncated(i) == content
Truncated(i) == [content EXCEPT ![i] = Empty]

\* _put up to the first await: check the state, open <id>.part for writing.
PutOpen(u, a) ==
  LET i == IF part[a] = None THEN u ELSE part[a] IN
  /\ up
  /\ upc[u] = "idle"
  /\ a \in (index \cap handed) \ expired
  /\ Awaiting(a)
  /\ part' = [part EXCEPT ![a] = i]
  /\ content' = Truncated(i)
  /\ upc' = [upc EXCEPT ![u] = "streaming"]
  /\ uart' = [uart EXCEPT ![u] = a]
  /\ ufd' = [ufd EXCEPT ![u] = i]
  /\ raced' = IF Streaming(a) # {} THEN raced \cup {a} ELSE raced
  /\ UNCHANGED <<up, mem, ids, meta, metaNamed, blob, lava, sent, gets,
                 handed, crashes, gone, damaged, leaked>>

\* The per-artifact cap, tested before a chunk is written.
MutUnderCap(u) == sent[u] <= MaxBytes
UnderCap(u) == sent[u] < MaxBytes

\* One chunk of the body is written at this PUT's own file position.
PutChunk(u) ==
  /\ up
  /\ upc[u] = "streaming"
  /\ UnderCap(u)
  /\ content' = [content EXCEPT ![ufd[u]][sent[u] + 1] = u]
  /\ sent' = [sent EXCEPT ![u] = @ + 1]
  /\ UNCHANGED <<up, mem, ids, meta, metaNamed, part, blob, lava, upc, uart,
                 ufd, gets, handed, crashes, hist>>

\* The cap or the disk floor is hit, or the client disconnects: whatever
\* <id>.part names now is unlinked.
PutAbort(u) ==
  /\ up
  /\ upc[u] = "streaming"
  /\ upc' = [upc EXCEPT ![u] = "failed"]
  /\ part' = [part EXCEPT ![uart[u]] = None]
  /\ UNCHANGED <<up, mem, ids, meta, metaNamed, blob, content, lava, uart, ufd,
                 sent, gets, handed, crashes, hist>>

\* What _persist(art) records after an upload.
MutPersistedState == "await_upload"
PersistedState == "stored"

(***************************************************************************)
(* The end of the body: os.replace, the new state, _persist, 200.  The art *)
(* object may have left the index meanwhile; nothing looks.  Without a     *)
(* <id>.part the rename raises FileNotFoundError.                          *)
(***************************************************************************)
PutFinish(u) ==
  LET a == uart[u] IN
  /\ up
  /\ upc[u] = "streaming"
  /\ \/ /\ part[a] # None
        /\ upc' = [upc EXCEPT ![u] = "stored"]
        /\ blob' = [blob EXCEPT ![a] = part[a]]
        /\ part' = [part EXCEPT ![a] = None]
        /\ state' = [state EXCEPT ![a] = "stored"]
        /\ meta' = [meta EXCEPT ![a] = PersistedState]
        /\ metaNamed' = [metaNamed EXCEPT ![a] = named[a]]
     \/ /\ part[a] = None
        /\ upc' = [upc EXCEPT ![u] = "failed"]
        /\ UNCHANGED <<blob, part, state, meta, metaNamed>>
  /\ UNCHANGED <<up, index, named, pending, ids, content, lava, uart, ufd,
                 sent, gets, handed, crashes, hist>>

\* The artifacts _get serves.
MutServable == (index \cap handed) \ expired
Servable == {a \in (index \cap handed) \ expired : state[a] = "stored"}

(***************************************************************************)
(* _get: a stored artifact is admitted, unless its bound job has finished  *)
(* and LAVA says so: then it is deleted (the answer is 410).               *)
(***************************************************************************)
GetAdmit(g, a) ==
  /\ up
  /\ fpc[g] = "idle"
  /\ a \in Servable
  /\ fpc' = [fpc EXCEPT ![g] = "admitted"]
  /\ fart' = [fart EXCEPT ![g] = a]
  /\ UNCHANGED <<up, mem, ids, disk, lava, puts, fino, handed, crashes, hist>>

GetBoundJobDone(g, a) ==
  /\ up
  /\ fpc[g] = "idle"
  /\ a \in Servable
  /\ job[a] = "finished"
  /\ fpc' = [fpc EXCEPT ![g] = "failed"]
  /\ pending' = pending \cup Queued({a})
  /\ Remove({a})
  /\ UNCHANGED <<lava, leaked, fart, fino>>

\* FileResponse runs after the handler: it finds the blob, or no longer.
GetServe(g) ==
  /\ up
  /\ fpc[g] = "admitted"
  /\ fpc' = [fpc EXCEPT ![g] = IF blob[fart[g]] = None THEN "failed" ELSE "served"]
  /\ fino' = [fino EXCEPT ![g] = blob[fart[g]]]
  /\ UNCHANGED <<up, mem, ids, disk, lava, puts, fart, handed, crashes, hist>>

-----------------------------------------------------------------------------
(* The environment: time and LAVA jobs.                                    *)

Expire(a) ==
  /\ a \in Minted \ expired
  /\ expired' = expired \cup {a}
  /\ UNCHANGED <<up, mem, owner, job, disk, lava, puts, gets, handed, crashes, hist>>

JobFinishes(a) ==
  /\ job[a] = "running"
  /\ job' = [job EXCEPT ![a] = "finished"]
  /\ UNCHANGED <<up, mem, owner, expired, disk, lava, puts, gets, handed, crashes, hist>>

-----------------------------------------------------------------------------
(* Crash and restart.  D are the artifacts whose files the crash caught in *)
(* the middle of a change, L those whose token nothing remembers any more. *)

Die(D, L) ==
  /\ up
  /\ crashes < MaxCrashes
  /\ crashes' = crashes + 1
  /\ up' = FALSE
  /\ index' = {}
  /\ pending' = {}
  /\ upc' = [u \in Upload |-> IF upc[u] = "streaming" THEN "failed" ELSE upc[u]]
  /\ fpc' = [g \in Fetch |-> IF fpc[g] = "admitted" THEN "failed" ELSE fpc[g]]
  /\ damaged' = damaged \cup D
  /\ leaked' = leaked \cup pending \cup L
  /\ UNCHANGED <<state, named, expired, uart, ufd, sent, fart, fino, handed, raced>>

\* Between two handlers.
Crash ==
  /\ Die({}, {})
  /\ UNCHANGED <<owner, job, disk, lava, gone>>

\* In _remove_files: the metadata is unlinked first, then perhaps the blob.
MutMetaUnlinked(a) == meta
MetaUnlinked(a) == MetaWithout({a})

BlobUnlinked(a, n) == IF n = 2 THEN BlobWithout({a}) ELSE blob

CrashInRemove(a, n) ==
  /\ a \in index
  /\ meta' = MetaUnlinked(a)
  /\ blob' = BlobUnlinked(a, n)
  /\ Die({a}, {a})
  /\ gone' = gone \cup {a}
  /\ UNCHANGED <<owner, job, metaNamed, part, content, lava>>

(***************************************************************************)
(* In create_artifact_upload: _persist truncates the file before it writes *)
(* it, so a crash leaves it unreadable ("torn") or as first written        *)
(* (without the token name), before or after LAVA registered the token.    *)
(***************************************************************************)
CrashInCreate(o, a, torn, registered) ==
  /\ a \notin Minted
  /\ owner' = [owner EXCEPT ![a] = o]
  /\ meta' = [meta EXCEPT ![a] = IF torn THEN "torn" ELSE "await_upload"]
  /\ lava' = IF registered THEN lava \cup {a} ELSE lava
  /\ Die(IF torn THEN {a} ELSE {}, IF registered THEN {a} ELSE {})
  /\ UNCHANGED <<job, metaNamed, part, blob, content, gone>>

\* In write_stream, between the rename and the end of _persist.
CrashInStore(u, torn) ==
  LET a == uart[u] IN
  /\ upc[u] = "streaming"
  /\ part[a] # None
  /\ blob' = [blob EXCEPT ![a] = part[a]]
  /\ part' = [part EXCEPT ![a] = None]
  /\ meta' = IF torn THEN [meta EXCEPT ![a] = "torn"] ELSE meta
  /\ Die(IF torn THEN {a} ELSE {}, IF torn THEN {a} ELSE {})
  /\ UNCHANGED <<owner, job, metaNamed, content, lava, gone>>

\* The artifacts _load finds.
Loaded == {a \in Artifact : meta[a] \in States}

\* ArtifactStore.__init__ and _load: unreadable metadata is ignored.
Restart ==
  /\ ~up
  /\ up' = TRUE
  /\ index' = Loaded
  /\ state' = [a \in Artifact |-> IF a \in Loaded THEN meta[a] ELSE state[a]]
  /\ named' = [a \in Artifact |-> metaNamed[a]]
  /\ UNCHANGED <<pending, ids, disk, lava, puts, gets, handed, crashes, hist>>

-----------------------------------------------------------------------------
Tool ==
  \E o \in User, D \in SUBSET Artifact :
    \/ \E a \in Artifact, answer \in {"ok", "refused", "lost"},
          binding \in {"unbound", "running"} :
         CreateArtifactUpload(o, a, answer, binding, D)
    \/ ListArtifacts(o, D)
    \/ \E a \in Artifact : DeleteArtifact(o, a, D)

Put == \E u \in Upload :
         \/ \E a \in Artifact : PutOpen(u, a)
         \/ PutChunk(u)
         \/ PutAbort(u)
         \/ PutFinish(u)

Get == \E g \in Fetch :
         \/ \E a \in Artifact : GetAdmit(g, a) \/ GetBoundJobDone(g, a)
         \/ GetServe(g)

Environment == \E a \in Artifact : RequestExpired(a) \/ Expire(a) \/ JobFinishes(a)

CrashInHandler ==
  \/ \E a \in Artifact, n \in 1..2 : CrashInRemove(a, n)
  \/ \E o \in User, a \in Artifact, torn, registered \in BOOLEAN :
       CrashInCreate(o, a, torn, registered)
  \/ \E u \in Upload, torn \in BOOLEAN : CrashInStore(u, torn)

Next == Tool \/ Put \/ Get \/ Environment \/ Crash \/ CrashInHandler \/ Restart

Spec == Init /\ [][Next]_vars

(***************************************************************************)
(* Fairness: a supervisor restarts the process, and a response that was    *)
(* begun is served.  The server takes no other step of its own: no task of *)
(* it calls reap, a body may stall for ever, and no user owes a call.      *)
(***************************************************************************)
ServerSpec ==
  /\ Spec
  /\ WF_vars(Restart)
  /\ WF_vars(\E g \in Fetch : GetServe(g))

-----------------------------------------------------------------------------
(* Properties.                                                             *)

\* What the client of PUT u sent.
Body(u) == [p \in Position |-> IF p <= sent[u] THEN u ELSE None]

\* The PUTs of a that were answered 200.
Acknowledged(a) == {u \in Upload : upc[u] = "stored" /\ uart[u] = a}

\* An artifact in state "stored" has a blob, also after a crash in the middle
\* of its removal (_remove_files unlinks the metadata before the blob).
StoredHasBlob ==
  \A a \in index : state[a] = "stored" => blob[a] # None

\* A removed artifact never returns: no PUT that was streaming when it was
\* removed, and no restart, brings it back (write_stream persists the art
\* object without looking whether it still is in the store).
NoResurrection == gone \cap index = {} /\ \A a \in gone : meta[a] = "none"

\* A PUT answered 200 is durable: until the artifact is removed its metadata on
\* disk says "stored", whatever the process's crashes and restarts.
AckedIsDurable ==
  \A a \in Artifact \ gone : Acknowledged(a) # {} => meta[a] = "stored"

\* The blob of a stored artifact holds exactly the body of the PUT that was
\* answered 200, unless two PUTs of it were streaming at the same time.
IntactUnlessRaced ==
  \A a \in index \ raced : \A u \in Acknowledged(a) : content[blob[a]] = Body(u)

\* A GET is answered with the body of the acknowledged PUT of its artifact, never
\* with one that is in progress, was broken off or was cut short by a crash.
ServedIsComplete ==
  \A g \in Fetch : fpc[g] = "served" /\ fart[g] \notin raced =>
    \E u \in Acknowledged(fart[g]) : content[fino[g]] = Body(u)

\* While the process runs every file on disk belongs to an artifact of the
\* index, except files of artifacts a crash caught half way through a change.
NoOrphanFiles ==
  up => \A a \in Artifact \ (index \cup damaged) :
          meta[a] = "none" /\ blob[a] = None /\ part[a] = None

\* The token name a deploy block carries resolves at LAVA for as long as the
\* artifact lives: no flush revokes the token of a live artifact.
NameResolves == \A a \in index : named[a] => a \in lava

\* A token registered at LAVA belongs to a live artifact that names it or is
\* queued for deletion; else a LAVA call failed or a crash lost the record.
TokenAccounted ==
  up => \A a \in lava \ leaked : (a \in index /\ named[a]) \/ a \in pending

(***************************************************************************)
(* The store keeps the contract: the metadata on disk says where in its    *)
(* life an artifact is, whatever the process remembers.                    *)
(***************************************************************************)
Status == [a \in Artifact |->
  CASE meta[a] = "stored" -> "stored"
    [] meta[a] = "await_upload" -> "reserved"
    [] meta[a] = "torn" -> "lost"
    [] OTHER -> IF owner[a] = None THEN "none" ELSE "removed"]

Accepted == [a \in Artifact |-> Acknowledged(a)]

Contract == INSTANCE ArtifactContract WITH status <- Status, accepted <- Accepted

\* The whole of it (tools, PUT, GET, crash and restart) implements the contract:
\* one accepted upload per artifact, and no way back from "removed".
StoreContract == Contract!Spec

\* docs/artifact-store.md: "a background reaper deletes expired artifacts".  In the
\* code reap runs inside create and list_for only, and get reaps the one it was asked.
ExpiredRemoved == \A a \in Artifact : a \in Expired ~> a \notin index
=============================================================================
