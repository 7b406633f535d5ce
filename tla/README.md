# A TLA+ model of lava-mcp

`lava-mcp` is an MCP server for a LAVA lab. Beside thin proxies for LAVA's REST API it
keeps three kinds of state of its own - temporary artifacts, interactive board and
console sessions, a mirror of the LAVA source - and ships two small programs that run
inside LAVA jobs: the session supervisor with its device-command relay, and the
serial-console proxy. This directory models that state and the concurrency around it.
`PROJECT.json` is the index: components, runs, the source lines each definition stands
for, mutants, hazards, findings and theorems.

## 1. Inventory

### How the program runs

* The MCP tools and HTTP routes run on **one asyncio event loop**. An `async` tool can be
  interleaved with others only at an `await`; a plain `def` tool runs to its end and
  blocks everybody meanwhile.
* The SSH gateway (asyncssh) runs on **a thread and loop of its own**. It shares the
  session registry with the tools without a lock.
* The source mirror has **one background thread** and a lock that reads also take.
* `asyncio.to_thread` and `run_in_executor` use the default thread pool.
* The supervisor is a process of its own, one **thread per client**, a thread that reads
  the dispatcher's acks, and the main thread that keeps the tunnel up.
* The console proxy is a process of its own with one event loop.
* Nothing but the artifact store (files) and the git checkout survives a restart.

### Components

| Component | State | Operations | Talks to | Hard behaviour | Correct when |
|---|---|---|---|---|---|
| Artifact store, `artifacts.py`, and its routes and tools in `server.py` | in-memory index, `<id>.json/.part/.blob`, token name, token deletions to do | `create_artifact_upload`, `PUT`, `GET`, `list`, `delete`, `reap`, restart | LAVA remote-artifact tokens, job state | PUTs that overlap at their awaits, space that is checked and not reserved, an object used after its artifact was removed, crashes between two files, LAVA calls applied without an answer | acknowledged means durable and whole; removed means gone; token names resolve while the artifact lives; the free-space floor is crossed by a bounded amount |
| Session registry and tools, `gateway.py`, `server.py` | `BoardSession` objects, human keys, job ids | open, run, attach, check, close (board and console) | LAVA jobs, the gateway | a session looked up, then awaited, then used; a cancel that fails; restarts that forget running jobs | a closed session lets nobody in any more; closing frees the board |
| SSH gateway server, `gateway.py` | `_session`, `_role` per connection, listening ports | key checks, reverse forward, human forward, loss of a connection | agents in jobs, humans | the port allocated by closing a probe socket; redials; early "connected" | only the session's agent listens on its port; forwards reach that session |
| Gateway lifecycle and WebSocket bridge, `gateway.py` | thread, loop, listener | `ensure_started`, `stop`, relay | Caddy, asyncssh | a start that takes longer than its timeout; the executor's threads all waiting | at most one listener; opens do not starve the dial-ins they wait for |
| Console wiring, `server.py`, `gateway.py` | `console_target` cached in the session | discover the board, push `SETPORT` | LAVA, the proxy through the tunnel | pushes that meet no tunnel, board unknown before scheduling | polling connects the console of the session's own board |
| Console proxy, `console-proxy.py`, `console-connect.sh` | endpoint, writer, `writable`, tail | reader loop, `SETPORT`, watcher input | ser2net, watchers | a sentinel cut by the reads, seen once; reconnects | no input before the board is up; then input |
| Session supervisor, `interactive/` | `_pending_name`, `_pending_rc`, `_dev_lock` | `cmd`, `signal`, ack, tunnel loop | LAVA dispatcher over the pty | acks without an id, late or absent; clients that leave | a status is that of the caller's command; every caller is answered |
| Source mirror, `source.py` | checkout, `_ref`, `_ready` | sync, read, list | git, LAVA's version | a checkout that breaks off or is killed; a ref read after the lock | what is served is of the ref it names; the mirror follows the lab |
| Job builder, `jobs.py`, and the checks before it in `server.py` | none | inventory checks, job YAML, download labels | LAVA inventory and scheduler | colliding basenames, reserved namespaces, an inventory that changes or is read in part | no download is lost; what is submitted can run, what is refused could not |
| LAVA client and proxy tools, configuration, command line | none | one HTTP request per call; parsing at start | LAVA | - | - |

### Hazards

The hazards, each at its line and with the properties that watch it, are listed in
`PROJECT.json`. Those without a property carry a note that says why.

## 2. Modules

| Module | Models | Extended by |
|---|---|---|
| `ArtifactContract` | abstract: an artifact's life as its users see it | implemented by `ArtifactStore` |
| `ArtifactStore` | artifact store, routes, tools, LAVA tokens, crash and restart | `MCArtifactStore` (symmetry), `ArtifactStoreProofs` |
| `ArtifactDisk` | admission, the free-space floor, the re-check in the stream | `ArtifactDiskProofs` |
| `SessionContract` | abstract: who may use a session, and until when | implemented by `BoardSessions` |
| `BoardSessions` | session tools, registry, SSH gateway server, LAVA jobs, restart | `MCBoardSessions` (symmetry), `BoardSessionsProofs` |
| `GatewayService` | `ensure_started`, `stop`, the executor's threads, the WebSocket bridge | `GatewayServiceProofs` |
| `BoardJob` | the checks of `open_board_session`, the job it builds, where LAVA puts it | `MCBoardJob` (labels, symmetry), `BoardJobProofs` |
| `ConsoleWiring` | discovery, cached target, push, proxy, sentinel gate, `_wire_console` | `ConsoleWiringProofs` |
| `RelayContract` | abstract: what a caller of a device command is told | implemented by `DeviceRelay` |
| `DeviceRelay` | supervisor: handler threads, reader thread, tunnel loop; the dispatcher | `DeviceRelayProofs` |
| `MirrorContract` | abstract: versions swapped in one step, calls that see one moment | implemented by `SourceMirror` |
| `SourceMirror` | sync thread, lock, reads and listings, git | `MCSourceMirror` (two versions), `SourceMirrorProofs` |

The modules meet at a few values only, so each is checked alone. `open_board_session` is
split by what its parts can disturb: the checks and the job are `BoardJob`, the threads it
holds while it waits are `GatewayService`, the session and who may use it are
`BoardSessions`, the console it wires at the end is `ConsoleWiring`. `ConsoleWiring` and
`GatewayService` assume open sessions and leave out who may use them; `DeviceRelay` begins
where a command `BoardSessions!GatewayRun` started reaches the relay's socket;
`ArtifactDisk` counts the bytes of uploads whose files and metadata are `ArtifactStore`'s.

### Correspondence with the code

**ArtifactStore.** A file name is a variable that holds an inode (`part`, `blob`), an
inode is named by the PUT that created it, and `content` says which PUT wrote each byte.
Opening `<id>.part` truncates the inode the path names already, a rename moves the name,
an unlink drops it and leaves open descriptors working: that is what makes overlapping
PUTs visible. A handler is one action, because it does not await between its steps; a
PUT awaits every chunk (`PutOpen`, `PutChunk`, `PutAbort`, `PutFinish`) and a GET is
split between the handler and the file response (`GetAdmit`, `GetServe`).
`CrashInRemove`, `CrashInCreate` and `CrashInStore` are the handlers cut off between two
of their file or LAVA operations; `Restart` is `_load`, which reads back the metadata and
reaps nothing. The argument
`D` of the tool actions is the set of token deletions LAVA carries out. History
variables (`gone`, `raced`, `damaged`, `leaked`, `handed`) are read by no guard except
`handed`, which says whether a client can know the URL.

**ArtifactDisk.** Space is measured from the floor, so `free` is negative once the floor is
crossed; `Headroom` is `_headroom_bytes`. A chunk is written in the step that checks it,
since the code does not await in between; everything else that uses the volume moves
between two chunks. `checkpoint` includes the chunk at hand, `passed` (history) does not.
Expired artifacts leave by `Remove` at any time, also just before a `Create`, whose `reap`
that is. An artifact that is removed while a PUT streams to it (`Unlink`) keeps its space: the
stream goes on into the unlinked file and is counted until it ends.

**BoardSessions.** Session objects never die, `registry` says which ids the manager
still has. A tool is split at the await after which it uses the session it looked up
(`AttachConsole` / `AttachConsoleReturns`, `CloseBoardSession` / `CloseReturns`, ...); a
human key is named by the call that minted it. A command takes four steps: the tool looks
the session up (`RunInSession`), `_run` looks it up again on the gateway's thread
(`GatewayCheck`), awaits the connection (`GatewayConnect`) and starts the command
(`GatewayStart`). The last two do not look at the registry, so **a command may start in a
session that was closed while the gateway connected**; nothing in the documents excludes it,
and the model, the contract and its properties allow exactly that: only a call that had
passed the check before. In the same way a human who authenticated before the close may
open forwards after it (`connection_requested` does not look at the registry).
Connections go from `idle` over `authenticated` and `binding` (the callback has said yes,
asyncssh has not bound the port yet) to `tunnel`. `FreePort` gives any port nobody
listens on: the code asks the kernel for one and closes the socket. A restart forgets
the registry, not the jobs.

**GatewayService.** A job is a tool call or a dial-in. `Submit` is `asyncio.to_thread` or
`run_in_executor`, `Take` a thread of the pool taking the oldest piece of work;
`OnThread` are the jobs whose work holds a thread: waiting for `_lock`, for
`ready.wait`, for `_connected`, or for a push. `StartServer` is the listener thread; after
`StartTimesOut` it goes on alone, as in the code. `Stop` leaves the socket open, which is
why `port` and `loop` are two variables.

**BoardJob.** A label is a stem and the suffixes it was given, so that collisions with a
label that already has one can be expressed. `RequireTestServices` takes the page and the
devices that could be read as parameters. `assumed` (history) says that LAVA left a
question unanswered or the page was too short; the properties about admission and refusal
exclude what the code had to guess.

**DeviceRelay.** `Prepare`, `Emit`, `Reply` are the three critical sections of
`device_command`; `dev_lock` is held throughout. An ack has a name and, as history, the
command it belongs to. `lava-signal 'DEVICECMD <name>'` writes a marker past the lock; such
a raw command (`Raw`, `Signal`) has a name, runs and is acked like a request's, and nobody
waits for it, so that its ack too may answer whoever waits for that name.

**SourceMirror.** A version is the set of files it tracks, the text of a file is the
version it is of. `SwitchFile` is git replacing one file; the lock is held meanwhile. The
index (`staged`) is written at the end of a checkout: a file that a checkout wrote before it
died is untracked, and `checkout --force` leaves it where neither the index nor the new
version has it (`Target`).

**ConsoleWiring.** The sentinel is echoed in two chunks, once. `link` is the board the
proxy's connection leads to, `inbox` what was echoed and not read, `tail` whether what
the reader kept ends with the first chunk. `paired` sessions are those of
`open_board_session`: the tool is one more call (`OpenBoardConsole`, `WireConsole`), the
proxy is writable at once and no sentinel is echoed. `SetConsoleTarget` sets nothing when
there is no tunnel, or when the line comes after the 0.3 s the proxy waits for it. A call of
`check_console_ready` without a `session_id`, its default, reads the log and wires nothing
(`CheckJobLog`).

**The contracts.** `ArtifactContract` has the status of an artifact and the uploads of it that
were accepted; `ArtifactStore!Contract` maps the status to the metadata on disk, so that what
the process remembers does not matter, and every crash is a step of the contract (`Lose`, or
one that changes nothing). `SessionContract` has a session's life, the keys granted, the calls
let in, the commands they start, the humans admitted and the connections that opened a forward:
letting in needs an open session, what was let in may go on after the close.
`BoardSessions!Contract` maps the life to the registry, so that a tool that goes on after an
await with a session it looked up before has to be a step that is still allowed.
`RelayContract` knows neither pty nor lock: a request is closed once, by a run of its name (its
own, another's or a raw one) that answered nobody else, and `told` is what its client saw;
`DeviceRelay!Contract` computes `phase` from where the handler thread is, so that an exit of
the supervisor, a late ack and a client that left have to be steps of it. `MirrorContract` goes
from one version to the next in one step; `SourceMirror!Contract` maps the file-by-file
checkout under the lock to a stutter until it ends, and a call to the moment at which it holds
the lock. A mixture (`mixed`) comes from a checkout that broke off, or from one that met what
such a checkout left, never from a whole version.

## 3. Runs

| Run | Bounds | Shows |
|---|---|---|
| `artifact_files` | 1 artifact, 3 PUTs, 1 GET, 2 users, bodies of up to 2 chunks, every answer of LAVA, 1 crash | the store implements `ArtifactContract`; acknowledged uploads are durable and (unless two PUTs overlapped) whole; what is served was acknowledged; removed artifacts stay away; no file is left behind; a live artifact's token is never revoked, every other one is queued for deletion or was lost to a failed call |
| `artifact_disk` | 2 uploads of up to 6 units, chunks of 1 or 2, a check every 2, 5 units above the floor, another program | the floor is crossed by less than an interval and a chunk for each artifact; one honest upload at a time never crosses it |
| `sessions_close` | 2 sessions, 1 port, 1 connection, 2 calls, answers ok, no job id, lost | the tools implement `SessionContract` with calls at every await while a session closes; a successful close frees the board |
| `sessions_routing` | 2 sessions, 2 ports, 3 connections, 1 restart | binding and forwarding, redials, ports that coincide; `SessionContract` also across a restart of the server |
| `gateway_service` | 2 opens (1 with a console), 1 other tool, 1 dial-in, 2 threads, 1 slow start, 1 stop, 2 listeners | one listener; the recorded loop has the port; dial-ins reach this process; a full pool never waits only for its own queue; whatever is queued is served |
| `board_job` | 3 downloads over 4 basenames that collide, 3 devices, a page of 2, 1 change by an admin | no download is lost; namespaces agree; admission and refusal are right |
| `device_relay` | 2 requests and a raw command, 2 names, the supervisor may exit | the relay implements `RelayContract`; accounting of acks; every request is answered |
| `source_mirror` | 2 versions of 2 files each (one shared), 2 upgrades, 1 failure, 1 kill, 1 restart | the mirror implements `MirrorContract`; reads and listings are whole; readers return; the mirror follows |
| `console_wiring` | a lone or a paired session, 1 job, 3 boards (2 proxyable), 2 calls, 2 drops | gate, own console, sentinel, progress of a user who calls again |

Every module but the contracts has a type invariant, and each is proved (section 5); several
runs check deeper properties in its place.

Why these bounds are enough: the interesting cases need two parties on one object - two PUTs
and the stale one that outlives a removal (three PUTs let the third meet the aftermath), two
sessions on one port with a connection to spare for the redial, a request and the late ack of
another, a reader and one upgrade in both directions - and one fault in between; nothing in the
code counts further than that, except the bytes of an upload (a cap of two chunks has uploads
below, at and above it), the threads of the pool (two opens fill a pool of two, and a dial-in
waits behind them), downloads (the third can collide with the suffixed label of the second) and
the page (two of three devices). In `artifact_files` a second artifact would share only the
token queue with the first; that the tokens of several artifacts are kept apart rests on
`LiveNamesResolve` and `TokensAccounted`, which hold for any number. In `artifact_disk` the
headroom is more than an upload may write between two checks and less than the cap, so that
both admission and re-check decide. Symmetry is used only where no liveness property is
checked; the contracts are safety specifications. Deadlock checking is off in every run: the
bounds on calls, crashes and connections let each model come to a stop.

### Disagreements with the documentation

Three runs show the code doing something a comment or document excludes; each checks one
property and TLC finds it violated.

* `device_relay_stale`: a request that timed out leaves its ack under way; it answers the
  next request of that name, which reports 0 although its command has not run, against
  "It returns the command's exit status (0 = ran)".
* `artifact_expiry`: an artifact expires and nobody calls; no step of the server removes it.
  `reap` is called by `list_artifacts` and `create_artifact_upload` only, and `get` removes
  the artifact it is asked for, against "a background reaper deletes expired artifacts"
  (`docs/artifact-store.md:42`) and "it auto-expires regardless" (`server.py:1847`).
* `console_missed`: a proxy that is wired after the board echoed the sentinel stays
  read-only, against "when ready is true, attach_console gives a writable console".

Others met while modelling, without a run of their own:

* Two PUTs of one artifact open the same `<id>.part` (`artifacts.py:335`). The second
  truncates what the first wrote and both write to one inode; the one answered 200 is not
  what the blob holds, against "Writes to `<id>.part` then atomically renames".
  `IntactUnlessRaced` and `ServedIsComplete` except artifacts that met this (`raced`).
* `close_board_session` removes the session before it cancels the job (`server.py:1412`);
  if LAVA refuses, the tool fails, a second call answers "unknown session" and the job
  keeps the board, against "cancels the job and frees the board"
  (`docs/board-sessions.md:57`). `CloseFreesBoard` speaks of closes that succeed.
* After a checkout that broke off, files of two versions are served under the old ref, and
  `list` reads the ref after it released the lock (`source.py:197`), against "Reads come
  from that checkout, so they match the running code exactly" (`server.py:976`).
  `ServedWhole` excepts the first (`dirty`) and holds listings to some version. The next
  checkout that succeeds does not always end it: files the broken one wrote are untracked,
  `git checkout --force` leaves them, and `list` shows them as files of the new ref.
* `docs/artifact-store.md:34` says the re-check every 64 MB keeps a missing or dishonest
  length from filling the disk. Uploads without a length and below 64 MB are not checked
  at all, each stream may pass the floor by an interval, concurrent reservations each count
  on the whole headroom, and an empty announcement is always admitted: the floor holds only
  up to `FloorCrossing`.
* A listener that comes up after the 15 s of `ensure_started` keeps the port without being
  recorded: every later start fails, though the docstring says "(idempotent)".
* For two downloads with one basename `open_board_session` reports one path twice
  (`server.py:1339`), while the second file gets a suffix; for an empty basename it reports
  `dl0` whatever the index.
* `_require_test_services_device_type` scans 50 candidates; if only a later one permits
  Test Services it refuses a request that could run. The caller's own tags are not looked
  at: with the pin they may match no device, and the job queues for ever although the
  docstring of `_require_remote_access_device` promises to fail fast.
* A `SETPORT` line that comes more than 0.3 s after its connection was opened (the gateway
  opens it through the tunnel and writes then) is taken for a watcher's input; on a paired
  console, which is writable from the start, it is typed at the board.
* `server.py:1790` says a failed token deletion is tried again later; the id was taken
  out of the queue before the attempt (`leaked`).
* `_persist` rewrites metadata in place (`artifacts.py:166`): a crash in it loses the
  artifact (`damaged`).
* `close_console_session` accepts a board session and leaves its console session and job
  (`server.py:1778`).
* A session is "connected" before its port is bound and after its tunnel dropped
  (`gateway.py:316`); a command then fails, or goes to who has the port.
* `free_port` may give a port to two sessions (`gateway.py:127`): `RoutedUnlessShared`
  is as much as holds.
* The endpoint found for a console session's first job is kept for the session's life
  (`server.py:557`); with a second job in the session, that job's proxy is sent to the first
  job's board, against "the server resolves the board LAVA assigned and pushes its ser2net
  endpoint to the proxy" (`server.py:1714`). Input can then reach a board before its own
  sentinel, and an owner sees the board of another job: `InputOnlyWhenReady`, `OwnConsole` and
  `PollingConnects` speak of a session's only job (`Sole`).
* A new endpoint is followed at the proxy's next reconnect only, against "(re)connects"
  (`gateway.py:530`).
* A git killed in a checkout leaves `.git/index.lock`, and every later checkout fails.
* Queued device commands can exceed the 150 s of `run_device_command`: a command may run
  after its caller was told that it failed.

## 4. Fairness

* `ArtifactStore!ServerSpec` (`artifact_expiry`): the process supervisor restarts a dead
  server, and a response that was begun is served. No user owes a call.
* `BoardSessions!FairSpec`: every await of a tool has a timeout; LAVA ends a job it was
  told to cancel; a connection into a job that ended breaks (keepalives). No fairness
  on users, agents or schedulers.
* `DeviceRelay!FairSpec`: the handler threads run, `wait_for` has a timeout. None on
  the dispatcher, which may never ack.
* `SourceMirror!FairSpec`: the loop of `_run` never ends and git has a timeout; failures
  are bounded, which makes some round succeed. The reader's strong fairness says that a
  thread waiting for a lock which is released again and again gets it: the sync thread
  sleeps `poll_interval` between rounds.
* `GatewayService!FairSpec`: a free thread takes the next piece of work, listener threads
  and coroutines go on, waits end at their timeouts. No agent has to dial, nobody has to
  call, nobody has to release the port. Without `TimesOut` the opens that fill the pool
  would wait for ever for the dial-in queued behind them.
* `ConsoleWiring!FairSpec`: autossh redials, the reader loop reconnects and reads, a call's
  awaits end; the user calls `check_console_ready` with the `session_id`, or `attach_console`,
  again while the job runs, as the notes of the open tools say, and a discovery or push that is
  tried again and again succeeds at some time.

## 5. Proofs

`tlapm` checks eight modules, for every value of the constants that satisfies their
assumptions (`None` is no id, bounds are naturals, the sets of calls are disjoint).

**`ArtifactStoreProofs`.** `IInv` = `TypeOK`, `Busy` and `Core`. Two of the properties
are not inductive. A PUT that is still streaming when its artifact is removed would write
metadata again, were its rename to succeed; `Streams` says it cannot, since a removed
artifact that is being streamed has no `<id>.part`. That an acknowledged upload stays
durable rests on `Agree` (memory and disk record the same state, so the state `_put` tests
is the one on disk) and `Acked` (an acknowledged artifact has no `<id>.part`), which
together keep a later PUT from opening it. `OnDisk` (metadata "stored" has a blob),
`Fresh` (ids not minted have nothing) and `Down` (no index without process) complete it.
From it: `StoreTypeOK`, `RemovedStaysRemoved`, `AcknowledgedIsDurable`,
`StoredArtifactHasBlob`. Three more layers rest on it:

* *The contract* (`StoreImplementsContract`, `Spec => StoreContract`). `Held` (an upload under
  way is of an artifact the process still has in its index, or that was removed) and `Whole`
  (a stored artifact has no `<id>.part`, so a rename that succeeds is of a reserved one) are
  added. Then every action is a step of the contract or leaves its variables alone, one lemma
  per group of actions; the crashes in handlers are where the mapping from the disk pays.
* *Files and tokens* (`LiveNamesResolve`, `TokensAccounted`, `NoFileLeftBehind`). The
  properties speak of the index, which a crash empties, so the invariant speaks of the disk:
  metadata on disk is in the index while the process runs (`Indexed`), whatever has no metadata
  has no other file (`Tidy`), memory and disk agree on the token name and nobody has queued a
  name on disk (`Named`), every other token is queued or leaked (`Accounted`).
* *The bytes of an upload* (`AcceptedIsIntact`, `ServesAccepted`). Paths and descriptors of an
  artifact only reach inodes its own PUTs created (`Inodes`); without a race one PUT streams
  alone (`Alone`), none streams once one was accepted (`Settled`), and what it wrote so far is
  its body (`Written`). So the blob is the body of the accepted PUT (`Intact`), and an inode
  opened by a GET after its handler returned is that blob, or there was none (`Opened`).

**`BoardSessionsProofs`.** `IInv` = `TypeOK`, `Looked` (a call that awaits has a session),
`RemovedHasNoKeys` and `Routing`. `Routing` adds to `BoundByOwnAgent` and
`RoutedUnlessShared` that sessions named by the registry or a connection were created, so
that their port never changes again, that an undialled connection names nobody, and that
only agents bind. From it: `SessionTypeOK`, `ClosedSessionAdmitsNobody`,
`PortsBelongToAgents`, `ForwardsStayOnPort`, `SessionsImplementContract` (`Spec =>
AccessContract`: a session in the registry was created, a removed one has no keys), and the
action property `ClosedSessionEntersNobody`: in a session that left the registry no key is
authorised, no call passes the check of `_run`, and a command starts only in a call that had
passed it before.

**`GatewayServiceProofs`.** The invariant ties the lock to the one job that holds it and the
listener it waits for, the port to a listener that listens or was stopped, and a dial-in
past `ensure_started` to a port that some listener of this process has; since no action
takes the port from one, `BridgesOwn` follows although the bridge connects to whoever is
there. Also `TypeCorrect`, `RecordedLoopListens`, `StartedOnce`.
`NeverStuck` (`PoolGoesOn`) is what liveness of the pool rests on and fairness does not give:
the queue holds each queued job once (`Queued`), at most `Threads` pieces of work run
(`Housed`), `ensure_started` never waits for a session (`Waits`), and the lock is with a
thread whose listener is starting or has answered (`Held`). So behind a full pool there is a
thread that waits for a timeout, for a free lock or for a listener. It does not say that a
listener thread's id is left to start one more: `Attempt` is a bound of the model.

**`ArtifactDiskProofs`.** `FloorKept` needs that what is left to write of the one honest
upload under way still fits in what is free (`Fits`); `RecheckBounds` needs that what is on
disk runs less than an interval ahead of the last check (`Ahead`). `FloorCrossedAtMost`
(`FloorCrossing`) adds that up without a sum, which would need induction: `Debt` is the set of
the pairs <<upload, unit written since its last check>>, and `Owed` says that what is missing
above the floor, and not taken by another program, is no more than its size. A chunk without
a check adds its units to `Debt`; one with a check found the floor not reached, and its own
units are in `Debt`; a removal gives back at least what was unchecked of the upload. By
`RecheckBounds` an upload has fewer than an interval and a chunk of pairs, and the finite-set
theorems count them.

**`BoardJobProofs`.** `DownloadsKept`: a label is appended only when no earlier one equals
it; `ReportedPathsExist` from `Tried`: the basename of every download already placed is in
the image, and the one being placed is taken already once its plain label was given up.
`NamespacesMatch`: there are no actions before the job is built, and then one of four lists,
by whether the request has a console and downloads (`Built`, `FourJobs`); they agree because
the test has a namespace exactly when one of the other two has. `SubmittedRuns` and
`RefusalsJustified` carry what each check established to the end of the job's construction.
Also `TypeCorrect`. That LAVA runs a job only on a device with the tags it asks for is an
assumption about LAVA (`Schedule`), not a result.

**`ConsoleWiringProofs`.** `Scheduled` (two running jobs never share a board, only a running job
has a proxy), `Aimed` (whatever names an endpoint, from the call that discovered it to the
proxy's connection, names the board of the session's only job), `Gated` (what that proxy has
read or has yet to read follows what that board echoed) and, for `SentinelFound`, which holds
for any number of jobs, `Heard` (for a proxy connected before the echo, the chunks still to be
read continue the tail). From it: `WiringTypes`, `GateHolds`, `ConsoleIsOwn`, `SentinelFound`.

**`DeviceRelayProofs`.** `ZeroHasCause`: a caller is told zero only if a command of that name,
its own, another request's or a raw one, ran, returned zero and answered it (`Traced`). What
stands for a command between its marker and its ack exists once (`Once`) and carries its name
and status (`Genuine`), an ack that answered somebody is spent (`Spent`). It does not say
*whose* command: that is what `device_relay_stale` refutes. `RelayImplementsContract` (`Spec =>
AnswersOnce`) adds `RanOnce` (a command that ran stands on the way to the dispatcher no more,
so it runs once), and shows for each group of actions that it is a step of `RelayContract` or a
stutter. Also `RelayTypes`.

**`SourceMirrorProofs`.** `ReadsAreWhole`: a reader that holds the lock sees one version (`Clean`),
and what a listing found stays that of some version after it released the lock (`Listed`).
`MirrorImplementsContract` (`Spec => ServesVersions`): a step of a checkout stutters unless it
breaks off or ends, and a reader inside the lock sees what the contract serves. It needs
`OldOrNew`: a checkout that starts from a whole version finds all its files in the index, so
each is the old one or the new one and none is left over at the end (`EndsWhole`). Also
`MirrorTypes`.

Every invariant, every action property and every refinement the passing runs check is a
theorem. Only model-checked: the liveness properties (TLAPS proves nothing about fairness or
ENABLED), and the properties of the three violation runs, which are false.

## 6. Not modelled, and what is left

* **LAVA client and proxy tools**: one HTTP request per call and no state. What their
  answers decide appears as a choice (tokens, jobs, inventory, the assigned board).
* **Configuration and command line**: read once at start; the values are constants here.
* **The fan-out and pacing of the console proxy**, and the bytes of the WebSocket bridge:
  data that is passed on, no decision depends on it. An endpoint pinned by
  `SER2NET_HOST`/`SER2NET_PORT` is set by jobs lava-mcp does not build.

No module uses RECURSIVE operators, so every one is open to proofs. Left to do, in this order:

1. watchers of the console proxy, with two people typing at once;
2. a composition of `BoardSessions` with `GatewayService`, so that the waits of the tools
   hold threads there too;
3. theorems like `NeverStuck` for the relay and the mirror: that whoever waits for the
   lock waits for somebody whose step is not blocked.
