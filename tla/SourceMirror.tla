---------------------------- MODULE SourceMirror ----------------------------
(***************************************************************************)
(* LavaSourceMirror of source.py, as server.py runs it: one background     *)
(* thread syncs the checkout on a timer, and read_lava_docs reads it on    *)
(* the event loop, one call at a time.                                     *)
(*                                                                         *)
(* A version of the source is the set of files it tracks; the text of a    *)
(* file is the version it is of.  `git checkout` replaces files one by one *)
(* and may end in between; git is modelled from how sync_once runs it.     *)
(***************************************************************************)
EXTENDS Naturals, FiniteSets

CONSTANTS
  Ref,          \* versions of LAVA
  File,         \* files below the directory that is listed
  Tracked,      \* Tracked[v]: the files version v has
  Pinned,       \* LAVA_SOURCE_REF, or None
  None,
  MaxUpgrades,  \* how often the lab deploys another version
  MaxFailures,  \* how often a git command fails
  MaxKills,     \* how often git is killed in a checkout (timeout, or restart)
  MaxRestarts

ASSUME NoneIsNoMember == None \notin Ref \cup File \cup {"sync", "reader"}
ASSUME PinnedIsRef == Pinned \in Ref \cup {None}
ASSUME TrackedType == Tracked \in [Ref -> SUBSET File]
ASSUME BoundsAreNat == {MaxUpgrades, MaxFailures, MaxKills, MaxRestarts} \subseteq Nat

VARIABLES
  deployed,    \* the version LAVA runs
  spc, sref,   \* the sync thread: progress, ref of this round
  cloned,      \* the checkout has a .git
  tree,        \* file -> version of the text on disk, or None
  staged,      \* the version .git/index records, or None
  index_lock,  \* a killed git left .git/index.lock behind
  lock,        \* who holds _lock: "sync", "reader" or None
  ready, ref,  \* _ready, _ref
  rpc, rop,    \* the call of read_lava_docs: progress, what it asks for
  listed,      \* what list() found before it reads _ref
  result,      \* what the last call returned
  torn,        \* history: the files are not those of _ref: a checkout broke off
  dirty,       \* history: torn, when the last call looked at the files
  complete,    \* history: versions a checkout ended with
  upgrades, failures, kills, restarts

disk   == <<cloned, tree, staged, index_lock>>
sync   == <<spc, sref>>
reader == <<rpc, rop, listed, result, dirty>>
bounds == <<upgrades, failures, kills, restarts>>
vars   == <<deployed, sync, disk, lock, ready, ref, reader, torn, complete, bounds>>

Result == [op : {"read"}, ref : Ref, text : Ref]
          \cup [op : {"list"}, ref : Ref, files : SUBSET File]

TypeOK ==
  /\ deployed \in Ref
  /\ spc \in {"idle", "resolved", "fetched", "checkout"}
  /\ sref \in Ref \cup {None}
  /\ {cloned, index_lock, ready, torn, dirty} \subseteq BOOLEAN
  /\ tree \in [File -> Ref \cup {None}]
  /\ staged \in Ref \cup {None}
  /\ lock \in {"sync", "reader", None}
  /\ ref \in Ref \cup {None}
  /\ rpc \in {"idle", "begun", "unlocked"}
  /\ rop \in {"read", "list"}
  /\ listed \subseteq File
  /\ result \in Result \cup {None}
  /\ complete \subseteq Ref
  /\ upgrades \in 0..MaxUpgrades /\ failures \in 0..MaxFailures
  /\ kills \in 0..MaxKills /\ restarts \in 0..MaxRestarts

Init ==
  /\ deployed \in Ref
  /\ spc = "idle" /\ sref = None
  /\ cloned = FALSE /\ index_lock = FALSE
  /\ tree = [f \in File |-> None] /\ staged = None
  /\ lock = None
  /\ ready = FALSE /\ ref = None
  /\ rpc = "idle" /\ rop = "read" /\ listed = {} /\ result = None
  /\ torn = FALSE /\ dirty = FALSE /\ complete = {}
  /\ upgrades = 0 /\ failures = 0 /\ kills = 0 /\ restarts = 0

\* The files of version v as a checkout leaves them.
Checkout(v) == [f \in File |-> IF f \in Tracked[v] THEN v ELSE None]
OnlyOf(v) == tree = Checkout(v)
OnDisk == {f \in File : tree[f] # None}

-----------------------------------------------------------------------------
(* The sync thread.                                                        *)

\* The ref of a round.
MutWanted == IF ref # None THEN ref ELSE deployed
Wanted == IF Pinned # None THEN Pinned ELSE deployed

\* _resolve_ref; a version LAVA does not tell ends the round with no change.
Resolve ==
  /\ spc = "idle"
  /\ sref' = Wanted
  /\ spc' = "resolved"
  /\ UNCHANGED <<deployed, disk, lock, ready, ref, reader, torn, complete, bounds>>

\* git clone --no-checkout, when there is no .git yet.
Clone ==
  /\ spc = "resolved"
  /\ ~cloned
  /\ cloned' = TRUE
  /\ UNCHANGED <<deployed, sync, tree, staged, index_lock, lock, ready, ref, reader, torn,
                 complete, bounds>>

Fetch ==
  /\ spc = "resolved"
  /\ cloned
  /\ spc' = "fetched"
  /\ UNCHANGED <<deployed, sref, disk, lock, ready, ref, reader, torn, complete, bounds>>

\* The clone or the fetch fails; _run logs it and sleeps until the next round.
\* A clone that was killed may leave its .git.
GitFails ==
  /\ failures < MaxFailures
  /\ spc = "resolved"
  /\ failures' = failures + 1
  /\ spc' = "idle"
  /\ cloned' \in {cloned, TRUE}
  /\ UNCHANGED <<deployed, sref, tree, staged, index_lock, lock, ready, ref, reader, torn,
                 complete, upgrades, kills, restarts>>

BeginCheckout ==
  /\ spc = "fetched"
  /\ lock = None
  /\ lock' = "sync"
  /\ spc' = "checkout"
  /\ UNCHANGED <<deployed, sref, disk, ready, ref, reader, torn, complete, bounds>>

(***************************************************************************)
(* git checkout --force needs .git/index.lock, then replaces one file      *)
(* after the other, and writes the index at the end.  It writes the files  *)
(* of the new version and removes those of the index; a file neither has,  *)
(* left by a checkout that broke off, is untracked and stays.              *)
(***************************************************************************)
Indexed == IF staged = None THEN {} ELSE Tracked[staged]

Target(f) ==
  IF f \in Tracked[sref] THEN sref ELSE IF f \in Indexed THEN None ELSE tree[f]

SwitchFile(f) ==
  /\ spc = "checkout"
  /\ ~index_lock
  /\ tree[f] # Target(f)
  /\ tree' = [tree EXCEPT ![f] = Target(f)]
  /\ UNCHANGED <<deployed, sync, cloned, staged, index_lock, lock, ready, ref, reader, torn,
                 complete, bounds>>

\* When sync_once may record the new ref and open the gate.
MutCheckedOut == TRUE
CheckedOut == \A f \in File : tree[f] = Target(f)

EndCheckout ==
  /\ spc = "checkout"
  /\ ~index_lock
  /\ CheckedOut
  /\ staged' = sref
  /\ ref' = sref
  /\ ready' = TRUE
  /\ torn' = ~OnlyOf(sref)
  /\ complete' = complete \cup {sref}
  /\ lock' = None
  /\ spc' = "idle"
  /\ UNCHANGED <<deployed, sref, cloned, tree, index_lock, reader, bounds>>

\* The lock after an exception in the `with` block.
MutReleased == lock
Released == None

\* The checkout dies half-way: the index, _ref and _ready keep what they were.
CheckoutFails ==
  /\ index_lock \/ failures < MaxFailures
  /\ spc = "checkout"
  /\ failures' = IF index_lock THEN failures ELSE failures + 1
  /\ lock' = Released
  /\ spc' = "idle"
  /\ torn' = (ready /\ ~OnlyOf(ref))
  /\ UNCHANGED <<deployed, sref, disk, ready, ref, reader, complete, upgrades,
                 kills, restarts>>

\* git_timeout: subprocess.run kills git, which leaves its index.lock.
CheckoutTimesOut ==
  /\ kills < MaxKills
  /\ spc = "checkout"
  /\ kills' = kills + 1
  /\ index_lock' = TRUE
  /\ lock' = Released
  /\ spc' = "idle"
  /\ torn' = (ready /\ ~OnlyOf(ref))
  /\ UNCHANGED <<deployed, sref, cloned, tree, staged, ready, ref, reader, complete,
                 upgrades, failures, restarts>>

-----------------------------------------------------------------------------
(* read_lava_docs.                                                         *)

\* The ready gate.
Gate == ready

\* Past the ready gate; list() also looks, without the lock, whether the
\* directory exists.
ReadLavaDocs(op) ==
  /\ rpc = "idle"
  /\ Gate
  /\ op = "list" => OnDisk # {}
  /\ rpc' = "begun"
  /\ rop' = op
  /\ result' = None
  /\ UNCHANGED <<deployed, sync, disk, lock, ready, ref, listed, dirty, torn, complete,
                 bounds>>

\* Whether a reader may take _lock.
MutLockFree == TRUE
LockFree == lock = None

\* read() under the lock: the file and the ref it is said to be of.
ReadFile(f) ==
  /\ rpc = "begun" /\ rop = "read"
  /\ LockFree
  /\ result' = IF tree[f] = None THEN None
               ELSE [op |-> "read", ref |-> ref, text |-> tree[f]]
  /\ dirty' = torn
  /\ rpc' = "idle"
  /\ UNCHANGED <<deployed, sync, disk, lock, ready, ref, rop, listed, torn, complete,
                 bounds>>

\* list() under the lock: the files.
ListFiles ==
  /\ rpc = "begun" /\ rop = "list"
  /\ LockFree
  /\ listed' = OnDisk
  /\ dirty' = torn
  /\ rpc' = "unlocked"
  /\ UNCHANGED <<deployed, sync, disk, lock, ready, ref, rop, result, torn, complete,
                 bounds>>

\* list() after it: _ref.
ListReturns ==
  /\ rpc = "unlocked"
  /\ result' = [op |-> "list", ref |-> ref, files |-> listed]
  /\ rpc' = "idle"
  /\ UNCHANGED <<deployed, sync, disk, lock, ready, ref, rop, listed, dirty, torn, complete,
                 bounds>>

-----------------------------------------------------------------------------
(* The lab, and a restart of the server.                                   *)

Upgrade(v) ==
  /\ upgrades < MaxUpgrades
  /\ v # deployed
  /\ upgrades' = upgrades + 1
  /\ deployed' = v
  /\ UNCHANGED <<sync, disk, lock, ready, ref, reader, torn, complete, failures, kills,
                 restarts>>

\* The checkout outlives the server; a git that was running does not.
Restart ==
  /\ restarts < MaxRestarts
  /\ spc = "checkout" => kills < MaxKills
  /\ restarts' = restarts + 1
  /\ kills' = IF spc = "checkout" THEN kills + 1 ELSE kills
  /\ index_lock' = (index_lock \/ spc = "checkout")
  /\ torn' = FALSE
  /\ spc' = "idle" /\ sref' = None
  /\ lock' = None
  /\ ready' = FALSE /\ ref' = None
  /\ rpc' = "idle" /\ listed' = {} /\ result' = None
  /\ UNCHANGED <<deployed, cloned, tree, staged, rop, dirty, complete, upgrades, failures>>

-----------------------------------------------------------------------------
SyncSucceeds ==
  Resolve \/ Clone \/ Fetch \/ BeginCheckout \/ (\E f \in File : SwitchFile(f)) \/ EndCheckout
SyncFails == GitFails \/ CheckoutFails \/ CheckoutTimesOut
Returns == (\E f \in File : ReadFile(f)) \/ ListFiles \/ ListReturns

Next ==
  \/ SyncSucceeds \/ SyncFails
  \/ (\E op \in {"read", "list"} : ReadLavaDocs(op)) \/ Returns
  \/ (\E v \in Ref : Upgrade(v)) \/ Restart

Spec == Init /\ [][Next]_vars

(***************************************************************************)
(* Fairness.  The sync thread polls for ever and each of its git commands  *)
(* ends; failures are bounded, so it succeeds in the end.  A caller that   *)
(* waits for the lock gets it while the thread sleeps between two rounds.  *)
(***************************************************************************)
FairSpec ==
  /\ Spec
  /\ WF_vars(SyncSucceeds \/ SyncFails)
  /\ SF_vars(Returns)

-----------------------------------------------------------------------------
(* Properties.                                                             *)

GateStatus == IF ~ready THEN "closed" ELSE IF torn THEN "mixed" ELSE "whole"

Contract == INSTANCE MirrorContract WITH gate <- GateStatus, call <- rpc, op <- rop

\* A checkout replaces one file after the other, but calls see it happen in one step,
\* or not at all, until one breaks off (sync_once, read and list under _lock).
ServesVersions == Contract!Spec

\* A read is of the version it names, and a listing is that of one version,
\* unless a checkout that broke off left files behind (read() and list() hold the lock).
ServedWhole ==
  result # None /\ ~dirty =>
    CASE result.op = "read" -> result.text = result.ref
      [] result.op = "list" -> \E v \in complete : result.files = Tracked[v]

\* A call is not held up for ever by the sync thread's lock.
CallReturns == rpc = "begun" ~> rpc = "idle"

\* The mirror follows the deployed version (or has the pinned one): it has its files,
\* unless a killed git left its lock file.
FollowsDeployed ==
  <>[](\/ index_lock
       \/ /\ ref = (IF Pinned # None THEN Pinned ELSE deployed)
          /\ \A f \in Tracked[ref] : tree[f] = ref)
=============================================================================
