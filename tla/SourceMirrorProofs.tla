------------------------- MODULE SourceMirrorProofs -------------------------
(***************************************************************************)
(* Proofs about SourceMirror, for any number of versions, files, upgrades, *)
(* failures, kills and restarts.                                           *)
(***************************************************************************)
EXTENDS SourceMirror, TLAPS

(***************************************************************************)
(* The inductive invariant.  The lock is the checkout's for as long as it  *)
(* replaces files (Locked).  Once the gate is open and outside a checkout  *)
(* the files are those of _ref, unless the last one broke off (Clean): a   *)
(* reader that has the lock sees one version.  A checkout that starts from *)
(* a whole version knows all its files (the index records them), so that   *)
(* each is that of the old version or of the new one (OldOrNew) and none   *)
(* is left over at its end.  What a listing found stays                    *)
(* that of a version checked out once, also after the lock was released    *)
(* (Listed), and a call has no result before it ends (Pending).            *)
(***************************************************************************)
Locked ==
  /\ spc = "checkout" <=> lock = "sync"
  /\ spc # "idle" => sref \in Ref

Clean ==
  /\ ready => ref \in complete /\ staged = ref
  /\ ready /\ ~torn /\ lock # "sync" => tree = Checkout(ref)
  /\ rpc # "idle" => ready

OldOrNew ==
  spc = "checkout" /\ ready /\ ~torn =>
    \A f \in File : tree[f] \in {Checkout(ref)[f], Checkout(sref)[f]}

OfOneVersion(files) == \E v \in complete : files = Tracked[v]

Listed == rpc = "unlocked" /\ ~dirty => OfOneVersion(listed)

Pending == rpc # "idle" => result = None

IInv == TypeOK /\ Locked /\ Clean /\ OldOrNew /\ Listed /\ Pending /\ ServedWhole

\* A complete checkout has the tracked files, each with the text of its version.
LEMMA CheckoutFiles ==
  ASSUME NEW v \in Ref, tree = Checkout(v)
  PROVE  /\ OnDisk = Tracked[v]
         /\ \A f \in File : tree[f] \in {v, None}
<1>1. Tracked[v] \subseteq File /\ v # None
  BY TrackedType, NoneIsNoMember
<1> QED
  BY <1>1 DEF Checkout, OnDisk

\* The bounds are naturals.
LEMMA Bounds ==
  MaxUpgrades \in Nat /\ MaxFailures \in Nat /\ MaxKills \in Nat /\ MaxRestarts \in Nat
BY BoundsAreNat

\* Every step keeps the variables well typed.
LEMMA TypeStep == IInv /\ [Next]_vars => TypeOK'
<1> SUFFICES ASSUME IInv, [Next]_vars PROVE TypeOK'
  OBVIOUS
<1> USE DEF disk, sync, reader, bounds
<1>0. TypeOK /\ Locked /\ Clean
  BY DEF IInv
<1>1. CASE Resolve
  BY <1>1, <1>0, PinnedIsRef DEF Resolve, Wanted, TypeOK
<1>2. CASE Clone
  BY <1>2, <1>0, Bounds DEF Clone, TypeOK
<1>3. CASE Fetch
  BY <1>3, <1>0, Bounds DEF Fetch, TypeOK
<1>4. CASE BeginCheckout
  BY <1>4, <1>0, Bounds DEF BeginCheckout, TypeOK
<1>5. ASSUME NEW f \in File, SwitchFile(f) PROVE TypeOK'
  <2>1. Target(f) \in Ref \cup {None}
    BY <1>0, <1>5 DEF Target, SwitchFile, Locked, TypeOK
  <2> QED
    BY <1>5, <1>0, <2>1 DEF SwitchFile, TypeOK
<1>6. CASE EndCheckout
  <2>1. sref \in Ref
    BY <1>6, <1>0 DEF EndCheckout, Locked
  <2> QED
    BY <1>6, <1>0, <2>1 DEF EndCheckout, TypeOK
<1>7. CASE GitFails
  <2>1. failures' \in 0..MaxFailures
    BY <1>7, <1>0, Bounds DEF GitFails, TypeOK
  <2>2. cloned \in BOOLEAN
    BY <1>0 DEF TypeOK
  <2>3. cloned' \in BOOLEAN
    BY <1>7, <2>2 DEF GitFails
  <2> QED
    BY <1>7, <1>0, <2>1, <2>3 DEF GitFails, TypeOK
<1>8. CASE CheckoutFails
  BY <1>8, <1>0, Bounds DEF CheckoutFails, Released, TypeOK
<1>9. CASE CheckoutTimesOut
  BY <1>9, <1>0, Bounds DEF CheckoutTimesOut, Released, TypeOK
<1>10. ASSUME NEW op \in {"read", "list"}, ReadLavaDocs(op) PROVE TypeOK'
  BY <1>10, <1>0, Bounds DEF ReadLavaDocs, TypeOK
<1>11. ASSUME NEW f \in File, ReadFile(f) PROVE TypeOK'
  <2>1. result' \in Result \cup {None}
    BY <1>11, <1>0, NoneIsNoMember DEF ReadFile, Clean, TypeOK, Result
  <2> QED
    BY <1>11, <1>0, <2>1 DEF ReadFile, TypeOK
<1>12. CASE ListFiles
  BY <1>12, <1>0 DEF ListFiles, OnDisk, TypeOK
<1>13. CASE ListReturns
  <2>1. result' \in Result \cup {None}
    BY <1>13, <1>0 DEF ListReturns, Clean, TypeOK, Result
  <2> QED
    BY <1>13, <1>0, <2>1 DEF ListReturns, TypeOK
<1>14. ASSUME NEW v \in Ref, Upgrade(v) PROVE TypeOK'
  BY <1>14, <1>0, Bounds DEF Upgrade, TypeOK
<1>15. CASE Restart
  <2>1. restarts' \in 0..MaxRestarts /\ kills' \in 0..MaxKills
    BY <1>15, <1>0, Bounds DEF Restart, TypeOK
  <2>2. index_lock' \in BOOLEAN
    BY <1>15, <1>0 DEF Restart, TypeOK
  <2> QED
    BY <1>15, <1>0, <2>1, <2>2 DEF Restart, TypeOK
<1>16. CASE UNCHANGED vars
  BY <1>16, <1>0, Bounds DEF vars, TypeOK
<1> QED
  BY <1>1, <1>2, <1>3, <1>4, <1>5, <1>6, <1>7, <1>8, <1>9, <1>10, <1>11, <1>12, <1>13, <1>14, <1>15, <1>16
     DEF Next, SyncSucceeds, SyncFails, Returns

\* Only a checkout holds the sync thread's lock.
LEMMA LockedStep == IInv /\ [Next]_vars => Locked'
<1> SUFFICES ASSUME IInv, [Next]_vars PROVE Locked'
  OBVIOUS
<1> USE DEF disk, sync, reader, bounds
<1>0. TypeOK /\ Locked
  BY DEF IInv
<1>1. CASE Resolve
  BY <1>1, <1>0, PinnedIsRef DEF Resolve, Wanted, Locked, TypeOK
<1>2. CASE Clone
  BY <1>2, <1>0, NoneIsNoMember DEF Clone, Locked, TypeOK
<1>3. CASE Fetch
  BY <1>3, <1>0, NoneIsNoMember DEF Fetch, Locked, TypeOK
<1>4. CASE BeginCheckout
  BY <1>4, <1>0, NoneIsNoMember DEF BeginCheckout, Locked, TypeOK
<1>5. ASSUME NEW f \in File, SwitchFile(f) PROVE Locked'
  BY <1>5, <1>0, NoneIsNoMember DEF SwitchFile, Locked, TypeOK
<1>6. CASE EndCheckout
  BY <1>6, <1>0, NoneIsNoMember DEF EndCheckout, Locked, TypeOK
<1>7. CASE GitFails
  BY <1>7, <1>0, NoneIsNoMember DEF GitFails, Locked, TypeOK
<1>8. CASE CheckoutFails
  BY <1>8, <1>0, NoneIsNoMember DEF CheckoutFails, Released, Locked, TypeOK
<1>9. CASE CheckoutTimesOut
  BY <1>9, <1>0, NoneIsNoMember DEF CheckoutTimesOut, Released, Locked, TypeOK
<1>10. ASSUME NEW op \in {"read", "list"}, ReadLavaDocs(op) PROVE Locked'
  BY <1>10, <1>0, NoneIsNoMember DEF ReadLavaDocs, Locked, TypeOK
<1>11. ASSUME NEW f \in File, ReadFile(f) PROVE Locked'
  BY <1>11, <1>0, NoneIsNoMember DEF ReadFile, Locked, TypeOK
<1>12. CASE ListFiles
  BY <1>12, <1>0, NoneIsNoMember DEF ListFiles, Locked, TypeOK
<1>13. CASE ListReturns
  BY <1>13, <1>0, NoneIsNoMember DEF ListReturns, Locked, TypeOK
<1>14. ASSUME NEW v \in Ref, Upgrade(v) PROVE Locked'
  BY <1>14, <1>0, NoneIsNoMember DEF Upgrade, Locked, TypeOK
<1>15. CASE Restart
  BY <1>15, <1>0, NoneIsNoMember DEF Restart, Locked, TypeOK
<1>16. CASE UNCHANGED vars
  BY <1>16, <1>0, NoneIsNoMember DEF vars, Locked, TypeOK
<1> QED
  BY <1>1, <1>2, <1>3, <1>4, <1>5, <1>6, <1>7, <1>8, <1>9, <1>10, <1>11, <1>12, <1>13, <1>14, <1>15, <1>16
     DEF Next, SyncSucceeds, SyncFails, Returns

\* Outside a checkout the files are those of _ref.
LEMMA CleanStep == IInv /\ [Next]_vars => Clean'
<1> SUFFICES ASSUME IInv, [Next]_vars PROVE Clean'
  OBVIOUS
<1> USE DEF disk, sync, reader, bounds
<1>0. TypeOK /\ Locked /\ Clean
  BY DEF IInv
<1>1. CASE Resolve
  BY <1>1, <1>0 DEF Resolve, Clean, Checkout, TypeOK
<1>2. CASE Clone
  BY <1>2, <1>0 DEF Clone, Clean, Checkout, TypeOK
<1>3. CASE Fetch
  BY <1>3, <1>0 DEF Fetch, Clean, Checkout, TypeOK
<1>4. CASE BeginCheckout
  BY <1>4, <1>0 DEF BeginCheckout, Clean, Checkout
<1>5. ASSUME NEW f \in File, SwitchFile(f) PROVE Clean'
  BY <1>5, <1>0 DEF SwitchFile, Locked, Clean
<1>6. CASE EndCheckout
  BY <1>6, <1>0 DEF EndCheckout, OnlyOf, Clean, Checkout
<1>7. CASE GitFails
  BY <1>7, <1>0 DEF GitFails, Clean, Checkout, TypeOK
<1>8. CASE CheckoutFails
  BY <1>8, <1>0 DEF CheckoutFails, Released, OnlyOf, Clean, Checkout
<1>9. CASE CheckoutTimesOut
  BY <1>9, <1>0 DEF CheckoutTimesOut, Released, OnlyOf, Clean, Checkout
<1>10. ASSUME NEW op \in {"read", "list"}, ReadLavaDocs(op) PROVE Clean'
  BY <1>10, <1>0 DEF ReadLavaDocs, Gate, Clean, Checkout
<1>11. ASSUME NEW f \in File, ReadFile(f) PROVE Clean'
  BY <1>11, <1>0 DEF ReadFile, Clean, Checkout, TypeOK
<1>12. CASE ListFiles
  BY <1>12, <1>0 DEF ListFiles, Clean, Checkout, TypeOK
<1>13. CASE ListReturns
  BY <1>13, <1>0 DEF ListReturns, Clean, Checkout, TypeOK
<1>14. ASSUME NEW v \in Ref, Upgrade(v) PROVE Clean'
  BY <1>14, <1>0 DEF Upgrade, Clean, Checkout, TypeOK
<1>15. CASE Restart
  BY <1>15, <1>0 DEF Restart, Clean, Checkout, TypeOK
<1>16. CASE UNCHANGED vars
  BY <1>16, <1>0 DEF vars, Clean, Checkout, TypeOK
<1> QED
  BY <1>1, <1>2, <1>3, <1>4, <1>5, <1>6, <1>7, <1>8, <1>9, <1>10, <1>11, <1>12, <1>13, <1>14, <1>15, <1>16
     DEF Next, SyncSucceeds, SyncFails, Returns

\* Every file of a checkout that starts from a whole version is the old one or the new.
LEMMA OldOrNewStep == IInv /\ [Next]_vars => OldOrNew'
<1> SUFFICES ASSUME IInv, Next \/ UNCHANGED vars,
                    spc' = "checkout", ready', ~torn', NEW f \in File
             PROVE  tree'[f] \in {Checkout(ref)[f], Checkout(sref)[f]}'
  BY DEF OldOrNew
<1> USE DEF disk, sync, reader, bounds
<1>0. TypeOK /\ Locked /\ Clean /\ OldOrNew
  BY DEF IInv
<1>1. CASE BeginCheckout
  <2>1. tree = Checkout(ref)
    BY <1>1, <1>0, NoneIsNoMember DEF BeginCheckout, Clean
  <2> QED
    BY <1>1, <2>1 DEF BeginCheckout, Checkout
<1>2. ASSUME NEW g \in File, SwitchFile(g)
      PROVE  tree'[f] \in {Checkout(ref)[f], Checkout(sref)[f]}'
  <2>1. /\ tree[f] \in {Checkout(ref)[f], Checkout(sref)[f]}
        /\ ref \in Ref /\ staged = ref /\ Indexed = Tracked[ref]
    BY <1>2, <1>0, NoneIsNoMember DEF SwitchFile, OldOrNew, Clean, Indexed, TypeOK
  <2>2. tree'[f] = tree[f] \/ tree'[f] = Target(f)
    BY <1>2, <1>0 DEF SwitchFile, TypeOK
  <2>3. Target(f) = tree[f] \/ Target(f) = Checkout(sref)[f]
    BY <2>1 DEF Target, Checkout
  <2>4. UNCHANGED <<ref, sref>>
    BY <1>2 DEF SwitchFile
  <2> QED
    BY <2>1, <2>2, <2>3, <2>4 DEF Checkout
<1>3. CASE UNCHANGED <<spc, ready, torn, tree, ref, sref>>
  BY <1>3, <1>0 DEF OldOrNew, Checkout
<1>4. CASE Resolve \/ Clone \/ Fetch \/ EndCheckout \/ SyncFails \/ Restart
  BY <1>4, <1>3 DEF Resolve, Clone, Fetch, EndCheckout, SyncFails, GitFails, CheckoutFails,
     CheckoutTimesOut, Restart
<1>5. CASE (\E op \in {"read", "list"} : ReadLavaDocs(op)) \/ Returns
            \/ (\E v \in Ref : Upgrade(v)) \/ UNCHANGED vars
  BY <1>5, <1>3 DEF ReadLavaDocs, Returns, ReadFile, ListFiles, ListReturns, Upgrade, vars
<1> QED
  BY <1>1, <1>2, <1>4, <1>5 DEF Next, SyncSucceeds

\* A checkout that starts from a whole version ends with one.
LEMMA EndsWhole ==
  ASSUME IInv, EndCheckout, ready, ~torn
  PROVE  OnlyOf(sref)
<1>1. /\ TypeOK /\ Clean /\ OldOrNew
      /\ spc = "checkout" /\ \A f \in File : tree[f] = Target(f)
  BY DEF IInv, EndCheckout, CheckedOut
<1>2. Indexed = Tracked[ref]
  BY <1>1, NoneIsNoMember DEF Clean, Indexed, TypeOK
<1>3. ASSUME NEW f \in File PROVE tree[f] = Checkout(sref)[f]
  <2>1. tree[f] = Target(f) /\ tree[f] \in {Checkout(ref)[f], Checkout(sref)[f]}
    BY <1>1 DEF OldOrNew
  <2> QED
    BY <1>2, <2>1 DEF Target, Checkout
<1> QED
  BY <1>1, <1>3 DEF OnlyOf, Checkout, TypeOK

\* What a call found under the lock is what it returns.
LEMMA ServedStep == IInv /\ [Next]_vars => (Listed /\ Pending /\ ServedWhole)'
<1> SUFFICES ASSUME IInv, [Next]_vars PROVE (Listed /\ Pending /\ ServedWhole)'
  OBVIOUS
<1> USE DEF disk, sync, reader, bounds
<1>0. TypeOK /\ Locked /\ Clean /\ Listed /\ Pending /\ ServedWhole
  BY DEF IInv
<1>1. CASE Resolve
  BY <1>1, <1>0 DEF Resolve, OfOneVersion, Listed, Pending, ServedWhole
<1>2. CASE Clone
  BY <1>2, <1>0 DEF Clone, OfOneVersion, Listed, Pending, ServedWhole
<1>3. CASE Fetch
  BY <1>3, <1>0 DEF Fetch, OfOneVersion, Listed, Pending, ServedWhole
<1>4. CASE BeginCheckout
  BY <1>4, <1>0 DEF BeginCheckout, OfOneVersion, Listed, Pending, ServedWhole
<1>5. ASSUME NEW f \in File, SwitchFile(f) PROVE (Listed /\ Pending /\ ServedWhole)'
  BY <1>5, <1>0 DEF SwitchFile, OfOneVersion, Listed, Pending, ServedWhole
<1>6. CASE EndCheckout
  <2>1. complete \subseteq complete'
    BY <1>6 DEF EndCheckout
  <2>2. UNCHANGED <<rpc, dirty, listed, result>>
    BY <1>6 DEF EndCheckout
  <2> QED
    BY <1>0, <2>1, <2>2 DEF OfOneVersion, Listed, Pending, ServedWhole, TypeOK, Result
<1>7. CASE GitFails
  BY <1>7, <1>0 DEF GitFails, OfOneVersion, Listed, Pending, ServedWhole
<1>8. CASE CheckoutFails
  BY <1>8, <1>0 DEF CheckoutFails, OfOneVersion, Listed, Pending, ServedWhole
<1>9. CASE CheckoutTimesOut
  BY <1>9, <1>0 DEF CheckoutTimesOut, OfOneVersion, Listed, Pending, ServedWhole
<1>10. ASSUME NEW op \in {"read", "list"}, ReadLavaDocs(op) PROVE (Listed /\ Pending /\ ServedWhole)'
  BY <1>10, <1>0 DEF ReadLavaDocs, Listed, Pending, ServedWhole
<1>11. ASSUME NEW f \in File, ReadFile(f) PROVE (Listed /\ Pending /\ ServedWhole)'
  <2>1. /\ rpc' = "idle" /\ dirty' = torn
        /\ result' # None => result' = [op |-> "read", ref |-> ref, text |-> tree[f]]
                              /\ tree[f] # None
    BY <1>11 DEF ReadFile
  <2>2. ~torn => tree[f] \in {ref, None}
    <3>1. ready /\ lock # "sync" /\ ref \in Ref
      BY <1>11, <1>0, NoneIsNoMember DEF ReadFile, LockFree, Clean, TypeOK
    <3> QED
      BY <1>0, <3>1, CheckoutFiles DEF Clean
  <2>3. ASSUME result' # None, ~torn
        PROVE  result'.op = "read" /\ result'.text = result'.ref
    BY <2>1, <2>2, <2>3
  <2>4. ServedWhole'
    BY <2>1, <2>3 DEF ServedWhole
  <2> QED
    BY <2>1, <2>4 DEF Listed, Pending
<1>12. CASE ListFiles
  <2>1. /\ rpc' = "unlocked" /\ dirty' = torn /\ listed' = OnDisk
        /\ UNCHANGED <<complete, result>> /\ result = None
    BY <1>12, <1>0 DEF ListFiles, Pending
  <2>2. ~torn => OnDisk = Tracked[ref] /\ ref \in complete
    <3>1. ready /\ lock # "sync" /\ ref \in Ref /\ ref \in complete
      BY <1>12, <1>0, NoneIsNoMember DEF ListFiles, LockFree, Clean, TypeOK
    <3> QED
      BY <1>0, <3>1, CheckoutFiles DEF Clean
  <2> QED
    BY <2>1, <2>2 DEF OfOneVersion, Listed, Pending, ServedWhole
<1>13. CASE ListReturns
  <2>1. /\ rpc = "unlocked" /\ rpc' = "idle" /\ UNCHANGED <<dirty, complete>>
        /\ result' = [op |-> "list", ref |-> ref, files |-> listed]
    BY <1>13 DEF ListReturns
  <2> QED
    BY <1>0, <2>1 DEF OfOneVersion, Listed, Pending, ServedWhole
<1>14. ASSUME NEW v \in Ref, Upgrade(v) PROVE (Listed /\ Pending /\ ServedWhole)'
  BY <1>14, <1>0 DEF Upgrade, OfOneVersion, Listed, Pending, ServedWhole
<1>15. CASE Restart
  BY <1>15 DEF Restart, Listed, Pending, ServedWhole
<1>16. CASE UNCHANGED vars
  BY <1>16, <1>0 DEF vars, OfOneVersion, Listed, Pending, ServedWhole
<1> QED
  BY <1>1, <1>2, <1>3, <1>4, <1>5, <1>6, <1>7, <1>8, <1>9, <1>10, <1>11, <1>12, <1>13, <1>14, <1>15, <1>16
     DEF Next, SyncSucceeds, SyncFails, Returns

\* The invariant is inductive.
THEOREM Inductive == Spec => []IInv
<1>1. Init => IInv
  <2>1. Init => TypeOK
    <3>1. Init => /\ cloned \in BOOLEAN /\ index_lock \in BOOLEAN /\ ready \in BOOLEAN
                  /\ torn \in BOOLEAN /\ dirty \in BOOLEAN
      BY DEF Init
    <3> QED
      BY <3>1, Bounds DEF Init, TypeOK
  <2>2. Init => Locked /\ Clean /\ OldOrNew /\ Listed /\ Pending /\ ServedWhole
    BY NoneIsNoMember DEF Init, Locked, Clean, OldOrNew, Listed, Pending, ServedWhole
  <2> QED
    BY <2>1, <2>2 DEF IInv
<1>2. IInv /\ [Next]_vars => IInv'
  BY TypeStep, LockedStep, CleanStep, OldOrNewStep, ServedStep DEF IInv
<1> QED
  BY <1>1, <1>2, PTL DEF Spec

\* The variables of the mirror have their types.
THEOREM MirrorTypes == Spec => []TypeOK
<1>1. IInv => TypeOK
  BY DEF IInv
<1> QED
  BY <1>1, Inductive, PTL

\* Whatever fails, is killed or restarted between two reads, what read() and list()
\* serve under the lock is of one version, unless a checkout had broken off.
THEOREM ReadsAreWhole == Spec => []ServedWhole
<1>1. IInv => ServedWhole
  BY DEF IInv
<1> QED
  BY <1>1, Inductive, PTL

-----------------------------------------------------------------------------
(***************************************************************************)
(* The contract.  A checkout is one step of it, the last, since nobody     *)
(* looks while the lock is held; one that breaks off opens or closes a     *)
(* mixture, or leaves what was served.                                     *)
(***************************************************************************)
Step == Contract!Next \/ UNCHANGED <<GateStatus, ref, rpc, rop, listed, result>>

\* The contract does not see what leaves the gate, _ref and the call alone.
LEMMA Stutters == ASSUME UNCHANGED <<ready, torn, ref, rpc, rop, listed, result>> PROVE Step
BY DEF Step, GateStatus

\* A checkout that broke off, by itself or because git was killed.
LEMMA BreaksOff ==
  ASSUME IInv, UNCHANGED <<ready, ref, rpc, rop, listed, result>>,
         torn' = (ready /\ ~OnlyOf(ref))
  PROVE  Step
<1>1. ready \in BOOLEAN /\ torn \in BOOLEAN /\ (ready => ref \in Ref)
  BY DEF IInv, TypeOK, Clean
<1>2. CASE ~ready \/ torn' = torn
  BY <1>1, <1>2 DEF Step, GateStatus
<1>3. CASE ready /\ ~torn /\ torn'
  <2>1. Contract!BreakOff
    BY <1>3 DEF Contract!BreakOff, GateStatus
  <2> QED
    BY <2>1 DEF Step, Contract!Next
<1>4. CASE ready /\ torn /\ ~torn'
  <2>1. ref \in Ref /\ Contract!Serve(ref)
    BY <1>1, <1>4 DEF Contract!Serve, GateStatus
  <2> QED
    BY <2>1 DEF Step, Contract!Next
<1> QED
  BY <1>1, <1>2, <1>3, <1>4

\* The sync thread.
LEMMA SyncSteps == ASSUME IInv, SyncSucceeds \/ SyncFails PROVE Step
<1> USE DEF disk, sync, reader, bounds
<1>1. CASE Resolve \/ Clone \/ Fetch \/ BeginCheckout \/ GitFails
  BY <1>1, Stutters DEF Resolve, Clone, Fetch, BeginCheckout, GitFails
<1>2. ASSUME NEW f \in File, SwitchFile(f) PROVE Step
  BY <1>2, Stutters DEF SwitchFile
<1>3. CASE EndCheckout
  <2>1. sref \in Ref
    BY <1>3 DEF EndCheckout, IInv, Locked
  <2>2. ready /\ ~torn => ~torn'
    BY <1>3, EndsWhole DEF EndCheckout
  <2>3. ready' /\ ref' = sref /\ torn' \in BOOLEAN
    BY <1>3 DEF EndCheckout
  <2>4. GateStatus' \in (IF GateStatus = "whole" THEN {"whole"} ELSE {"whole", "mixed"})
    BY <2>2, <2>3 DEF GateStatus
  <2>5. Contract!Serve(sref)
    BY <1>3, <2>3, <2>4 DEF EndCheckout, Contract!Serve
  <2> QED
    BY <2>1, <2>5 DEF Step, Contract!Next
<1>4. CASE CheckoutFails \/ CheckoutTimesOut
  BY <1>4, BreaksOff DEF CheckoutFails, CheckoutTimesOut
<1> QED
  BY <1>1, <1>2, <1>3, <1>4 DEF SyncSucceeds, SyncFails

\* What a reader finds who has the lock.
LEMMA ReaderSees ==
  ASSUME IInv, rpc # "idle", LockFree
  PROVE  /\ ready /\ ref \in Ref
         /\ ~torn => OnDisk = Tracked[ref] /\ tree = Checkout(ref)
<1>1. ready /\ ref \in Ref /\ lock # "sync"
  BY NoneIsNoMember DEF IInv, Clean, TypeOK, LockFree
<1> QED
  BY <1>1, CheckoutFiles DEF IInv, Clean

\* The calls.
LEMMA CallSteps ==
  ASSUME IInv, (\E op \in {"read", "list"} : ReadLavaDocs(op)) \/ Returns
  PROVE  Step
<1> USE DEF disk, sync, reader, bounds
<1>1. ASSUME NEW op \in {"read", "list"}, ReadLavaDocs(op) PROVE Step
  <2>1. Contract!Begin(op)
    BY <1>1 DEF ReadLavaDocs, Gate, Contract!Begin, GateStatus
  <2> QED
    BY <2>1 DEF Step, Contract!Next
<1>2. ASSUME NEW f \in File, ReadFile(f) PROVE Step
  <2>1. ready /\ ref \in Ref /\ (~torn => tree = Checkout(ref))
    BY <1>2, ReaderSees DEF ReadFile
  <2>2. tree[f] \in Ref \cup {None}
    BY DEF IInv, TypeOK
  <2>3. tree[f] \in Contract!Texts(f)
    BY <2>1, <2>2 DEF Contract!Texts, GateStatus, Checkout
  <2>4. Contract!Read(f, tree[f])
    BY <1>2, <2>3 DEF ReadFile, Contract!Read, GateStatus
  <2> QED
    BY <2>2, <2>4 DEF Step, Contract!Next
<1>3. CASE ListFiles
  <2>1. ready /\ (~torn => OnDisk = Tracked[ref])
    BY <1>3, ReaderSees DEF ListFiles
  <2>2. Contract!List(OnDisk)
    BY <1>3, <2>1 DEF ListFiles, Contract!List, GateStatus
  <2>3. OnDisk \in SUBSET File
    BY DEF OnDisk
  <2> QED
    BY <2>2, <2>3 DEF Step, Contract!Next
<1>4. CASE ListReturns
  <2>1. Contract!Return
    BY <1>4 DEF ListReturns, Contract!Return, GateStatus
  <2> QED
    BY <2>1 DEF Step, Contract!Next
<1> QED
  BY <1>1, <1>2, <1>3, <1>4 DEF Returns

\* The mirror implements the contract: whatever upgrade, failure, kill or restart is
\* under way, a call is served one version, that of one moment, unless a checkout
\* broke off before.
THEOREM MirrorImplementsContract == Spec => ServesVersions
<1>1. Init => Contract!Init
  BY DEF Init, Contract!Init, GateStatus
<1>2. IInv /\ [Next]_vars => [Contract!Next]_<<GateStatus, ref, rpc, rop, listed, result>>
  <2> SUFFICES ASSUME IInv, [Next]_vars PROVE Step
    BY DEF Step
  <2>1. CASE UNCHANGED vars
    BY <2>1, Stutters DEF vars, reader
  <2>2. ASSUME NEW v \in Ref, Upgrade(v) PROVE Step
    BY <2>2, Stutters DEF Upgrade, reader
  <2>3. CASE Restart
    <3>1. Contract!Restart
      BY <2>3 DEF Restart, Contract!Restart, GateStatus
    <3> QED
      BY <3>1 DEF Step, Contract!Next
  <2> QED
    BY <2>1, <2>2, <2>3, SyncSteps, CallSteps DEF Next
<1> QED
  BY <1>1, <1>2, Inductive, PTL DEF Spec, ServesVersions, Contract!Spec, Contract!vars
=============================================================================
